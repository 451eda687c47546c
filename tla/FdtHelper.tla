----------------------------- MODULE FdtHelper -----------------------------
(* firmware/fdt/fdt_helper.c on the bytes of a blob: what SerialProbe takes *)
(* for the nodes of a tree is read here from cells.  An out parameter that  *)
(* a call may leave as it was is a set of the values it may have then.      *)
EXTENDS FdtRo

REG       == <<114>>    \* "reg"
RANGES    == <<110>>    \* "ranges"
CLOCK     == <<102>>    \* "clock-frequency"
SPEED     == <<115>>    \* "current-speed"
REGSHIFT  == <<116>>    \* "reg-shift"
IOWIDTH   == <<119>>    \* "reg-io-width"

EINVAL == -3
ENODEV == -9
ENOENT == -18

\* One more than the largest uint64_t.  A word has 16 bits here, and what TLC
\* can add leaves 28 for the type that is to hold two.
U64 == 2 ^ 28

\* The number in n cells at address a: (v << 32) | cell for each.
CellsAt(m, a, n) ==
    FoldLeft(LAMBDA v, k : (v % (U64 \div 65536)) * 65536 + fdt32_ld(m, a + FDT_TAGSIZE * k),
             0, [k \in 1..n |-> k - 1])

-----------------------------------------------------------------------------
(* Nodes by the compatible strings of a driver *)

\* The first entry of the table the node is compatible with, or 0.
fdt_match_node(m, node, table) ==
    LET hits == {k \in DOMAIN table : fdt_node_check_compatible(m, node, table[k]) = 0}
    IN IF node < 0 \/ hits = {} THEN 0 ELSE MinOf(hits)

fdt_find_match(m, start, table) ==
    LET found == [k \in DOMAIN table |-> fdt_node_offset_by_compatible(m, start, table[k])]
        hits  == {k \in DOMAIN table : found[k] >= 0}
    IN IF hits = {} THEN ENODEV ELSE found[MinOf(hits)]

-----------------------------------------------------------------------------
(* Lists of phandles with arguments *)

FDT_MAX_PHANDLE_ARGS == 16

\* Mutant: the cell of the phandle is not counted.
EntryEndAtArgs(list, pcells) == list + FDT_TAGSIZE * pcells

\* Where the entry at list ends.
EntryEnd(list, pcells) == list + FDT_TAGSIZE * (1 + pcells)

\* The entries of the list from the cell at address list on: the node of a
\* phandle says in its cells_prop how many arguments follow.
ArgsFrom(m, list, end, cells_prop, index) ==
    LET Error(rc) == [rc |-> rc]
        Entry(l, node, pcells) ==
            CASE pcells > FDT_MAX_PHANDLE_ARGS -> Error(EINVAL)
              [] EntryEnd(l, pcells) > end -> Error(ENOENT)
              [] OTHER -> [rc |-> 0, node_offset |-> node,
                           args |-> [k \in 1..pcells |-> fdt32_ld(m, l + FDT_TAGSIZE * k)]]
        Counted(l, node, val) == IF Found(val) THEN Entry(l, node, fdt32_ld(m, val.at))
                                 ELSE Error(ENOENT)
        Of(l, node) == IF node < 0 THEN Error(node)
                       ELSE Counted(l, node, fdt_getprop(m, node, cells_prop))
        At0(l) == IF l < end THEN Of(l, fdt_node_offset_by_phandle(m, fdt32_ld(m, l)))
                  ELSE Error(ENOENT)
        \* The place of an entry, how many come before the wanted one, and the entry.
        Entries == [rc : Int] \cup [rc : Int, node_offset : Int, args : Seq(Int)]
        Lists == [list : Int, index : Int, entry : Entries]
        Place0(l, i) == [list |-> l, index |-> i, entry |-> At0(l)]
        step == [s \in {l \in Lists : l.index > 0 /\ l.entry.rc = 0} |->
                     Place0(EntryEnd(s.list, Len(s.entry.args)), s.index - 1)]
    IN Loop(Lists, step, index, Place0(list, index)).entry

fdt_parse_phandle_with_args(m, node, prop, cells_prop, index) ==
    LET In(list) ==
            IF ~Found(list) THEN [rc |-> ENOENT]
            ELSE ArgsFrom(m, list.at,
                          list.at + (list.len \div FDT_TAGSIZE) * FDT_TAGSIZE, cells_prop, index)
    IN IF node < 0 THEN [rc |-> EINVAL] ELSE In(fdt_getprop(m, node, prop))

-----------------------------------------------------------------------------
(* Addresses *)

\* Mutant: the offset in the range is that from its start on the other side.
TranslatedFromZero(reg, caddr, paddr, rsize) ==
    IF reg < caddr \/ caddr >= (reg + rsize) % U64 THEN {} ELSE {(paddr + reg) % U64}

\* reg through an entry of ranges, nothing where the code finds it outside.
Translated(reg, caddr, paddr, rsize) ==
    IF reg < caddr \/ caddr >= (reg + rsize) % U64 THEN {} ELSE {(paddr + (reg - caddr)) % U64}

\* What is stored in *addr one bus up, nothing for -ENODEV: by the first entry
\* of ranges, whose length is not looked at.
fdt_translate_address(m, reg, parent) ==
    LET Cells(at, k, n) == CellsAt(m, at + FDT_TAGSIZE * k, n)
        By(ranges, ca, cs) ==
            IF Found(ranges) /\ ranges.len > 0
            THEN Translated(reg, Cells(ranges.at, 0, ca), Cells(ranges.at, ca, ca),
                            Cells(ranges.at, 2 * ca, cs))
            ELSE {reg}
        Bus(ca, cs) == IF ca < 1 \/ cs < 0 THEN {} ELSE By(fdt_getprop(m, parent, RANGES), ca, cs)
    IN Bus(fdt_address_cells(m, parent), fdt_size_cells(m, parent))

\* The buses above a node, the parent first.
Buses(m, node) ==
    LET parent == [o \in Int |-> fdt_parent_offset(m, o)]
    IN Front(Chain(parent, Turns(m), node))

\* The do loop: *addr when there is no parent or a translation fails.
Climbed(m, reg, buses, before) ==
    LET Up(s, stored) == IF stored = {} THEN [s EXCEPT !.broken = TRUE]
                         ELSE [s EXCEPT !.temp = CHOOSE a \in stored : TRUE, !.addr = stored]
        Turn(s, bus) == IF s.broken THEN s ELSE Up(s, fdt_translate_address(m, s.temp, bus))
    IN FoldLeft(Turn, [temp |-> reg, addr |-> before, broken |-> FALSE], buses).addr

\* The entry at the given address, of so many cells.
RegEntry(m, at, buses, ca, cs, before) ==
    [rc |-> 0, addr |-> Climbed(m, CellsAt(m, at, ca), buses, before),
     size |-> CellsAt(m, at + FDT_TAGSIZE * ca, cs)]

RegBelow(m, reg, buses, index, ca, cs, before) ==
    CASE ca < 1 \/ cs < 0 \/ ~Found(reg) -> [rc |-> ENODEV]
      [] reg.len \div FDT_TAGSIZE <= index * (ca + cs) -> [rc |-> EINVAL]
      [] OTHER -> RegEntry(m, reg.at + FDT_TAGSIZE * index * (ca + cs), buses, ca, cs, before)

\* The return code, *addr if it may be one of before on entry, and *size.
GetNodeAddrSize(m, node, buses, index, before) ==
    IF buses = <<>> THEN [rc |-> FDT_ERR_NOTFOUND]
    ELSE RegBelow(m, fdt_getprop(m, node, REG), buses, index, fdt_address_cells(m, Head(buses)),
                  fdt_size_cells(m, Head(buses)), before)

fdt_get_node_addr_size(m, node, index, before) ==
    IF node < 0 \/ index < 0 THEN [rc |-> EINVAL]
    ELSE GetNodeAddrSize(m, node, Buses(m, node), index, before)

\* Of the first node that is compatible.
fdt_parse_compat_addr(m, compatible, before) ==
    LET Of(w) == IF w.rc < 0 THEN [rc |-> ENODEV] ELSE [rc |-> 0, addr |-> w.addr]
        At0(node) == IF node < 0 THEN [rc |-> node] ELSE Of(fdt_get_node_addr_size(m, node, 0, before))
    IN At0(fdt_node_offset_by_compatible(m, -1, compatible))

-----------------------------------------------------------------------------
(* The node of a UART *)

DEFAULT_UART_FREQ         == 0
DEFAULT_UART_BAUD         == 115200
DEFAULT_UART_REG_SHIFT    == 0
DEFAULT_UART_REG_IO_WIDTH == 1

\* One of the settings that may be missing.
Setting(m, node, name, default) ==
    LET Cell(val) == IF Found(val) /\ val.len > 0 THEN fdt32_ld(m, val.at) ELSE default
    IN Cell(fdt_getprop(m, node, name))

\* w is what fdt_get_node_addr_size says of entry 0, and reg_addr what the stack
\* holds where that has stored nothing.
fdt_parse_uart_node(m, node, w, reg_addr) ==
    LET Uart(a) == [rc |-> 0, addr |-> a,
                    freq         |-> Setting(m, node, CLOCK, DEFAULT_UART_FREQ),
                    baud         |-> Setting(m, node, SPEED, DEFAULT_UART_BAUD),
                    reg_shift    |-> Setting(m, node, REGSHIFT, DEFAULT_UART_REG_SHIFT),
                    reg_io_width |-> Setting(m, node, IOWIDTH, DEFAULT_UART_REG_IO_WIDTH)]
        Stored(a) == IF a = 0 \/ w.size = 0 THEN [rc |-> ENODEV] ELSE Uart(a)
    IN IF node < 0 \/ w.rc < 0 THEN [rc |-> ENODEV]
       ELSE Stored(IF w.addr = {NULL} THEN reg_addr ELSE CHOOSE a \in w.addr : TRUE)
=============================================================================

------------------------------- MODULE FdtRw -------------------------------
(* The changes of a finished tree, in place (libfdt's fdt_rw.c, fdt_wip.c *)
(* and fdt_appendprop_addrrange) or between two buffers (fdt_open_into).  *)
(* A call yields [m, r]: the memory it leaves and what it returns; some   *)
(* also yield the address at which the caller goes on writing.            *)
EXTENDS FdtRo

Ret(mem, ret) == [m |-> mem, r |-> ret]
\* What a call does after one it made: only if that returned no error.
Then(call, mem) == IF call.r = 0 THEN Ret(mem, 0) ELSE call
\* With the address at which its caller goes on writing.
RetAt(call, address) == [m |-> call.m, r |-> call.r, at |-> address]

fdt_blocks_misordered_(m, mem_rsv_size, struct_size) ==
    \/ fdt_off_mem_rsvmap(m) < HDRSIZE
    \/ fdt_off_dt_struct(m) < fdt_off_mem_rsvmap(m) + mem_rsv_size
    \/ fdt_off_dt_strings(m) < fdt_off_dt_struct(m) + struct_size
    \/ fdt_totalsize(m) < fdt_off_dt_strings(m) + fdt_size_dt_strings(m)

fdt_rw_probe_(m) ==
    CASE fdt_ro_probe_(m) < 0 -> Ret(m, fdt_ro_probe_(m))
      [] fdt_version(m) < 17  -> Ret(m, FDT_ERR_BADVERSION)
      [] fdt_blocks_misordered_(m, RSVSIZE, fdt_size_dt_struct(m)) -> Ret(m, FDT_ERR_BADLAYOUT)
      [] OTHER -> Ret(fdt_set_header(m, VERSION, 17), 0)

\* FDT_RW_PROBE at the start of an operation: Op is the rest of it.
Probed(m, Op(_)) ==
    LET Go(p) == IF p.r # 0 THEN p ELSE Op(p.m) IN Go(fdt_rw_probe_(m))

-----------------------------------------------------------------------------
(* Splices: make room for newlen bytes where oldlen bytes are *)

fdt_data_size_(m) == fdt_off_dt_strings(m) + fdt_size_dt_strings(m)

\* Mutant: nothing asks whether there is room.
SpliceUnbounded(m, p, oldlen, newlen) ==
    LET dsize == fdt_data_size_(m)
    IN IF \/ oldlen < 0 \/ p < 0 \/ p + oldlen > dsize
          \/ U(dsize + newlen) < oldlen THEN Ret(m, FDT_ERR_BADOFFSET)
       ELSE Ret(Move(m, p + newlen, p + oldlen, dsize - (p + oldlen)), 0)

fdt_splice_(m, p, oldlen, newlen) ==
    LET dsize == fdt_data_size_(m)
    IN CASE \/ oldlen < 0 \/ p < 0 \/ p + oldlen > dsize
            \/ U(dsize + newlen) < oldlen -> Ret(m, FDT_ERR_BADOFFSET)
         [] U(dsize - oldlen + newlen) > fdt_totalsize(m) -> Ret(m, FDT_ERR_NOSPACE)
         [] OTHER -> Ret(Move(m, p + newlen, p + oldlen, dsize - (p + oldlen)), 0)

Grow(m, f, delta) == fdt_set_header(m, f, U(fdt_get_header(m, f) + delta))

fdt_splice_mem_rsv_(m, p, oldn, newn) ==
    LET delta == (newn - oldn) * RSVSIZE
        Moved(s) == Then(s, Grow(Grow(s.m, OFF_DT_STRUCT, delta), OFF_DT_STRINGS, delta))
    IN Moved(fdt_splice_(m, p, oldn * RSVSIZE, newn * RSVSIZE))

\* Mutant: the strings are moved, but not their offset in the header.
SpliceKeepsStrings(m, p, oldlen, newlen) ==
    LET Moved(s) == Then(s, Grow(s.m, SIZE_DT_STRUCT, newlen - oldlen))
    IN Moved(fdt_splice_(m, p, oldlen, newlen))

fdt_splice_struct_(m, p, oldlen, newlen) ==
    LET delta == newlen - oldlen
        Moved(s) == Then(s, Grow(Grow(s.m, SIZE_DT_STRUCT, delta), OFF_DT_STRINGS, delta))
    IN Moved(fdt_splice_(m, p, oldlen, newlen))

fdt_del_last_string_(m, s) == Grow(m, SIZE_DT_STRINGS, -(Len(s) + 1))

fdt_splice_string_(m, newlen) ==
    LET Moved(s) == Then(s, Grow(s.m, SIZE_DT_STRINGS, newlen))
    IN Moved(fdt_splice_(m, fdt_data_size_(m), 0, newlen))

\* The offset of the name s in the strings block, found there or added.
fdt_find_add_string_(m, s) ==
    LET Added(strtab, new, b) ==
            IF b.r # 0 THEN [m |-> m, r |-> b.r, allocated |-> FALSE]
            ELSE [m |-> Put(b.m, new, Append(s, NUL)), r |-> new - strtab, allocated |-> TRUE]
        Or(strtab, p) ==
            IF p # NULL THEN [m |-> m, r |-> p - strtab, allocated |-> FALSE]
            ELSE Added(strtab, fdt_data_size_(m), fdt_splice_string_(m, Len(s) + 1))
        In(strtab) == Or(strtab, fdt_find_string_(m, strtab, fdt_size_dt_strings(m), s))
    IN In(fdt_off_dt_strings(m))

-----------------------------------------------------------------------------
(* Properties *)

\* The value of the property at prop made len bytes long; prop may be an error.
Resized(m, prop, len) ==
    LET Sized(s) == RetAt(Then(s, fdt32_st(s.m, At(m, prop) + FDT_TAGSIZE, len)),
                          At(m, prop) + PROPSIZE)
    IN IF prop < 0 THEN RetAt(Ret(m, prop), NULL)
       ELSE Sized(fdt_splice_struct_(m, At(m, prop) + PROPSIZE,
                      FDT_TAGALIGN(PropLen(m, prop)), FDT_TAGALIGN(len)))
fdt_resize_property_(m, node, name, len) == Resized(m, fdt_get_property(m, node, name), len)

\* Mutant: the name stays when the property has no room.
InsertPropKeepsName(m, next, name, len, str) ==
    LET p == At(str.m, next)
        Done(s) == IF s.r # 0 THEN Ret(str.m, s.r)
                   ELSE Ret(fdt32_st(fdt32_st(fdt32_st(s.m, p, FDT_PROP),
                                p + 2 * FDT_TAGSIZE, str.r), p + FDT_TAGSIZE, len), 0)
        Insert == CASE next < 0  -> Ret(m, next)
                    [] str.r < 0 -> Ret(m, str.r)
                    [] OTHER -> Done(fdt_splice_struct_(str.m, p, 0, PROPSIZE + FDT_TAGALIGN(len)))
    IN RetAt(Insert, p + PROPSIZE)

\* The new property comes first; its name is taken back when it has no room.
InsertProp(m, next, name, len, str) ==
    LET p == At(str.m, next)
        Done(s) ==
            IF s.r # 0
            THEN Ret(IF str.allocated THEN fdt_del_last_string_(str.m, name) ELSE str.m, s.r)
            ELSE Ret(fdt32_st(fdt32_st(fdt32_st(s.m, p, FDT_PROP),
                         p + 2 * FDT_TAGSIZE, str.r), p + FDT_TAGSIZE, len), 0)
        Insert == CASE next < 0  -> Ret(m, next)
                    [] str.r < 0 -> Ret(m, str.r)
                    [] OTHER -> Done(fdt_splice_struct_(str.m, p, 0, PROPSIZE + FDT_TAGALIGN(len)))
    IN RetAt(Insert, p + PROPSIZE)
fdt_add_property_(m, node, name, len) ==
    InsertProp(m, fdt_check_node_offset_(m, node), name, len, fdt_find_add_string_(m, name))

fdt_setprop_placeholder(mem, node, name, len) ==
    LET OrAdded(m, re) == IF re.r = FDT_ERR_NOTFOUND THEN fdt_add_property_(m, node, name, len)
                          ELSE re
        Op(m) == OrAdded(m, fdt_resize_property_(m, node, name, len))
    IN Probed(mem, Op)

\* What the caller of a placeholder does: write the value there.
Filled(p, val) == IF p.r # 0 THEN Ret(p.m, p.r) ELSE Ret(Put(p.m, p.at, val), 0)
fdt_setprop(m, node, name, val) ==
    Filled(fdt_setprop_placeholder(m, node, name, Len(val)), val)

fdt_appendprop(mem, node, name, val) ==
    LET Lengthened(m, prop, oldlen) ==
            LET data == At(m, prop) + PROPSIZE
                Put2(s) == Then(s, Put(fdt32_st(s.m, At(m, prop) + FDT_TAGSIZE,
                                                oldlen + Len(val)), data + oldlen, val))
            IN Put2(fdt_splice_struct_(m, data, FDT_TAGALIGN(oldlen),
                                       FDT_TAGALIGN(oldlen + Len(val))))
        Append2(m, prop) ==
            IF prop >= 0 THEN Lengthened(m, prop, PropLen(m, prop))
            ELSE Filled(fdt_add_property_(m, node, name, Len(val)), val)
        Op(m) == Append2(m, fdt_get_property(m, node, name))
    IN Probed(mem, Op)

fdt_delprop(mem, node, name) ==
    LET Cut(m, prop) == IF prop < 0 THEN Ret(m, prop)
                        ELSE fdt_splice_struct_(m, At(m, prop),
                                 PROPSIZE + FDT_TAGALIGN(PropLen(m, prop)), 0)
        Op(m) == Cut(m, fdt_get_property(m, node, name))
    IN Probed(mem, Op)

\* An address and a size as the parent's cell counts say, one cell or two.
fdt_appendprop_addrrange(m, parent, node, name, addr, size) ==
    LET Cells(v, n) == (IF n = 2 THEN <<0, 0>> ELSE <<>>) \o <<v \div 256, v % 256>>
        Range2(ac, sc) ==
            CASE ac < 0 -> Ret(m, ac)
              [] sc < 0 -> Ret(m, sc)
              [] ac = 1 /\ (addr >= 65536 \/ 65536 - addr < size) -> Ret(m, FDT_ERR_BADVALUE)
              [] ac \notin {1, 2} -> Ret(m, FDT_ERR_BADNCELLS)
              [] sc = 1 /\ size >= 65536 -> Ret(m, FDT_ERR_BADVALUE)
              [] sc \notin {1, 2} -> Ret(m, FDT_ERR_BADNCELLS)
              [] OTHER -> fdt_appendprop(m, node, name, Cells(addr, ac) \o Cells(size, sc))
    IN Range2(fdt_address_cells(m, parent), fdt_size_cells(m, parent))

-----------------------------------------------------------------------------
(* Nodes *)

fdt_set_name(mem, node, name) ==
    LET Op(m) ==
        LET Put2(s, at) == Then(s, Put(s.m, at, Append(name, NUL)))
            Over(old) == IF ~Found(old) THEN Ret(m, old.len)
                         ELSE Put2(fdt_splice_struct_(m, old.at, FDT_TAGALIGN(old.len + 1),
                                       FDT_TAGALIGN(Len(name) + 1)), old.at)
        IN Over(fdt_get_name(m, node))
    IN Probed(mem, Op)

\* The offset behind the properties that start at offset.
\* Mutant: a NOP is taken for the end of the properties.
BehindPropsToNop(m, offset) == TagBehind(m, offset, {FDT_PROP}).at

BehindProps(m, offset) == TagBehind(m, offset, {FDT_PROP, FDT_NOP}).at

\* The new node, at offset, comes before its siblings; the result is its offset.
InsertNode(m, offset, name) ==
    LET namelen == FDT_TAGALIGN(Len(name) + 1)
        word(t) == <<0, t>>
        Named(s) ==
            IF s.r # 0 THEN s
            ELSE Ret(Put(s.m, At(m, offset),
                     word(FDT_BEGIN_NODE) \o name \o [i \in 1..(namelen - Len(name)) |-> NUL]
                     \o word(FDT_END_NODE)), offset)
    IN Named(fdt_splice_struct_(m, At(m, offset), 0, FDT_TAGSIZE + namelen + FDT_TAGSIZE))

fdt_add_subnode(mem, parent, name) ==
    LET Unless(m, found, t) ==
            CASE found >= 0 -> Ret(m, FDT_ERR_EXISTS)
              [] found < 0 /\ found # FDT_ERR_NOTFOUND -> Ret(m, found)
              [] t.tag # FDT_BEGIN_NODE -> Ret(m, FDT_ERR_INTERNAL)
              [] OTHER -> InsertNode(m, BehindProps(m, t.next), name)
        Op(m) == Unless(m, fdt_subnode_offset(m, parent, name), fdt_next_tag(m, parent))
    IN Probed(mem, Op)

fdt_del_node(mem, node) ==
    LET Cut(m, end) == IF end < 0 THEN Ret(m, end)
                       ELSE fdt_splice_struct_(m, At(m, node), end - node, 0)
        Op(m) == Cut(m, fdt_node_end_offset_(m, node))
    IN Probed(mem, Op)

-----------------------------------------------------------------------------
(* Changes that keep the size *)

fdt_setprop_inplace_namelen_partial(m, node, name, idx, val) ==
    LET Over(p) == CASE ~Found(p) -> Ret(m, p.len)
                     [] p.len < Len(val) + idx -> Ret(m, FDT_ERR_NOSPACE)
                     [] OTHER -> Ret(Put(m, p.at + idx, val), 0)
    IN Over(fdt_getprop(m, node, name))

fdt_setprop_inplace(m, node, name, val) ==
    LET Over(p) == CASE ~Found(p) -> Ret(m, p.len)
                     [] p.len # Len(val) -> Ret(m, FDT_ERR_NOSPACE)
                     [] OTHER -> fdt_setprop_inplace_namelen_partial(m, node, name, 0, val)
    IN Over(fdt_getprop(m, node, name))

\* Whole words of NOP until len bytes are covered.
fdt_nop_region_(m, start, len) ==
    Put(m, start, [i \in 1..FDT_TAGALIGN(len) |-> IF i % 2 = 0 THEN FDT_NOP ELSE 0])

fdt_nop_property(m, node, name) ==
    LET Over(prop) == IF prop < 0 THEN Ret(m, prop)
                      ELSE Ret(fdt_nop_region_(m, At(m, prop), PropLen(m, prop) + PROPSIZE), 0)
    IN Over(fdt_get_property(m, node, name))

fdt_nop_node(m, node) ==
    LET Over(end) == IF end < 0 THEN Ret(m, end)
                     ELSE Ret(fdt_nop_region_(m, At(m, node), end - node), 0)
    IN Over(fdt_node_end_offset_(m, node))

-----------------------------------------------------------------------------
(* The memory reserve map *)

RsvAt(m, n) == fdt_off_mem_rsvmap(m) + n * RSVSIZE            \* fdt_mem_rsv_w_
PutRsv(m, re, address, size) == fdt64_st(fdt64_st(m, re, address), re + CELL64, size)

fdt_add_mem_rsv(mem, address, size) ==
    LET Filled2(s, re) == Then(s, PutRsv(s.m, re, address, size))
        Before(m, re) == Filled2(fdt_splice_mem_rsv_(m, re, 0, 1), re)
        Op(m) == Before(m, RsvAt(m, fdt_num_mem_rsv(m)))
    IN Probed(mem, Op)

fdt_del_mem_rsv(mem, n) ==
    LET Op(m) == IF n >= fdt_num_mem_rsv(m) THEN Ret(m, FDT_ERR_NOTFOUND)
                 ELSE fdt_splice_mem_rsv_(m, RsvAt(m, n), 1, 0)
    IN Probed(mem, Op)
=============================================================================

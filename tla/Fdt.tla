-------------------------------- MODULE Fdt --------------------------------
(* A device tree and the program that calls libfdt on it: the tree is      *)
(* written, finished, moved between buffers that may overlap, and changed. *)
(* Each call is one step; the caller passes what the calls require and     *)
(* takes an error for an answer.  FdtTree is what the calls promise.       *)
EXTENDS FdtSw, FdtHelper

CONSTANT Setups
\* What a caller starts from and has at hand, each a record: mem, the memory,
\* and at, where a finished tree lies in it, or NULL; names for nodes below the
\* root, keys for properties, values for them, sequences of bytes; regions,
\* entries <<address, size>> of the reserve map, size not 0; buffers
\* <<base, size>>, aligned as the header must be; calls, how many calls are
\* explored that leave a trace in the memory, of which the first edits may
\* change a finished tree.

GUARD == 238     \* what the memory outside holds

VARIABLES
    setup,       \* frozen
    mem,         \* the memory
    at,          \* where the tree is, NULL before there is one
    last,        \* the last call and its result
    seen,        \* what a reader finds there: the blob and in it stage, tree,
                 \* cursor, rsv, and the offset of each node
    calls

vars == <<setup, mem, at, last, seen, calls>>
m == seen.blob
Names   == setup.names
Keys    == setup.keys
Values  == setup.values
Regions == setup.regions
Buffers == setup.buffers

-----------------------------------------------------------------------------
(* What the bytes mean, read tag by tag *)

PropName(b, prop) == CStr(b, U(fdt_off_dt_strings(b) + PropNameOff(b, prop)))
PropVal(b, prop)  == Bytes(b, PropData(b, prop), PropLen(b, prop))

\* The tags of b in order up to the end, each with the path of the node it belongs
\* to, and the node they end in.
Walk(b) ==
    LET Paths == Seq(Seq(Int))
        Walks == [t : Tags, cursor : Paths, tags : Seq([at : Int, tag : Int, path : Paths])]
        Into(cursor, t) ==
            CASE t.tag = FDT_BEGIN_NODE -> Append(cursor, CStr(b, At(b, t.at) + FDT_TAGSIZE))
              [] t.tag = FDT_END_NODE -> Front(cursor)
              [] OTHER -> cursor
        To(w, t, path) ==
            [t |-> t, cursor |-> path,
             tags |-> Append(w.tags, [at |-> t.at, tag |-> t.tag, path |-> path])]
        Onward(w, t) == To(w, t, Into(w.cursor, t))
        step == [w \in {v \in Walks : v.t.tag # FDT_END} |-> Onward(w, fdt_next_tag(b, w.t.next))]
    IN Loop(Walks, step, Turns(b), [t |-> TagBefore(0), cursor |-> <<>>, tags |-> <<>>])

\* The first of tags of a kind at a path, and the nodes and properties there are.
Tagged(tags, tag, path) == {i \in DOMAIN tags : tags[i].tag = tag /\ tags[i].path = path}
NodesOf(tags) == [p \in {tags[i].path : i \in {j \in DOMAIN tags : tags[j].tag = FDT_BEGIN_NODE}} |->
                      tags[MinOf(Tagged(tags, FDT_BEGIN_NODE, p))].at]
PropsOf(b, tags, props) ==
    LET Named(k) == {i \in props : PropName(b, tags[i].at) = k}
    IN [k \in {PropName(b, tags[i].at) : i \in props} |-> PropVal(b, tags[MinOf(Named(k))].at)]
TreeOf(b, tags) ==
    [p \in DOMAIN NodesOf(tags) |-> PropsOf(b, tags, Tagged(tags, FDT_PROP, p))]

StageOf(b) == CASE fdt_magic(b) = FDT_MAGIC ->
                       IF /\ fdt_version(b) = 17
                          /\ fdt_off_mem_rsvmap(b) < fdt_off_dt_struct(b)
                          /\ fdt_off_dt_struct(b) < fdt_off_dt_strings(b)
                       THEN "finished" ELSE "foreign"
                [] fdt_off_dt_strings(b) = 0 -> "memrsv"
                [] OTHER -> "struct"

RsvList(b, end) ==
    LET re(i) == RsvAt(b, i - 1)
        n == First({i \in Nat : re(i + 1) >= end \/ RsvSize(b, re(i + 1)) = 0})
    IN [i \in 1..n |-> <<RsvAddress(b, re(i)), RsvSize(b, re(i))>>]

Read(b) ==
    LET Of(walk) == [blob |-> b, stage |-> StageOf(b), cursor |-> walk.cursor,
                     tree |-> TreeOf(b, walk.tags), node |-> NodesOf(walk.tags),
                     rsv |-> RsvList(b, IF StageOf(b) = "memrsv" THEN fdt_off_dt_struct(b)
                                        ELSE fdt_totalsize(b))]
    IN Of(Walk(b))
Unread  == [blob |-> <<>>, cursor |-> <<>>, tree |-> <<>>, node |-> <<>>, stage |-> "raw", rsv |-> <<>>]

T == INSTANCE FdtTree WITH stage <- seen.stage, tree <- seen.tree,
                           cursor <- seen.cursor, rsv <- seen.rsv

-----------------------------------------------------------------------------
(* The caller *)

Call(op, p, n, v, ret) == [op |-> op, path |-> p, name |-> n, val |-> v, ret |-> ret]

Init == /\ setup \in Setups
        /\ mem = setup.mem
        /\ at = setup.at
        /\ last = Call("none", <<>>, <<>>, <<>>, 0)
        /\ seen = IF at = NULL THEN Unread ELSE Read(View(mem, at))
        /\ calls = 0

\* The step after the call: r is what it left at the base to of the memory.
Answer(op, p, n, v, call, to) == \E r \in {call} :
    /\ calls < setup.calls /\ UNCHANGED setup
    /\ mem' = r.m
    /\ calls' = IF mem' = mem THEN calls ELSE calls + 1
    /\ last' = Call(op, p, n, v, r.r)
    /\ at' = IF r.r >= 0 THEN to ELSE at
    /\ \E b \in {View(mem', IF at' = NULL THEN 0 ELSE at')} :
           seen' = IF at' = NULL THEN Unread ELSE Read(b)

\* A call on the tree in place.
InPlace(op, p, n, v, call) == \E r \in {call} :
    Answer(op, p, n, v, Ret(Back(mem, at, r.m), r.r), at)

Nodes    == DOMAIN seen.tree
Finished == at # NULL /\ seen.stage \in {"finished", "foreign"}
Edits    == Finished /\ calls < setup.edits
Inner    == {p \in Nodes : Len(p) > 1}
Offset(p) == seen.node[p]

-----------------------------------------------------------------------------
(* Changes *)

AddSubnode == Edits /\ \E p \in Nodes, n \in Names :
    InPlace("add_subnode", p, n, <<>>, fdt_add_subnode(m, Offset(p), n))
DelNode == Edits /\ \E p \in Inner :
    InPlace("del_node", p, <<>>, <<>>, fdt_del_node(m, Offset(p)))
NopNode == Edits /\ \E p \in Inner :
    InPlace("nop_node", p, <<>>, <<>>, fdt_nop_node(m, Offset(p)))
SetName == Edits /\ \E p \in Inner, n \in Names :
    /\ ~T!Taken(Front(p), n)
    /\ InPlace("set_name", p, n, <<>>, fdt_set_name(m, Offset(p), n))
SetProp == Edits /\ \E p \in Nodes, k \in Keys, v \in Values :
    InPlace("setprop", p, k, v, fdt_setprop(m, Offset(p), k, v))
AppendProp == Edits /\ \E p \in Nodes, k \in Keys, v \in Values \ {<<>>} :
    InPlace("appendprop", p, k, v, fdt_appendprop(m, Offset(p), k, v))
DelProp == Edits /\ \E p \in Nodes, k \in Keys :
    InPlace("delprop", p, k, <<>>, fdt_delprop(m, Offset(p), k))
NopProp == Edits /\ \E p \in Nodes, k \in Keys :
    InPlace("nop_property", p, k, <<>>, fdt_nop_property(m, Offset(p), k))
SetInplace == Edits /\ \E p \in Nodes, k \in Keys, v \in Values :
    InPlace("setprop_inplace", p, k, v, fdt_setprop_inplace(m, Offset(p), k, v))
AddMemRsv == Edits /\ \E e \in Regions :
    InPlace("add_mem_rsv", <<>>, <<>>, e, fdt_add_mem_rsv(m, e[1], e[2]))
DelMemRsv == Edits /\ \E n \in 0..Len(seen.rsv) :
    InPlace("del_mem_rsv", <<>>, <<>>, n, fdt_del_mem_rsv(m, n))

\* An address range below the root, in the cells the root asks for.
AppendAddrRange == Edits /\ \E p \in Inner, k \in Keys, e \in Regions :
    LET root == Offset(T!Root)
        Cells(v, n) == [i \in 1..(2 * n) |-> IF i = 2 * n THEN v ELSE 0]
        val  == Cells(e[1], fdt_address_cells(m, root)) \o Cells(e[2], fdt_size_cells(m, root))
    IN /\ Len(p) = 2
       /\ InPlace("appendprop", p, k, val,
                  fdt_appendprop_addrrange(m, root, Offset(p), k, e[1], e[2]))

Pack == /\ Edits
        /\ Answer("pack", <<>>, <<>>, <<>>, fdt_pack(mem, at), at)
OpenInto == Edits /\ \E b \in Buffers :
    Answer("open_into", <<>>, <<>>, b, fdt_open_into(mem, at, b[1], b[2]), b[1])
MoveTo == Edits /\ \E b \in Buffers :
    Answer("move", <<>>, <<>>, b, fdt_move(mem, at, b[1], b[2]), b[1])

-----------------------------------------------------------------------------
(* Writing: the caller nests its calls, puts the properties of a node before *)
(* its subnodes and gives every name once; it may call in the wrong state.   *)

Begun   == at # NULL
InStruct(Legal) == seen.stage = "struct" => Legal

Create == at = NULL /\ \E b \in Buffers, f \in {0, FDT_CREATE_FLAG_NO_NAME_DEDUP} :
    Answer("create", <<>>, <<>>, b, fdt_create_with_flags(mem, b[1], b[2], f), b[1])
CreateEmptyTree == at = NULL /\ \E b \in Buffers :
    Answer("create_empty_tree", <<>>, <<>>, b, fdt_create_empty_tree(mem, b[1], b[2]), b[1])
AddReserve == Begun /\ \E e \in Regions :
    InPlace("add_reservemap_entry", <<>>, <<>>, e, fdt_add_reservemap_entry(m, e[1], e[2]))
FinishReserve == Begun /\ InPlace("finish_reservemap", <<>>, <<>>, <<>>, fdt_finish_reservemap(m))
BeginNode == Begun /\ \E n \in Names \cup {<<>>} :
    /\ InStruct(IF seen.cursor = <<>> THEN n = <<>> /\ seen.tree = <<>>
                ELSE n # <<>> /\ ~T!Taken(seen.cursor, n))
    /\ InPlace("begin_node", <<>>, n, <<>>, fdt_begin_node(m, n))
EndNode == /\ Begun /\ InStruct(seen.cursor # <<>>)
           /\ InPlace("end_node", <<>>, <<>>, <<>>, fdt_end_node(m))
Property == Begun /\ \E k \in Keys, v \in Values :
    /\ InStruct(/\ seen.cursor # <<>> /\ k \notin DOMAIN seen.tree[seen.cursor]
                /\ \A q \in Nodes : Len(q) > Len(seen.cursor) => ~IsPrefix(seen.cursor, q))
    /\ InPlace("property", <<>>, k, v, fdt_property(m, k, v))
Finish == /\ Begun /\ InStruct(seen.cursor = <<>> /\ seen.tree # <<>>)
          /\ InPlace("finish", <<>>, <<>>, <<>>, fdt_finish(m))
Resize == Begun /\ \E b \in Buffers :
    Answer("resize", <<>>, <<>>, b, fdt_resize(mem, at, b[1], b[2]), b[1])

Edit  == \/ AddSubnode \/ DelNode \/ NopNode \/ SetName \/ SetProp \/ AppendProp \/ DelProp
         \/ NopProp \/ SetInplace \/ AddMemRsv \/ DelMemRsv \/ AppendAddrRange \/ Pack
         \/ OpenInto \/ MoveTo
Write == \/ Create \/ CreateEmptyTree \/ AddReserve \/ FinishReserve \/ BeginNode \/ EndNode
         \/ Property \/ Finish \/ Resize
Next  == Edit \/ Write
Spec  == Init /\ [][Next]_vars

-----------------------------------------------------------------------------
(* Properties *)

\* Every call does to the tree what FdtTree says of it, and a call that fails
\* does nothing: whatever was moved, padded, rolled back or packed on the way,
\* and whatever the buffers overlapped (fdt_rw.c, fdt_sw.c, fdt_wip.c).
TreePromise == T!Spec

\* A finished tree passes libfdt's own check of the whole blob
\* (fdt_check.c:13-93), after every call, successful or not.
StaysValid == Finished => fdt_check_full(m, Len(m)) = 0

\* A call writes inside the buffer it was given, or the tree it was given.
InsideTheBuffer ==
    [][LET given == IF last'.op \in {"open_into", "move", "resize", "create",
                                     "create_empty_tree"}
                    THEN last'.val ELSE <<at, fdt_totalsize(m)>>
       IN /\ Len(mem') = Len(mem)
          /\ Bytes(mem', 0, given[1]) = Bytes(mem, 0, given[1])
          /\ View(mem', given[1] + given[2]) = View(mem, given[1] + given[2])]_vars

Join(p) == IF p = T!Root THEN <<SLASH>>
           ELSE FlattenSeq([i \in 1..(Len(p) - 1) |-> <<SLASH>> \o p[i + 1]])
Children(p) == {q \in Nodes : Len(q) = Len(p) + 1 /\ IsPrefix(p, q)}
\* Of a set of nodes the one that comes first in the structure, and its offset.
FirstIn(S)  == {p \in S : \A q \in S : Offset(p) <= Offset(q)}
OffsetIn(S) == IF S = {} THEN FDT_ERR_NOTFOUND ELSE Offset(CHOOSE p \in FirstIn(S) : TRUE)
Answering(p, n) == {q \in Children(p) : T!Answers(Last(q), n)}
\* Where a path leads: a component without a unit address may name several
\* nodes, the first one is taken and there is no way back.
Resolved(p) ==
    LET to[k \in 1..Len(p)] ==
            IF k = 1 THEN {T!Root} ELSE FirstIn(UNION {Answering(q, p[k]) : q \in to[k - 1]})
    IN to[Len(p)]
Subnodes(b, o) ==
    LET next == [s \in Int |-> IF s = o THEN fdt_first_subnode(b, o) ELSE fdt_next_subnode(b, s)]
    IN Front(Chain(next, Turns(b), o))

\* A node is found by its path and by its name below its parent, and its path
\* and its parent are found from it: the searches of fdt_ro.c all
\* walk the tags from the front and count the levels.
PathsAgree ==
    Finished => \A p \in Nodes :
        /\ fdt_path_offset(m, Join(p)) = OffsetIn(Resolved(p))
        /\ fdt_get_path(m, Offset(p), Len(Join(p)) + 2) = <<0, Join(p)>>
        /\ Len(p) > 1 => fdt_parent_offset(m, Offset(p)) = Offset(Front(p))
        /\ \A n \in Names : fdt_subnode_offset(m, Offset(p), n) = OffsetIn(Answering(p, n))

\* A node has the subnodes, in order, and the properties that were given to it
\* and no others, and the reserve map the regions in it, with NOPs and unused
\* space in between.
ContentsAgree ==
    Finished =>
        /\ \A p \in Nodes : Subnodes(m, Offset(p))
                                = SetToSortSeq({Offset(q) : q \in Children(p)}, <)
        /\ \A p \in Nodes, k \in Keys : \E f \in {fdt_getprop(m, Offset(p), k)} :
               IF k \in DOMAIN seen.tree[p]
               THEN f.at # NULL /\ Bytes(m, f.at, f.len) = seen.tree[p][k]
               ELSE f = Fail(FDT_ERR_NOTFOUND)
        /\ fdt_num_mem_rsv(m) = Len(seen.rsv)
        /\ \A i \in DOMAIN seen.rsv :
               fdt_get_mem_rsv(m, i - 1) = <<0, seen.rsv[i][1], seen.rsv[i][2]>>

Phandle(p) == LET v == seen.tree[p] IN
    IF PHANDLE \in DOMAIN v /\ Len(v[PHANDLE]) = FDT_TAGSIZE
    THEN v[PHANDLE][1] * 256 + v[PHANDLE][2] ELSE 0
Has(p, k)  == k \in DOMAIN seen.tree[p]

\* The strings of a value that is a list of them, each with its NUL.
Listed(v)    == v # <<>> /\ Last(v) = NUL
StringsOf(v) == LET ends == SetToSortSeq({i \in DOMAIN v : v[i] = NUL}, <)
                IN [i \in DOMAIN ends |->
                        SubSeq(v, IF i = 1 THEN 1 ELSE ends[i - 1] + 1, ends[i] - 1)]
Lists(p)     == {k \in DOMAIN seen.tree[p] : Listed(seen.tree[p][k])}
\* strnlen stops half way to its bound: the lists in which it still gets to the
\* end of each string.
Measured(v)  == \A i \in DOMAIN v : 2 * (IndexOf(SubSeq(v, i, Len(v)), NUL) - 1) <= Len(v) - i + 2
Compatible(p, s) == /\ COMPATIBLE \in Lists(p)
                    /\ s \in Range(StringsOf(seen.tree[p][COMPATIBLE]))

\* The searches over all nodes find the first node that has the phandle, the
\* value or the compatible string, a new phandle is one no node has, a
\* property of /aliases leads where its path leads, and the calls on string
\* lists see the strings (fdt_ro.c:114-158, 250-298, 654-859).
SearchesAgree ==
    Finished =>
        LET most == MaxOf({Phandle(p) : p \in Nodes})
        IN /\ fdt_find_max_phandle(m) = <<0, most>>
           /\ most < FDT_MAX_PHANDLE => fdt_generate_phandle(m) = <<0, most + 1>>
           /\ \A h \in {Phandle(p) : p \in Nodes} \ {0} :
                  fdt_node_offset_by_phandle(m, h) = OffsetIn({p \in Nodes : Phandle(p) = h})
           /\ \A p \in Nodes : \A k \in DOMAIN seen.tree[p] : \E v \in {seen.tree[p][k]} :
                  /\ fdt_node_offset_by_prop_value(m, -1, k, v)
                         = OffsetIn({q \in Nodes : Has(q, k) /\ seen.tree[q][k] = v})
                  /\ p = <<<<>>, ALIASES>> => \A q \in Nodes :
                         v = Append(Join(q), NUL) => fdt_path_offset(m, k) = OffsetIn(Resolved(q))
           /\ \A p \in Nodes : \A k \in Lists(p) : \E v \in {seen.tree[p][k]} :
                  \A i \in DOMAIN StringsOf(v) : \E s \in {StringsOf(v)[i]} :
                  /\ k = COMPATIBLE /\ s # <<>> => fdt_node_offset_by_compatible(m, -1, s)
                                          = OffsetIn({q \in Nodes : Compatible(q, s)})
                  /\ Measured(v) => \E g \in {fdt_stringlist_get(m, Offset(p), k, i - 1)} :
                         /\ Found(g) /\ Bytes(m, g.at, g.len) = s
                         /\ fdt_stringlist_search(m, Offset(p), k, s) + 1 = IndexOf(StringsOf(v), s)

\* The device tree as SerialProbe has it: what the cells of a node and of its
\* bus make of its properties.
Number(cells)   == FoldLeft(LAMBDA v, c : (v % (U64 \div 65536)) * 65536 + c, 0, cells)
CellsOf(p, k)   == LET v == IF Has(p, k) THEN seen.tree[p][k] ELSE <<>>
                   IN [i \in 1..(Len(v) \div FDT_TAGSIZE) |-> v[2 * i - 1] * 256 + v[2 * i]]
Count(p, k, default) == IF Has(p, k) THEN Number(CellsOf(p, k)) ELSE default
AddressCount(p) == Count(p, ADDRESSCELLS, 2)
SizeCount(p)    == Count(p, SIZECELLS, 1)
Countable(p)    == /\ \A k \in {ADDRESSCELLS, SIZECELLS} : Has(p, k) => Len(seen.tree[p][k]) = FDT_TAGSIZE
                   /\ AddressCount(p) \in 1..4 /\ SizeCount(p) \in 0..4

\* The numbers in a property whose entries are groups of so many cells.
Entries(p, k, sizes) ==
    LET all == FoldLeft(+, 0, sizes)
        Before(g) == FoldLeft(+, 0, SubSeq(sizes, 1, g - 1))
    IN [i \in 1..(Len(CellsOf(p, k)) \div all) |->
           [g \in DOMAIN sizes |-> Number(SubSeq(CellsOf(p, k), (i - 1) * all + Before(g) + 1,
                                                 (i - 1) * all + Before(g) + sizes[g]))]]
RegSizes(p)    == <<AddressCount(Front(p)), SizeCount(Front(p))>>
RangeSizes(p)  == <<AddressCount(p), AddressCount(p), SizeCount(p)>>
InBlobOrder    == SetToSortSeq(Nodes, LAMBDA p, q : Offset(p) < Offset(q))
Index(p)       == CHOOSE i \in DOMAIN InBlobOrder : InBlobOrder[i] = p
ProbeNode(p) ==
    [parent |-> IF p = T!Root THEN 0 ELSE Index(Front(p)),
     compatible |-> IF COMPATIBLE \in Lists(p) THEN Range(StringsOf(seen.tree[p][COMPATIBLE])) ELSE {},
     cells |-> Countable(p),
     ranges |-> IF ~Countable(p) THEN <<>>
                ELSE LET e == Entries(p, RANGES, RangeSizes(p))
                     IN [i \in DOMAIN e |-> [child |-> e[i][1], parent |-> e[i][2], size |-> e[i][3]]],
     reg |-> IF p = T!Root \/ ~Countable(Front(p)) THEN <<>>
             ELSE LET e == Entries(p, REG, RegSizes(p))
                  IN [i \in DOMAIN e |-> [addr |-> e[i][1], size |-> e[i][2]]]]
ProbeTree == [nodes |-> [i \in DOMAIN InBlobOrder |-> ProbeNode(InBlobOrder[i])], stdout |-> 0]

P(t) == INSTANCE SerialProbe
            WITH fdt <- t, Fdts <- {}, Top <- U64, Debuggers <- {}, debugger <- FALSE,
                 pc <- "", pos <- 0, noff <- 0, console_dev <- "", current_driver <- "",
                 base <- <<>>, mailbox <- <<>>

\* No value ends within a cell, or within an entry of reg or ranges; and the
\* addresses of a range have as many cells on both sides.
Even(p)    == \A k \in DOMAIN seen.tree[p] \ {COMPATIBLE, ADDRESSCELLS, SIZECELLS} :
                  Len(seen.tree[p][k]) % FDT_TAGSIZE = 0
Divides(p, k, sizes) == Len(CellsOf(p, k)) % FoldLeft(+, 0, sizes) = 0
Whole(p) ==
    /\ Even(p)
    /\ p # T!Root /\ Countable(Front(p)) => Divides(p, REG, RegSizes(p))
    /\ Countable(p) /\ Has(p, RANGES) => Divides(p, RANGES, RangeSizes(p))
    /\ p # T!Root /\ CellsOf(p, RANGES) # <<>> => AddressCount(p) = AddressCount(Front(p))

SettingOf(p, k, default) == IF CellsOf(p, k) = <<>> THEN default ELSE CellsOf(p, k)[1]

\* fdt_helper.c finds in the bytes of a tree what SerialProbe says of its nodes:
\* the windows of a node, the addresses its buses make of them, nothing where
\* one of them fails, also for the first node that is compatible; and a UART has
\* the settings of its own node.
HelperAgrees ==
    Finished /\ (\E p \in Nodes : Has(p, REG)) /\ (\A p \in Nodes : Whole(p)) =>
    \E t \in {ProbeTree} : \A p \in Nodes : \E n \in {Index(p)} :
        /\ \A i \in 0..1 : \E w \in {fdt_get_node_addr_size(m, Offset(p), i, {NULL})} :
               /\ w.rc = 0 <=> P(t)!HasWindow(n, i)
               /\ w.rc = 0 => /\ w.addr = P(t)!fdt_get_node_addr_size(n, i, {NULL})
                              /\ w.size = t.nodes[n].reg[i + 1].size
               /\ i = 0 => \A a \in {0, 6} : \E u \in {fdt_parse_uart_node(m, Offset(p), w, a)} :
                      \E addrs \in {P(t)!fdt_parse_uart_node(n)} :
                      IF u.rc # 0 THEN 0 \in addrs
                      ELSE /\ u.addr # 0 /\ u.addr \in addrs
                           /\ u.freq = SettingOf(p, CLOCK, 0) /\ u.baud = SettingOf(p, SPEED, 115200)
                           /\ u.reg_shift = SettingOf(p, REGSHIFT, 0)
                           /\ u.reg_io_width = SettingOf(p, IOWIDTH, 1)
        /\ \A s \in t.nodes[n].compatible \ {<<>>} : \E first \in {MinOf(P(t)!Compatible(s))} :
               /\ fdt_find_match(m, -1, <<<<1>>, s>>) = Offset(InBlobOrder[first])
               /\ fdt_match_node(m, Offset(p), <<<<1>>, s>>) = 2
               /\ \E w \in {fdt_parse_compat_addr(m, s, {NULL})} :
                      IF w.rc = 0 THEN w.addr = P(t)!fdt_get_node_addr_size(first, 0, {NULL})
                      ELSE ~P(t)!HasWindow(first, 0)

\* A list of phandles is cut where the counts of the nodes it names say, and
\* the entry with the index is the answer; there is none when an entry up to it
\* names no node, has no count or does not fit.
ArgsAgree ==
    Finished /\ (\A p \in Nodes : Even(p) /\ (Has(p, ADDRESSCELLS) => CellsOf(p, ADDRESSCELLS) # <<>>)) =>
    \E handle \in {[q \in Nodes |-> Phandle(q)]} :
    \A p \in Nodes : \A k \in Keys \cap DOMAIN seen.tree[p] : \E list \in {CellsOf(p, k)} :
    \A index \in 0..2 :
        LET Named(h) == FirstIn({q \in Nodes : h # 0 /\ handle[q] = h})
            Node(h)  == CHOOSE q \in Named(h) : TRUE
            Args(h)  == CellsOf(Node(h), ADDRESSCELLS)[1]
            Valid(i) == /\ i \in DOMAIN list /\ Named(list[i]) # {}
                        /\ Has(Node(list[i]), ADDRESSCELLS)
                        /\ Args(list[i]) <= FDT_MAX_PHANDLE_ARGS
                        /\ i + Args(list[i]) <= Len(list)
            start[j \in 0..2] == IF j = 0 THEN 1
                                 ELSE IF Valid(start[j - 1])
                                      THEN start[j - 1] + 1 + Args(list[start[j - 1]]) ELSE 0
            i == start[index]
        IN \E r \in {fdt_parse_phandle_with_args(m, Offset(p), k, ADDRESSCELLS, index)} :
           IF Valid(i) THEN r = [rc |-> 0, node_offset |-> Offset(Node(list[i])),
                                 args |-> SubSeq(list, i + 1, i + Args(list[i]))]
           ELSE r.rc < 0

\* "fdt_stringlist_count() - count the number of strings in a string list"
\* (libfdt.h): with the strnlen of string.c it counts the rest of a long string
\* as strings of their own.
StringsCounted ==
    Finished => \A p \in Nodes : \A k \in Lists(p) :
        fdt_stringlist_count(m, Offset(p), k) = Len(StringsOf(seen.tree[p][k]))

\* The copies and comparisons of string.c do what libfdt, and these modules
\* with Move, Put and Bytes, take them for: on the bytes around the names,
\* wherever they overlap.
LibraryAgrees ==
    Finished => \E w \in {Bytes(m, MinOf({fdt_off_dt_strings(m) - 2, Len(m) - 5}), 5)} :
        LET Least(S, none) == IF S = {} THEN none ELSE MinOf(S)
            Sign(x) == IF x < 0 THEN -1 ELSE IF x > 0 THEN 1 ELSE 0
            \* Of two sequences of bytes of one length the order of the first difference.
            Order(s, t) == LET i == Least({j \in DOMAIN s : s[j] # t[j]}, 0)
                           IN IF i = 0 THEN 0 ELSE Sign(s[i] - t[i])
        IN \A a, b \in 0..(Len(w) - 1) : \A n \in 0..(Len(w) - MaxOf({a, b})) :
               LET s == Bytes(w, a, n)
                   t == Bytes(w, b, n)
                   Ends(x) == Least({i \in DOMAIN x : x[i] = NUL}, Len(x))
                   most == MaxOf({Ends(s), Ends(t)})
               IN /\ memmove(w, a, b, n) = Move(w, a, b, n)
                  /\ a + n <= b \/ b + n <= a => memcpy(w, a, b, n) = Move(w, a, b, n)
                  /\ memset(w, a, b, n) = Put(w, a, [i \in 1..n |-> b])
                  /\ \A c \in Range(w) : memchr(w, b, c, n) =
                         b - 1 + Least({i \in DOMAIN t : t[i] = c}, -b)
                  /\ a + n <= b \/ b + n <= a => strncpy(w, a, b, n) =
                         Put(w, a, SubSeq(t, 1, IndexOf(t, NUL) - 1))
                  /\ Sign(memcmp(w, a, b, n)) = Order(s, t)
                  /\ Sign(strncmp(w, a, b, n)) = Order(SubSeq(s, 1, most), SubSeq(t, 1, most))
                  /\ NUL \in Range(s) \cap Range(t) =>
                         Sign(strcmp(w, a, b)) = Order(SubSeq(s, 1, most), SubSeq(t, 1, most))
                  /\ NUL \in Range(t) => \E name \in {SubSeq(t, 1, Ends(t) - 1)} :
                         LET Where(c) == {i \in DOMAIN name : name[i] = c}
                         IN /\ strlen(w, b) = Len(name)
                            /\ a + n <= b \/ b + n <= a => strcpy(w, a, b) = Put(w, a, name)
                            /\ \A c \in Range(w) \ {NUL} :
                                   /\ strchr(w, b, c) = b - 1 + Least(Where(c), -b)
                                   /\ strrchr(w, b, c) = IF Where(c) = {} THEN NULL
                                                          ELSE b - 1 + MaxOf(Where(c))

\* A property that did not fit leaves no name behind in the strings block:
\* the roll-back of fdt_rw.c:223-225 and fdt_sw.c:313-314.
NameRolledBack == [][last'.ret < 0 /\ at # NULL =>
                        fdt_size_dt_strings(m') = fdt_size_dt_strings(m)]_vars
=============================================================================

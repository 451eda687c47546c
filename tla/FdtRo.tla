------------------------------- MODULE FdtRo -------------------------------
(* The queries of libfdt (fdt_ro.c, fdt_addresses.c, fdt_check.c) on the  *)
(* bytes of a blob.  A string argument is the sequence of its characters  *)
(* without the NUL; a well-known name is one character.  A query that     *)
(* returns a pointer and a length returns [at, len], with len the error   *)
(* when at is NULL.                                                       *)
EXTENDS FdtMem

SLASH == 47
ATSIGN == 64
ALIASES      == <<97>>       \* "aliases"
COMPATIBLE   == <<99>>       \* "compatible"
PHANDLE      == <<104>>      \* "phandle"
LINUXPHANDLE == <<108>>      \* "linux,phandle"
ADDRESSCELLS == <<35>>       \* "#address-cells"
SIZECELLS    == <<36>>       \* "#size-cells"

CStr(m, a) == Bytes(m, a, strlen(m, a))
Fail(e)    == [at |-> NULL, len |-> e]
Found(r)   == r.at # NULL
MaxOf(S)   == CHOOSE x \in S : \A y \in S : y <= x
MinOf(S)   == CHOOSE x \in S : \A y \in S : x <= y
\* The first place of c in the string s, behind its end when there is none.
IndexOf(s, c) == MinOf({i \in DOMAIN s : s[i] = c} \cup {Len(s) + 1})

-----------------------------------------------------------------------------
(* Names, strings and properties *)

\* In a finished blob a string offset counts from the start of the strings
\* block, in an unfinished one it is negative and counts from its end.
fdt_get_string(m, stroffset) ==
    LET done   == fdt_magic(m) = FDT_MAGIC
        sized  == done /\ fdt_version(m) >= 17
        Until(abs, end) == IF end = NULL THEN Fail(FDT_ERR_TRUNCATED)
                           ELSE [at |-> abs, len |-> end - abs]
        From(total, abs, size) ==
            CASE total < 0 -> Fail(total)
              [] \/ abs >= total \/ (done /\ stroffset < 0) \/ (sized /\ stroffset >= size)
                 \/ (~done /\ (stroffset >= 0 \/ -stroffset > size)) -> Fail(FDT_ERR_BADOFFSET)
              [] OTHER -> Until(abs, memchr(m, abs, NUL, MinOf({total - abs}
                              \cup (IF done THEN {} ELSE {-stroffset})
                              \cup (IF sized THEN {size - stroffset} ELSE {}))))
    IN From(fdt_ro_probe_(m), U(stroffset + fdt_off_dt_strings(m)), fdt_size_dt_strings(m))

fdt_string_eq_(m, stroffset, s) ==
    LET Equal(p) == Found(p) /\ p.len = Len(s) /\ Bytes(m, p.at, p.len) = s
    IN Equal(fdt_get_string(m, stroffset))

\* The name of a node; versions before 16 keep the full path, of which the
\* part behind the last slash is the name.
fdt_get_name(m, node) ==
    LET Leaf(leaf)  == [at |-> leaf, len |-> strlen(m, leaf)]
        Cut(slash)  == IF slash = NULL THEN Fail(FDT_ERR_BADSTRUCTURE) ELSE Leaf(slash + 1)
        Named(name) == IF fdt_version(m) < 16 THEN Cut(strrchr(m, name, SLASH)) ELSE Leaf(name)
        Checked(probe, err) == IF probe < 0 THEN Fail(probe) ELSE IF err < 0 THEN Fail(err)
                               ELSE Named(At(m, node) + FDT_TAGSIZE)
    IN Checked(fdt_ro_probe_(m), fdt_check_node_offset_(m, node))

\* A node is called s when its name is s, or s and an address behind '@'.
fdt_nodename_eq_(m, node, s) ==
    LET Equal(p) == /\ Found(p) /\ p.len >= Len(s) /\ Bytes(m, p.at, Len(s)) = s
                    /\ \/ Byte(m, p.at + Len(s)) = NUL
                       \/ Byte(m, p.at + Len(s)) = ATSIGN /\ ATSIGN \notin Range(s)
    IN Equal(fdt_get_name(m, node))

nextprop_(m, offset) ==
    LET Here(t) == CASE t.tag = FDT_END  -> IF t.next >= 0 THEN FDT_ERR_BADSTRUCTURE ELSE t.next
                     [] t.tag = FDT_PROP -> t.at
                     [] OTHER -> FDT_ERR_NOTFOUND
    IN Here(TagBehind(m, offset, {FDT_NOP}))

PropertyBehind(m, o) == IF o < 0 THEN o ELSE nextprop_(m, o)
fdt_first_property_offset(m, node) == PropertyBehind(m, fdt_check_node_offset_(m, node))
fdt_next_property_offset(m, prop)  == PropertyBehind(m, fdt_check_prop_offset_(m, prop))

PropLen(m, prop)     == ToInt(fdt32_ld(m, At(m, prop) + FDT_TAGSIZE))
PropNameOff(m, prop) == ToInt(fdt32_ld(m, At(m, prop) + 2 * FDT_TAGSIZE))
PropData(m, prop)    == At(m, prop) + PROPSIZE
                        + (IF Realigned(m, prop + PROPSIZE, PropLen(m, prop))
                           THEN FDT_TAGSIZE ELSE 0)

\* The first property called name from the one at prop on, or the error.
PropertyFrom(m, prop, name) ==
    LET Other(p) == p >= 0 /\ ~fdt_string_eq_(m, PropNameOff(m, p), name)
    IN Loop(Int, [p \in {q \in Int : Other(q)} |-> fdt_next_property_offset(m, p)],
            Turns(m), prop)
fdt_get_property_namelen_(m, node, name) ==
    PropertyFrom(m, fdt_first_property_offset(m, node), name)

\* Callers that change the structure get no properties of old versions.
fdt_get_property(m, node, name) ==
    IF fdt_version(m) < 16 THEN FDT_ERR_BADVERSION ELSE fdt_get_property_namelen_(m, node, name)

ValueOf(m, prop) ==
    IF prop < 0 THEN Fail(prop) ELSE [at |-> PropData(m, prop), len |-> PropLen(m, prop)]
fdt_getprop(m, node, name) == ValueOf(m, fdt_get_property_namelen_(m, node, name))

fdt_getprop_by_offset(m, prop) ==
    LET Named(name) == IF ~Found(name) THEN name ELSE ValueOf(m, prop)
        Checked(err) == IF err < 0 THEN Fail(err)
                        ELSE Named(fdt_get_string(m, PropNameOff(m, prop)))
    IN Checked(fdt_check_prop_offset_(m, prop))

\* Mutant: a value of any length is taken for a phandle.
PhandleOfAnyLength(m, node) ==
    LET Cell(p, other) == IF Found(p) THEN fdt32_ld(m, p.at) ELSE other
    IN Cell(fdt_getprop(m, node, PHANDLE), Cell(fdt_getprop(m, node, LINUXPHANDLE), 0))

fdt_get_phandle(m, node) ==
    LET Cell(p, other) == IF Found(p) /\ p.len = FDT_TAGSIZE THEN fdt32_ld(m, p.at) ELSE other
    IN Cell(fdt_getprop(m, node, PHANDLE), Cell(fdt_getprop(m, node, LINUXPHANDLE), 0))

CellCount(m, c) ==
    CASE ~Found(c) -> c.len
      [] c.len # FDT_TAGSIZE \/ fdt32_ld(m, c.at) > 4 -> FDT_ERR_BADNCELLS
      [] OTHER -> fdt32_ld(m, c.at)
fdt_cells(m, node, name) == CellCount(m, fdt_getprop(m, node, name))
AddressCells(v) == CASE v = 0 -> FDT_ERR_BADNCELLS [] v = FDT_ERR_NOTFOUND -> 2 [] OTHER -> v
SizeCells(v)    == IF v = FDT_ERR_NOTFOUND THEN 1 ELSE v
fdt_address_cells(m, node) == AddressCells(fdt_cells(m, node, ADDRESSCELLS))
fdt_size_cells(m, node)    == SizeCells(fdt_cells(m, node, SIZECELLS))

-----------------------------------------------------------------------------
(* The memory reserve map *)

\* The address of entry n, NULL when it does not fit before the end.
fdt_mem_rsv(m, n) ==
    LET abs == U(fdt_off_mem_rsvmap(m) + n * RSVSIZE)
    IN IF abs < fdt_off_mem_rsvmap(m) \/ abs > U(fdt_totalsize(m) - RSVSIZE)
       THEN NULL ELSE abs
RsvAddress(m, re) == fdt64_ld(m, re)
RsvSize(m, re)    == fdt64_ld(m, re + CELL64)

fdt_get_mem_rsv(m, n) ==
    LET re == fdt_mem_rsv(m, n)
    IN CASE fdt_ro_probe_(m) < 0 -> <<fdt_ro_probe_(m)>>
         [] re = NULL -> <<FDT_ERR_BADOFFSET>>
         [] OTHER -> <<0, RsvAddress(m, re), RsvSize(m, re)>>

fdt_num_mem_rsv(m) ==
    LET Count(n) == IF fdt_mem_rsv(m, n) = NULL THEN FDT_ERR_TRUNCATED ELSE n
    IN Count(First({i \in Nat : \/ fdt_mem_rsv(m, i) = NULL
                                \/ RsvSize(m, fdt_mem_rsv(m, i)) = 0}))

-----------------------------------------------------------------------------
(* Search by name and path *)

\* The first place from the one given on at which the search for a subnode ends.
SearchFrom(m, offset, depth, Hit(_)) ==
    LET Found2(p) == IF p.depth[1] < 0 THEN FDT_ERR_NOTFOUND ELSE p.offset
    IN Found2(NodeUntil(m, Place(offset, depth),
                        {p \in Places : p.depth[1] < 0 \/ p.offset < 0 \/ Hit(p)}))

\* Mutant: a node further down is taken for a subnode.
SubnodeOfAnyDepth(m, offset, depth, name) ==
    LET Hit(p) == p.depth[1] > 0 /\ fdt_nodename_eq_(m, p.offset, name)
    IN SearchFrom(m, offset, depth, Hit)

SubnodeFrom(m, offset, depth, name) ==
    LET Hit(p) == p.depth = <<1>> /\ fdt_nodename_eq_(m, p.offset, name)
    IN SearchFrom(m, offset, depth, Hit)

fdt_subnode_offset(m, parent, name) ==
    IF fdt_ro_probe_(m) < 0 THEN fdt_ro_probe_(m) ELSE SubnodeFrom(m, parent, <<0>>, name)

\* The loop of fdt_path_offset: strip slashes, descend by the next component.
Descend(m, offset, path) ==
    LET Ways    == [offset : Int, path : Seq(Int)]
        Rest(p) == SubSeq(p, MinOf({i \in DOMAIN p : p[i] # SLASH} \cup {Len(p) + 1}), Len(p))
        Into(o, rest, q) == [offset |-> fdt_subnode_offset(m, o, SubSeq(rest, 1, q - 1)),
                             path   |-> Rest(SubSeq(rest, q, Len(rest)))]
        step == [w \in {v \in Ways : v.offset >= 0 /\ v.path # <<>>} |->
                     Into(w.offset, w.path, IndexOf(w.path, SLASH))]
    IN Loop(Ways, step, Len(path), [offset |-> offset, path |-> Rest(path)]).offset

\* A path that does not start with a slash starts with an alias, a property of
\* /aliases that holds a path, which may start with an alias; MaxAliases of
\* them are followed.
MaxAliases == 3
fdt_path_offset(m, path) ==
    LET Aliased(aliases, name) ==
            IF aliases < 0 THEN Fail(aliases) ELSE fdt_getprop(m, aliases, name)
        Alias(p) == Aliased(Descend(m, 0, <<SLASH>> \o ALIASES), SubSeq(p, 1, IndexOf(p, SLASH) - 1))
        Behind(p, offset) == Descend(m, offset, SubSeq(p, IndexOf(p, SLASH), Len(p)))
        of[k \in 0..MaxAliases] == [p \in Seq(Int) |->
            LET From(alias) == IF ~Found(alias) \/ k = 0 THEN FDT_ERR_BADPATH
                               ELSE Behind(p, of[k - 1][CStr(m, alias.at)])
            IN IF p # <<>> /\ p[1] = SLASH THEN Descend(m, 0, p) ELSE From(Alias(p))]
    IN IF fdt_ro_probe_(m) < 0 THEN fdt_ro_probe_(m) ELSE of[MaxAliases][path]

\* fdt_get_path: walk to the node with the path so far in buf, which ends in a
\* slash; going up cuts the last component, a name that does not fit is left out.
PathTo(m, node, buflen) ==
    LET Walks  == [offset : Int, depth : Seq(Int), name : [at : Int, len : Int],
                   buf : Seq(Int), pdepth : Int]
        Shorter(buf) == SubSeq(buf, 1, MaxOf({i \in 1..(Len(buf) - 1) : buf[i] = SLASH}))
        Back(w) == LET n == MaxOf({0, w.pdepth - w.depth[1]})
                       cut[k \in 0..n] == IF k = 0 THEN w.buf ELSE Shorter(cut[k - 1])
                   IN [w EXCEPT !.buf = cut[n], !.pdepth = @ - n]
        Fits(w)  == w.pdepth >= w.depth[1]
        Named(w) ==
            LET long == w.buf \o Bytes(m, w.name.at, w.name.len) \o <<SLASH>>
            IN IF Fits(w) /\ Len(long) <= buflen
               THEN [w EXCEPT !.buf = long, !.pdepth = @ + 1] ELSE w
        Lost(w)  == Fits(w) /\ ~Found(w.name)
        To(w, place) == Back([w EXCEPT !.offset = place.offset, !.depth = place.depth,
                                       !.name = fdt_get_name(m, place.offset)])
        Onward(w) == To(Named(w), fdt_next_node(m, w.offset, w.depth))
        step == [w \in {v \in Walks : v.offset \in 0..(node - 1) /\ ~Lost(v)} |-> Onward(w)]
        Text(s)  == IF Len(s) > 1 THEN Front(s) ELSE s
        Ended(w) == IF w.pdepth < w.depth[1] + 1 THEN <<FDT_ERR_NOSPACE>> ELSE <<0, Text(w.buf)>>
        Here(w)  == CASE w.offset = FDT_ERR_NOTFOUND \/ w.offset > node -> <<FDT_ERR_BADOFFSET>>
                      [] w.offset = FDT_ERR_BADOFFSET -> <<FDT_ERR_BADSTRUCTURE>>
                      [] w.offset < 0 -> <<w.offset>>
                      [] Lost(w) -> <<w.name.len>>
                      [] OTHER -> Ended(Named(w))
    IN Here(Loop(Walks, step, Turns(m), [offset |-> 0, depth |-> <<0>>, name |-> fdt_get_name(m, 0),
                                         buf |-> <<>>, pdepth |-> 0]))

fdt_get_path(m, node, buflen) ==
    CASE fdt_ro_probe_(m) < 0 -> <<fdt_ro_probe_(m)>>
      [] buflen < 2 -> <<FDT_ERR_NOSPACE>>
      [] OTHER -> PathTo(m, node, buflen)

\* The ancestor of the node at the given depth, with the depth of the node.
SupernodeFrom(m, node, wanted) ==
    LET Walks == [offset : Int, depth : Seq(Int), super : Int]
        Super(w) == IF w.depth[1] = wanted THEN w.offset ELSE w.super
        Onward(w, next) == [offset |-> next.offset, depth |-> next.depth, super |-> Super(w)]
        step == [w \in {v \in Walks : v.offset \in 0..(node - 1)} |->
                     Onward(w, fdt_next_node(m, w.offset, w.depth))]
        Here(w) ==
            CASE w.offset = FDT_ERR_NOTFOUND \/ w.offset > node -> <<FDT_ERR_BADOFFSET>>
              [] w.offset = FDT_ERR_BADOFFSET -> <<FDT_ERR_BADSTRUCTURE>>
              [] w.offset < 0 -> <<w.offset>>
              [] wanted > w.depth[1] -> <<FDT_ERR_NOTFOUND, w.depth[1]>>
              [] OTHER -> <<Super(w), w.depth[1]>>
    IN Here(Loop(Walks, step, Turns(m), [offset |-> 0, depth |-> <<0>>, super |-> FDT_ERR_INTERNAL]))

fdt_supernode_atdepth_offset(m, node, wanted) ==
    CASE fdt_ro_probe_(m) < 0 -> <<fdt_ro_probe_(m)>>
      [] wanted < 0 -> <<FDT_ERR_NOTFOUND>>
      [] OTHER -> SupernodeFrom(m, node, wanted)

fdt_node_depth(m, node) ==
    LET Depth(s) == IF s[1] # 0 THEN (IF s[1] < 0 THEN s[1] ELSE FDT_ERR_INTERNAL) ELSE s[2]
    IN Depth(fdt_supernode_atdepth_offset(m, node, 0))

fdt_parent_offset(m, node) ==
    LET Above(d) == IF d < 0 THEN d ELSE fdt_supernode_atdepth_offset(m, node, d - 1)[1]
    IN Above(fdt_node_depth(m, node))

-----------------------------------------------------------------------------
(* Searches over all nodes *)

\* The offsets fdt_next_node(, NULL) yields behind start, the error last.
NodesAfter(m, start) ==
    LET next == [o \in Int |-> fdt_next_node(m, o, <<>>).offset]
    IN Chain(next, Turns(m), start)
FirstStop(nodes, Stops(_)) ==
    nodes[MinOf({i \in DOMAIN nodes : i = Len(nodes) \/ Stops(nodes[i])})]

\* The largest phandle of the tree, or the error that ended the walk.
fdt_find_max_phandle(m) ==
    LET Largest(nodes) ==
            IF Last(nodes) # FDT_ERR_NOTFOUND THEN <<Last(nodes)>>
            ELSE <<0, MaxOf({fdt_get_phandle(m, o) : o \in Range(Front(nodes))} \cup {0})>>
    IN Largest(NodesAfter(m, -1))

FDT_MAX_PHANDLE == U(-2)
fdt_generate_phandle(m) ==
    LET Above(max) == CASE max[1] < 0 -> max
                        [] max[2] = FDT_MAX_PHANDLE -> <<FDT_ERR_NOPHANDLES>>
                        [] OTHER -> <<0, U(max[2] + 1)>>
    IN Above(fdt_find_max_phandle(m))

fdt_node_offset_by_prop_value(m, start, name, val) ==
    LET Holds(p) == Found(p) /\ p.len = Len(val) /\ Bytes(m, p.at, p.len) = val
        Has(o)   == Holds(fdt_getprop(m, o, name))
    IN IF fdt_ro_probe_(m) < 0 THEN fdt_ro_probe_(m) ELSE FirstStop(NodesAfter(m, start), Has)

fdt_node_offset_by_phandle(m, phandle) ==
    LET Has(o) == fdt_get_phandle(m, o) = phandle
    IN CASE phandle \in {0, U(-1)} -> FDT_ERR_BADPHANDLE
         [] fdt_ro_probe_(m) < 0   -> fdt_ro_probe_(m)
         [] OTHER -> FirstStop(NodesAfter(m, -1), Has)

\* Whether str is one of the strings of the list of length bytes at list.
fdt_stringlist_contains(m, list, length, str) ==
    LET Lists   == [list : Int, length : Int]
        Hit(l)  == Bytes(m, l.list, Len(str) + 1) = Append(str, NUL)
        Nul(l)  == memchr(m, l.list, NUL, l.length)
        Next(l, p) == [list |-> p + 1, length |-> l.length - (p - l.list + 1)]
        step == [l \in {k \in Lists : k.length >= Len(str) /\ ~Hit(k) /\ Nul(k) # NULL} |->
                     Next(l, Nul(l))]
        Here(l) == l.length >= Len(str) /\ Hit(l)
    IN Here(Loop(Lists, step, Turns(m), [list |-> list, length |-> length]))

\* The walk of the other list functions: the strings as [at, len] pairs, and
\* whether it ended in a string without a NUL.
StringsFrom(m, list, end) ==
    LET Strings == [list : Int, strings : Seq([at : Int, len : Int])]
        Len0(l) == strnlen(m, l, end - l)
        Next(s, n) == [list |-> s.list + n + 1, strings |-> Append(s.strings, [at |-> s.list, len |-> n])]
        step == [s \in {r \in Strings : r.list < end /\ r.list + Len0(r.list) < end} |->
                     Next(s, Len0(s.list))]
        Here(s) == [strings |-> s.strings, bad |-> s.list < end]
    IN Here(Loop(Strings, step, Turns(m), [list |-> list, strings |-> <<>>]))
StringList(m, p) == StringsFrom(m, p.at, p.at + p.len)

fdt_stringlist_count(m, node, property) ==
    LET Count(p, list) == CASE ~Found(p) -> p.len
                            [] list.bad -> FDT_ERR_BADVALUE
                            [] OTHER -> Len(list.strings)
        Of(p) == Count(p, StringList(m, p))
    IN Of(fdt_getprop(m, node, property))

fdt_stringlist_search(m, node, property, string) ==
    LET Hits(strings) == {i \in DOMAIN strings :
                              /\ strings[i].len = Len(string)
                              /\ Bytes(m, strings[i].at, Len(string) + 1) = Append(string, NUL)}
        Place0(bad, hits) == CASE hits # {} -> MinOf(hits) - 1
                               [] bad -> FDT_ERR_BADVALUE
                               [] OTHER -> FDT_ERR_NOTFOUND
        In(list) == Place0(list.bad, Hits(list.strings))
        Of(p) == IF ~Found(p) THEN p.len ELSE In(StringList(m, p))
    IN Of(fdt_getprop(m, node, property))

fdt_stringlist_get(m, node, property, idx) ==
    LET In(list) == CASE idx < Len(list.strings) -> list.strings[idx + 1]
                      [] list.bad -> Fail(FDT_ERR_BADVALUE)
                      [] OTHER -> Fail(FDT_ERR_NOTFOUND)
        Of(p) == IF ~Found(p) THEN p ELSE In(StringList(m, p))
    IN Of(fdt_getprop(m, node, property))

\* 0 when the node is compatible, 1 when it is not, or the error.
fdt_node_check_compatible(m, node, compatible) ==
    LET Of(p) == CASE ~Found(p) -> p.len
                   [] fdt_stringlist_contains(m, p.at, p.len, compatible) -> 0
                   [] OTHER -> 1
    IN Of(fdt_getprop(m, node, COMPATIBLE))

fdt_node_offset_by_compatible(m, start, compatible) ==
    LET Check(o) == fdt_node_check_compatible(m, o, compatible)
        Stops(o) == Check(o) \notin {1, FDT_ERR_NOTFOUND}
        OrError(o, err) == IF err < 0 THEN err ELSE o
        At1(o) == IF o < 0 THEN o ELSE OrError(o, Check(o))
    IN IF fdt_ro_probe_(m) < 0 THEN fdt_ro_probe_(m)
       ELSE At1(FirstStop(NodesAfter(m, start), Stops))

-----------------------------------------------------------------------------
(* fdt_check_full: the whole blob, tag by tag *)

CheckFrom(m, offset) ==
    LET Checks == [t : Tags, depth : Int, ended : BOOLEAN]
        Missing(p) == IF Found(p) THEN 0 ELSE p.len
        Err(c) ==
            CASE c.t.next < 0 -> c.t.next
              [] \/ c.ended /\ c.t.tag # FDT_END
                 \/ c.t.tag = FDT_END /\ c.depth # 0
                 \/ c.t.tag = FDT_END_NODE /\ c.depth = 0
                 \/ c.t.tag = FDT_BEGIN_NODE /\ c.depth = 0 /\ fdt_get_name(m, c.t.at).len # 0
                     -> FDT_ERR_BADSTRUCTURE
              [] c.t.tag = FDT_PROP -> Missing(fdt_getprop_by_offset(m, c.t.at))
              [] OTHER -> 0
        Levels(tag) == CASE tag = FDT_BEGIN_NODE -> 1 [] tag = FDT_END_NODE -> -1 [] OTHER -> 0
        Onward(c, depth) ==
            [t |-> fdt_next_tag(m, c.t.next), depth |-> depth,
             ended |-> IF c.t.tag = FDT_END_NODE THEN depth = 0 ELSE c.ended]
        step == [c \in {b \in Checks : b.t.tag # FDT_END /\ Err(b) = 0} |->
                     Onward(c, c.depth + Levels(c.t.tag))]
    IN Err(Loop(Checks, step, Turns(m), [t |-> TagBefore(offset), depth |-> 0, ended |-> FALSE]))

fdt_check_full(m, bufsize) ==
    CASE bufsize < fdt_header_size_(0) \/ bufsize < fdt_header_size_(fdt_version(m))
             -> FDT_ERR_TRUNCATED
      [] fdt_check_header(m) # 0 -> fdt_check_header(m)
      [] bufsize < fdt_totalsize(m) -> FDT_ERR_TRUNCATED
      [] fdt_num_mem_rsv(m) < 0 -> fdt_num_mem_rsv(m)
      [] OTHER -> CheckFrom(m, 0)
=============================================================================

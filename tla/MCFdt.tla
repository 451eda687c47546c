------------------------------- MODULE MCFdt -------------------------------
(* Instances of Fdt: trees that are written from nothing, and finished     *)
(* trees that are changed, some with their blocks in an unusual order.     *)
EXTENDS Fdt

MCNames  == {<<98>>, <<98, 64, 49>>}                  \* "b" and "b@1"
MCRegions == {<<16, 8>>}

-----------------------------------------------------------------------------
(* A finished tree byte by byte, its blocks in the given order *)

Word(v)    == <<v \div 256, v % 256>>
Pad(s)     == s \o [i \in 1..(Len(s) % 2) |-> NUL]
Node(n)    == Word(FDT_BEGIN_NODE) \o Pad(Append(n, NUL))
Prop(o, v) == Word(FDT_PROP) \o Word(Len(v)) \o Word(o) \o Pad(v)
End        == Word(FDT_END_NODE)

\* The root, with one address cell, and a subnode "b@1", whose phandle lies
\* behind a NOP.
Struct1  == Node(<<>>) \o Prop(0, Word(1)) \o Node(<<98, 64, 49>>) \o Word(FDT_NOP)
            \o Prop(2, Word(5)) \o End \o End \o Word(FDT_END)
Strings1 == ADDRESSCELLS \o <<NUL>> \o PHANDLE \o <<NUL>>
Rsv1     == FlattenSeq(<<Word(0), Word(32), Word(0), Word(4), [i \in 1..RSVSIZE |-> 0]>>)

Blob(version, total, blocks, offs) ==
    FlattenSeq(<<Word(FDT_MAGIC), Word(total), Word(offs[2]), Word(offs[3]), Word(offs[1]),
        Word(version), Word(16), Word(3), Word(Len(Strings1)), Word(Len(Struct1))>>) \o blocks

InMemory(bytes, size) == bytes \o [x \in 1..(size - Len(bytes)) |-> GUARD]

\* In order, with some room behind; and strings first, as version 16 has it,
\* without the size of the structure block.
N == Len(Strings1)
R == Len(Rsv1)
S == Len(Struct1)
Ordered(size, room) ==
    InMemory(Blob(17, 20 + R + S + N + room, Rsv1 \o Struct1 \o Strings1
                  \o [i \in 1..room |-> 0], <<20, 20 + R, 20 + R + S>>), size)
Reversed(size) ==
    InMemory(Blob(16, 20 + N + R + S, Strings1 \o Rsv1 \o Struct1,
                  <<20 + N, 20 + N + R, 20>>), size)

\* The trees have 74 bytes; the first buffer has no room for the reversed one
\* to be rebuilt behind itself, the others overlap it.
EditMemory == 180
Editing(blob) ==
    [mem |-> blob, at |-> 0, names |-> MCNames, keys |-> {PHANDLE},
     values |-> {<<0, 1>>, <<7, 8, 9>>}, regions |-> MCRegions,
     buffers |-> {<<8, 96>>, <<0, 172>>}, calls |-> 3, edits |-> 3]

\* The name of one property is the tail of that of the other.
Writing ==
    [mem |-> [x \in 1..90 |-> GUARD], at |-> NULL, names |-> MCNames,
     keys |-> {COMPATIBLE, <<104>> \o COMPATIBLE}, values |-> {<<7, 8, NUL>>}, regions |-> MCRegions,
     buffers |-> {<<0, 52>>, <<8, 80>>}, calls |-> 8, edits |-> 0]

\* Two lists of strings to append to one another, and the aliases: "/a", a path.
\* Behind a new node there is room for a new name, but not for its property.
ListsOfStrings ==
    [Editing(Ordered(120, 16)) EXCEPT !.names = {ALIASES}, !.keys = {PHANDLE, COMPATIBLE},
                                   !.values = {<<SLASH, 97, NUL>>, <<NUL>>},
                                   !.buffers = {}, !.regions = {}, !.calls = 2, !.edits = 2]

\* A UART with a clock and windows on a bus that shifts its addresses, in the
\* given numbers of cells; a phandle in the tree is an address too.
Strings2 == ADDRESSCELLS \o <<NUL>> \o PHANDLE \o <<NUL>> \o RANGES \o <<NUL>> \o REG \o <<NUL>>
            \o CLOCK \o <<NUL>> \o COMPATIBLE \o <<NUL>>
Words(ws) == FlattenSeq([i \in DOMAIN ws |-> Word(ws[i])])
Struct2(cells, bus, ranges, uart, reg) ==
    Node(<<>>) \o cells \o Node(<<98>>) \o bus \o Prop(4, Words(ranges))
    \o Node(<<117>>) \o Prop(6, Words(reg)) \o uart
    \o Prop(8, Word(25)) \o Prop(10, <<117, NUL>>) \o End \o End \o End \o Word(FDT_END)
OneCell  == Struct2(Prop(0, Word(1)), Prop(0, Word(1)) \o Prop(2, Word(4)), <<3, 9, 5>>,
                    <<>>, <<4, 2, 4, 7>>)
TwoCells == Struct2(<<>>, <<>>, <<4, 3, 1, 9, 5>>, Prop(0, Word(2)) \o Prop(2, Word(4)), <<4, 5, 6>>)

Probing(struct) ==
    LET off == 20 + RSVSIZE
    IN [Editing(InMemory(FlattenSeq(<<Word(FDT_MAGIC), Word(off + Len(struct) + Len(Strings2) + 16),
            Word(off), Word(off + Len(struct)), Word(20), Word(17), Word(16), Word(3),
            Word(Len(Strings2)), Word(Len(struct)), [i \in 1..RSVSIZE |-> 0]>>)
            \o struct \o Strings2 \o [i \in 1..16 |-> 0], EditMemory))
        EXCEPT !.names = {}, !.keys = {RANGES, REG},
               !.values = {<<>>} \cup {Words(ws) : ws \in {<<4, 1, 7>>, <<1, 2, 4>>, <<3, 9>>, <<0, 5, 0, 8, 2>>}},
               !.buffers = {}, !.regions = {}, !.calls = 1, !.edits = 1]

\* Numbers of cells that are used and some that are not.
Counting(struct) ==
    [Probing(struct) EXCEPT !.keys = {ADDRESSCELLS, SIZECELLS},
                            !.values = {<<1>>, Word(0), Word(2), Word(5)}]

MCSetups == {Editing(Ordered(EditMemory, 18)), Editing(Reversed(EditMemory)), Writing, ListsOfStrings,
             Probing(OneCell), Probing(TwoCells), Counting(OneCell), Counting(TwoCells)}

\* A string of three characters.
LongSetups == {[Editing(Ordered(EditMemory, 18)) EXCEPT
                    !.values = {<<7, NUL>>, <<7, 8, 9, NUL>>}, !.buffers = {}, !.calls = 1, !.edits = 1]}

\* last says only how a state was reached, and nothing after reads it.
Situation == <<setup, mem, at, seen, calls>>
=============================================================================

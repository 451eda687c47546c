---------------------------- MODULE MCSerialProbe ----------------------------
(***************************************************************************)
(* Trees of a root, a bus and two devices for SerialProbe, with addresses  *)
(* of four bits.                                                           *)
(***************************************************************************)
EXTENDS SerialProbe

MCTop == 16

Range1(c, p, s) == [child |-> c, parent |-> p, size |-> s]

Device(parent, compatible, reg) ==
  [parent |-> parent, compatible |-> compatible, cells |-> TRUE, ranges |-> <<>>, reg |-> reg]

Root == Device(0, {"riscv-virtio"}, <<>>)

Bus(ranges, cells) ==
  [parent |-> 1, compatible |-> {"simple-bus"}, cells |-> cells, ranges |-> ranges, reg |-> <<>>]

(* No "ranges", an identity, a shift down, a shift that wraps, a range that *)
(* ends before the devices, one at the end of the address space, and two.   *)
Mappings ==
  {<<>>, <<Range1(0, 0, 9)>>, <<Range1(3, 1, 5)>>, <<Range1(3, 13, 6)>>, <<Range1(1, 4, 2)>>,
   <<Range1(4, 0, 12)>>, <<Range1(7, 9, 3), Range1(0, 4, 4)>>}

Compatibles ==
  {{"cdns,uart-r1p12"}, {"ns16550"}, {"snps,dw-apb-uart", "ns16550a"}, {"ucb,htif0"}, {"other"}}

Windows == {<<>>, <<[addr |-> 5, size |-> 2]>>, <<[addr |-> 3, size |-> 2], [addr |-> 6, size |-> 2]>>,
            <<[addr |-> 0, size |-> 2]>>, <<[addr |-> 5, size |-> 0]>>}

Trees(buses, inner, outer) ==
  {[nodes |-> <<Root, b, i, o>>, stdout |-> s] : b \in buses, i \in inner, o \in outer, s \in {0, 2, 3, 4}}

(* A device behind two buses. *)
NestedTrees ==
  {[nodes |-> <<Root, b, [c EXCEPT !.parent = 2], Device(3, {"ns16550a"}, <<[addr |-> 5, size |-> 2]>>),
                Device(1, {"other"}, <<>>)>>, stdout |-> s] :
     b \in {Bus(m, TRUE) : m \in Mappings}, c \in {Bus(m, TRUE) : m \in Mappings}, s \in {0, 4}}

MCFdts ==
  NestedTrees \union
  Trees({Bus(m, TRUE) : m \in Mappings} \union {Bus(<<>>, FALSE)},
        {Device(2, c, w) : c \in Compatibles, w \in Windows},
        {Device(1, c, w) : c \in Compatibles,
                           w \in {<<>>, <<[addr |-> 5, size |-> 2]>>}})

(* Trees whose one UART may lie below the range of its bus. *)
OutsideFdts ==
  Trees({Bus(<<Range1(7, 9, 3)>>, TRUE)},
        {Device(2, {"ns16550"}, w) : w \in Windows},
        {Device(1, {"other"}, <<>>)})
=============================================================================

-------------------------- MODULE HeadOrderProofs --------------------------
(***************************************************************************)
(* What the fences of head.S order, for any number of harts and any image  *)
(* and payload: what holds on every machine, and what holds where loads    *)
(* and stores stay in program order.                                       *)
(***************************************************************************)
EXTENDS HeadOrder, SequenceTheorems, TLAPS

Buffered(c, n) == \E j \in 1 .. n : buffer[j].cell = c

(* c has been stored, and the store is visible or one of the first n left. *)
Stored(c, n) == mem[c] # "old" \/ Buffered(c, n)

ImageVisible == mem[Status] = "new" /\ \A c \in Image : mem[c] # "old"

(* Only the spin word ever holds the entry of the next stage. *)
Entries ==
  /\ \A c \in Cells \ {Spin} : mem[c] # "entry"
  /\ \A i \in 1 .. Len(buffer) :
       buffer[i].val # "old" /\ (buffer[i].val = "entry" => buffer[i].cell = Spin)

(* Up to the fence of head.S:189 the boot hart stores the image and status; *)
Relocating ==
  boot \in {"_relocate_copy_loop", "_relocate_done", "fence_189"} =>
    /\ \A c \in Payload : mem[c] = "old"
    /\ boot = "_relocate_copy_loop" => left \subseteq Image
    /\ \A i \in 1 .. Len(buffer) : buffer[i].cell \in Image \union {Status}
    /\ \A c \in Image :
         (boot = "_relocate_copy_loop" /\ c \in left) \/ Stored(c, Len(buffer))
    /\ boot = "fence_189" => Stored(Status, Len(buffer))

(* then nothing but the payload, *)
Placing ==
  boot \in {"memcpy", "_release_spin"} =>
    /\ ImageVisible
    /\ boot = "memcpy" => left \subseteq Payload
    /\ \A i \in 1 .. Len(buffer) : buffer[i].cell \in Payload
    /\ \A c \in Payload : (boot = "memcpy" /\ c \in left) \/ Stored(c, Len(buffer))

(* and, up to the fence of head.S:218, the spin word. *)
Releasing ==
  boot = "fence_218" =>
    /\ ImageVisible
    /\ \A i \in 1 .. Len(buffer) :
         buffer[i].cell \in Payload \/ buffer[i] = [cell |-> Spin, val |-> "entry"]
    /\ \A c \in Payload : Stored(c, Len(buffer))
    /\ mem[Spin] = "entry" \/ Buffered(Spin, Len(buffer))

Released ==
  boot = "_jump" =>
    /\ ImageVisible
    /\ buffer = <<>>
    /\ mem[Spin] = "entry"
    /\ \A c \in Payload : mem[c] = "new"

IInv == TypeOK /\ Entries /\ Relocating /\ Placing /\ Releasing /\ Released

(* In program order, what a store announces is visible or ahead of it.      *)
StatusLast ==
  /\ mem[Status] = "new" => \A c \in Image : mem[c] # "old"
  /\ \A i \in 1 .. Len(buffer) :
       buffer[i].cell = Status => \A c \in Image : Stored(c, i - 1)

SpinLast ==
  /\ mem[Spin] = "entry" => \A c \in Payload : mem[c] = "new"
  /\ \A i \in 1 .. Len(buffer) :
       buffer[i].val = "entry" => \A c \in Payload : Stored(c, i - 1)

SecondariesFollow ==
  \A s \in Secondaries :
    /\ ahead[s] = "none"
    /\ pc[s] # "_wait_loop" => mem[Status] = "new"
    /\ pc[s] = "joined" => \A c \in Payload : mem[c] = "new"

OrderInv == IInv /\ StatusLast /\ SpinLast /\ SecondariesFollow
-----------------------------------------------------------------------------
(***************************************************************************)
(* The buffer after a store, and after one of its stores became visible.   *)
(***************************************************************************)
Store == [cell : Cells, val : Values]

Index(i, j) == IF j < i THEN j ELSE j + 1

(* A buffered store has a cell and a value. *)
LEMMA BufferStore ==
  ASSUME TypeOK, NEW i \in 1 .. Len(buffer)
  PROVE  buffer[i].cell \in Cells /\ buffer[i].val \in Values
<1>1. buffer \in Seq(Store)
  BY DEF TypeOK, Store
<1>2. buffer[i] \in Store
  BY <1>1, ElementOfSeq
<1> QED BY <1>2 DEF Store

(* A store goes behind those already in the buffer. *)
LEMMA PutBuffer ==
  ASSUME TypeOK, NEW c, NEW v, Put(c, v)
  PROVE  /\ Len(buffer) \in Nat /\ Len(buffer') = Len(buffer) + 1
         /\ \A j \in 1 .. Len(buffer) : buffer'[j] = buffer[j]
         /\ buffer'[Len(buffer')] = [cell |-> c, val |-> v]
BY DEF TypeOK, Put

(* What is stored stays stored when the boot hart stores more. *)
LEMMA PutStored ==
  ASSUME TypeOK, UNCHANGED mem, NEW c, NEW v, Put(c, v), NEW d
  PROVE  /\ \A n \in 0 .. Len(buffer) :
              Stored(d, n) => mem'[d] # "old" \/ \E j \in 1 .. n : buffer'[j].cell = d
         /\ Stored(d, Len(buffer)) \/ d = c => Stored(d, Len(buffer))'
<1>1. /\ Len(buffer) \in Nat /\ Len(buffer') = Len(buffer) + 1
      /\ \A j \in 1 .. Len(buffer) : buffer'[j] = buffer[j]
      /\ buffer'[Len(buffer')] = [cell |-> c, val |-> v]
  BY PutBuffer
<1>2. ASSUME NEW n \in 0 .. Len(buffer), Stored(d, n)
      PROVE  mem'[d] # "old" \/ \E j \in 1 .. n : buffer'[j].cell = d
  BY <1>1, <1>2 DEF Stored, Buffered
<1>3. Stored(d, Len(buffer)) => Stored(d, Len(buffer))'
  BY <1>1, <1>2 DEF Stored, Buffered
<1>4. d = c => Stored(d, Len(buffer))'
  BY <1>1 DEF Stored, Buffered
<1> QED BY <1>2, <1>3, <1>4

(* The other stores close up, in the order they had. *)
LEMMA DrainBuffer ==
  ASSUME TypeOK, NEW i \in 1 .. Len(buffer), Drain(i)
  PROVE  /\ Len(buffer) \in Nat /\ Len(buffer') = Len(buffer) - 1
         /\ \A j \in 1 .. Len(buffer') :
              Index(i, j) \in 1 .. Len(buffer) /\ buffer'[j] = buffer[Index(i, j)]
         /\ \A k \in 1 .. Len(buffer) : k # i =>
              \E j \in 1 .. Len(buffer') : (j <= k) /\ buffer'[j] = buffer[k]
<1>1. buffer \in Seq(Store) /\ Len(buffer) \in Nat
  BY DEF TypeOK, Store
<1>2. buffer' = SubSeq(buffer, 1, i - 1) \o SubSeq(buffer, i + 1, Len(buffer))
  BY DEF Drain
<1>3. /\ Len(buffer') = Len(buffer) - 1
      /\ \A j \in 1 .. Len(buffer') : buffer'[j] = buffer[Index(i, j)]
  <2> DEFINE A == SubSeq(buffer, 1, i - 1)
             B == SubSeq(buffer, i + 1, Len(buffer))
  <2>0. \A j \in 1 .. Len(buffer) : buffer[j] \in Store
    BY <1>1
  <2>1. A \in Seq(Store) /\ Len(A) = i - 1 /\ \A j \in 1 .. i - 1 : A[j] = buffer[j]
    <3>1. 1 \in Int /\ i - 1 \in Int /\ \A j \in 1 .. i - 1 : buffer[j] \in Store
      BY <1>1, <2>0
    <3> QED BY <3>1, SubSeqProperties
  <2>2. /\ B \in Seq(Store) /\ Len(B) = Len(buffer) - i
        /\ \A j \in 1 .. Len(buffer) - i : B[j] = buffer[i + j]
    <3>1. /\ i + 1 \in Int /\ Len(buffer) \in Int
          /\ \A j \in i + 1 .. Len(buffer) : buffer[j] \in Store
      BY <1>1, <2>0
    <3>2. /\ B \in Seq(Store)
          /\ Len(B) = IF i + 1 <= Len(buffer) THEN Len(buffer) - (i + 1) + 1 ELSE 0
          /\ \A j \in 1 .. Len(buffer) - (i + 1) + 1 : B[j] = buffer[i + 1 + j - 1]
      BY <3>1, SubSeqProperties
    <3> QED BY <3>2, <1>1
  <2> HIDE DEF A, B
  <2>3. Len(A \o B) = Len(A) + Len(B)
    BY <2>1, <2>2, ConcatProperties
  <2>4. \A j \in 1 .. Len(A) + Len(B) :
          (A \o B)[j] = IF j <= Len(A) THEN A[j] ELSE B[j - Len(A)]
    BY <2>1, <2>2, ConcatProperties
  <2>5. buffer' = A \o B
    BY <1>2 DEF A, B
  <2>6. Len(buffer') = Len(buffer) - 1
    <3>1. Len(buffer') = (i - 1) + (Len(buffer) - i)
      BY <2>1, <2>2, <2>3, <2>5
    <3> QED BY <3>1, <1>1
  <2>7. ASSUME NEW j \in 1 .. Len(buffer') PROVE buffer'[j] = buffer[Index(i, j)]
    <3>1. j \in 1 .. Len(A) + Len(B) /\ j \in Nat /\ Len(A) = i - 1 /\ i \in Nat
      BY <2>1, <2>2, <2>3, <2>5
    <3>2. buffer'[j] = IF j <= Len(A) THEN A[j] ELSE B[j - Len(A)]
      BY <3>1, <2>4, <2>5
    <3>3. CASE j < i
      BY <3>1, <3>2, <3>3, <2>1 DEF Index
    <3>4. CASE ~(j < i)
      <4>1. j - (i - 1) \in 1 .. Len(buffer) - i
        BY <3>1, <3>4, <2>2, <1>1
      <4>2. buffer'[j] = buffer[i + (j - (i - 1))]
        BY <4>1, <3>1, <3>2, <3>4, <2>2
      <4> QED BY <4>2, <3>1, <3>4 DEF Index
    <3> QED BY <3>3, <3>4
  <2> QED BY <2>6, <2>7
<1>4. ASSUME NEW k \in 1 .. Len(buffer), k # i
      PROVE  \E j \in 1 .. Len(buffer') : (j <= k) /\ buffer'[j] = buffer[k]
  <2>1. CASE k < i
    <3>1. k \in 1 .. Len(buffer') /\ Index(i, k) = k
      BY <2>1, <1>1, <1>3 DEF Index
    <3> QED BY <3>1, <1>1, <1>3
  <2>2. CASE k > i
    <3>1. k - 1 \in 1 .. Len(buffer') /\ Index(i, k - 1) = k
      BY <2>2, <1>1, <1>3 DEF Index
    <3> QED BY <3>1, <1>1, <1>3
  <2> QED BY <2>1, <2>2, <1>4, <1>1
<1> QED BY <1>1, <1>3, <1>4 DEF Index

(* What is stored stays stored when a store becomes visible. *)
LEMMA DrainStored ==
  ASSUME TypeOK, Entries, NEW i \in 1 .. Len(buffer), Drain(i), NEW d \in Cells
  PROVE  /\ mem[d] # "old" => mem'[d] # "old"
         /\ Stored(d, Len(buffer)) => Stored(d, Len(buffer))'
         /\ \A n \in 1 .. Len(buffer) :
              i = 1 /\ Stored(d, n) =>
                mem'[d] # "old" \/ \E j \in 1 .. n - 1 : buffer'[j].cell = d
<1>1. /\ mem' = [mem EXCEPT ![buffer[i].cell] = buffer[i].val]
      /\ buffer[i].val # "old" /\ mem \in [Cells -> Values] /\ i \in Nat
  BY DEF Drain, Entries, TypeOK
<1>2. mem'[d] = IF d = buffer[i].cell THEN buffer[i].val ELSE mem[d]
  BY <1>1
<1>3. /\ Len(buffer) \in Nat /\ Len(buffer') = Len(buffer) - 1
      /\ \A j \in 1 .. Len(buffer') :
           Index(i, j) \in 1 .. Len(buffer) /\ buffer'[j] = buffer[Index(i, j)]
      /\ \A k \in 1 .. Len(buffer) : k # i =>
           \E j \in 1 .. Len(buffer') : (j <= k) /\ buffer'[j] = buffer[k]
  BY DrainBuffer
<1>4. mem[d] # "old" => mem'[d] # "old"
  BY <1>1, <1>2
<1>5. Stored(d, Len(buffer)) => Stored(d, Len(buffer))'
  BY <1>1, <1>2, <1>3, <1>4 DEF Stored, Buffered
<1>6. ASSUME NEW n \in 1 .. Len(buffer), i = 1, Stored(d, n)
      PROVE  mem'[d] # "old" \/ \E j \in 1 .. n - 1 : buffer'[j].cell = d
  <2>1. CASE mem[d] # "old"
    BY <2>1, <1>4
  <2>2. CASE mem[d] = "old"
    <3>1. PICK k \in 1 .. n : buffer[k].cell = d
      BY <2>2, <1>6 DEF Stored, Buffered
    <3>2. CASE k = 1
      BY <3>1, <3>2, <1>6, <1>1, <1>2
    <3>3. CASE k # 1
      <4>1. /\ k - 1 \in 1 .. n - 1 /\ k - 1 \in 1 .. Len(buffer')
            /\ Index(i, k - 1) = k
        BY <3>3, <1>3, <1>6 DEF Index
      <4>2. buffer'[k - 1] = buffer[k]
        BY <4>1, <1>3
      <4> QED BY <4>1, <4>2, <3>1
    <3> QED BY <3>2, <3>3
  <2> QED BY <2>1, <2>2
<1> QED BY <1>4, <1>5, <1>6
-----------------------------------------------------------------------------
(***************************************************************************)
(* Types.                                                                  *)
(***************************************************************************)
(* A store of a cell and a value keeps the buffer a buffer. *)
LEMMA PutType ==
  ASSUME TypeOK, NEW c \in Cells, NEW v \in Values, Put(c, v)
  PROVE  buffer' \in Seq(Store)
<1>1. buffer \in Seq(Store)
  BY DEF TypeOK, Store
<1>2. [cell |-> c, val |-> v] \in Store
  BY DEF Store
<1> QED BY <1>1, <1>2, AppendProperties DEF Put

(* So does the store that becomes visible. *)
LEMMA DrainType ==
  ASSUME TypeOK, NEW i \in 1 .. Len(buffer), Drain(i)
  PROVE  buffer' \in Seq(Store) /\ mem' \in [Cells -> Values]
<1>1. buffer \in Seq(Store) /\ mem \in [Cells -> Values] /\ Len(buffer) \in Nat
  BY DEF TypeOK, Store
<1> DEFINE A == SubSeq(buffer, 1, i - 1)
           B == SubSeq(buffer, i + 1, Len(buffer))
<1>2. \A j \in 1 .. Len(buffer) : buffer[j] \in Store
  BY <1>1
<1>3. A \in Seq(Store)
  <2>1. 1 \in Int /\ i - 1 \in Int /\ \A j \in 1 .. i - 1 : buffer[j] \in Store
    BY <1>1, <1>2
  <2> QED BY <2>1, SubSeqProperties
<1>4. B \in Seq(Store)
  <2>1. /\ i + 1 \in Int /\ Len(buffer) \in Int
        /\ \A j \in i + 1 .. Len(buffer) : buffer[j] \in Store
    BY <1>1, <1>2
  <2> QED BY <2>1, SubSeqProperties
<1>5. A \o B \in Seq(Store)
  BY <1>3, <1>4, ConcatProperties
<1>6. mem' \in [Cells -> Values]
  BY <1>1, <1>2 DEF Drain, Store
<1> QED BY <1>5, <1>6 DEF Drain

(* Every step keeps the types. *)
LEMMA TypeNext == TypeOK /\ [Next]_vars => TypeOK'
<1> SUFFICES ASSUME TypeOK, [Next]_vars PROVE TypeOK'
  OBVIOUS
<1>1. Code \subseteq Cells /\ Payload \subseteq Cells /\ Spin \in Cells /\ Status \in Cells
      /\ Image \subseteq Cells
  BY DEF Cells, Image
<1>2. TypeOK' <=> /\ mem' \in [Cells -> Values] /\ buffer' \in Seq(Store)
                  /\ left' \subseteq Cells /\ boot' \in BootLabels
                  /\ pc' \in [Secondaries -> Labels]
                  /\ ahead' \in [Secondaries -> Values \union {"none"}]
  BY DEF TypeOK, Store
<1>3. /\ mem \in [Cells -> Values] /\ buffer \in Seq(Store)
      /\ left \subseteq Cells /\ boot \in BootLabels
      /\ pc \in [Secondaries -> Labels]
      /\ ahead \in [Secondaries -> Values \union {"none"}]
  BY DEF TypeOK, Store
<1>4. CASE Copy
  <2>1. PICK c \in left : Put(c, "new")
    BY <1>4 DEF Copy, CopyLoop
  <2>2. buffer' \in Seq(Store)
    BY <2>1, <1>3, PutType DEF Values
  <2> QED BY <1>2, <1>3, <1>4, <2>2 DEF Copy, CopyLoop, BootLabels, Secondary
<1>5. CASE RelocateDone
  <2>1. buffer' \in Seq(Store)
    BY <1>5, <1>1, PutType DEF RelocateDone, Values
  <2> QED BY <1>2, <1>3, <1>5, <2>1 DEF RelocateDone, BootLabels, Secondary
<1>6. CASE FenceStatus
  BY <1>1, <1>2, <1>3, <1>6 DEF FenceStatus, Fence, BootLabels, Secondary
<1>7. CASE Place
  <2>1. PICK c \in left : Put(c, "new")
    BY <1>7 DEF Place, CopyLoop
  <2>2. buffer' \in Seq(Store)
    BY <2>1, <1>3, PutType DEF Values
  <2> QED BY <1>2, <1>3, <1>7, <2>2 DEF Place, CopyLoop, BootLabels, Secondary
<1>8. CASE ReleaseSpin
  <2>1. buffer' \in Seq(Store)
    BY <1>8, <1>1, PutType DEF ReleaseSpin, Values
  <2> QED BY <1>2, <1>3, <1>8, <2>1 DEF ReleaseSpin, BootLabels, Secondary
<1>9. CASE FenceSpin
  BY <1>1, <1>2, <1>3, <1>9 DEF FenceSpin, Fence, BootLabels, Secondary
<1>10. CASE Visible
  <2>1. PICK i \in 1 .. Len(buffer) : Drain(i)
    BY <1>10 DEF Visible
  <2>2. buffer' \in Seq(Store) /\ mem' \in [Cells -> Values]
    BY <2>1, DrainType
  <2> QED BY <1>2, <1>3, <2>1, <2>2 DEF Drain, Secondary
<1>11. ASSUME NEW s \in Secondaries, Hart(s) PROVE TypeOK'
  <2>1. CASE WaitLoop(s)
    BY <1>2, <1>3, <2>1 DEF WaitLoop, Labels
  <2>2. CASE LoadAhead(s)
    BY <1>1, <1>2, <1>3, <2>2 DEF LoadAhead
  <2>3. CASE SpinLoop(s)
    BY <1>2, <1>3, <2>3 DEF SpinLoop, Labels
  <2> QED BY <1>11, <2>1, <2>2, <2>3 DEF Hart
<1>12. CASE UNCHANGED vars
  BY <1>2, <1>3, <1>12 DEF vars
<1> QED
  BY <1>4, <1>5, <1>6, <1>7, <1>8, <1>9, <1>10, <1>11, <1>12 DEF Next, Boot

(* The initial state is one of words, labels and an empty buffer. *)
LEMMA TypeInit == Init => TypeOK
BY EmptySeq DEF Init, TypeOK, Values, BootLabels, Labels, Image, Cells

(* Type correctness, on any machine. *)
THEOREM TypeCorrect == Spec => []TypeOK
BY TypeInit, TypeNext, PTL DEF Spec
-----------------------------------------------------------------------------
(***************************************************************************)
(* On any machine.                                                         *)
(***************************************************************************)
(* A step that leaves memory, buffer and boot hart alone. *)
LEMMA OthersKeep ==
  ASSUME IInv, TypeOK', UNCHANGED <<mem, buffer, left, boot>> PROVE IInv'
BY DEF IInv, Entries, Relocating, Placing, Releasing, Released, ImageVisible, Stored, Buffered

(* A word of the relocation loop: it is stored, and stays stored. *)
LEMMA CopyKeeps == ASSUME IInv, TypeOK', Copy PROVE IInv'
<1>0. TypeOK /\ UNCHANGED mem /\ boot = "_relocate_copy_loop"
  BY DEF IInv, Copy, CopyLoop
<1>1. PICK c \in left :
        /\ Put(c, "new")
        /\ IF left = {c}
           THEN boot' = "_relocate_done" /\ left' = {}
           ELSE boot' = "_relocate_copy_loop" /\ left' = left \ {c}
  BY DEF Copy, CopyLoop
<1>2. /\ Len(buffer) \in Nat /\ Len(buffer') = Len(buffer) + 1
      /\ \A j \in 1 .. Len(buffer) : buffer'[j] = buffer[j]
      /\ buffer'[Len(buffer')] = [cell |-> c, val |-> "new"]
  BY <1>0, <1>1, PutBuffer
<1>3. \A d : Stored(d, Len(buffer)) \/ d = c => Stored(d, Len(buffer))'
  BY <1>0, <1>1, PutStored
<1>4. Entries'
  BY <1>0, <1>2 DEF IInv, Entries
<1>5. Relocating'
  <2>1. boot' \in {"_relocate_copy_loop", "_relocate_done"} /\ c \in Image
    BY <1>0, <1>1 DEF IInv, Relocating
  <2>2. \A i \in 1 .. Len(buffer') : buffer'[i].cell \in Image \union {Status}
    BY <1>0, <1>2, <2>1 DEF IInv, Relocating
  <2>3. ASSUME NEW d \in Image
        PROVE  (boot' = "_relocate_copy_loop" /\ d \in left') \/ Stored(d, Len(buffer))'
    BY <1>0, <1>1, <1>3 DEF IInv, Relocating
  <2>4. boot' = "_relocate_copy_loop" => left' \subseteq Image
    BY <1>0, <1>1 DEF IInv, Relocating
  <2> QED BY <1>0, <2>1, <2>2, <2>3, <2>4 DEF IInv, Relocating
<1>6. Placing' /\ Releasing' /\ Released'
  BY <1>1 DEF Placing, Releasing, Released
<1> QED BY <1>4, <1>5, <1>6 DEF IInv

(* The status is stored last, *)
LEMMA RelocateDoneKeeps == ASSUME IInv, TypeOK', RelocateDone PROVE IInv'
<1>0. /\ TypeOK /\ UNCHANGED mem /\ boot = "_relocate_done" /\ boot' = "fence_189"
      /\ Put(Status, "new")
  BY DEF IInv, RelocateDone
<1>2. /\ Len(buffer) \in Nat /\ Len(buffer') = Len(buffer) + 1
      /\ \A j \in 1 .. Len(buffer) : buffer'[j] = buffer[j]
      /\ buffer'[Len(buffer')] = [cell |-> Status, val |-> "new"]
  BY <1>0, PutBuffer
<1>3. \A d : Stored(d, Len(buffer)) \/ d = Status => Stored(d, Len(buffer))'
  BY <1>0, PutStored
<1>4. Entries'
  BY <1>0, <1>2 DEF IInv, Entries
<1>5. Relocating'
  <2>2. \A i \in 1 .. Len(buffer') : buffer'[i].cell \in Image \union {Status}
    BY <1>0, <1>2 DEF IInv, Relocating
  <2>3. \A d \in Image : Stored(d, Len(buffer))'
    BY <1>0, <1>3 DEF IInv, Relocating
  <2> QED BY <1>0, <1>3, <2>2, <2>3 DEF IInv, Relocating
<1>6. Placing' /\ Releasing' /\ Released'
  BY <1>0 DEF Placing, Releasing, Released
<1> QED BY <1>4, <1>5, <1>6 DEF IInv

(* and the fence of head.S:189 makes image and status visible. *)
LEMMA FenceStatusKeeps == ASSUME IInv, TypeOK', FenceStatus PROVE IInv'
<1>0. /\ TypeOK /\ UNCHANGED <<mem, buffer>> /\ boot = "fence_189" /\ boot' = "memcpy"
      /\ buffer = <<>> /\ left' = Payload
  BY DEF IInv, FenceStatus, Fence
<1>1. Len(buffer) = 0 /\ \A d : Stored(d, Len(buffer)) => mem[d] # "old"
  BY <1>0 DEF Stored, Buffered
<1>2. /\ \A c \in Image : mem[c] # "old"
      /\ mem[Status] # "old"
  BY <1>0, <1>1 DEF IInv, Relocating
<1>3. mem[Status] = "new"
  <2>1. mem[Status] # "entry" /\ mem[Status] \in Values
    BY OrderAssumed DEF IInv, Entries, TypeOK, OrderAssumption, Cells
  <2> QED BY <1>2, <2>1 DEF Values
<1>4. Entries' /\ Relocating' /\ Releasing' /\ Released'
  BY <1>0 DEF IInv, Entries, Relocating, Releasing, Released
<1>5. Placing'
  BY <1>0, <1>1, <1>2, <1>3 DEF Placing, ImageVisible
<1> QED BY <1>4, <1>5 DEF IInv

(* A word of zstage_main's copies. *)
LEMMA PlaceKeeps == ASSUME IInv, TypeOK', Place PROVE IInv'
<1>0. TypeOK /\ UNCHANGED mem /\ boot = "memcpy"
  BY DEF IInv, Place, CopyLoop
<1>1. PICK c \in left :
        /\ Put(c, "new")
        /\ IF left = {c}
           THEN boot' = "_release_spin" /\ left' = {}
           ELSE boot' = "memcpy" /\ left' = left \ {c}
  BY DEF Place, CopyLoop
<1>2. /\ Len(buffer) \in Nat /\ Len(buffer') = Len(buffer) + 1
      /\ \A j \in 1 .. Len(buffer) : buffer'[j] = buffer[j]
      /\ buffer'[Len(buffer')] = [cell |-> c, val |-> "new"]
  BY <1>0, <1>1, PutBuffer
<1>3. \A d : Stored(d, Len(buffer)) \/ d = c => Stored(d, Len(buffer))'
  BY <1>0, <1>1, PutStored
<1>4. Entries'
  BY <1>0, <1>2 DEF IInv, Entries
<1>5. Placing'
  <2>1. boot' \in {"memcpy", "_release_spin"} /\ c \in Payload /\ ImageVisible'
    BY <1>0, <1>1 DEF IInv, Placing, ImageVisible
  <2>2. \A i \in 1 .. Len(buffer') : buffer'[i].cell \in Payload
    BY <1>0, <1>2, <2>1 DEF IInv, Placing
  <2>3. ASSUME NEW d \in Payload
        PROVE  (boot' = "memcpy" /\ d \in left') \/ Stored(d, Len(buffer))'
    BY <1>0, <1>1, <1>3 DEF IInv, Placing
  <2>4. boot' = "memcpy" => left' \subseteq Payload
    BY <1>0, <1>1 DEF IInv, Placing
  <2> QED BY <2>1, <2>2, <2>3, <2>4 DEF Placing
<1>6. Relocating' /\ Releasing' /\ Released'
  BY <1>1 DEF Relocating, Releasing, Released
<1> QED BY <1>4, <1>5, <1>6 DEF IInv

(* The spin word is stored behind them, *)
LEMMA ReleaseSpinKeeps == ASSUME IInv, TypeOK', ReleaseSpin PROVE IInv'
<1>0. /\ TypeOK /\ UNCHANGED mem /\ boot = "_release_spin" /\ boot' = "fence_218"
      /\ Put(Spin, "entry")
  BY DEF IInv, ReleaseSpin
<1>2. /\ Len(buffer) \in Nat /\ Len(buffer') = Len(buffer) + 1
      /\ \A j \in 1 .. Len(buffer) : buffer'[j] = buffer[j]
      /\ buffer'[Len(buffer')] = [cell |-> Spin, val |-> "entry"]
  BY <1>0, PutBuffer
<1>3. \A d : Stored(d, Len(buffer)) \/ d = Spin => Stored(d, Len(buffer))'
  BY <1>0, PutStored
<1>4. Entries'
  BY <1>0, <1>2 DEF IInv, Entries
<1>5. Releasing'
  <2>1. ImageVisible' /\ \A d \in Payload : Stored(d, Len(buffer))'
    BY <1>0, <1>3 DEF IInv, Placing, ImageVisible
  <2>2. \A i \in 1 .. Len(buffer') :
          buffer'[i].cell \in Payload \/ buffer'[i] = [cell |-> Spin, val |-> "entry"]
    BY <1>0, <1>2 DEF IInv, Placing
  <2>3. Buffered(Spin, Len(buffer))'
    BY <1>2 DEF Buffered
  <2> QED BY <2>1, <2>2, <2>3 DEF Releasing
<1>6. Relocating' /\ Placing' /\ Released'
  BY <1>0 DEF Relocating, Placing, Released
<1> QED BY <1>4, <1>5, <1>6 DEF IInv

(* and the fence of head.S:218 makes all of it visible. *)
LEMMA FenceSpinKeeps == ASSUME IInv, TypeOK', FenceSpin PROVE IInv'
<1>0. /\ TypeOK /\ UNCHANGED <<mem, buffer>> /\ boot = "fence_218" /\ boot' = "_jump"
      /\ buffer = <<>>
  BY DEF IInv, FenceSpin, Fence
<1>1. Len(buffer) = 0 /\ \A d : Stored(d, Len(buffer)) => mem[d] # "old"
  BY <1>0 DEF Stored, Buffered
<1>2. mem[Spin] = "entry"
  BY <1>0, <1>1 DEF IInv, Releasing, Buffered
<1>3. ASSUME NEW c \in Payload PROVE mem[c] = "new"
  <2>1. mem[c] # "old"
    BY <1>0, <1>1 DEF IInv, Releasing
  <2>2. mem[c] # "entry" /\ mem[c] \in Values
    BY OrderAssumed DEF IInv, Entries, TypeOK, OrderAssumption, Cells
  <2> QED BY <2>1, <2>2 DEF Values
<1>4. Entries' /\ Relocating' /\ Placing' /\ Releasing'
  BY <1>0 DEF IInv, Entries, Relocating, Placing, Releasing
<1>5. Released'
  BY <1>0, <1>2, <1>3 DEF IInv, Releasing, Released, ImageVisible
<1> QED BY <1>4, <1>5 DEF IInv

(* A store that becomes visible leaves everything stored, and nothing in    *)
(* the buffer but what was there.                                           *)
LEMMA DrainKeeps ==
  ASSUME IInv, TypeOK', NEW i \in 1 .. Len(buffer), Drain(i)
  PROVE  IInv'
<1>0. TypeOK /\ Entries /\ UNCHANGED <<left, boot>>
  BY DEF IInv, Drain
<1>1. /\ Len(buffer) \in Nat /\ Len(buffer') = Len(buffer) - 1
      /\ \A j \in 1 .. Len(buffer') :
           \E k \in 1 .. Len(buffer) : buffer'[j] = buffer[k]
      /\ \A k \in 1 .. Len(buffer) : k # i =>
           \E j \in 1 .. Len(buffer') : (j <= k) /\ buffer'[j] = buffer[k]
  BY <1>0, DrainBuffer
<1>2. \A d \in Cells :
        mem'[d] = IF d = buffer[i].cell THEN buffer[i].val ELSE mem[d]
  BY <1>0 DEF Drain, TypeOK
<1>3. \A d \in Cells : /\ mem[d] # "old" => mem'[d] # "old"
                       /\ Stored(d, Len(buffer)) => Stored(d, Len(buffer))'
  BY <1>0, DrainStored
<1>4. /\ buffer[i].cell \in Cells /\ buffer[i].val \in Values \ {"old"}
      /\ Code \union Payload \union {Spin, Status} \subseteq Cells
      /\ Image \subseteq Cells /\ Status \notin Image \union Payload
      /\ Image \cap Payload = {} /\ Status # Spin
  <2>1. /\ buffer[i].cell \in Cells /\ buffer[i].val \in Values
        /\ buffer[i].val # "old"
    BY <1>0, BufferStore DEF Entries
  <2>2. /\ Code \union Payload \union {Spin, Status} \subseteq Cells
        /\ Image \subseteq Cells /\ Status \notin Image \union Payload
        /\ Image \cap Payload = {} /\ Status # Spin
    BY OrderAssumed DEF OrderAssumption, Cells, Image
  <2> QED BY <2>1, <2>2
<1>5. Entries'
  BY <1>0, <1>1, <1>2, <1>4 DEF Entries
<1>6. ImageVisible => ImageVisible'
  BY <1>0, <1>2, <1>3, <1>4 DEF ImageVisible, Entries, Values
<1>7. Relocating'
  <2> SUFFICES ASSUME boot \in {"_relocate_copy_loop", "_relocate_done", "fence_189"}
               PROVE  Relocating'
    BY <1>0 DEF Relocating
  <2>1. \A c \in Payload : mem'[c] = "old"
    BY <1>2, <1>4 DEF IInv, Relocating
  <2>2. \A j \in 1 .. Len(buffer') : buffer'[j].cell \in Image \union {Status}
    BY <1>1 DEF IInv, Relocating
  <2>3. /\ \A c \in Image :
             (boot = "_relocate_copy_loop" /\ c \in left) \/ Stored(c, Len(buffer))'
        /\ boot = "fence_189" => Stored(Status, Len(buffer))'
        /\ boot = "_relocate_copy_loop" => left \subseteq Image
    BY <1>3, <1>4 DEF IInv, Relocating
  <2> QED BY <1>0, <2>1, <2>2, <2>3 DEF Relocating
<1>8. Placing'
  <2> SUFFICES ASSUME boot \in {"memcpy", "_release_spin"} PROVE Placing'
    BY <1>0 DEF Placing
  <2>1. \A j \in 1 .. Len(buffer') : buffer'[j].cell \in Payload
    BY <1>1 DEF IInv, Placing
  <2>2. /\ \A c \in Payload : (boot = "memcpy" /\ c \in left) \/ Stored(c, Len(buffer))'
        /\ boot = "memcpy" => left \subseteq Payload
    BY <1>3, <1>4 DEF IInv, Placing
  <2> QED BY <1>0, <1>6, <2>1, <2>2 DEF IInv, Placing
<1>9. Releasing'
  <2> SUFFICES ASSUME boot = "fence_218" PROVE Releasing'
    BY <1>0 DEF Releasing
  <2>1. \A j \in 1 .. Len(buffer') :
          buffer'[j].cell \in Payload \/ buffer'[j] = [cell |-> Spin, val |-> "entry"]
    BY <1>1 DEF IInv, Releasing
  <2>2. \A c \in Payload : Stored(c, Len(buffer))'
    BY <1>3, <1>4 DEF IInv, Releasing
  <2>3. mem'[Spin] = "entry" \/ Buffered(Spin, Len(buffer))'
    <3>1. Spin \notin Payload /\ Spin \in Cells
      BY <1>4, OrderAssumed DEF OrderAssumption
    <3>2. CASE buffer[i].cell = Spin
      <4>1. buffer[i] = [cell |-> Spin, val |-> "entry"]
        BY <3>1, <3>2 DEF IInv, Releasing
      <4> QED BY <4>1, <3>1, <1>2
    <3>3. CASE buffer[i].cell # Spin
      <4>1. mem'[Spin] = mem[Spin]
        BY <3>1, <3>3, <1>2
      <4>2. Buffered(Spin, Len(buffer)) => Buffered(Spin, Len(buffer))'
        BY <3>3, <1>1 DEF Buffered
      <4> QED BY <4>1, <4>2 DEF IInv, Releasing
    <3> QED BY <3>2, <3>3
  <2> QED BY <1>0, <1>6, <2>1, <2>2, <2>3 DEF IInv, Releasing
<1>10. Released'
  BY <1>0, <1>1 DEF IInv, Released
<1> QED BY <1>5, <1>7, <1>8, <1>9, <1>10 DEF IInv

(* At reset nothing is stored but the old words. *)
LEMMA IInvInit == Init => IInv
<1> SUFFICES ASSUME Init PROVE IInv
  OBVIOUS
<1>1. TypeOK /\ Len(buffer) = 0
  BY TypeInit DEF Init
<1>2. Payload \subseteq Cells /\ Image \subseteq Cells
  BY DEF Cells
<1> QED
  BY <1>1, <1>2 DEF Init, IInv, Entries, Relocating, Placing, Releasing, Released

(* Every step of every hart, and every store that becomes visible, keeps    *)
(* the invariant.                                                           *)
LEMMA IInvNext == IInv /\ [Next]_vars => IInv'
<1> SUFFICES ASSUME IInv, [Next]_vars PROVE IInv'
  OBVIOUS
<1>1. TypeOK'
  BY TypeNext DEF IInv
<1>2. CASE Boot
  BY <1>1, <1>2, CopyKeeps, RelocateDoneKeeps, FenceStatusKeeps, PlaceKeeps,
     ReleaseSpinKeeps, FenceSpinKeeps DEF Boot
<1>3. CASE Visible
  BY <1>1, <1>3, DrainKeeps DEF Visible
<1>4. ASSUME NEW s \in Secondaries, Hart(s) PROVE IInv'
  <2>1. UNCHANGED <<mem, buffer, left, boot>>
    BY <1>4 DEF Hart, WaitLoop, LoadAhead, SpinLoop
  <2> QED BY <1>1, <2>1, OthersKeep
<1>5. CASE UNCHANGED vars
  BY <1>1, <1>5, OthersKeep DEF vars
<1> QED BY <1>2, <1>3, <1>4, <1>5 DEF Next

(* The inductive invariant holds in every reachable state, on any machine.  *)
THEOREM Invariance == Spec => []IInv
BY IInvInit, IInvNext, PTL DEF Spec

(* The fence of head.S:189, on any machine: whoever sees a word zstage_main *)
(* has placed sees the relocated image and the status as well.              *)
THEOREM PayloadFollowsImage == Spec => []PayloadAfterImage
<1>1. IInv => PayloadAfterImage
  <2> SUFFICES ASSUME IInv, NEW c \in Payload, mem[c] = "new"
               PROVE  ImageVisible
    BY DEF PayloadAfterImage, ImageVisible
  <2>1. boot \notin {"_relocate_copy_loop", "_relocate_done", "fence_189"}
    BY DEF IInv, Relocating
  <2>2. boot \in {"memcpy", "_release_spin", "fence_218", "_jump"}
    BY <2>1 DEF IInv, TypeOK, BootLabels
  <2> QED BY <2>2 DEF IInv, Placing, Releasing, Released
<1> QED BY <1>1, Invariance, PTL

(* The fence of head.S:218, on any machine: the boot hart leaves zStage     *)
(* only when the release and what it releases the others to can be seen.    *)
THEOREM JumpFollowsRelease == Spec => []ReleasedAtJump
<1>1. IInv => ReleasedAtJump
  BY DEF IInv, Released, ReleasedAtJump
<1> QED BY <1>1, Invariance, PTL
-----------------------------------------------------------------------------
(***************************************************************************)
(* Where loads and stores stay in program order.                           *)
(***************************************************************************)
(* A store the boot hart puts behind the others keeps what they announce,   *)
(* if what it announces itself has been stored.                             *)
LEMMA PutInOrder ==
  ASSUME OrderInv, TypeOK', UNCHANGED mem, NEW c, NEW v, Put(c, v),
         c = Status => \A d \in Image : Stored(d, Len(buffer)),
         v = "entry" => \A d \in Payload : Stored(d, Len(buffer))
  PROVE  StatusLast' /\ SpinLast'
<1>0. TypeOK
  BY DEF OrderInv, IInv
<1>1. /\ Len(buffer) \in Nat /\ Len(buffer') = Len(buffer) + 1
      /\ \A j \in 1 .. Len(buffer) : buffer'[j] = buffer[j]
      /\ buffer'[Len(buffer')] = [cell |-> c, val |-> v]
  BY <1>0, PutBuffer
<1>2. ASSUME NEW d, NEW n \in 0 .. Len(buffer), Stored(d, n)
      PROVE  mem'[d] # "old" \/ \E j \in 1 .. n : buffer'[j].cell = d
  BY <1>0, <1>2, PutStored
<1>3. ASSUME NEW k \in 1 .. Len(buffer'), buffer'[k].cell = Status, NEW d \in Image
      PROVE  mem'[d] # "old" \/ \E j \in 1 .. k - 1 : buffer'[j].cell = d
  <2>1. k - 1 \in 0 .. Len(buffer)
    BY <1>1
  <2>2. Stored(d, k - 1)
    <3>1. CASE k = Len(buffer')
      BY <3>1, <1>1, <1>3
    <3>2. CASE k # Len(buffer')
      <4>1. k \in 1 .. Len(buffer) /\ buffer[k].cell = Status
        BY <3>2, <1>1, <1>3
      <4> QED BY <4>1 DEF OrderInv, StatusLast
    <3> QED BY <3>1, <3>2
  <2> QED BY <2>1, <2>2, <1>2
<1>4. ASSUME NEW k \in 1 .. Len(buffer'), buffer'[k].val = "entry", NEW d \in Payload
      PROVE  mem'[d] # "old" \/ \E j \in 1 .. k - 1 : buffer'[j].cell = d
  <2>1. k - 1 \in 0 .. Len(buffer)
    BY <1>1
  <2>2. Stored(d, k - 1)
    <3>1. CASE k = Len(buffer')
      BY <3>1, <1>1, <1>4
    <3>2. CASE k # Len(buffer')
      <4>1. k \in 1 .. Len(buffer) /\ buffer[k].val = "entry"
        BY <3>2, <1>1, <1>4
      <4> QED BY <4>1 DEF OrderInv, SpinLast
    <3> QED BY <3>1, <3>2
  <2> QED BY <2>1, <2>2, <1>2
<1>5. StatusLast'
  BY <1>3 DEF OrderInv, StatusLast, Stored, Buffered
<1>6. SpinLast'
  BY <1>4 DEF OrderInv, SpinLast, Stored, Buffered
<1> QED BY <1>5, <1>6

(* The boot hart announces nothing it has not stored. *)
LEMMA BootInOrder ==
  ASSUME OrderInv, TypeOK', Boot PROVE StatusLast' /\ SpinLast'
<1>1. Status \notin Image \union Payload
  BY OrderAssumed DEF OrderAssumption, Image
<1>2. CASE Copy
  <2>1. PICK c \in left : Put(c, "new") /\ UNCHANGED mem /\ c \in Image
    BY <1>2 DEF Copy, CopyLoop, OrderInv, IInv, Relocating
  <2> QED BY <1>1, <2>1, PutInOrder
<1>3. CASE RelocateDone
  <2>1. Put(Status, "new") /\ UNCHANGED mem /\ \A d \in Image : Stored(d, Len(buffer))
    BY <1>3 DEF RelocateDone, OrderInv, IInv, Relocating
  <2> QED BY <2>1, PutInOrder
<1>4. CASE Place
  <2>1. PICK c \in left : Put(c, "new") /\ UNCHANGED mem /\ c \in Payload
    BY <1>4 DEF Place, CopyLoop, OrderInv, IInv, Placing
  <2> QED BY <1>1, <2>1, PutInOrder
<1>5. CASE ReleaseSpin
  <2>1. Put(Spin, "entry") /\ UNCHANGED mem /\ \A d \in Payload : Stored(d, Len(buffer))
    BY <1>5 DEF ReleaseSpin, OrderInv, IInv, Placing
  <2>2. Spin # Status
    BY OrderAssumed DEF OrderAssumption
  <2> QED BY <2>1, <2>2, PutInOrder
<1>6. CASE FenceStatus \/ FenceSpin
  <2>1. UNCHANGED <<mem, buffer>>
    BY <1>6 DEF FenceStatus, FenceSpin, Fence
  <2> QED BY <2>1 DEF OrderInv, StatusLast, SpinLast, Stored, Buffered
<1> QED BY <1>2, <1>3, <1>4, <1>5, <1>6 DEF Boot

(* The store at the head of the buffer becomes visible: what it announces   *)
(* was ahead of it, so is visible already.                                  *)
LEMMA DrainInOrder ==
  ASSUME InOrder, OrderInv, TypeOK', NEW i \in 1 .. Len(buffer), Drain(i)
  PROVE  StatusLast' /\ SpinLast'
<1>0. TypeOK /\ Entries /\ i = 1
  BY DEF OrderInv, IInv, Drain
<1>1. /\ Len(buffer) \in Nat /\ Len(buffer') = Len(buffer) - 1
      /\ \A j \in 1 .. Len(buffer') :
           Index(i, j) \in 1 .. Len(buffer) /\ buffer'[j] = buffer[Index(i, j)]
  BY <1>0, DrainBuffer
<1>2. \A j \in 1 .. Len(buffer') : j + 1 \in 1 .. Len(buffer) /\ buffer'[j] = buffer[j + 1]
  BY <1>0, <1>1 DEF Index
<1>3. \A d \in Cells :
        mem'[d] = IF d = buffer[1].cell THEN buffer[1].val ELSE mem[d]
  BY <1>0 DEF Drain, TypeOK
<1>4. ASSUME NEW d \in Cells
      PROVE  /\ mem[d] # "old" => mem'[d] # "old"
             /\ \A n \in 1 .. Len(buffer) : Stored(d, n) =>
                  mem'[d] # "old" \/ \E j \in 1 .. n - 1 : buffer'[j].cell = d
  BY <1>0, DrainStored
<1>5. /\ Image \subseteq Cells /\ Payload \subseteq Cells /\ Status \in Cells
      /\ Spin \in Cells /\ Status # Spin /\ Spin \notin Payload
  BY OrderAssumed DEF OrderAssumption, Cells, Image
<1>6. buffer[1].cell \in Cells /\ buffer[1].val \in Values /\ buffer[1].val # "old"
  BY <1>0, BufferStore DEF Entries
<1>7. StatusLast'
  <2>1. ASSUME mem'[Status] = "new", NEW c \in Image PROVE mem'[c] # "old"
    <3>1. CASE buffer[1].cell = Status
      <4>1. Stored(c, 0)
        BY <3>1, <1>0 DEF OrderInv, StatusLast
      <4> QED BY <4>1, <1>4, <1>5 DEF Stored, Buffered
    <3>2. CASE buffer[1].cell # Status
      <4>1. mem[Status] = "new"
        BY <2>1, <3>2, <1>3, <1>5
      <4> QED BY <4>1, <1>4, <1>5 DEF OrderInv, StatusLast
    <3> QED BY <3>1, <3>2
  <2>2. ASSUME NEW j \in 1 .. Len(buffer'), buffer'[j].cell = Status, NEW c \in Image
        PROVE  mem'[c] # "old" \/ \E k \in 1 .. j - 1 : buffer'[k].cell = c
    <3>1. j + 1 \in 1 .. Len(buffer) /\ buffer[j + 1].cell = Status
      BY <1>2, <2>2
    <3>2. Stored(c, (j + 1) - 1)
      BY <3>1 DEF OrderInv, StatusLast
    <3>3. (j + 1) - 1 = j /\ j \in 1 .. Len(buffer)
      BY <3>1, <1>1
    <3> QED BY <3>2, <3>3, <1>4, <1>5
  <2> QED BY <2>1, <2>2 DEF StatusLast, Stored, Buffered
<1>8. SpinLast'
  <2>1. ASSUME mem'[Spin] = "entry", NEW c \in Payload PROVE mem'[c] = "new"
    <3>1. mem'[c] # "old"
      <4>1. CASE buffer[1].cell = Spin
        <5>1. buffer[1].val = "entry"
          BY <2>1, <4>1, <1>3, <1>5
        <5>2. Stored(c, 0)
          BY <5>1, <1>0 DEF OrderInv, SpinLast
        <5> QED BY <5>2, <1>4, <1>5 DEF Stored, Buffered
      <4>2. CASE buffer[1].cell # Spin
        <5>1. mem[Spin] = "entry"
          BY <2>1, <4>2, <1>3, <1>5
        <5>2. mem[c] = "new"
          BY <5>1 DEF OrderInv, SpinLast
        <5> QED BY <5>2, <1>4, <1>5
      <4> QED BY <4>1, <4>2
    <3>2. mem'[c] \in Values /\ mem'[c] # "entry"
      BY <1>0, <1>3, <1>5, <1>6 DEF TypeOK, Entries
    <3> QED BY <3>1, <3>2 DEF Values
  <2>2. ASSUME NEW j \in 1 .. Len(buffer'), buffer'[j].val = "entry", NEW c \in Payload
        PROVE  mem'[c] # "old" \/ \E k \in 1 .. j - 1 : buffer'[k].cell = c
    <3>1. j + 1 \in 1 .. Len(buffer) /\ buffer[j + 1].val = "entry"
      BY <1>2, <2>2
    <3>2. Stored(c, (j + 1) - 1)
      BY <3>1 DEF OrderInv, SpinLast
    <3>3. (j + 1) - 1 = j /\ j \in 1 .. Len(buffer)
      BY <3>1, <1>1
    <3> QED BY <3>2, <3>3, <1>4, <1>5
  <2> QED BY <2>1, <2>2 DEF SpinLast, Stored, Buffered
<1> QED BY <1>7, <1>8

(* Words that are new stay new. *)
LEMMA NewStays ==
  ASSUME IInv, NEW i \in 1 .. Len(buffer), Drain(i), NEW c \in Cells \ {Spin}, mem[c] = "new"
  PROVE  mem'[c] = "new"
<1>1. mem' = [mem EXCEPT ![buffer[i].cell] = buffer[i].val] /\ mem \in [Cells -> Values]
  BY DEF Drain, IInv, TypeOK
<1>2. /\ buffer[i].cell \in Cells /\ buffer[i].val \in Values
      /\ buffer[i].val # "old" /\ (buffer[i].val = "entry" => buffer[i].cell = Spin)
  BY BufferStore DEF IInv, Entries
<1> QED BY <1>1, <1>2 DEF Values

(* The waiting harts go on only after the status, and after the release. *)
LEMMA SecondariesInOrder ==
  ASSUME InOrder, OrderInv, TypeOK', [Next]_vars PROVE SecondariesFollow'
<1>0. IInv /\ TypeOK /\ SecondariesFollow
  BY DEF OrderInv, IInv
<1>1. Status \in Cells \ {Spin} /\ Payload \subseteq Cells \ {Spin}
  BY OrderAssumed DEF OrderAssumption, Cells
<1>2. CASE Boot
  <2>1. UNCHANGED <<mem, Secondary>>
    BY <1>2 DEF Boot, Copy, CopyLoop, RelocateDone, FenceStatus, Fence, Place,
       ReleaseSpin, FenceSpin
  <2> QED BY <1>0, <2>1 DEF SecondariesFollow, Secondary
<1>3. CASE Visible
  <2>1. PICK i \in 1 .. Len(buffer) : Drain(i)
    BY <1>3 DEF Visible
  <2>2. UNCHANGED Secondary
    BY <2>1 DEF Drain
  <2>3. \A c \in Cells \ {Spin} : mem[c] = "new" => mem'[c] = "new"
    BY <1>0, <2>1, NewStays
  <2> QED BY <1>0, <1>1, <2>2, <2>3 DEF SecondariesFollow, Secondary
<1>4. ASSUME NEW s \in Secondaries, Hart(s) PROVE SecondariesFollow'
  <2>1. UNCHANGED mem /\ pc \in [Secondaries -> Labels] /\ DOMAIN ahead = Secondaries
    BY <1>0, <1>4 DEF Hart, WaitLoop, LoadAhead, SpinLoop, TypeOK
  <2>2. CASE WaitLoop(s)
    BY <1>0, <2>1, <2>2 DEF WaitLoop, SecondariesFollow
  <2>3. CASE LoadAhead(s)
    BY <2>3 DEF LoadAhead
  <2>4. CASE SpinLoop(s)
    <3>1. ahead[s] = "none" /\ mem[Status] = "new"
      BY <1>0, <2>4 DEF SpinLoop, SecondariesFollow
    <3>2. \A g \in Secondaries : ahead'[g] = "none"
      BY <1>0, <2>1, <2>4 DEF SpinLoop, SecondariesFollow
    <3>3. \A g \in Secondaries \ {s} : pc'[g] = pc[g]
      BY <2>1, <2>4 DEF SpinLoop
    <3>4. mem[Spin] \in Values
      BY <1>0 DEF TypeOK, Cells, Image
    <3>5. pc'[s] = "joined" => mem[Spin] = "entry"
      BY <2>1, <2>4, <3>1, <3>4 DEF SpinLoop, Values
    <3>6. pc'[s] = "joined" => \A c \in Payload : mem[c] = "new"
      BY <3>5 DEF OrderInv, SpinLast
    <3> QED BY <1>0, <2>1, <3>1, <3>2, <3>3, <3>6 DEF SecondariesFollow
  <2> QED BY <1>4, <2>2, <2>3, <2>4 DEF Hart
<1>5. CASE UNCHANGED vars
  BY <1>0, <1>5 DEF SecondariesFollow, vars
<1> QED BY <1>2, <1>3, <1>4, <1>5 DEF Next

(* In program order the invariant is kept with its second half. *)
LEMMA OrderNext == InOrder /\ OrderInv /\ [Next]_vars => OrderInv'
<1> SUFFICES ASSUME InOrder, OrderInv, [Next]_vars PROVE OrderInv'
  OBVIOUS
<1>1. IInv' /\ TypeOK' /\ SecondariesFollow'
  BY IInvNext, TypeNext, SecondariesInOrder DEF OrderInv, IInv
<1>2. CASE Boot
  BY <1>1, <1>2, BootInOrder DEF OrderInv
<1>3. CASE Visible
  BY <1>1, <1>3, DrainInOrder DEF OrderInv, Visible
<1>4. CASE UNCHANGED <<mem, buffer>>
  BY <1>1, <1>4 DEF OrderInv, StatusLast, SpinLast, Stored, Buffered
<1>5. (\E s \in Secondaries : Hart(s)) \/ UNCHANGED vars => UNCHANGED <<mem, buffer>>
  BY DEF Hart, WaitLoop, LoadAhead, SpinLoop, vars
<1> QED BY <1>2, <1>3, <1>4, <1>5 DEF Next

(* At reset nobody has gone on, and nothing is announced. *)
LEMMA OrderInit == Init => OrderInv
<1> SUFFICES ASSUME Init PROVE OrderInv
  OBVIOUS
<1>1. Len(buffer) = 0 /\ Spin \in Cells /\ Status \in Cells
  BY DEF Init, Cells, Image
<1>2. StatusLast /\ SpinLast /\ SecondariesFollow
  BY <1>1 DEF Init, StatusLast, SpinLast, SecondariesFollow
<1> QED BY <1>2, IInvInit DEF OrderInv

(* In program order both halves hold in every reachable state. *)
THEOREM OrderInvariance == ASSUME InOrder PROVE Spec => []OrderInv
BY OrderInit, OrderNext, PTL DEF Spec

(* In program order, the status word of head.S:188 means to a waiting hart  *)
(* what it takes it to mean: the image is there.                            *)
THEOREM StatusIsTrue == ASSUME InOrder PROVE Spec => []FlagMeansCopied
<1>1. OrderInv => FlagMeansCopied
  BY DEF OrderInv, StatusLast, SecondariesFollow, FlagMeansCopied
<1> QED BY <1>1, OrderInvariance, PTL

(* In program order, the spin word of head.S:217 sends no hart to a next    *)
(* stage that it does not see whole.                                        *)
THEOREM SpinIsTrue == ASSUME InOrder PROVE Spec => []SpinMeansPlaced
<1>1. OrderInv => SpinMeansPlaced
  BY DEF OrderInv, SecondariesFollow, SpinMeansPlaced
<1> QED BY <1>1, OrderInvariance, PTL
=============================================================================

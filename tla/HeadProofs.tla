----------------------------- MODULE HeadProofs -----------------------------
(***************************************************************************)
(* What holds of Head whatever the number of harts, the addresses, the     *)
(* image and the blobs.                                                    *)
(***************************************************************************)
EXTENDS Head, TLAPS

(***************************************************************************)
(* The layout the safety theorems need: the copies zstage_main makes miss  *)
(* the image where it runs and where it was loaded, and the image was not  *)
(* loaded so that relocating it downwards overwrites the header the losers *)
(* still read while BRANGE finds nothing wrong.                            *)
(***************************************************************************)
Destinations ==
  (IF Link + OPayload = NextRun THEN {} ELSE NextRun .. NextRun + PayLen - 1)
    \union (NextFdt .. NextFdt + FdtLen - 1)
    \union UNION {Blobs[i].dst .. Blobs[i].dst + Blobs[i].size - 1 : i \in 1 .. Len(Blobs)}

SafeLayout ==
  /\ \A l \in Loads \union {Link} : Destinations \cap (l .. l + Size - 1) = {}
  /\ \A l \in Loads : l <= Link \/ LinkEnd <= l \/ l + ORelocate < LinkEnd

(***************************************************************************)
(* The inductive invariant.                                                *)
(***************************************************************************)
(* The words of the load copy that stay: all up to .bss but the variables. *)
Kept == (0 .. OBss - 1) \ Zeroed

LoadCopyKept == \A o \in Kept : mem[load + o] = Image[o]

LoadCopyFull == \A o \in Fixed : mem[load + o] = Image[o]

Relocated == \A o \in Fixed : mem[Link + o] = Image[o]

(* The relocation, where there is one, misses what the losers use. *)
Apart ==
  load = Link \/ \A o \in 0 .. OBss - 1 : load + o < Link \/ LinkEnd <= load + o

(* The words the relocation carries, and what they hold. *)
Carried == Fixed \union {OLoadStart}

CarriedWord(o) == IF o = OLoadStart THEN load ELSE Image[o]

AtLink(h) == pc[h] \in AfterRelocation \union {"_secondary_spin_loop", "booted"}

LotteryHeld ==
  /\ mem[load + OLottery] >= 0
  /\ (\E h \in Harts : pc[h] \notin BeforeLottery) => mem[load + OLottery] > 0

StatusMeansRelocated ==
  /\ load = Link => Relocated
  /\ mem[load + OBootStatus] > 0 => Relocated /\ Apart

BaseInv(h) ==
  /\ pc[h] \in BeforeLottery \union Relocating
                 \union {"_wait_relocate_copy_done", "_wait_loop"} => base[h] = load
  /\ AtLink(h) => base[h] = Link /\ Relocated /\ Apart
  /\ pc[h] = "_wait_loop" => reg[h].d = Link

LowerInv(h) ==
  pc[h] = "_relocate_copy_to_lower_loop" =>
    LET k == reg[h].d - Link IN
    /\ Apart /\ Link < load
    /\ k \in 0 .. Size - 1 /\ reg[h].s = load + k /\ reg[h].e = LinkEnd
    /\ \A o \in Carried :
         IF o < k THEN mem[Link + o] = CarriedWord(o) ELSE mem[load + o] = CarriedWord(o)

UpperInv(h) ==
  pc[h] = "_relocate_copy_to_upper_loop" =>
    LET k == reg[h].d - Link IN
    /\ Apart /\ load < Link
    /\ k \in 1 .. Size /\ reg[h].s = load + k /\ reg[h].e = Link
    /\ \A o \in Carried :
         IF o >= k THEN mem[Link + o] = CarriedWord(o) ELSE mem[load + o] = CarriedWord(o)

StartInv(h) ==
  /\ pc[h] \in {"_save_load_address", "_relocate"} => LoadCopyFull
  /\ pc[h] = "_relocate" => mem[load + OLoadStart] = load
  /\ pc[h] = "_relocate_done" => mem[Link + OLoadStart] = load

BssInv(h) ==
  pc[h] = "_bss_zero" =>
    reg[h].d \in Link + OBss .. Link + OPayload - 1 /\ reg[h].e = Link + OPayload

MemcpyInv(h) ==
  pc[h] = "memcpy" => reg[h].d .. reg[h].e - 1 \subseteq Destinations

(* Before the lottery has a winner nothing is written but the lottery. *)
Untouched ==
  (\A h \in Harts : pc[h] \in BeforeLottery) => LoadCopyFull

HartInv(h) ==
  BaseInv(h) /\ LowerInv(h) /\ UpperInv(h) /\ StartInv(h) /\ BssInv(h) /\ MemcpyInv(h)

IInv ==
  /\ TypeOK
  /\ OneBootHart
  /\ NoHartLost
  /\ LotteryHeld
  /\ LoadCopyKept
  /\ StatusMeansRelocated
  /\ Untouched
  /\ \A h \in Harts : HartInv(h)
-----------------------------------------------------------------------------
(***************************************************************************)
(* The image and the addresses of its words.                               *)
(***************************************************************************)
USE DEF OStart, OMagic, ORunAddr, ONextRun, ONextFdt, OSpin, OReal, ORelocate,
        ORelocateDone, OMain, OLottery, OLoadStart, OBootArg1, OBootStatus, OBss

(* The .bss lies inside the image, and the payload behind it. *)
LEMMA SizeFact == OPayload \in Int /\ Size \in Int /\ OBss < OPayload /\ OPayload < Size
BY HeadAssumed DEF HeadAssumption, OPayload

(* Every word of an image, wherever it is, is a word of RAM. *)
LEMMA InRAM ==
  ASSUME NEW l \in Loads \union {Link}, NEW o \in 0 .. Size - 1
  PROVE  l \in Int /\ l + o \in Addr /\ l + o \in Int
<1>1. l \in Int BY HeadAssumed DEF HeadAssumption
<1>2. l .. l + Size - 1 \subseteq Addr BY HeadAssumed DEF HeadAssumption
<1>3. l + o \in l .. l + Size - 1 BY <1>1, SizeFact
<1> QED BY <1>1, <1>2, <1>3

(* An entry of _zstage_blob_table has a source, a destination, a size. *)
LEMMA BlobType ==
  ASSUME NEW i \in 1 .. Len(Blobs)
  PROVE  Blobs[i] \in [src : Int, dst : Int, size : Nat]
<1> DEFINE Blob == [src : Int, dst : Int, size : Nat]
<1>1. Blobs \in Seq(Blob)
  BY HeadAssumed DEF HeadAssumption
<1> HIDE DEF Blob
<1>2. Blobs[i] \in Blob
  BY <1>1
<1> QED BY <1>2 DEF Blob

(* The linker puts a number in every word of the image. *)
LEMMA ImageType == \A o \in 0 .. Size - 1 : Image[o] \in Int
BY HeadAssumed, SizeFact DEF HeadAssumption, Image, Content

(* What the linker puts in the header fields head.S and main.c read,
   and in the two .data words the harts meet over. *)
LEMMA ImageHeader ==
  /\ Image[ORunAddr] = Link
  /\ Image[ONextRun] = NextRun
  /\ Image[ONextFdt] = NextFdt
  /\ Image[OLottery] = 0
  /\ Image[OBootStatus] = 0
BY SizeFact DEF Image, Zeroed

(* The words that stay in the load copy are words nothing writes to. *)
LEMMA KeptFixed ==
  /\ Kept \subseteq Fixed
  /\ Fixed \subseteq 0 .. Size - 1
  /\ {ORunAddr, ONextRun, ONextFdt} \subseteq Kept
BY SizeFact DEF Kept, Fixed, Zeroed

(* The code at every label is among the words that stay. *)
LEMMA CodeKept == \A l \in Running : CodeOf[l] \in Kept
BY DEF Running, CodeOf, Kept, Zeroed
-----------------------------------------------------------------------------
(***************************************************************************)
(* Type correctness, in any layout.                                        *)
(***************************************************************************)
(* The sets of labels the proofs split on are sets of labels. *)
LEMMA LabelSets ==
  /\ Running \subseteq Labels
  /\ BeforeLottery \cup Relocating \cup Waiting \cup InMain \cup AfterRelocation \cup Stopped
       \subseteq Labels
BY DEF Running, CodeOf, Labels, Stopped, BeforeLottery, Relocating, Waiting, InMain,
       AfterRelocation

(* Harts that leave reset are at a label, in the load copy. *)
LEMMA TypeInit == Init => TypeOK
<1> SUFFICES ASSUME Init PROVE TypeOK
  OBVIOUS
<1>1. load \in Loads
  BY DEF Init, load
<1>2. mem \in [Addr -> Int]
  <2> SUFFICES ASSUME NEW a \in Addr PROVE mem[a] \in Int
    BY DEF Init
  <2>1. a \in Int
    BY HeadAssumed DEF HeadAssumption
  <2>2. CASE a \in load .. LoadEnd - 1
    <3>1. load \in Int
      BY <1>1, HeadAssumed DEF HeadAssumption
    <3>2. a - load \in 0 .. Size - 1
      BY <2>1, <2>2, <3>1, SizeFact DEF LoadEnd
    <3> QED BY <2>2, <3>2, ImageType DEF Init
  <2>3. CASE a \notin load .. LoadEnd - 1
    BY <2>1, <2>3, HeadAssumed DEF Init, HeadAssumption, FdtWord, FdtMagic, Junk
  <2> QED BY <2>2, <2>3
<1>3. pc \in [Harts -> Labels]
  BY DEF Init, Labels, Running, CodeOf
<1>4. /\ base \in [Harts -> {load, Link}]
      /\ reg \in [Harts -> [d : Int, s : Int, e : Int, i : Nat, ret : InMain]]
      /\ handoff \in [Harts -> [entry : Int, fdt : Int]]
      /\ boot \in [load : Loads, nospin : NoSpins, arg1 : Args]
  BY DEF Init, InMain, NoHandoff
<1> QED BY <1>2, <1>3, <1>4 DEF TypeOK

(* A store of an integer keeps the type of the memory. *)
LEMMA StoreType ==
  ASSUME mem \in [Addr -> Int], NEW a, NEW v \in Int, Store(a, v)
  PROVE  mem' \in [Addr -> Int]
BY DEF Store

(* A load returns a number, in RAM or outside it. *)
LEMMA WordType == ASSUME mem \in [Addr -> Int], NEW a PROVE Word(a) \in Int
BY DEF Word, Junk

(* The words of the two images a hart uses are integers. *)
LEMMA ImageWordType ==
  ASSUME TypeOK, NEW h \in Harts, NEW o \in 0 .. OBss
  PROVE  /\ mem[base[h] + o] \in Int /\ mem[load + o] \in Int
         /\ base[h] \in Int /\ base[h] + o \in Int
<1>1. o \in 0 .. Size - 1
  BY SizeFact
<1>2. base[h] \in Loads \union {Link} /\ load \in Loads
  BY DEF TypeOK, load
<1> QED BY <1>1, <1>2, InRAM DEF TypeOK

(* The store of a hart, or of the next stage, keeps the type of the memory. *)
LEMMA MemType == TypeOK /\ [Next]_vars => mem' \in [Addr -> Int]
<1> SUFFICES ASSUME TypeOK, [Next]_vars PROVE mem' \in [Addr -> Int]
  OBVIOUS
<1>0. mem \in [Addr -> Int]
  BY DEF TypeOK
<1>1. ASSUME NEW h \in Harts, Hart(h) PROVE mem' \in [Addr -> Int]
  <2>0. /\ \A o \in 0 .. OBss : mem[base[h] + o] \in Int /\ mem[load + o] \in Int
        /\ load \in Int /\ boot.arg1 \in Int
    BY ImageWordType, InRAM, HeadAssumed DEF TypeOK, load, HeadAssumption
  <2>1. CASE Lottery(h)
    <3>1. mem[load + OLottery] + 1 \in Int  BY <2>0
    <3> QED BY <1>0, <2>1, <3>1, StoreType DEF Lottery
  <2>2. CASE SaveLoadAddress(h)
    BY <1>0, <2>0, <2>2, StoreType DEF SaveLoadAddress
  <2>3. CASE CopyToLower(h)
    BY <1>0, <2>3, WordType, StoreType DEF CopyToLower
  <2>4. CASE CopyToUpper(h)
    BY <1>0, <2>4, WordType, StoreType DEF CopyToUpper
  <2>5. CASE RelocateDone(h)
    BY <1>0, <2>5, StoreType DEF RelocateDone
  <2>6. CASE SaveBootArg1(h)
    BY <1>0, <2>0, <2>6, StoreType DEF SaveBootArg1
  <2>7. CASE BssZero(h)
    BY <1>0, <2>7, StoreType DEF BssZero
  <2>8. CASE Memcpy(h)
    BY <1>0, <2>8, WordType, StoreType DEF Memcpy
  <2>9. CASE ReleaseSpin(h)
    <3>1. mem[base[h] + ONextRun] \in Int  BY <2>0
    <3> QED BY <1>0, <2>9, <3>1, StoreType DEF ReleaseSpin
  <2>10. CASE UNCHANGED mem
    BY <1>0, <2>10
  <2> QED
    BY <1>1, <2>1, <2>2, <2>3, <2>4, <2>5, <2>6, <2>7, <2>8, <2>9, <2>10
    DEF Hart, Start, Relocate, WaitRelocateCopyDone, WaitLoop, ZstageMain, CopyBlob,
        PrepareFdt, CopyNext, FinalInit, Jump, SpinLoop, Derail, Rest, vars
<1>2. CASE NextStageReleases
  BY <1>0, <1>2, StoreType, HeadAssumed DEF NextStageReleases, HeadAssumption
<1>3. CASE UNCHANGED vars
  BY <1>0, <1>3 DEF vars
<1> QED BY <1>1, <1>2, <1>3 DEF Next

(* A hart only ever moves to a label, and only itself. *)
LEMMA LabelType == TypeOK /\ [Next]_vars => pc' \in [Harts -> Labels]
<1> SUFFICES ASSUME TypeOK, [Next]_vars PROVE pc' \in [Harts -> Labels]
  OBVIOUS
<1>0. pc \in [Harts -> Labels]
  BY DEF TypeOK
<1>1. ASSUME NEW h \in Harts, NEW l \in Labels, Goto(h, l) PROVE pc' \in [Harts -> Labels]
  BY <1>0, <1>1 DEF Goto
<1>2. ASSUME NEW h \in Harts, Hart(h) PROVE pc' \in [Harts -> Labels]
  <2>1. \/ UNCHANGED pc
        \/ \E l \in Running : Goto(h, l)
        \/ \E l \in Stopped : Goto(h, l)
        \/ Memcpy(h)
    BY <1>2 DEF Hart, Start, Lottery, SaveLoadAddress, Relocate, CopyToLower, CopyToUpper,
        JumpRelocated, WaitRelocateCopyDone, WaitLoop, RelocateDone, SaveBootArg1, BssZero,
        ZstageMain, CopyBlob, PrepareFdt, CopyNext, FinalInit, ReleaseSpin, Jump, SpinLoop,
        Derail, Rest, vars, Call, Enter, Running, CodeOf, Stopped
  <2>2. ASSUME Memcpy(h) PROVE UNCHANGED pc \/ \E l \in Running : Goto(h, l)
    <3>1. reg[h].ret \in Running
      BY DEF TypeOK, InMain, Running, CodeOf
    <3> QED BY <2>2, <3>1 DEF Memcpy
  <2> QED BY <1>0, <1>1, <2>1, <2>2, LabelSets
<1>3. CASE NextStageReleases
  BY <1>0, <1>3 DEF NextStageReleases
<1>4. CASE UNCHANGED vars
  BY <1>0, <1>4 DEF vars
<1> QED BY <1>2, <1>3, <1>4 DEF Next

(* No jump of head.S leaves the two copies of the image. *)
LEMMA BaseType == TypeOK /\ [Next]_vars => base' \in [Harts -> {load, Link}]
<1> SUFFICES ASSUME TypeOK, [Next]_vars PROVE base' \in [Harts -> {load, Link}]
  OBVIOUS
<1>0. base \in [Harts -> {load, Link}]
  BY DEF TypeOK
<1>1. ASSUME NEW h \in Harts, Hart(h) PROVE base' \in [Harts -> {load, Link}]
  <2>1. UNCHANGED base \/ base' = [base EXCEPT ![h] = Link]
    BY <1>1 DEF Hart, Start, Lottery, SaveLoadAddress, Relocate, CopyToLower, CopyToUpper,
        JumpRelocated, WaitRelocateCopyDone, WaitLoop, RelocateDone, SaveBootArg1, BssZero,
        ZstageMain, CopyBlob, Memcpy, PrepareFdt, CopyNext, FinalInit, ReleaseSpin, Jump,
        SpinLoop, Derail, Rest, vars
  <2> QED BY <1>0, <2>1
<1>2. CASE NextStageReleases
  BY <1>0, <1>2 DEF NextStageReleases
<1>3. CASE UNCHANGED vars
  BY <1>0, <1>3 DEF vars
<1> QED BY <1>1, <1>2, <1>3 DEF Next

Registers == [d : Int, s : Int, e : Int, i : Nat, ret : InMain]

(* What Call puts in the registers. *)
LEMMA CallType ==
  ASSUME NEW h \in Harts, reg \in [Harts -> Registers],
         NEW dst \in Int, NEW src \in Int, NEW len \in Int, NEW i \in Nat, NEW ret \in InMain,
         Call(h, dst, src, len, i, ret)
  PROVE  reg' \in [Harts -> Registers]
<1>1. [d |-> dst, s |-> src, e |-> dst + len, i |-> i, ret |-> ret] \in Registers
  BY DEF Registers
<1> QED BY <1>1 DEF Call

(* The copy loops and the calls keep numbers in the registers. *)
LEMMA RegType == TypeOK /\ [Next]_vars => reg' \in [Harts -> Registers]
<1> SUFFICES ASSUME TypeOK, [Next]_vars PROVE reg' \in [Harts -> Registers]
  OBVIOUS
<1>0. reg \in [Harts -> Registers]
  BY DEF TypeOK, Registers
<1>1. ASSUME NEW h \in Harts, Hart(h) PROVE reg' \in [Harts -> Registers]
  <2>0. /\ \A o \in 0 .. OBss : mem[base[h] + o] \in Int /\ mem[load + o] \in Int
        /\ load \in Int /\ base[h] \in Int /\ reg[h] \in Registers
    <3>1. \A o \in 0 .. OBss : mem[base[h] + o] \in Int /\ mem[load + o] \in Int
      BY ImageWordType
    <3>2. load \in Int
      BY HeadAssumed DEF HeadAssumption, TypeOK, load
    <3>3. base[h] \in Int
      BY <3>2, HeadAssumed DEF HeadAssumption, TypeOK
    <3> QED BY <1>0, <3>1, <3>2, <3>3
  <2>1. CASE Relocate(h)
    <3>1. mem[load + ORunAddr] \in Int /\ mem[load + OLoadStart] \in Int
      BY <2>0
    <3> QED BY <1>0, <2>0, <2>1, <3>1, SizeFact DEF Relocate, Registers
  <2>2. CASE CopyToLower(h)
    BY <1>0, <2>0, <2>2 DEF CopyToLower, Registers
  <2>3. CASE CopyToUpper(h)
    BY <1>0, <2>0, <2>3 DEF CopyToUpper, Registers
  <2>4. CASE WaitRelocateCopyDone(h)
    <3>1. mem[load + ORunAddr] \in Int  BY <2>0
    <3> QED BY <1>0, <2>0, <2>4, <3>1 DEF WaitRelocateCopyDone, Registers
  <2>5. CASE SaveBootArg1(h)
    <3>1. base[h] + OBss \in Int /\ base[h] + OPayload \in Int
      BY <2>0, SizeFact
    <3> QED BY <1>0, <2>0, <2>5, <3>1 DEF SaveBootArg1, Registers
  <2>6. CASE BssZero(h)
    BY <1>0, <2>0, <2>6 DEF BssZero, Registers
  <2>7. CASE CopyBlob(h)
    <3>1. CASE UNCHANGED reg  BY <1>0, <3>1
    <3>2. CASE reg[h].i \in 1 .. Len(Blobs)
      <4> DEFINE blob == Blobs[reg[h].i]
      <4>1. blob \in [src : Int, dst : Int, size : Nat]
        BY <3>2, BlobType
      <4>2. blob.dst \in Int /\ blob.src \in Int /\ blob.size \in Int
        BY <4>1
      <4>3. reg[h].i + 1 \in Nat
        BY <2>0 DEF Registers
      <4>4. "copy_blobs" \in InMain
        BY DEF InMain
      <4>5. UNCHANGED reg \/ Call(h, blob.dst, blob.src, blob.size, reg[h].i + 1, "copy_blobs")
        BY <2>7 DEF CopyBlob
      <4> HIDE DEF blob
      <4> QED BY <1>0, <4>2, <4>3, <4>4, <4>5, CallType
    <3> QED BY <2>7, <3>1, <3>2 DEF CopyBlob
  <2>8. CASE Memcpy(h)
    BY <1>0, <2>0, <2>8 DEF Memcpy, Registers
  <2>9. CASE PrepareFdt(h)
    <3>1. /\ mem[base[h] + ONextFdt] \in Int /\ mem[base[h] + OBootArg1] \in Int
          /\ FdtLen \in Int /\ 0 \in Nat /\ "copy_next" \in InMain
      BY <2>0, HeadAssumed DEF HeadAssumption, InMain
    <3> QED BY <1>0, <2>9, <3>1, CallType DEF PrepareFdt
  <2>10. CASE CopyNext(h)
    <3>1. /\ mem[base[h] + ONextRun] \in Int /\ Link + OPayload \in Int
          /\ PayLen \in Int /\ 0 \in Nat /\ "final_init" \in InMain
      BY <2>0, SizeFact, HeadAssumed DEF HeadAssumption, InMain
    <3> QED BY <1>0, <2>10, <3>1, CallType DEF CopyNext
  <2>11. CASE UNCHANGED reg
    BY <1>0, <2>11
  <2> QED
    BY <1>1, <2>1, <2>2, <2>3, <2>4, <2>5, <2>6, <2>7, <2>8, <2>9, <2>10, <2>11
    DEF Hart, Start, Lottery, SaveLoadAddress, WaitLoop, RelocateDone, ZstageMain,
        FinalInit, ReleaseSpin, Jump, SpinLoop, Derail, Rest, vars
<1>2. CASE NextStageReleases
  BY <1>0, <1>2 DEF NextStageReleases
<1>3. CASE UNCHANGED vars
  BY <1>0, <1>3 DEF vars
<1> QED BY <1>1, <1>2, <1>3 DEF Next

(* a1 and the target of the jump to the next stage are numbers. *)
LEMMA HandoffType ==
  TypeOK /\ [Next]_vars => handoff' \in [Harts -> [entry : Int, fdt : Int]]
<1> SUFFICES ASSUME TypeOK, [Next]_vars PROVE handoff' \in [Harts -> [entry : Int, fdt : Int]]
  OBVIOUS
<1>0. handoff \in [Harts -> [entry : Int, fdt : Int]]
  BY DEF TypeOK
<1>1. ASSUME NEW h \in Harts, Hart(h) PROVE handoff' \in [Harts -> [entry : Int, fdt : Int]]
  <2>1. CASE UNCHANGED handoff
    BY <1>0, <2>1
  <2>2. CASE Jump(h) \/ SpinLoop(h)
    <3>1. /\ mem[base[h] + ONextRun] \in Int /\ mem[base[h] + ONextFdt] \in Int
          /\ mem[base[h] + OSpin] \in Int
      BY ImageWordType
    <3> QED BY <1>0, <2>2, <3>1 DEF Jump, SpinLoop, Enter
  <2> QED
    BY <1>1, <2>1, <2>2
    DEF Hart, Start, Lottery, SaveLoadAddress, Relocate, CopyToLower, CopyToUpper,
        WaitRelocateCopyDone, WaitLoop, RelocateDone, SaveBootArg1, BssZero, ZstageMain,
        CopyBlob, Memcpy, PrepareFdt, CopyNext, FinalInit, ReleaseSpin, Derail, Rest, vars
<1>2. CASE NextStageReleases
  BY <1>0, <1>2 DEF NextStageReleases
<1>3. CASE UNCHANGED vars
  BY <1>0, <1>3 DEF vars
<1> QED BY <1>1, <1>2, <1>3 DEF Next

(* A machine stays booted the way it was. *)
LEMMA BootKept == [Next]_vars => UNCHANGED boot
BY DEF Next, NextStageReleases, Hart, Start, Lottery, SaveLoadAddress, Relocate, CopyToLower,
   CopyToUpper, WaitRelocateCopyDone, WaitLoop, RelocateDone, SaveBootArg1, BssZero,
   ZstageMain, CopyBlob, Memcpy, PrepareFdt, CopyNext, FinalInit, ReleaseSpin, Jump,
   SpinLoop, Derail, Rest, vars

(* Every step of a hart, or of the next stage, keeps the types. *)
LEMMA TypeNext == TypeOK /\ [Next]_vars => TypeOK'
<1> SUFFICES ASSUME TypeOK, [Next]_vars PROVE TypeOK'
  OBVIOUS
<1>1. UNCHANGED boot
  BY BootKept
<1>2. boot' \in [load : Loads, nospin : NoSpins, arg1 : Args]
  BY <1>1 DEF TypeOK
<1>3. base' \in [Harts -> {load', Link}]
  BY <1>1, BaseType DEF load
<1> QED
  BY <1>2, <1>3, MemType, LabelType, RegType, HandoffType DEF TypeOK, Registers

(* Whatever the layout, with harts lost or not: a register holds an         *)
(* integer, a hart executes one of the two images, and no label but those of *)
(* head.S and main.c is ever reached.                                       *)
THEOREM TypeCorrect == Spec => []TypeOK
BY TypeInit, TypeNext, PTL DEF Spec

-----------------------------------------------------------------------------
(***************************************************************************)
(* What a store leaves alone.                                              *)
(***************************************************************************)
LEMMA StoreElsewhere ==
  ASSUME mem \in [Addr -> Int], NEW a, NEW v, Store(a, v)
  PROVE  /\ \A b \in Addr : b # a => mem'[b] = mem[b]
         /\ a \in Addr => mem'[a] = v
BY DEF Store

(* The words of the copies: in RAM, and where they are. *)
LEMMA Copies ==
  ASSUME TypeOK
  PROVE  /\ load \in Loads /\ load \in Int /\ Link \in Int
         /\ \A o \in 0 .. Size - 1 : load + o \in Addr /\ Link + o \in Addr
         /\ Kept \subseteq 0 .. Size - 1 /\ Fixed \subseteq 0 .. Size - 1
         /\ {OLottery, OLoadStart, OBootArg1, OBootStatus, OSpin} \subseteq 0 .. Size - 1
<1>1. load \in Loads
  BY DEF TypeOK, load
<1>2. load \in Int /\ Link \in Int
  BY <1>1, HeadAssumed DEF HeadAssumption
<1>3. \A o \in 0 .. Size - 1 : load + o \in Addr /\ Link + o \in Addr
  BY <1>1, InRAM
<1>4. {OLottery, OLoadStart, OBootArg1, OBootStatus, OSpin} \subseteq 0 .. Size - 1
  BY SizeFact
<1> QED BY <1>1, <1>2, <1>3, <1>4, KeptFixed

(* An address no theorem below depends on: no word of the running image     *)
(* that stays, and no word of the load copy a loser needs.                  *)
Harmless(a) ==
  /\ \A o \in Fixed : a # Link + o
  /\ \A o \in Kept \union {OLottery, OBootStatus} : a # load + o

(* A harmless store leaves the relocated image, the load copy and the
   two words the harts meet over as they were. *)
LEMMA HarmlessStore ==
  ASSUME TypeOK, UNCHANGED boot, NEW a, NEW v, Harmless(a), Store(a, v)
  PROVE  /\ Relocated => Relocated'
         /\ LoadCopyKept => LoadCopyKept'
         /\ mem'[load + OLottery] = mem[load + OLottery]
         /\ mem'[load + OBootStatus] = mem[load + OBootStatus]
<1>1. \A b \in Addr : b # a => mem'[b] = mem[b]
  BY StoreElsewhere DEF TypeOK
<1>2. load' = load
  BY DEF load
<1>3. \A o \in Fixed : mem'[Link + o] = mem[Link + o]
  BY <1>1, Copies DEF Harmless
<1>4. \A o \in Kept \union {OLottery, OBootStatus} : mem'[load + o] = mem[load + o]
  BY <1>1, Copies DEF Harmless
<1>5. Relocated => Relocated'
  BY <1>3 DEF Relocated
<1>6. LoadCopyKept => LoadCopyKept'
  BY <1>2, <1>4 DEF LoadCopyKept
<1> QED BY <1>4, <1>5, <1>6

(* The variables of the running image, and its .bss. *)
LEMMA ImageStoreHarmless ==
  ASSUME TypeOK, Apart, NEW o \in {OSpin, OBootArg1} \union OBss .. OPayload - 1
  PROVE  Harmless(Link + o)
<1>1. ASSUME NEW p \in Fixed PROVE Link + o # Link + p
  <2>1. o # p /\ o \in Int /\ p \in Int
    BY KeptFixed, SizeFact DEF Fixed, Zeroed
  <2> QED BY <2>1, Copies
<1>2. ASSUME NEW p \in Kept \union {OLottery, OBootStatus} PROVE Link + o # load + p
  <2>1. p \in 0 .. OBss - 1 /\ o # p /\ o \in 0 .. Size - 1
    BY SizeFact DEF Kept, Zeroed
  <2>2. CASE load = Link
    BY <2>1, <2>2, Copies, SizeFact
  <2>3. CASE load + p < Link \/ LinkEnd <= load + p
    <3>1. p \in Int /\ o \in Int /\ 0 <= o /\ o < Size
      BY <2>1, SizeFact
    <3>2. load \in Int /\ Link \in Int /\ Size \in Int
      BY Copies, SizeFact
    <3> QED BY <2>3, <3>1, <3>2 DEF LinkEnd
  <2> QED BY <2>1, <2>2, <2>3 DEF Apart
<1> QED BY <1>1, <1>2 DEF Harmless

(* What zstage_main copies to, in a safe layout. *)
LEMMA DestinationHarmless ==
  ASSUME TypeOK, SafeLayout, NEW a \in Destinations
  PROVE  Harmless(a)
<1>1. /\ a \notin load .. load + Size - 1
      /\ a \notin Link .. Link + Size - 1
  BY Copies DEF SafeLayout
<1>2. \A o \in 0 .. Size - 1 :
        load + o \in load .. load + Size - 1 /\ Link + o \in Link .. Link + Size - 1
  BY Copies, SizeFact
<1> QED BY <1>1, <1>2, Copies DEF Harmless

-----------------------------------------------------------------------------
(***************************************************************************)
(* What a step of one hart leaves alone in the others.                     *)
(***************************************************************************)
OnlyMoves(h) ==
  \A g \in Harts \ {h} : pc'[g] = pc[g] /\ base'[g] = base[g] /\ reg'[g] = reg[g]

(* A step of one hart changes the registers of no other. *)
LEMMA HartMovesOne ==
  ASSUME TypeOK, NEW h \in Harts, Hart(h) PROVE OnlyMoves(h)
BY DEF OnlyMoves, TypeOK, Hart, Start, Lottery, SaveLoadAddress, Relocate, CopyToLower,
   CopyToUpper, JumpRelocated, WaitRelocateCopyDone, WaitLoop, RelocateDone, SaveBootArg1,
   BssZero, ZstageMain, CopyBlob, Memcpy, PrepareFdt, CopyNext, FinalInit, ReleaseSpin,
   Jump, SpinLoop, Derail, Rest, vars, Goto, Call, Enter

(* A hart that takes no step keeps its invariant while the winner works ... *)
LEMMA WinnerFrame ==
  ASSUME OneBootHart, \A g \in Harts : HartInv(g), UNCHANGED boot,
         NEW h \in Harts, pc[h] \in WinnerOnly, OnlyMoves(h),
         Apart /\ Relocated => Relocated'
  PROVE  \A g \in Harts \ {h} : HartInv(g)'
<1> SUFFICES ASSUME NEW g \in Harts \ {h} PROVE HartInv(g)'
  OBVIOUS
<1>1. pc[g] \notin WinnerOnly
  BY DEF OneBootHart
<1>2. pc'[g] = pc[g] /\ base'[g] = base[g] /\ reg'[g] = reg[g] /\ load' = load
  BY DEF OnlyMoves, load
<1>3. BaseInv(g)
  BY DEF HartInv
<1>4. BaseInv(g)'
  BY <1>2, <1>3 DEF BaseInv, AtLink, Apart, Relocated
<1>5. LowerInv(g)' /\ UpperInv(g)' /\ StartInv(g)' /\ BssInv(g)' /\ MemcpyInv(g)'
  BY <1>1, <1>2 DEF LowerInv, UpperInv, StartInv, BssInv, MemcpyInv, WinnerOnly, Relocating,
     AfterRelocation, InMain
<1> QED BY <1>4, <1>5 DEF HartInv

(* ... and while another hart changes no memory. *)
LEMMA LoserFrame ==
  ASSUME \A g \in Harts : HartInv(g), UNCHANGED <<mem, boot>>, NEW h \in Harts, OnlyMoves(h)
  PROVE  \A g \in Harts \ {h} : HartInv(g)'
<1> SUFFICES ASSUME NEW g \in Harts \ {h} PROVE HartInv(g)'
  OBVIOUS
<1>1. pc'[g] = pc[g] /\ base'[g] = base[g] /\ reg'[g] = reg[g] /\ load' = load
  BY DEF OnlyMoves, load
<1>2. HartInv(g)
  OBVIOUS
<1>3. Apart' = Apart /\ Relocated' = Relocated /\ LoadCopyFull' = LoadCopyFull
  BY <1>1 DEF Apart, Relocated, LoadCopyFull
<1>4. \A o : CarriedWord(o)' = CarriedWord(o)
  BY <1>1 DEF CarriedWord
<1>5. BaseInv(g)'
  BY <1>1, <1>2, <1>3 DEF HartInv, BaseInv, AtLink
<1>6. LowerInv(g)' /\ UpperInv(g)'
  BY <1>1, <1>2, <1>3, <1>4 DEF HartInv, LowerInv, UpperInv
<1>7. StartInv(g)' /\ BssInv(g)' /\ MemcpyInv(g)'
  BY <1>1, <1>2, <1>3 DEF HartInv, StartInv, BssInv, MemcpyInv
<1> QED BY <1>5, <1>6, <1>7 DEF HartInv

(* A step of the winner that keeps what others rely on. *)
LEMMA WinnerStep ==
  ASSUME IInv, TypeOK', UNCHANGED boot, NEW h \in Harts, OnlyMoves(h),
         pc[h] \in WinnerOnly, pc'[h] \in WinnerOnly,
         Apart /\ Relocated => Relocated', LoadCopyKept',
         mem'[load + OLottery] = mem[load + OLottery],
         \/ mem'[load + OBootStatus] = mem[load + OBootStatus]
         \/ Relocated' /\ Apart,
         HartInv(h)'
  PROVE  IInv'
<1>1. load' = load /\ Apart' = Apart
  BY DEF load, Apart
<1>2. \A g \in Harts \ {h} : pc[g] \notin WinnerOnly /\ pc'[g] = pc[g]
  BY DEF IInv, OneBootHart, OnlyMoves
<1>3. OneBootHart'
  BY <1>2 DEF OneBootHart
<1>4. NoHartLost'
  BY <1>2 DEF IInv, NoHartLost, WinnerOnly, Relocating, AfterRelocation, InMain
<1>5. pc[h] \notin BeforeLottery /\ pc'[h] \notin BeforeLottery
  BY DEF WinnerOnly, Relocating, AfterRelocation, InMain, BeforeLottery
<1>6. LotteryHeld'
  BY <1>1, <1>5 DEF IInv, LotteryHeld
<1>7. StatusMeansRelocated'
  BY <1>1 DEF IInv, StatusMeansRelocated, Apart
<1>8. Untouched'
  BY <1>5 DEF Untouched
<1>9. \A g \in Harts : HartInv(g)'
  BY WinnerFrame DEF IInv
<1> QED BY <1>3, <1>4, <1>6, <1>7, <1>8, <1>9 DEF IInv

(* A step of another hart that changes no memory. *)
LEMMA LoserStep ==
  ASSUME IInv, TypeOK', UNCHANGED <<mem, boot>>, NEW h \in Harts, OnlyMoves(h),
         pc'[h] \notin WinnerOnly, pc'[h] # "lost",
         pc'[h] \in BeforeLottery <=> pc[h] \in BeforeLottery,
         HartInv(h)'
  PROVE  IInv'
<1>1. load' = load /\ Apart' = Apart /\ Relocated' = Relocated
  BY DEF load, Apart, Relocated
<1>2. \A g \in Harts \ {h} : pc'[g] = pc[g]
  BY DEF OnlyMoves
<1>3. OneBootHart' /\ NoHartLost'
  BY <1>2 DEF IInv, OneBootHart, NoHartLost
<1>4. LotteryHeld'
  BY <1>1, <1>2 DEF IInv, LotteryHeld
<1>5. LoadCopyKept' /\ StatusMeansRelocated'
  BY <1>1 DEF IInv, LoadCopyKept, StatusMeansRelocated
<1>6. Untouched'
  BY <1>1, <1>2 DEF IInv, Untouched, LoadCopyFull
<1>7. \A g \in Harts : HartInv(g)'
  BY LoserFrame DEF IInv
<1> QED BY <1>3, <1>4, <1>5, <1>6, <1>7 DEF IInv

(* A step of the winner that stores in a harmless place. *)
LEMMA HarmlessStep ==
  ASSUME IInv, TypeOK', UNCHANGED boot, NEW h \in Harts, OnlyMoves(h),
         pc[h] \in WinnerOnly, pc'[h] \in WinnerOnly,
         \/ UNCHANGED mem
         \/ \E a, v : Harmless(a) /\ Store(a, v),
         HartInv(h)'
  PROVE  IInv'
<1>1. CASE UNCHANGED mem
  <2>1. /\ Relocated => Relocated'
        /\ LoadCopyKept'
    BY <1>1 DEF IInv, Relocated, LoadCopyKept, load
  <2> QED BY <1>1, <2>1, WinnerStep
<1>2. CASE \E a, v : Harmless(a) /\ Store(a, v)
  BY <1>2, HarmlessStore, WinnerStep DEF IInv
<1> QED BY <1>1, <1>2

(* A hart in the running image, at a label without a loop of its own. *)
LEMMA PlainLabel ==
  ASSUME NEW h \in Harts, base'[h] = Link, Relocated', Apart',
         pc'[h] \in (AfterRelocation \ {"_relocate_done", "_bss_zero", "memcpy"})
                      \union {"_secondary_spin_loop", "booted"}
  PROVE  HartInv(h)'
BY DEF HartInv, BaseInv, LowerInv, UpperInv, StartInv, BssInv, MemcpyInv, AtLink,
   AfterRelocation, InMain, BeforeLottery, Relocating

(* A hart that left the code for good, or hangs. *)
LEMMA StoppedLabel ==
  ASSUME NEW h \in Harts, pc'[h] \in Stopped \ {"booted"} PROVE HartInv(h)'
BY DEF HartInv, BaseInv, LowerInv, UpperInv, StartInv, BssInv, MemcpyInv, AtLink,
   AfterRelocation, InMain, BeforeLottery, Relocating, Stopped

(* A hart that waits in the load copy. *)
LEMMA LoadLabel ==
  ASSUME NEW h \in Harts, base'[h] = load',
         \/ pc'[h] \in BeforeLottery \union {"_wait_relocate_copy_done"}
         \/ pc'[h] = "_wait_loop" /\ reg'[h].d = Link
  PROVE  HartInv(h)'
BY DEF HartInv, BaseInv, LowerInv, UpperInv, StartInv, BssInv, MemcpyInv, AtLink,
   AfterRelocation, InMain, BeforeLottery, Relocating

(* _start to _start_real (head.S:82-92) keeps the invariant. *)
LEMMA StartKeeps ==
  ASSUME IInv, TypeOK', UNCHANGED boot, NEW h \in Harts, OnlyMoves(h), Start(h)
  PROVE  IInv'
<1>1. pc[h] = "_start" /\ pc'[h] = "_start_real" /\ UNCHANGED mem
  BY DEF Start, At, Goto, IInv, TypeOK
<1>2. base'[h] = load'
  BY <1>1 DEF Start, IInv, HartInv, BaseInv, BeforeLottery, load
<1>3. HartInv(h)'
  BY <1>1, <1>2, LoadLabel DEF BeforeLottery
<1> QED
  BY <1>1, <1>3, LoserStep DEF BeforeLottery, WinnerOnly, Relocating, AfterRelocation, InMain

(* The lottery word is one no hart relies on, but for the lottery. *)
LEMMA LotteryKeeps ==
  ASSUME IInv, TypeOK', UNCHANGED boot, NEW h \in Harts, OnlyMoves(h), Lottery(h)
  PROVE  IInv'
<1>0. load' = load /\ Apart' = Apart /\ TypeOK
  BY DEF load, Apart, IInv
<1>1. \A b \in Addr : b # load + OLottery => mem'[b] = mem[b]
  BY StoreElsewhere DEF Lottery, IInv, TypeOK
<1>2. mem'[load + OLottery] = mem[load + OLottery] + 1
  BY <1>0, StoreElsewhere, Copies DEF Lottery, IInv, TypeOK
<1>3. \A o \in 0 .. Size - 1 : o # OLottery => mem'[load + o] = mem[load + o]
  BY <1>0, <1>1, Copies, SizeFact
<1>4. LoadCopyKept' /\ (LoadCopyFull => LoadCopyFull')
  BY <1>0, <1>3, Copies DEF IInv, LoadCopyKept, LoadCopyFull, Kept, Fixed, Zeroed
<1>5. ASSUME Apart, NEW o \in 0 .. Size - 1, o # OLottery
      PROVE  mem'[Link + o] = mem[Link + o]
  <2>1. CASE load = Link
    BY <1>3, <1>5, <2>1
  <2>2. CASE load + OLottery < Link \/ LinkEnd <= load + OLottery
    <3>1. Link \in Int /\ load \in Int /\ Size \in Int /\ o \in Int /\ 0 <= o /\ o < Size
      BY <1>0, <1>5, Copies, SizeFact
    <3>2. Link + o # load + OLottery
      BY <2>2, <3>1 DEF LinkEnd
    <3> QED BY <1>0, <1>1, <1>5, <3>2, Copies
  <2> QED BY <1>5, <2>1, <2>2 DEF Apart
<1>6. Apart /\ Relocated => Relocated'
  BY <1>0, <1>5, Copies DEF Relocated, Fixed, Zeroed
<1>7. /\ pc[h] = "_start_real"
      /\ pc'[h] = IF mem[load + OLottery] # 0 THEN "_wait_relocate_copy_done"
                                            ELSE "_save_load_address"
      /\ UNCHANGED <<base, reg>>
  BY DEF Lottery, At, Goto, IInv, TypeOK
<1>8. base'[h] = load
  BY <1>7 DEF IInv, HartInv, BaseInv, BeforeLottery
<1>9. mem[load + OLottery] \in Int /\ mem[load + OLottery] >= 0
  BY <1>0, Copies DEF IInv, TypeOK, LotteryHeld
<1>10. LotteryHeld'
  BY <1>0, <1>2, <1>9 DEF LotteryHeld
<1>11. StatusMeansRelocated'
  <2>1. mem'[load + OBootStatus] = mem[load + OBootStatus]
    BY <1>0, <1>3, Copies
  <2> QED BY <1>0, <1>6, <2>1 DEF IInv, StatusMeansRelocated, Apart
<1>12. \A g \in Harts \ {h} : pc'[g] = pc[g] /\ base'[g] = base[g] /\ reg'[g] = reg[g]
  BY DEF OnlyMoves
<1>13. NoHartLost' /\ Untouched'
  BY <1>7, <1>12 DEF IInv, NoHartLost, Untouched, BeforeLottery
<1>14. ASSUME mem[load + OLottery] = 0
       PROVE  /\ \A g \in Harts : pc[g] \in BeforeLottery
              /\ LoadCopyFull
  BY <1>14, <1>9 DEF IInv, LotteryHeld, Untouched
<1>15. OneBootHart'
  <2>1. CASE mem[load + OLottery] = 0
    BY <1>7, <1>12, <1>14, <2>1 DEF OneBootHart, BeforeLottery, WinnerOnly, Relocating,
       AfterRelocation, InMain
  <2>2. CASE mem[load + OLottery] # 0
    BY <1>7, <1>12, <2>2 DEF IInv, OneBootHart, WinnerOnly, Relocating, AfterRelocation, InMain
  <2> QED BY <2>1, <2>2
<1>16. HartInv(h)'
  <2>1. CASE mem[load + OLottery] = 0
    BY <1>0, <1>4, <1>7, <1>8, <1>14, <2>1
    DEF HartInv, BaseInv, LowerInv, UpperInv, StartInv, BssInv, MemcpyInv, AtLink,
        AfterRelocation, InMain, BeforeLottery, Relocating
  <2>2. CASE mem[load + OLottery] # 0
    BY <1>0, <1>7, <1>8, <2>2, LoadLabel
  <2> QED BY <2>1, <2>2
<1>17. ASSUME NEW g \in Harts \ {h} PROVE HartInv(g)'
  <2>0. HartInv(g) /\ pc'[g] = pc[g] /\ base'[g] = base[g] /\ reg'[g] = reg[g]
    BY <1>12 DEF IInv
  <2>1. BaseInv(g)'
    BY <1>0, <1>6, <2>0 DEF HartInv, BaseInv, AtLink
  <2>2. \A o \in Carried : CarriedWord(o)' = CarriedWord(o)
    BY <1>0 DEF CarriedWord
  <2>3. ASSUME Apart
        PROVE  \A o \in Carried : mem'[Link + o] = mem[Link + o] /\ mem'[load + o] = mem[load + o]
    BY <1>0, <1>3, <1>5, <2>3, Copies DEF Carried, Fixed, Zeroed
  <2>4. LowerInv(g)' /\ UpperInv(g)'
    BY <1>0, <2>0, <2>2, <2>3 DEF HartInv, LowerInv, UpperInv
  <2>5. StartInv(g)'
    <3>1. mem'[load + OLoadStart] = mem[load + OLoadStart]
      BY <1>0, <1>3, Copies
    <3>2. pc[g] = "_relocate_done" => Apart
      BY <2>0 DEF HartInv, BaseInv, AtLink, AfterRelocation
    <3>3. pc[g] = "_relocate_done" => mem'[Link + OLoadStart] = mem[Link + OLoadStart]
      BY <1>0, <1>5, <3>2, Copies
    <3> QED BY <1>0, <1>4, <2>0, <3>1, <3>3 DEF HartInv, StartInv
  <2>6. BssInv(g)' /\ MemcpyInv(g)'
    BY <2>0 DEF HartInv, BssInv, MemcpyInv
  <2> QED BY <2>1, <2>4, <2>5, <2>6 DEF HartInv
<1> QED BY <1>4, <1>10, <1>11, <1>13, <1>15, <1>16, <1>17 DEF IInv

(* The winner notes where it was loaded, over a word nobody else uses. *)
LEMMA SaveLoadAddressKeeps ==
  ASSUME IInv, TypeOK', UNCHANGED boot, NEW h \in Harts, OnlyMoves(h), SaveLoadAddress(h)
  PROVE  IInv'
<1>0. load' = load /\ Apart' = Apart /\ TypeOK
  BY DEF load, Apart, IInv
<1>1. /\ pc[h] = "_save_load_address" /\ pc'[h] = "_relocate"
      /\ base'[h] = load
  BY DEF SaveLoadAddress, At, Goto, IInv, TypeOK, HartInv, BaseInv, Relocating
<1>2. \A b \in Addr : b # load + OLoadStart => mem'[b] = mem[b]
  BY StoreElsewhere DEF SaveLoadAddress, IInv, TypeOK
<1>3. mem'[load + OLoadStart] = load
  BY <1>0, StoreElsewhere, Copies DEF SaveLoadAddress, IInv, TypeOK
<1>4. \A o \in 0 .. Size - 1 : o # OLoadStart => mem'[load + o] = mem[load + o]
  BY <1>0, <1>2, Copies, SizeFact
<1>5. LoadCopyKept' /\ LoadCopyFull'
  BY <1>0, <1>1, <1>4, Copies
  DEF IInv, HartInv, StartInv, LoadCopyKept, LoadCopyFull, Kept, Fixed, Zeroed
<1>6. ASSUME Apart, NEW o \in 0 .. Size - 1, o # OLoadStart
      PROVE  mem'[Link + o] = mem[Link + o]
  <2>1. CASE load = Link
    BY <1>4, <1>6, <2>1
  <2>2. CASE load + OLoadStart < Link \/ LinkEnd <= load + OLoadStart
    <3>1. Link \in Int /\ load \in Int /\ Size \in Int /\ o \in Int /\ 0 <= o /\ o < Size
      BY <1>0, <1>6, Copies, SizeFact
    <3>2. Link + o # load + OLoadStart
      BY <2>2, <3>1 DEF LinkEnd
    <3> QED BY <1>0, <1>2, <1>6, <3>2, Copies
  <2> QED BY <1>6, <2>1, <2>2 DEF Apart
<1>7. Apart /\ Relocated => Relocated'
  BY <1>0, <1>6, Copies DEF Relocated, Fixed, Zeroed
<1>8. /\ mem'[load + OLottery] = mem[load + OLottery]
      /\ mem'[load + OBootStatus] = mem[load + OBootStatus]
  BY <1>0, <1>4, Copies
<1>9. HartInv(h)'
  BY <1>0, <1>1, <1>3, <1>5
  DEF HartInv, BaseInv, LowerInv, UpperInv, StartInv, BssInv, MemcpyInv, AtLink,
      AfterRelocation, InMain, BeforeLottery, Relocating
<1> QED BY <1>1, <1>5, <1>7, <1>8, <1>9, WinnerStep DEF WinnerOnly, Relocating

(* A relocation that does not hang leaves the load copy's code alone: that  *)
(* is what the BRANGE checks are for.                                       *)
LEMMA RelocateApart ==
  ASSUME TypeOK, SafeLayout, load # Link,
         load < Link => ~(LoadEnd > Link /\ OverlapHangs(Link, LoadEnd, Link)),
         Link < load => ~(LinkEnd > load /\ OverlapHangs(load, LinkEnd, load))
  PROVE  Apart
<1>1. load \in Loads /\ load \in Int /\ Link \in Int /\ Size \in Int /\ OBss < Size
  BY Copies, SizeFact
<1> SUFFICES ASSUME NEW o \in 0 .. OBss - 1
             PROVE  load + o < Link \/ LinkEnd <= load + o
  BY DEF Apart
<1>2. CASE load < Link
  <2>1. CASE LoadEnd <= Link
    BY <1>1, <2>1 DEF LoadEnd
  <2>2. CASE LoadEnd > Link
    <3>1. ~BRANGE(Link, LoadEnd, load + OBootStatus)
      BY <1>2, <2>2 DEF OverlapHangs
    <3> QED BY <1>1, <3>1 DEF BRANGE, LoadEnd
  <2> QED BY <1>1, <2>1, <2>2 DEF LoadEnd
<1>3. CASE Link < load
  <2>1. CASE LinkEnd <= load
    BY <1>1, <2>1 DEF LinkEnd
  <2>2. CASE LinkEnd > load
    <3>1. ~BRANGE(load, LinkEnd, load + ORelocate)
      BY <1>3, <2>2 DEF OverlapHangs
    <3>2. load + ORelocate < LinkEnd
      BY <1>1, <1>3, <2>2 DEF SafeLayout, LinkEnd
    <3> QED BY <1>1, <3>1, <3>2 DEF BRANGE, LinkEnd
  <2> QED BY <1>1, <2>1, <2>2 DEF LinkEnd
<1> QED BY <1>1, <1>2, <1>3

(* _relocate (head.S:105-149) keeps the invariant: either the copies are
   the same, or it hangs, or what the losers use lies apart from the copy. *)
LEMMA RelocateKeeps ==
  ASSUME SafeLayout, IInv, TypeOK', UNCHANGED boot, NEW h \in Harts, OnlyMoves(h), Relocate(h)
  PROVE  IInv'
<1>0. load' = load /\ Apart' = Apart /\ TypeOK /\ UNCHANGED mem
  BY DEF load, Apart, IInv, Relocate
<1>1. pc[h] = "_relocate" /\ base[h] = load /\ base'[h] = load
  BY DEF Relocate, At, IInv, TypeOK, HartInv, BaseInv, Relocating
<1>2. LoadCopyFull /\ mem[load + OLoadStart] = load /\ mem[load + ORunAddr] = Link
  BY <1>1, KeptFixed, ImageHeader DEF IInv, HartInv, StartInv, LoadCopyFull
<1>3. /\ load \in Int /\ Link \in Int /\ Size \in Int /\ OBss < Size
      /\ Fixed \subseteq 0 .. Size - 1
  BY <1>0, Copies, SizeFact
<1>4. reg[h] \in [d : Int, s : Int, e : Int, i : Nat, ret : InMain] /\ h \in DOMAIN reg
  BY <1>0 DEF TypeOK
<1>5. CASE Link = load /\ pc'[h] = "_relocate_done"
  <2>1. Relocated' /\ Apart
    BY <1>0, <1>2, <1>5 DEF Relocated, LoadCopyFull, Apart
  <2>2. HartInv(h)'
    BY <1>0, <1>1, <1>2, <1>5, <2>1
    DEF HartInv, BaseInv, LowerInv, UpperInv, StartInv, BssInv, MemcpyInv, AtLink,
        AfterRelocation, InMain, BeforeLottery, Relocating
  <2> QED
    BY <1>0, <1>1, <1>5, <2>2, HarmlessStep DEF WinnerOnly, Relocating, AfterRelocation
<1>6. CASE pc'[h] = "_start_hang"
  BY <1>0, <1>1, <1>6, StoppedLabel, HarmlessStep DEF WinnerOnly, Relocating, Stopped
<1>7. CASE /\ Link < load
           /\ ~(LinkEnd > load /\ OverlapHangs(load, LinkEnd, load))
           /\ pc'[h] = "_relocate_copy_to_lower_loop"
           /\ reg'[h].d = Link /\ reg'[h].s = load /\ reg'[h].e = LinkEnd
  <2>1. Apart
    BY <1>0, <1>3, <1>7, RelocateApart
  <2>2. \A o \in Carried : ~(o < 0) /\ mem[load + o] = CarriedWord(o)
    BY <1>2, <1>3 DEF Carried, CarriedWord, LoadCopyFull
  <2>3. LowerInv(h)'
    BY <1>0, <1>3, <1>7, <2>1, <2>2 DEF LowerInv, CarriedWord
  <2>4. HartInv(h)'
    BY <1>0, <1>1, <1>7, <2>3
    DEF HartInv, BaseInv, UpperInv, StartInv, BssInv, MemcpyInv, AtLink,
        AfterRelocation, InMain, BeforeLottery, Relocating
  <2> QED BY <1>0, <1>1, <1>7, <2>4, HarmlessStep DEF WinnerOnly, Relocating
<1>8. CASE /\ load < Link
           /\ ~(LoadEnd > Link /\ OverlapHangs(Link, LoadEnd, Link))
           /\ pc'[h] = "_relocate_copy_to_upper_loop"
           /\ reg'[h].d = LinkEnd /\ reg'[h].s = LoadEnd /\ reg'[h].e = Link
  <2>1. Apart
    BY <1>0, <1>3, <1>8, RelocateApart
  <2>2. \A o \in Carried : ~(o >= Size) /\ mem[load + o] = CarriedWord(o)
    BY <1>2, <1>3 DEF Carried, CarriedWord, LoadCopyFull
  <2>3. LinkEnd - Link = Size
    BY <1>3 DEF LinkEnd
  <2>4. UpperInv(h)'
    BY <1>0, <1>3, <1>8, <2>1, <2>2, <2>3 DEF UpperInv, CarriedWord, LoadEnd
  <2>5. HartInv(h)'
    BY <1>0, <1>1, <1>8, <2>4
    DEF HartInv, BaseInv, LowerInv, StartInv, BssInv, MemcpyInv, AtLink,
        AfterRelocation, InMain, BeforeLottery, Relocating
  <2> QED BY <1>0, <1>1, <1>8, <2>5, HarmlessStep DEF WinnerOnly, Relocating
<1> QED
  <2>1. DOMAIN pc = Harts
    BY <1>0 DEF TypeOK
  <2>2. \/ Link = load /\ Goto(h, "_relocate_done")
        \/ Goto(h, "_start_hang")
        \/ /\ Link < load
           /\ ~(LinkEnd > load /\ OverlapHangs(load, LinkEnd, load))
           /\ Goto(h, "_relocate_copy_to_lower_loop")
           /\ reg' = [reg EXCEPT ![h].d = Link, ![h].s = load, ![h].e = LinkEnd]
        \/ /\ load < Link
           /\ ~(LoadEnd > Link /\ OverlapHangs(Link, LoadEnd, Link))
           /\ Goto(h, "_relocate_copy_to_upper_loop")
           /\ reg' = [reg EXCEPT ![h].d = LinkEnd, ![h].s = LoadEnd, ![h].e = Link]
    BY <1>2 DEF Relocate, LinkEnd, LoadEnd
  <2>3. CASE Link = load /\ Goto(h, "_relocate_done")
    BY <1>5, <2>1, <2>3 DEF Goto
  <2>4. CASE Goto(h, "_start_hang")
    BY <1>6, <2>1, <2>4 DEF Goto
  <2>5. CASE /\ Link < load
             /\ ~(LinkEnd > load /\ OverlapHangs(load, LinkEnd, load))
             /\ Goto(h, "_relocate_copy_to_lower_loop")
             /\ reg' = [reg EXCEPT ![h].d = Link, ![h].s = load, ![h].e = LinkEnd]
    <3>1. reg'[h].d = Link /\ reg'[h].s = load /\ reg'[h].e = LinkEnd
      BY <1>4, <2>5
    <3> QED BY <1>7, <2>1, <2>5, <3>1 DEF Goto
  <2>6. CASE /\ load < Link
             /\ ~(LoadEnd > Link /\ OverlapHangs(Link, LoadEnd, Link))
             /\ Goto(h, "_relocate_copy_to_upper_loop")
             /\ reg' = [reg EXCEPT ![h].d = LinkEnd, ![h].s = LoadEnd, ![h].e = Link]
    <3>1. reg'[h].d = LinkEnd /\ reg'[h].s = LoadEnd /\ reg'[h].e = Link
      BY <1>4, <2>6
    <3> QED BY <1>8, <2>1, <2>6, <3>1 DEF Goto
  <2> QED BY <2>2, <2>3, <2>4, <2>5, <2>6

(* One word of the copy to a lower address: what is below the cursor is  *)
(* in place, and what is not has not been overwritten yet.                  *)
LEMMA CopyToLowerKeeps ==
  ASSUME IInv, TypeOK', UNCHANGED boot, NEW h \in Harts, OnlyMoves(h), CopyToLower(h)
  PROVE  IInv'
<1> DEFINE k == reg[h].d - Link
<1>0. load' = load /\ Apart' = Apart /\ TypeOK /\ \A o : CarriedWord(o)' = CarriedWord(o)
  BY DEF load, Apart, IInv, CarriedWord
<1>1. /\ pc[h] = "_relocate_copy_to_lower_loop" /\ base[h] = load /\ h \in DOMAIN pc /\ h \in DOMAIN base
      /\ reg[h] \in [d : Int, s : Int, e : Int, i : Nat, ret : InMain] /\ h \in DOMAIN reg
  BY DEF CopyToLower, At, IInv, TypeOK, HartInv, BaseInv, Relocating
<1>2. LowerInv(h)
  BY DEF IInv, HartInv
<1>3. /\ load \in Int /\ Link \in Int /\ Size \in Int /\ OBss < Size /\ load # Link /\ Apart
      /\ Link < load /\ k \in 0 .. Size - 1
  BY <1>0, <1>1, <1>2, Copies, SizeFact DEF LowerInv
<1>4. reg[h].d = Link + k /\ reg[h].s = load + k /\ reg[h].e = LinkEnd
  BY <1>1, <1>2, <1>3 DEF LowerInv
<1>5. \A o \in Carried :
        IF o < k THEN mem[Link + o] = CarriedWord(o) ELSE mem[load + o] = CarriedWord(o)
  BY <1>1, <1>2, <1>3 DEF LowerInv
<1> HIDE DEF k
<1>6. reg[h].d = Link + k /\ Word(reg[h].s) = mem[load + k]
  BY <1>0, <1>3, <1>4, Copies DEF Word
<1>7. /\ mem'[Link + k] = mem[load + k]
      /\ \A b \in Addr : b # Link + k => mem'[b] = mem[b]
  BY <1>0, <1>3, <1>6, StoreElsewhere, Copies DEF CopyToLower, IInv, TypeOK
<1>8. \A o \in 0 .. Size - 1 : o # k => mem'[Link + o] = mem[Link + o]
  BY <1>0, <1>3, <1>7, Copies
<1>9. \A o \in 0 .. Size - 1 : k < o => mem'[load + o] = mem[load + o]
  BY <1>0, <1>3, <1>7, Copies
<1>10. \A o \in 0 .. OBss - 1 : mem'[load + o] = mem[load + o]
  <2> SUFFICES ASSUME NEW o \in 0 .. OBss - 1 PROVE load + o # Link + k
    BY <1>0, <1>3, <1>7, Copies
  <2>1. load + o < Link \/ LinkEnd <= load + o
    BY <1>3 DEF Apart
  <2> QED BY <1>3, <2>1 DEF LinkEnd
<1>11. Carried \subseteq 0 .. Size - 1 /\ Fixed \subseteq Carried /\ OLoadStart \in Carried
       /\ OLoadStart \notin Fixed
  BY <1>0, Copies DEF Carried, Fixed, Zeroed
<1>12. \A o \in Carried :
         IF o < k + 1 THEN mem'[Link + o] = CarriedWord(o) ELSE mem'[load + o] = CarriedWord(o)
  <2> SUFFICES ASSUME NEW o \in Carried
               PROVE  IF o < k + 1 THEN mem'[Link + o] = CarriedWord(o)
                      ELSE mem'[load + o] = CarriedWord(o)
    OBVIOUS
  <2>0. o \in 0 .. Size - 1 /\ o \in Int /\ k \in Int
    BY <1>3, <1>11
  <2>1. CASE o = k
    BY <1>3, <1>5, <1>7, <2>0, <2>1
  <2>2. CASE o < k
    BY <1>3, <1>5, <1>8, <2>0, <2>2
  <2>3. CASE k < o
    BY <1>3, <1>5, <1>9, <2>0, <2>3
  <2> QED BY <2>0, <2>1, <2>2, <2>3
<1>13. Relocated => Relocated'
  <2> SUFFICES ASSUME Relocated, NEW o \in Fixed PROVE mem'[Link + o] = Image[o]
    BY DEF Relocated
  <2>1. CASE o = k
    BY <1>3, <1>5, <1>7, <1>11, <2>1 DEF CarriedWord
  <2>2. CASE o # k
    BY <1>8, <1>11, <2>2 DEF Relocated
  <2> QED BY <2>1, <2>2
<1>14. LoadCopyKept'
  BY <1>0, <1>10 DEF IInv, LoadCopyKept, Kept
<1>15. /\ mem'[load + OLottery] = mem[load + OLottery]
       /\ mem'[load + OBootStatus] = mem[load + OBootStatus]
  BY <1>10
<1>16. reg'[h].d = Link + k + 1 /\ reg'[h].s = load + k + 1 /\ reg'[h].e = LinkEnd
  BY <1>1, <1>3, <1>4 DEF CopyToLower
<1>17. CASE k + 1 < Size
  <2>1. pc'[h] = "_relocate_copy_to_lower_loop" /\ base'[h] = load
    BY <1>1, <1>3, <1>4, <1>17 DEF CopyToLower, JumpRelocated, LinkEnd
  <2>2. LowerInv(h)'
    BY <1>0, <1>3, <1>12, <1>16, <1>17 DEF LowerInv, LinkEnd
  <2>3. HartInv(h)'
    BY <1>0, <2>1, <2>2
    DEF HartInv, BaseInv, LowerInv, UpperInv, StartInv, BssInv, MemcpyInv, AtLink,
        AfterRelocation, InMain, BeforeLottery, Relocating
  <2> QED BY <1>1, <1>13, <1>14, <1>15, <2>1, <2>3, WinnerStep DEF WinnerOnly, Relocating
<1>18. CASE ~(k + 1 < Size)
  <2>1. pc'[h] = "_relocate_done" /\ base'[h] = Link
    BY <1>1, <1>3, <1>4, <1>18 DEF CopyToLower, JumpRelocated, Goto, LinkEnd
  <2>2. \A o \in Carried : mem'[Link + o] = CarriedWord(o)
    BY <1>3, <1>11, <1>12, <1>18
  <2>3. Relocated' /\ mem'[Link + OLoadStart] = load
    BY <1>11, <2>2 DEF Relocated, CarriedWord
  <2>4. HartInv(h)'
    BY <1>0, <1>3, <2>1, <2>3
    DEF HartInv, BaseInv, LowerInv, UpperInv, StartInv, BssInv, MemcpyInv, AtLink,
        AfterRelocation, InMain, BeforeLottery, Relocating
  <2> QED
    BY <1>1, <1>13, <1>14, <1>15, <2>1, <2>4, WinnerStep
    DEF WinnerOnly, Relocating, AfterRelocation
<1> QED BY <1>17, <1>18

(* One word of the copy to a higher address: what is above the cursor is  *)
(* in place, and what is not has not been overwritten yet.                  *)
LEMMA CopyToUpperKeeps ==
  ASSUME IInv, TypeOK', UNCHANGED boot, NEW h \in Harts, OnlyMoves(h), CopyToUpper(h)
  PROVE  IInv'
<1> DEFINE k == reg[h].d - Link - 1
<1>0. load' = load /\ Apart' = Apart /\ TypeOK /\ \A o : CarriedWord(o)' = CarriedWord(o)
  BY DEF load, Apart, IInv, CarriedWord
<1>1. /\ pc[h] = "_relocate_copy_to_upper_loop" /\ base[h] = load /\ h \in DOMAIN pc /\ h \in DOMAIN base
      /\ reg[h] \in [d : Int, s : Int, e : Int, i : Nat, ret : InMain] /\ h \in DOMAIN reg
  BY DEF CopyToUpper, At, IInv, TypeOK, HartInv, BaseInv, Relocating
<1>2. UpperInv(h)
  BY DEF IInv, HartInv
<1>3. /\ load \in Int /\ Link \in Int /\ Size \in Int /\ OBss < Size /\ load # Link /\ Apart
      /\ load < Link /\ k \in 0 .. Size - 1
  BY <1>0, <1>1, <1>2, Copies, SizeFact DEF UpperInv
<1>4. reg[h].d = Link + k + 1 /\ reg[h].s = load + k + 1 /\ reg[h].e = Link
  BY <1>1, <1>2, <1>3 DEF UpperInv
<1>5. \A o \in Carried :
        IF o >= k + 1 THEN mem[Link + o] = CarriedWord(o) ELSE mem[load + o] = CarriedWord(o)
  BY <1>1, <1>2, <1>3 DEF UpperInv
<1> HIDE DEF k
<1>6. reg[h].d - 1 = Link + k /\ Word(reg[h].s - 1) = mem[load + k]
  BY <1>0, <1>3, <1>4, Copies DEF Word
<1>7. /\ mem'[Link + k] = mem[load + k]
      /\ \A b \in Addr : b # Link + k => mem'[b] = mem[b]
  BY <1>0, <1>3, <1>6, StoreElsewhere, Copies DEF CopyToUpper, IInv, TypeOK
<1>8. \A o \in 0 .. Size - 1 : o # k => mem'[Link + o] = mem[Link + o]
  BY <1>0, <1>3, <1>7, Copies
<1>9. \A o \in 0 .. Size - 1 : o < k => mem'[load + o] = mem[load + o]
  BY <1>0, <1>3, <1>7, Copies
<1>10. \A o \in 0 .. OBss - 1 : mem'[load + o] = mem[load + o]
  <2> SUFFICES ASSUME NEW o \in 0 .. OBss - 1 PROVE load + o # Link + k
    BY <1>0, <1>3, <1>7, Copies
  <2>1. load + o < Link \/ LinkEnd <= load + o
    BY <1>3 DEF Apart
  <2> QED BY <1>3, <2>1 DEF LinkEnd
<1>11. Carried \subseteq 0 .. Size - 1 /\ Fixed \subseteq Carried /\ OLoadStart \in Carried
       /\ OLoadStart \notin Fixed
  BY <1>0, Copies DEF Carried, Fixed, Zeroed
<1>12. \A o \in Carried :
         IF o >= k THEN mem'[Link + o] = CarriedWord(o) ELSE mem'[load + o] = CarriedWord(o)
  <2> SUFFICES ASSUME NEW o \in Carried
               PROVE  IF o >= k THEN mem'[Link + o] = CarriedWord(o)
                      ELSE mem'[load + o] = CarriedWord(o)
    OBVIOUS
  <2>0. o \in 0 .. Size - 1 /\ o \in Int /\ k \in Int
    BY <1>3, <1>11
  <2>1. CASE o = k
    BY <1>3, <1>5, <1>7, <2>0, <2>1
  <2>2. CASE k < o
    BY <1>3, <1>5, <1>8, <2>0, <2>2
  <2>3. CASE o < k
    BY <1>3, <1>5, <1>9, <2>0, <2>3
  <2> QED BY <2>0, <2>1, <2>2, <2>3
<1>13. Relocated => Relocated'
  <2> SUFFICES ASSUME Relocated, NEW o \in Fixed PROVE mem'[Link + o] = Image[o]
    BY DEF Relocated
  <2>1. CASE o = k
    BY <1>3, <1>5, <1>7, <1>11, <2>1 DEF CarriedWord
  <2>2. CASE o # k
    BY <1>8, <1>11, <2>2 DEF Relocated
  <2> QED BY <2>1, <2>2
<1>14. LoadCopyKept'
  BY <1>0, <1>10 DEF IInv, LoadCopyKept, Kept
<1>15. /\ mem'[load + OLottery] = mem[load + OLottery]
       /\ mem'[load + OBootStatus] = mem[load + OBootStatus]
  BY <1>10
<1>16. reg'[h].d = Link + k /\ reg'[h].s = load + k /\ reg'[h].e = Link
  <2>1. reg'[h].d = reg[h].d - 1 /\ reg'[h].s = reg[h].s - 1 /\ reg'[h].e = reg[h].e
    BY <1>1 DEF CopyToUpper
  <2> QED BY <1>3, <1>4, <2>1
<1>17. CASE 0 < k
  <2>1. pc'[h] = "_relocate_copy_to_upper_loop" /\ base'[h] = load
    BY <1>1, <1>3, <1>4, <1>17 DEF CopyToUpper, JumpRelocated, LinkEnd
  <2>2. UpperInv(h)'
    BY <1>0, <1>3, <1>12, <1>16, <1>17 DEF UpperInv, LinkEnd
  <2>3. HartInv(h)'
    BY <1>0, <2>1, <2>2
    DEF HartInv, BaseInv, LowerInv, UpperInv, StartInv, BssInv, MemcpyInv, AtLink,
        AfterRelocation, InMain, BeforeLottery, Relocating
  <2> QED BY <1>1, <1>13, <1>14, <1>15, <2>1, <2>3, WinnerStep DEF WinnerOnly, Relocating
<1>18. CASE ~(0 < k)
  <2>1. pc'[h] = "_relocate_done" /\ base'[h] = Link
    BY <1>1, <1>3, <1>4, <1>18 DEF CopyToUpper, JumpRelocated, Goto, LinkEnd
  <2>2. \A o \in Carried : mem'[Link + o] = CarriedWord(o)
    BY <1>3, <1>11, <1>12, <1>18
  <2>3. Relocated' /\ mem'[Link + OLoadStart] = load
    BY <1>11, <2>2 DEF Relocated, CarriedWord
  <2>4. HartInv(h)'
    BY <1>0, <1>3, <2>1, <2>3
    DEF HartInv, BaseInv, LowerInv, UpperInv, StartInv, BssInv, MemcpyInv, AtLink,
        AfterRelocation, InMain, BeforeLottery, Relocating
  <2> QED
    BY <1>1, <1>13, <1>14, <1>15, <2>1, <2>4, WinnerStep
    DEF WinnerOnly, Relocating, AfterRelocation
<1> QED BY <1>17, <1>18

-----------------------------------------------------------------------------
(* A loser that looks where the image runs still finds the header.          *)
LEMMA WaitRelocateCopyDoneKeeps ==
  ASSUME IInv, TypeOK', UNCHANGED boot, NEW h \in Harts, OnlyMoves(h),
         WaitRelocateCopyDone(h)
  PROVE  IInv'
<1>0. load' = load /\ Apart' = Apart /\ Relocated' = Relocated /\ UNCHANGED mem
  BY DEF load, Apart, Relocated, WaitRelocateCopyDone
<1>1. /\ pc[h] = "_wait_relocate_copy_done" /\ base'[h] = load
      /\ h \in DOMAIN pc /\ h \in DOMAIN reg
      /\ reg[h] \in [d : Int, s : Int, e : Int, i : Nat, ret : InMain]
  BY DEF WaitRelocateCopyDone, At, IInv, TypeOK, HartInv, BaseInv
<1>2. mem[load + ORunAddr] = Link
  BY KeptFixed, ImageHeader DEF IInv, LoadCopyKept
<1>3. reg'[h].d = Link
  BY <1>1, <1>2 DEF WaitRelocateCopyDone
<1>4. CASE load = Link
  <2>1. pc'[h] = "_secondary_spin_loop"
    BY <1>1, <1>2, <1>4 DEF WaitRelocateCopyDone, Goto
  <2>2. Relocated' /\ Apart'
    BY <1>0, <1>4 DEF IInv, StatusMeansRelocated, Apart
  <2>3. base'[h] = Link
    BY <1>1, <1>4
  <2>4. HartInv(h)'
    BY <2>1, <2>2, <2>3, PlainLabel
  <2> QED
    BY <1>0, <1>1, <2>1, <2>4, LoserStep
    DEF WinnerOnly, Relocating, AfterRelocation, InMain, BeforeLottery
<1>5. CASE load # Link
  <2>1. pc'[h] = "_wait_loop"
    BY <1>1, <1>2, <1>5 DEF WaitRelocateCopyDone, Goto
  <2> QED
    BY <1>0, <1>1, <1>3, <2>1, LoadLabel, LoserStep
    DEF WinnerOnly, Relocating, AfterRelocation, InMain, BeforeLottery
<1> QED BY <1>4, <1>5

(* A status above zero is the winner's word that the copy is done. *)
LEMMA WaitLoopKeeps ==
  ASSUME IInv, TypeOK', UNCHANGED boot, NEW h \in Harts, OnlyMoves(h), WaitLoop(h)
  PROVE  IInv'
<1>0. /\ load' = load /\ Apart' = Apart /\ Relocated' = Relocated
      /\ UNCHANGED <<mem, reg>> /\ TypeOK
  BY DEF load, Apart, Relocated, WaitLoop, IInv
<1>1. /\ pc[h] = "_wait_loop" /\ base[h] = load /\ reg[h].d = Link
      /\ h \in DOMAIN pc /\ h \in DOMAIN base
  BY DEF WaitLoop, At, IInv, TypeOK, HartInv, BaseInv
<1>2. mem[load + OBootStatus] \in Int
  BY <1>0, Copies DEF TypeOK
<1>3. CASE 1 > mem[load + OBootStatus]
  <2>1. pc'[h] = "_wait_loop" /\ base'[h] = load /\ reg'[h].d = Link
    BY <1>0, <1>1, <1>3 DEF WaitLoop
  <2> QED
    BY <1>0, <1>1, <2>1, LoadLabel, LoserStep
    DEF WinnerOnly, Relocating, AfterRelocation, InMain, BeforeLottery
<1>4. CASE ~(1 > mem[load + OBootStatus])
  <2>1. pc'[h] = "_secondary_spin_loop" /\ base'[h] = Link
    BY <1>1, <1>4 DEF WaitLoop, Goto
  <2>2. Relocated' /\ Apart'
    BY <1>0, <1>2, <1>4 DEF IInv, StatusMeansRelocated
  <2>3. HartInv(h)'
    BY <2>1, <2>2, PlainLabel
  <2> QED
    BY <1>0, <1>1, <2>1, <2>3, LoserStep
    DEF WinnerOnly, Relocating, AfterRelocation, InMain, BeforeLottery
<1> QED BY <1>3, <1>4

(* _secondary_spin_loop (head.S:232-249) keeps the invariant. *)
LEMMA SpinLoopKeeps ==
  ASSUME IInv, TypeOK', UNCHANGED boot, NEW h \in Harts, OnlyMoves(h), SpinLoop(h)
  PROVE  IInv'
<1>0. load' = load /\ Apart' = Apart /\ Relocated' = Relocated /\ UNCHANGED mem
  BY DEF load, Apart, Relocated, SpinLoop
<1>1. /\ pc[h] = "_secondary_spin_loop" /\ base'[h] = Link /\ h \in DOMAIN pc
      /\ Relocated' /\ Apart'
  BY <1>0 DEF SpinLoop, At, IInv, TypeOK, HartInv, BaseInv, AtLink
<1>2. pc'[h] \in {"_secondary_spin_loop", "joined"}
  BY <1>1 DEF SpinLoop, Enter, Goto
<1>3. HartInv(h)'
  <2>1. CASE pc'[h] = "_secondary_spin_loop"
    BY <1>1, <2>1, PlainLabel
  <2>2. CASE pc'[h] = "joined"
    BY <2>2, StoppedLabel DEF Stopped
  <2> QED BY <1>2, <2>1, <2>2
<1> QED
  BY <1>0, <1>1, <1>2, <1>3, LoserStep
  DEF WinnerOnly, Relocating, AfterRelocation, InMain, BeforeLottery

-----------------------------------------------------------------------------
(* The winner in the running image. *)
LEMMA WinnerAtLink ==
  ASSUME IInv, NEW h \in Harts, pc[h] \in AfterRelocation
  PROVE  /\ base[h] = Link /\ Relocated /\ Apart /\ pc[h] \in WinnerOnly /\ TypeOK
         /\ mem[Link + ORunAddr] = Link
         /\ mem[Link + ONextRun] = NextRun
         /\ mem[Link + ONextFdt] = NextFdt
<1>1. base[h] = Link /\ Relocated /\ Apart
  BY DEF IInv, HartInv, BaseInv, AtLink
<1>2. /\ mem[Link + ORunAddr] = Link
      /\ mem[Link + ONextRun] = NextRun
      /\ mem[Link + ONextFdt] = NextFdt
  BY <1>1, KeptFixed, ImageHeader DEF Relocated
<1> QED BY <1>1, <1>2 DEF WinnerOnly, IInv

(* The status is stored in the load copy: what the image says of where it   *)
(* runs and was loaded takes the address back there.                        *)
LEMMA RelocateDoneKeeps ==
  ASSUME IInv, TypeOK', UNCHANGED boot, NEW h \in Harts, OnlyMoves(h), RelocateDone(h)
  PROVE  IInv'
<1>0. load' = load /\ Apart' = Apart /\ TypeOK
  BY DEF load, Apart, IInv
<1>1. /\ pc[h] = "_relocate_done" /\ pc'[h] = "_save_boot_arg1" /\ base' = base
  BY DEF RelocateDone, At, Goto, IInv, TypeOK
<1>2. /\ base[h] = Link /\ Relocated /\ Apart /\ pc[h] \in WinnerOnly
      /\ mem[Link + ORunAddr] = Link /\ mem[Link + OLoadStart] = load
  BY <1>1, WinnerAtLink DEF IInv, HartInv, StartInv, AfterRelocation
<1>3. Link \in Int /\ load \in Int /\ Size \in Int /\ OBss < Size
  BY <1>0, Copies, SizeFact
<1>4. base[h] + OBootStatus - mem[base[h] + ORunAddr] + mem[base[h] + OLoadStart]
        = load + OBootStatus
  BY <1>2, <1>3
<1>5. \A b \in Addr : b # load + OBootStatus => mem'[b] = mem[b]
  BY <1>4, StoreElsewhere DEF RelocateDone, IInv, TypeOK
<1>6. \A o \in 0 .. Size - 1 : o # OBootStatus => mem'[load + o] = mem[load + o]
  BY <1>0, <1>3, <1>5, Copies
<1>7. LoadCopyKept' /\ mem'[load + OLottery] = mem[load + OLottery]
  BY <1>0, <1>3, <1>6, Copies DEF IInv, LoadCopyKept, Kept, Zeroed
<1>8. Relocated'
  <2> SUFFICES ASSUME NEW o \in Fixed PROVE Link + o # load + OBootStatus
    BY <1>0, <1>2, <1>5, Copies DEF Relocated
  <2>1. o \in Int /\ 0 <= o /\ o < Size /\ o # OBootStatus
    BY <1>0, <1>3, Copies DEF Fixed, Zeroed
  <2>2. load = Link \/ load + OBootStatus < Link \/ LinkEnd <= load + OBootStatus
    BY <1>2 DEF Apart
  <2> QED BY <1>3, <2>1, <2>2 DEF LinkEnd
<1>9. HartInv(h)'
  BY <1>0, <1>1, <1>2, <1>8, PlainLabel DEF AfterRelocation
<1> QED
  BY <1>1, <1>2, <1>7, <1>8, <1>9, WinnerStep DEF WinnerOnly, AfterRelocation

(* Saving a1 (head.S:191-197) keeps the invariant: the word is in .data. *)
LEMMA SaveBootArg1Keeps ==
  ASSUME IInv, TypeOK', UNCHANGED boot, NEW h \in Harts, OnlyMoves(h), SaveBootArg1(h)
  PROVE  IInv'
<1>0. load' = load /\ Apart' = Apart /\ TypeOK
  BY DEF load, Apart, IInv
<1>1. /\ pc[h] = "_save_boot_arg1" /\ pc'[h] = "_bss_zero" /\ base' = base
      /\ reg[h] \in [d : Int, s : Int, e : Int, i : Nat, ret : InMain] /\ h \in DOMAIN reg
  BY DEF SaveBootArg1, At, Goto, IInv, TypeOK
<1>2. base[h] = Link /\ Relocated /\ Apart /\ pc[h] \in WinnerOnly
  BY <1>1, WinnerAtLink DEF AfterRelocation
<1>3. Harmless(Link + OBootArg1) /\ Store(Link + OBootArg1, boot.arg1)
  BY <1>0, <1>2, ImageStoreHarmless DEF SaveBootArg1
<1>4. Relocated'
  BY <1>0, <1>2, <1>3, HarmlessStore
<1>5. reg'[h].d = Link + OBss /\ reg'[h].e = Link + OPayload
  BY <1>1, <1>2 DEF SaveBootArg1
<1>6. Link + OBss \in Link + OBss .. Link + OPayload - 1
  BY <1>0, Copies, SizeFact
<1>7. HartInv(h)'
  BY <1>0, <1>1, <1>2, <1>4, <1>5, <1>6
  DEF HartInv, BaseInv, LowerInv, UpperInv, StartInv, BssInv, MemcpyInv, AtLink,
      AfterRelocation, InMain, BeforeLottery, Relocating
<1> QED BY <1>1, <1>2, <1>3, <1>7, HarmlessStep DEF WinnerOnly, AfterRelocation

(* _bss_zero (head.S:198-201) keeps the invariant: the loop stays in .bss. *)
LEMMA BssZeroKeeps ==
  ASSUME IInv, TypeOK', UNCHANGED boot, NEW h \in Harts, OnlyMoves(h), BssZero(h)
  PROVE  IInv'
<1>0. load' = load /\ Apart' = Apart /\ TypeOK
  BY DEF load, Apart, IInv
<1>1. /\ pc[h] = "_bss_zero" /\ base' = base /\ h \in DOMAIN pc
      /\ reg[h] \in [d : Int, s : Int, e : Int, i : Nat, ret : InMain] /\ h \in DOMAIN reg
  BY DEF BssZero, At, IInv, TypeOK
<1>2. /\ base[h] = Link /\ Relocated /\ Apart /\ pc[h] \in WinnerOnly
      /\ reg[h].d \in Link + OBss .. Link + OPayload - 1 /\ reg[h].e = Link + OPayload
  BY <1>1, WinnerAtLink DEF AfterRelocation, IInv, HartInv, BssInv
<1>3. Link \in Int /\ OPayload \in Int /\ OBss < OPayload
  BY <1>0, Copies, SizeFact
<1>4. Harmless(reg[h].d) /\ Store(reg[h].d, 0)
  <2>1. reg[h].d - Link \in OBss .. OPayload - 1 /\ reg[h].d = Link + (reg[h].d - Link)
    BY <1>2, <1>3
  <2> QED BY <1>0, <1>2, <2>1, ImageStoreHarmless DEF BssZero
<1>5. Relocated'
  BY <1>0, <1>2, <1>4, HarmlessStore
<1>6. reg'[h].d = reg[h].d + 1 /\ reg'[h].e = Link + OPayload
  BY <1>1, <1>2 DEF BssZero
<1>7. CASE reg[h].d + 1 < reg[h].e
  <2>1. pc'[h] = "_bss_zero"
    BY <1>1, <1>7 DEF BssZero
  <2>2. reg'[h].d \in Link + OBss .. Link + OPayload - 1
    BY <1>2, <1>3, <1>6, <1>7
  <2>3. HartInv(h)'
    BY <1>0, <1>1, <1>2, <1>5, <1>6, <2>1, <2>2
    DEF HartInv, BaseInv, LowerInv, UpperInv, StartInv, BssInv, MemcpyInv, AtLink,
        AfterRelocation, InMain, BeforeLottery, Relocating
  <2> QED BY <1>1, <1>2, <1>4, <2>1, <2>3, HarmlessStep
<1>8. CASE ~(reg[h].d + 1 < reg[h].e)
  <2>1. pc'[h] = "zstage_main"
    BY <1>1, <1>8 DEF BssZero, Goto
  <2>2. HartInv(h)'
    BY <1>0, <1>1, <1>2, <1>5, <2>1, PlainLabel DEF AfterRelocation, InMain
  <2> QED
    BY <1>1, <1>2, <1>4, <2>1, <2>2, HarmlessStep DEF WinnerOnly, AfterRelocation, InMain
<1> QED BY <1>7, <1>8

(* zstage_main, where it only looks and branches. *)
LEMMA MainBranchKeeps ==
  ASSUME IInv, TypeOK', UNCHANGED boot, NEW h \in Harts, OnlyMoves(h),
         ZstageMain(h) \/ FinalInit(h)
  PROVE  IInv'
<1>0. load' = load /\ Apart' = Apart /\ Relocated' = Relocated /\ UNCHANGED <<mem, base>>
  BY DEF load, Apart, Relocated, ZstageMain, FinalInit
<1>1. pc[h] \in AfterRelocation /\ h \in DOMAIN pc
  BY DEF ZstageMain, FinalInit, At, AfterRelocation, InMain, IInv, TypeOK
<1>2. base'[h] = Link /\ Relocated' /\ Apart' /\ pc[h] \in WinnerOnly
  BY <1>0, <1>1, WinnerAtLink
<1>3. pc'[h] \in {"copy_blobs", "_release_spin", "zstage_hang"}
  BY <1>1 DEF ZstageMain, FinalInit, Goto
<1>4. HartInv(h)'
  <2>1. CASE pc'[h] = "zstage_hang"
    BY <2>1, StoppedLabel DEF Stopped
  <2>2. CASE pc'[h] # "zstage_hang"
    BY <1>2, <1>3, <2>2, PlainLabel DEF AfterRelocation, InMain
  <2> QED BY <2>1, <2>2
<1> QED
  BY <1>0, <1>2, <1>3, <1>4, HarmlessStep DEF WinnerOnly, AfterRelocation, InMain

(* A call of memcpy whose destination a safe layout knows. *)
LEMMA CallKeeps ==
  ASSUME IInv, TypeOK', UNCHANGED <<mem, base, boot>>, NEW h \in Harts, OnlyMoves(h),
         pc[h] \in AfterRelocation,
         NEW dst \in Int, NEW src, NEW len \in Int, NEW i, NEW ret,
         Call(h, dst, src, len, i, ret),
         dst .. dst + len - 1 \subseteq Destinations
  PROVE  IInv'
<1>0. load' = load /\ Apart' = Apart /\ Relocated' = Relocated
  BY DEF load, Apart, Relocated
<1>1. base'[h] = Link /\ Relocated' /\ Apart' /\ pc[h] \in WinnerOnly
  BY <1>0, WinnerAtLink
<1>2. pc'[h] = "memcpy" /\ reg'[h].d = dst /\ reg'[h].e = dst + len
  BY DEF Call, Goto, IInv, TypeOK
<1>3. MemcpyInv(h)'
  <2>1. reg'[h].d .. reg'[h].e - 1 \subseteq Destinations
    BY <1>2
  <2> QED BY <2>1 DEF MemcpyInv
<1>4. HartInv(h)'
  BY <1>0, <1>1, <1>2, <1>3
  DEF HartInv, BaseInv, LowerInv, UpperInv, StartInv, BssInv, AtLink,
      AfterRelocation, InMain, BeforeLottery, Relocating
<1> QED BY <1>1, <1>2, <1>4, HarmlessStep DEF WinnerOnly, AfterRelocation, InMain

(* What a blob is copied over is among the destinations. *)
LEMMA BlobDestination ==
  ASSUME NEW i \in 1 .. Len(Blobs)
  PROVE  Blobs[i].dst .. Blobs[i].dst + Blobs[i].size - 1 \subseteq Destinations
BY DEF Destinations

(* The steps that do not call go on to a label of main.c without a loop. *)
LEMMA SkipKeeps ==
  ASSUME IInv, TypeOK', UNCHANGED <<mem, base, boot>>, NEW h \in Harts, OnlyMoves(h),
         pc[h] \in AfterRelocation,
         pc'[h] \in {"prepare_fdt", "zstage_hang", "final_init", "_jump", "booted"}
  PROVE  IInv'
<1>0. load' = load /\ Apart' = Apart /\ Relocated' = Relocated
  BY DEF load, Apart, Relocated
<1>1. base'[h] = Link /\ Relocated' /\ Apart' /\ pc[h] \in WinnerOnly
  BY <1>0, WinnerAtLink
<1>2. HartInv(h)'
  <2>1. CASE pc'[h] = "zstage_hang"
    BY <2>1, StoppedLabel DEF Stopped
  <2>2. CASE pc'[h] # "zstage_hang"
    BY <1>1, <2>2, PlainLabel DEF AfterRelocation, InMain
  <2> QED BY <2>1, <2>2
<1> QED BY <1>1, <1>2, HarmlessStep DEF WinnerOnly, AfterRelocation, InMain

(* The blob loop of zstage_main keeps the invariant. *)
LEMMA CopyBlobKeeps ==
  ASSUME SafeLayout, IInv, TypeOK', UNCHANGED boot, NEW h \in Harts, OnlyMoves(h), CopyBlob(h)
  PROVE  IInv'
<1>1. pc[h] \in AfterRelocation /\ UNCHANGED <<mem, base, boot>> /\ h \in DOMAIN pc
  BY DEF CopyBlob, At, AfterRelocation, InMain, IInv, TypeOK
<1>2. CASE reg[h].i \in 1 .. Len(Blobs) /\ Blobs[reg[h].i].size # 0
  <2> DEFINE blob == Blobs[reg[h].i]
  <2>1. Call(h, blob.dst, blob.src, blob.size, reg[h].i + 1, "copy_blobs")
    BY <1>2 DEF CopyBlob
  <2>2. blob.dst .. blob.dst + blob.size - 1 \subseteq Destinations
    BY <1>2, BlobDestination
  <2>3. blob.dst \in Int /\ blob.size \in Int
    <3>1. blob \in [src : Int, dst : Int, size : Nat]
      BY <1>2, BlobType
    <3> QED BY <3>1
  <2> HIDE DEF blob
  <2> QED BY <1>1, <2>1, <2>2, <2>3, CallKeeps
<1>3. CASE ~(reg[h].i \in 1 .. Len(Blobs) /\ Blobs[reg[h].i].size # 0)
  <2>1. pc'[h] = "prepare_fdt"
    BY <1>1, <1>3 DEF CopyBlob, Goto
  <2> QED BY <1>1, <2>1, SkipKeeps
<1> QED BY <1>2, <1>3

(* platform_prepare_fdt keeps the invariant. *)
LEMMA PrepareFdtKeeps ==
  ASSUME SafeLayout, IInv, TypeOK', UNCHANGED boot, NEW h \in Harts, OnlyMoves(h), PrepareFdt(h)
  PROVE  IInv'
<1>1. pc[h] \in AfterRelocation /\ UNCHANGED <<mem, base, boot>> /\ h \in DOMAIN pc
  BY DEF PrepareFdt, At, AfterRelocation, InMain, IInv, TypeOK
<1>2. mem[base[h] + ONextFdt] = NextFdt
  BY <1>1, WinnerAtLink
<1>3. /\ NextFdt .. NextFdt + FdtLen - 1 \subseteq Destinations
      /\ NextFdt \in Int /\ FdtLen \in Int
  BY HeadAssumed DEF HeadAssumption, Destinations
<1>4. \/ Call(h, NextFdt, mem[base[h] + OBootArg1], FdtLen, 0, "copy_next")
      \/ pc'[h] = "zstage_hang"
  BY <1>1, <1>2 DEF PrepareFdt, Goto
<1> QED BY <1>1, <1>3, <1>4, CallKeeps, SkipKeeps

(* Copying the payload, or leaving it, keeps the invariant. *)
LEMMA CopyNextKeeps ==
  ASSUME SafeLayout, IInv, TypeOK', UNCHANGED boot, NEW h \in Harts, OnlyMoves(h), CopyNext(h)
  PROVE  IInv'
<1>1. pc[h] \in AfterRelocation /\ UNCHANGED <<mem, base, boot>> /\ h \in DOMAIN pc
  BY DEF CopyNext, At, AfterRelocation, InMain, IInv, TypeOK
<1>2. mem[base[h] + ONextRun] = NextRun
  BY <1>1, WinnerAtLink
<1>3. CASE Link + OPayload # NextRun
  <2>1. /\ NextRun .. NextRun + PayLen - 1 \subseteq Destinations
        /\ NextRun \in Int /\ PayLen \in Int
    BY <1>3, HeadAssumed DEF HeadAssumption, Destinations
  <2>2. Call(h, NextRun, Link + OPayload, PayLen, 0, "final_init")
    BY <1>2, <1>3 DEF CopyNext
  <2> QED BY <1>1, <2>1, <2>2, CallKeeps
<1>4. CASE Link + OPayload = NextRun
  <2>1. pc'[h] = "final_init"
    BY <1>1, <1>2, <1>4 DEF CopyNext, Goto
  <2> QED BY <1>1, <2>1, SkipKeeps
<1> QED BY <1>3, <1>4

(* A word of memcpy keeps the invariant: it lands in a destination,
   which a safe layout keeps apart from both copies of the image. *)
LEMMA MemcpyKeeps ==
  ASSUME SafeLayout, IInv, TypeOK', UNCHANGED boot, NEW h \in Harts, OnlyMoves(h), Memcpy(h)
  PROVE  IInv'
<1>0. load' = load /\ Apart' = Apart /\ TypeOK
  BY DEF load, Apart, IInv
<1>1. /\ pc[h] = "memcpy" /\ base' = base /\ h \in DOMAIN pc
      /\ reg[h] \in [d : Int, s : Int, e : Int, i : Nat, ret : InMain] /\ h \in DOMAIN reg
  BY DEF Memcpy, At, IInv, TypeOK
<1>2. /\ base[h] = Link /\ Relocated /\ Apart /\ pc[h] \in WinnerOnly
      /\ reg[h].d .. reg[h].e - 1 \subseteq Destinations
  BY <1>1, WinnerAtLink DEF AfterRelocation, InMain, IInv, HartInv, MemcpyInv
<1>3. CASE reg[h].d < reg[h].e
  <2>1. reg[h].d \in Destinations
    BY <1>1, <1>2, <1>3
  <2>2. Harmless(reg[h].d) /\ Store(reg[h].d, Word(reg[h].s))
    BY <1>0, <1>3, <2>1, DestinationHarmless DEF Memcpy
  <2>3. Relocated'
    BY <1>0, <1>2, <2>2, HarmlessStore
  <2>4. pc'[h] = "memcpy" /\ reg'[h].d = reg[h].d + 1 /\ reg'[h].e = reg[h].e
    BY <1>1, <1>3 DEF Memcpy
  <2>5. reg'[h].d .. reg'[h].e - 1 \subseteq Destinations
    BY <1>1, <1>2, <2>4
  <2>6. HartInv(h)'
    BY <1>0, <1>1, <1>2, <2>3, <2>4, <2>5
    DEF HartInv, BaseInv, LowerInv, UpperInv, StartInv, BssInv, MemcpyInv, AtLink,
        AfterRelocation, InMain, BeforeLottery, Relocating
  <2> QED BY <1>1, <1>2, <2>2, <2>4, <2>6, HarmlessStep
<1>4. CASE ~(reg[h].d < reg[h].e)
  <2>1. pc'[h] = reg[h].ret /\ reg[h].ret \in InMain /\ UNCHANGED <<mem, reg>>
    BY <1>1, <1>4 DEF Memcpy, Goto
  <2>2. Relocated'
    BY <1>2, <2>1 DEF Relocated
  <2>3. HartInv(h)'
    BY <1>0, <1>1, <1>2, <2>1, <2>2
    DEF HartInv, BaseInv, LowerInv, UpperInv, StartInv, BssInv, MemcpyInv, AtLink,
        AfterRelocation, InMain, BeforeLottery, Relocating
  <2> QED BY <1>2, <2>1, <2>3, HarmlessStep DEF WinnerOnly, AfterRelocation
<1> QED BY <1>3, <1>4

-----------------------------------------------------------------------------
(* The store to _zstage_spin_addr (head.S:212-219) keeps the invariant. *)
LEMMA ReleaseSpinKeeps ==
  ASSUME IInv, TypeOK', UNCHANGED boot, NEW h \in Harts, OnlyMoves(h), ReleaseSpin(h)
  PROVE  IInv'
<1>0. load' = load /\ Apart' = Apart /\ TypeOK
  BY DEF load, Apart, IInv
<1>1. pc[h] = "_release_spin" /\ pc'[h] = "_jump" /\ base' = base
  BY DEF ReleaseSpin, At, Goto, IInv, TypeOK
<1>2. base[h] = Link /\ Relocated /\ Apart /\ pc[h] \in WinnerOnly
  BY <1>1, WinnerAtLink DEF AfterRelocation
<1>3. UNCHANGED mem \/ \E a, v : Harmless(a) /\ Store(a, v)
  BY <1>0, <1>2, ImageStoreHarmless DEF ReleaseSpin
<1>4. Relocated'
  <2>1. CASE UNCHANGED mem
    BY <1>2, <2>1 DEF Relocated
  <2> QED BY <1>0, <1>2, <1>3, <2>1, HarmlessStore
<1>5. HartInv(h)'
  BY <1>0, <1>1, <1>2, <1>4, PlainLabel DEF AfterRelocation
<1> QED BY <1>1, <1>2, <1>3, <1>5, HarmlessStep DEF WinnerOnly, AfterRelocation

(* The jump to the next stage (head.S:221-230) keeps the invariant. *)
LEMMA JumpKeeps ==
  ASSUME IInv, TypeOK', UNCHANGED boot, NEW h \in Harts, OnlyMoves(h), Jump(h)
  PROVE  IInv'
<1>1. pc[h] \in AfterRelocation /\ UNCHANGED <<mem, base, boot>> /\ pc'[h] = "booted"
  BY DEF Jump, At, Enter, Goto, AfterRelocation, IInv, TypeOK
<1> QED BY <1>1, SkipKeeps

(* The next stage may write the spin word of the running image: no word a   *)
(* hart of zStage still executes.                                           *)
LEMMA NextStageReleasesKeeps ==
  ASSUME IInv, TypeOK', UNCHANGED <<boot, pc, base, reg>>, NextStageReleases
  PROVE  IInv'
<1>0. load' = load /\ Apart' = Apart /\ TypeOK
  BY DEF load, Apart, IInv
<1>1. PICK h \in Harts : pc[h] = "booted"
  BY DEF NextStageReleases
<1>2. Relocated /\ Apart /\ pc[h] \in WinnerOnly
  BY <1>1 DEF IInv, HartInv, BaseInv, AtLink, WinnerOnly
<1>3. Harmless(Link + OSpin) /\ Store(Link + OSpin, NextRun)
  BY <1>0, <1>2, ImageStoreHarmless DEF NextStageReleases
<1>4. Relocated'
  BY <1>0, <1>2, <1>3, HarmlessStore
<1>5. HartInv(h)'
  <2>1. base[h] = Link
    BY <1>1 DEF IInv, HartInv, BaseInv, AtLink
  <2> QED BY <1>0, <1>1, <1>2, <1>4, <2>1, PlainLabel
<1> QED BY <1>1, <1>2, <1>3, <1>5, HarmlessStep DEF OnlyMoves

(* Nothing has been lost yet: every word a hart is sent to is still there.  *)
LEMMA NoDerail == ASSUME IInv, NEW h \in Harts PROVE ~Derail(h)
<1> SUFFICES ASSUME pc[h] \in Running
             PROVE  mem[base[h] + CodeOf[pc[h]]] = Image[CodeOf[pc[h]]]
  BY DEF Derail
<1>1. CodeOf[pc[h]] \in Kept
  BY CodeKept
<1>2. CASE AtLink(h)
  BY <1>1, <1>2, KeptFixed DEF IInv, HartInv, BaseInv, Relocated
<1>3. CASE ~AtLink(h)
  <2>1. base[h] = load
    BY <1>3 DEF IInv, HartInv, BaseInv, AtLink, Running, CodeOf, AfterRelocation, InMain,
       BeforeLottery, Relocating
  <2> QED BY <1>1, <2>1 DEF IInv, LoadCopyKept
<1> QED BY <1>2, <1>3

(* A step that changes nothing keeps the invariant. *)
LEMMA StutterKeeps == IInv /\ UNCHANGED vars => IInv'
<1> SUFFICES ASSUME IInv, UNCHANGED vars PROVE IInv'
  OBVIOUS
<1>1. /\ mem' = mem /\ pc' = pc /\ base' = base /\ reg' = reg /\ handoff' = handoff
      /\ boot' = boot /\ load' = load
  BY DEF vars, load
<1> QED
  BY <1>1
  DEF IInv, TypeOK, OneBootHart, NoHartLost, LotteryHeld, LoadCopyKept, StatusMeansRelocated,
      Untouched, HartInv, BaseInv, LowerInv, UpperInv, StartInv, BssInv, MemcpyInv, AtLink,
      Apart, Relocated, LoadCopyFull, CarriedWord

(* Whatever a hart does keeps the invariant. *)
LEMMA HartKeeps ==
  ASSUME SafeLayout, IInv, TypeOK', UNCHANGED boot, NEW h \in Harts, OnlyMoves(h), Hart(h)
  PROVE  IInv'
BY StartKeeps, LotteryKeeps, SaveLoadAddressKeeps, RelocateKeeps, CopyToLowerKeeps,
   CopyToUpperKeeps, WaitRelocateCopyDoneKeeps, WaitLoopKeeps, RelocateDoneKeeps,
   SaveBootArg1Keeps, BssZeroKeeps, MainBranchKeeps, CopyBlobKeeps, MemcpyKeeps,
   PrepareFdtKeeps, CopyNextKeeps, ReleaseSpinKeeps, JumpKeeps, SpinLoopKeeps, NoDerail,
   StutterKeeps
DEF Hart, Rest

(* The invariant holds at reset, where only the load copy exists. *)
LEMMA IInvInit == Init => IInv
<1> SUFFICES ASSUME Init PROVE IInv
  OBVIOUS
<1>1. TypeOK
  BY TypeInit
<1>2. \A h \in Harts : pc[h] = "_start" /\ base[h] = load
  BY DEF Init
<1>3. \A o \in 0 .. Size - 1 : mem[load + o] = Image[o]
  <2> SUFFICES ASSUME NEW o \in 0 .. Size - 1 PROVE mem[load + o] = Image[o]
    OBVIOUS
  <2>1. load + o \in Addr /\ load + o \in load .. LoadEnd - 1 /\ (load + o) - load = o
    BY <1>1, Copies, SizeFact DEF LoadEnd
  <2> QED BY <2>1 DEF Init
<1>4. LoadCopyFull /\ LoadCopyKept
  BY <1>1, <1>3, Copies DEF LoadCopyFull, LoadCopyKept
<1>5. load = Link => Relocated
  BY <1>4 DEF LoadCopyFull, Relocated
<1>6. mem[load + OLottery] = 0 /\ mem[load + OBootStatus] = 0
  BY <1>1, <1>3, Copies, ImageHeader
<1>7. OneBootHart /\ NoHartLost /\ LotteryHeld /\ Untouched
  BY <1>2, <1>4, <1>6 DEF OneBootHart, NoHartLost, LotteryHeld, Untouched, WinnerOnly,
     Relocating, AfterRelocation, InMain, BeforeLottery
<1>8. StatusMeansRelocated
  BY <1>5, <1>6 DEF StatusMeansRelocated
<1>9. \A h \in Harts : HartInv(h)
  BY <1>2 DEF HartInv, BaseInv, LowerInv, UpperInv, StartInv, BssInv, MemcpyInv, AtLink,
     AfterRelocation, InMain, BeforeLottery, Relocating
<1> QED BY <1>1, <1>4, <1>7, <1>8, <1>9 DEF IInv

(* In a safe layout every step keeps the invariant. *)
LEMMA IInvNext == SafeLayout /\ IInv /\ [Next]_vars => IInv'
<1> SUFFICES ASSUME SafeLayout, IInv, [Next]_vars PROVE IInv'
  OBVIOUS
<1>1. TypeOK' /\ UNCHANGED boot
  BY TypeNext, BootKept DEF IInv
<1>2. CASE \E h \in Harts : Hart(h)
  <2>1. PICK h \in Harts : Hart(h)
    BY <1>2
  <2>2. OnlyMoves(h)
    BY <2>1, HartMovesOne DEF IInv
  <2> QED BY <1>1, <2>1, <2>2, HartKeeps
<1>3. CASE NextStageReleases
  BY <1>1, <1>3, NextStageReleasesKeeps DEF NextStageReleases
<1>4. CASE UNCHANGED vars
  BY <1>4, StutterKeeps
<1> QED BY <1>2, <1>3, <1>4 DEF Next

(* In a safe layout the inductive invariant holds in every reachable
   state, for any number of harts and any interleaving of the boot path. *)
THEOREM Invariance == ASSUME SafeLayout PROVE Spec => []IInv
BY IInvInit, IInvNext, PTL DEF Spec

(* In a safe layout the lottery elects one boot hart, whatever the number   *)
(* of harts and however their steps interleave.                             *)
THEOREM OneHartBoots == ASSUME SafeLayout PROVE Spec => []OneBootHart
<1>1. IInv => OneBootHart
  BY DEF IInv
<1> QED BY <1>1, Invariance, PTL

(* In a safe layout no hart ever executes a word another hart overwrote.    *)
THEOREM HartsKeepTheirCode == ASSUME SafeLayout PROVE Spec => []NoHartLost
<1>1. IInv => NoHartLost
  BY DEF IInv
<1> QED BY <1>1, Invariance, PTL

(* In a safe layout a hart enters the relocated image only when all of it   *)
(* is in place, and it stays in place.                                      *)
THEOREM CopyBeforeUse == ASSUME SafeLayout PROVE Spec => []RelocatedBeforeUse
<1>1. IInv => RelocatedBeforeUse
  BY DEF IInv, HartInv, BaseInv, AtLink, Relocated, RelocatedBeforeUse
<1> QED BY <1>1, Invariance, PTL

(* A step of a hart that boots leaves it the one that boots; and a hart     *)
(* that waits for the copy goes on to nothing but the spin loop.            *)
LEMMA LabelStep ==
  ASSUME IInv, NEW h \in Harts, Hart(h)
  PROVE  /\ pc[h] \in WinnerOnly => pc'[h] \in WinnerOnly
         /\ pc[h] \in {"_wait_relocate_copy_done", "_wait_loop"} =>
              pc'[h] \in {"_wait_loop", "_secondary_spin_loop"}
<1>0. h \in DOMAIN pc /\ TypeOK
  BY DEF IInv, TypeOK
<1>1. CASE Memcpy(h)
  <2>1. reg[h].ret \in InMain
    <3>1. reg[h] \in [d : Int, s : Int, e : Int, i : Nat, ret : InMain]
      BY <1>0 DEF TypeOK
    <3> QED BY <3>1
  <2> QED BY <1>0, <1>1, <2>1 DEF Memcpy, At, Goto, WinnerOnly, AfterRelocation, InMain
<1>2. CASE WaitLoop(h)
  <2>1. reg[h].d = Link
    BY <1>2 DEF IInv, HartInv, BaseInv, WaitLoop, At
  <2>2. pc'[h] \in {"_wait_loop", "_secondary_spin_loop"}
    <3>1. CASE 1 > mem[load + OBootStatus]
      BY <1>0, <1>2, <3>1 DEF WaitLoop, At
    <3>2. CASE ~(1 > mem[load + OBootStatus])
      BY <1>0, <1>2, <2>1, <3>2 DEF WaitLoop, At, Goto
    <3> QED BY <3>1, <3>2
  <2> QED
    BY <1>2, <2>2 DEF WaitLoop, At, WinnerOnly, Relocating, AfterRelocation, InMain
<1>3. CASE WaitRelocateCopyDone(h)
  BY <1>0, <1>3 DEF WaitRelocateCopyDone, At, Goto, WinnerOnly, Relocating, AfterRelocation,
     InMain
<1>4. CASE Start(h) \/ Lottery(h) \/ SpinLoop(h)
  BY <1>0, <1>4 DEF Start, Lottery, SpinLoop, At, WinnerOnly, Relocating, AfterRelocation, InMain
<1>5. CASE Rest(h)
  BY <1>5 DEF Rest, vars, Stopped
<1>6. CASE \/ SaveLoadAddress(h) \/ Relocate(h) \/ CopyToLower(h) \/ CopyToUpper(h)
           \/ RelocateDone(h) \/ SaveBootArg1(h) \/ BssZero(h)
  BY <1>0, <1>6 DEF SaveLoadAddress, Relocate, CopyToLower, CopyToUpper, JumpRelocated,
     RelocateDone, SaveBootArg1, BssZero, At, Goto, WinnerOnly, Relocating, AfterRelocation,
     InMain
<1>7. CASE \/ ZstageMain(h) \/ CopyBlob(h) \/ PrepareFdt(h) \/ CopyNext(h) \/ FinalInit(h)
           \/ ReleaseSpin(h) \/ Jump(h)
  BY <1>0, <1>7 DEF ZstageMain, CopyBlob, PrepareFdt, CopyNext, FinalInit, ReleaseSpin, Jump,
     Enter, Call, At, Goto, WinnerOnly, AfterRelocation, InMain
<1> QED BY <1>1, <1>2, <1>3, <1>4, <1>5, <1>6, <1>7, NoDerail DEF Hart

(* The same of every step of the machine. *)
LEMMA LabelNext ==
  ASSUME IInv, [Next]_vars, NEW h \in Harts
  PROVE  /\ pc[h] \in WinnerOnly => pc'[h] \in WinnerOnly
         /\ pc[h] \in {"_wait_relocate_copy_done", "_wait_loop"} =>
              pc'[h] \in {pc[h], "_wait_loop", "_secondary_spin_loop"}
<1>1. CASE \E g \in Harts : Hart(g)
  <2>1. PICK g \in Harts : Hart(g)
    BY <1>1
  <2>2. CASE g = h
    BY <2>1, <2>2, LabelStep
  <2>3. CASE g # h
    <3>1. pc'[h] = pc[h]
      BY <2>1, <2>3, HartMovesOne DEF IInv, OnlyMoves
    <3> QED BY <3>1
  <2> QED BY <2>2, <2>3
<1>2. CASE NextStageReleases \/ UNCHANGED vars
  BY <1>2 DEF NextStageReleases, vars
<1> QED BY <1>1, <1>2 DEF Next

(* In a safe layout the hart that won the lottery never executes a word     *)
(* that is not its code, whatever overlap of the copies BRANGE let pass.    *)
THEOREM WinnerSurvives == ASSUME SafeLayout PROVE Spec => BootHartSurvives
<1>1. IInv /\ [Next]_vars =>
        [\A h \in Harts : pc[h] \in WinnerOnly => pc'[h] \in WinnerOnly]_vars
  BY LabelNext
<1> QED BY <1>1, Invariance, PTL DEF Spec, BootHartSurvives

(* In a safe layout the losers of the lottery wait for the copy, and then   *)
(* in the spin loop: the run head_loser takes a load address SafeLayout     *)
(* excludes.                                                                *)
THEOREM LosersWaitForCopy == ASSUME SafeLayout PROVE Spec => LosersWait
<1>1. IInv /\ [Next]_vars =>
        [\A h \in Harts :
           pc[h] \in {"_wait_relocate_copy_done", "_wait_loop"} =>
             pc'[h] \in {pc[h], "_wait_loop", "_secondary_spin_loop"}]_vars
  BY LabelNext
<1> QED BY <1>1, Invariance, PTL DEF Spec, LosersWait
=============================================================================

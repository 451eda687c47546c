---------------------------- MODULE PromiseProofs ----------------------------
(***************************************************************************)
(* Head implements BootPromise, for any number of harts, any addresses,    *)
(* any image and any blobs.                                                *)
(***************************************************************************)
EXTENDS HandoffProofs

(***************************************************************************)
(* BootPromise starts with nothing in place, so the tree has to be moved   *)
(* to memory nobody has used: its last word tells that it is not there yet. *)
(***************************************************************************)
FreshTree == TreeArea \cap Tree = {}

LastWord == NextFdt + FdtLen - 1

UnplacedBy(h) ==
  /\ pc[h] = "memcpy" /\ reg[h].ret = "copy_next" /\ reg[h].d < reg[h].e =>
       mem[LastWord] = Junk
  /\ pc[h] = "zstage_hang" => Apart

Unplaced ==
  /\ (\A h \in Harts : ~PastTree(h)) => mem[LastWord] = Junk
  /\ \A h \in Harts : UnplacedBy(h)

(* What BootPromise sees of a label. *)
InNext == {"booted", "joined"}
InHang == {"_start_hang", "zstage_hang"}

(* BootPromise!released, as Head computes it. *)
Freed == Released /\ mem[Link + OSpin] # 0
-----------------------------------------------------------------------------
USE DEF OStart, OMagic, ORunAddr, ONextRun, ONextFdt, OSpin, OReal, ORelocate,
        ORelocateDone, OMain, OLottery, OLoadStart, OBootArg1, OBootStatus, OBss

(* Who has read the tree does not read it again. *)
LEMMA PastTreeStays ==
  ASSUME IInv, HInv, NEW h \in Harts, Hart(h), PastTree(h)
  PROVE  PastTree(h)'
<1>0. h \in DOMAIN pc /\ h \in DOMAIN reg
      /\ reg[h] \in [d : Int, s : Int, e : Int, i : Nat, ret : InMain]
  BY DEF IInv, TypeOK
<1>1. CASE Memcpy(h)
  <2>1. pc[h] = "memcpy" /\ reg[h].ret \in {"copy_next", "final_init"}
    BY <1>1 DEF Memcpy, At, PastTree, AfterTree, AfterPayload, HInv, CopyProgress
  <2>2. CASE reg[h].d < reg[h].e
    BY <1>0, <1>1, <2>1, <2>2 DEF Memcpy, PastTree
  <2>3. CASE ~(reg[h].d < reg[h].e)
    BY <1>0, <1>1, <2>1, <2>3 DEF Memcpy, Goto, PastTree, AfterTree, AfterPayload
  <2> QED BY <2>2, <2>3
<1>2. CASE CopyNext(h)
  BY <1>0, <1>2 DEF CopyNext, Call, Goto, PastTree, AfterTree, AfterPayload
<1>3. CASE FinalInit(h) \/ ReleaseSpin(h) \/ Jump(h)
  BY <1>0, <1>3 DEF FinalInit, ReleaseSpin, Jump, Enter, Goto, PastTree, AfterTree, AfterPayload
<1>4. CASE Rest(h)
  BY <1>4 DEF Rest, vars, PastTree
<1> QED
  BY <1>1, <1>2, <1>3, <1>4, NoDerail
  DEF Hart, Start, Lottery, SaveLoadAddress, Relocate, CopyToLower, CopyToUpper,
      WaitRelocateCopyDone, WaitLoop, RelocateDone, SaveBootArg1, BssZero, ZstageMain,
      CopyBlob, PrepareFdt, SpinLoop, At, PastTree, AfterTree, AfterPayload

(* The hart that is past the tree is the one that boots, at the link        *)
(* address, apart from where it was loaded.                                 *)
LEMMA PastTreeBoots ==
  ASSUME IInv, Unplaced, NEW h \in Harts, PastTree(h)
  PROVE  pc[h] \in WinnerOnly /\ Apart
<1>1. pc[h] \in WinnerOnly /\ (AtLink(h) \/ pc[h] = "zstage_hang")
  BY DEF PastTree, AfterTree, AfterPayload, WinnerOnly, AtLink, AfterRelocation, InMain
<1>2. Apart
  BY <1>1, LinkFacts DEF Unplaced, UnplacedBy
<1> QED BY <1>1, <1>2

(* The last word of the tree is where it is moved to, and in no image. *)
LEMMA LastWordApart ==
  ASSUME HandoffLayout, TypeOK
  PROVE  /\ LastWord \in TreeArea /\ LastWord \in Addr /\ LastWord \in Destinations
         /\ \A l \in {load, Link} : \A o \in 0 .. Size - 1 : l + o # LastWord
<1>1. LastWord \in TreeArea /\ LastWord \in Addr
  BY CopyTypes DEF LastWord, TreeArea
<1>2. LastWord \in Destinations
  BY <1>1, AreasAreDestinations
<1> QED BY <1>1, <1>2, ImagesApart

(* Where a step of a hart stores: in an image, or where memcpy copies to. *)
LEMMA ImageStores ==
  ASSUME IInv, NEW h \in Harts, Hart(h)
  PROVE  \/ UNCHANGED mem
         \/ \E l \in {load, Link}, o \in 0 .. Size - 1 : \E v : Store(l + o, v)
         \/ Memcpy(h) /\ pc[h] = "memcpy" /\ reg[h].d < reg[h].e
<1>0. /\ TypeOK /\ load \in Int /\ Link \in Int /\ Size \in Int /\ OPayload \in Int
      /\ OBss < OPayload /\ OPayload < Size
      /\ {OLottery, OLoadStart, OBootArg1, OBootStatus, OSpin} \subseteq 0 .. Size - 1
      /\ reg[h] \in [d : Int, s : Int, e : Int, i : Nat, ret : InMain]
  BY Copies, SizeFact DEF IInv, TypeOK
<1>1. CASE Lottery(h) \/ SaveLoadAddress(h)
  BY <1>0, <1>1 DEF Lottery, SaveLoadAddress
<1>2. CASE CopyToLower(h)
  <2>1. reg[h].d - Link \in 0 .. Size - 1
    BY <1>2 DEF CopyToLower, At, IInv, HartInv, LowerInv
  <2>2. reg[h].d = Link + (reg[h].d - Link)
    BY <1>0
  <2> QED BY <1>2, <2>1, <2>2 DEF CopyToLower
<1>3. CASE CopyToUpper(h)
  <2>1. reg[h].d - Link \in 1 .. Size
    BY <1>3 DEF CopyToUpper, At, IInv, HartInv, UpperInv
  <2>2. reg[h].d - 1 = Link + (reg[h].d - Link - 1) /\ reg[h].d - Link - 1 \in 0 .. Size - 1
    BY <1>0, <2>1
  <2> QED BY <1>3, <2>2 DEF CopyToUpper
<1>4. CASE RelocateDone(h)
  <2>1. AtLink(h) /\ mem[Link + OLoadStart] = load
    BY <1>4 DEF RelocateDone, At, AtLink, AfterRelocation, IInv, HartInv, StartInv
  <2>2. base[h] = Link /\ mem[base[h] + ORunAddr] = Link
    BY <2>1, LinkFacts
  <2>3. base[h] + OBootStatus - mem[base[h] + ORunAddr] + mem[base[h] + OLoadStart]
          = load + OBootStatus
    BY <1>0, <2>1, <2>2
  <2> QED BY <1>0, <1>4, <2>3 DEF RelocateDone
<1>5. CASE SaveBootArg1(h) \/ ReleaseSpin(h)
  <2>1. AtLink(h)
    BY <1>5 DEF SaveBootArg1, ReleaseSpin, At, AtLink, AfterRelocation
  <2>2. base[h] = Link
    BY <2>1, LinkFacts
  <2> QED BY <1>0, <1>5, <2>2 DEF SaveBootArg1, ReleaseSpin
<1>6. CASE BssZero(h)
  <2>1. reg[h].d \in Link + OBss .. Link + OPayload - 1
    BY <1>6 DEF BssZero, At, IInv, HartInv, BssInv
  <2>2. reg[h].d = Link + (reg[h].d - Link) /\ reg[h].d - Link \in 0 .. Size - 1
    BY <1>0, <2>1
  <2> QED BY <1>6, <2>2 DEF BssZero
<1>7. CASE Memcpy(h)
  BY <1>7 DEF Memcpy, At
<1> QED
  BY <1>1, <1>2, <1>3, <1>4, <1>5, <1>6, <1>7
  DEF Hart, Start, Relocate, WaitRelocateCopyDone, WaitLoop, ZstageMain, CopyBlob, PrepareFdt,
      CopyNext, FinalInit, Jump, SpinLoop, Derail, Rest, vars

-----------------------------------------------------------------------------
(***************************************************************************)
(* The last word of the tree arrives last.                                 *)
(***************************************************************************)
(* Only the copy of the tree stores its last word. *)
LEMMA LastWordStays ==
  ASSUME HandoffLayout, IInv, HInv, NEW h \in Harts, Hart(h),
         pc[h] = "memcpy" /\ reg[h].ret = "copy_next" => ~(reg[h].d + 1 = reg[h].e)
  PROVE  mem'[LastWord] = mem[LastWord]
<1>0. TypeOK
  BY DEF IInv
<1>1. CASE UNCHANGED mem
  BY <1>1
<1>2. CASE \E l \in {load, Link}, o \in 0 .. Size - 1 : \E v : Store(l + o, v)
  BY <1>0, <1>2, LastWordApart, StoreElsewhere DEF TypeOK
<1>3. CASE Memcpy(h) /\ pc[h] = "memcpy" /\ reg[h].d < reg[h].e
  <2>1. Store(reg[h].d, Word(reg[h].s))
    BY <1>3 DEF Memcpy
  <2>2. \/ reg[h].ret = "copy_blobs" /\ InBlob(h)
        \/ reg[h].ret = "copy_next" /\ InTree(h)
        \/ reg[h].ret = "final_init" /\ InPayload(h)
    BY <1>3 DEF HInv, CopyProgress
  <2>3. reg[h].d # LastWord
    <3>1. CASE InBlob(h)
      <4>1. PICK i \in 1 .. Len(Blobs) : i = reg[h].i - 1
        BY <3>1 DEF InBlob
      <4>2. InCopy(h, Blobs[i].dst, Blobs[i].src, Blobs[i].size, BlobWords(i))
        BY <3>1, <4>1 DEF InBlob
      <4>3. reg[h].d \in BlobArea(i)
        BY <1>3, <4>2, BlobTypes, CopyCursor DEF BlobArea
      <4> QED BY <1>0, <4>3, LastWordApart DEF HandoffLayout, BlobsApart
    <3>2. CASE reg[h].ret = "copy_next" /\ InTree(h)
      <4>1. reg[h].e = NextFdt + FdtLen
        BY <3>2 DEF InTree, InCopy
      <4>2. reg[h].d + 1 # NextFdt + FdtLen
        BY <1>3, <3>2, <4>1
      <4> QED BY <4>2, CopyTypes DEF LastWord
    <3>3. CASE InPayload(h)
      <4>1. NextRun \in Int /\ Link + OPayload \in Int /\ PayLen \in Nat
        BY CopyTypes
      <4>2. reg[h].d \in PayloadArea
        BY <1>3, <3>3, <4>1, CopyCursor DEF InPayload, PayloadArea
      <4> QED BY <1>0, <4>2, LastWordApart DEF HandoffLayout, TreeApart
    <3> QED BY <2>2, <3>1, <3>2, <3>3
  <2> QED BY <1>0, <2>1, <2>3, LastWordApart, StoreElsewhere DEF TypeOK
<1> QED BY <1>1, <1>2, <1>3, ImageStores

(* At reset the memory the tree is moved to is fresh. *)
LEMMA UnplacedInit == ASSUME HandoffLayout, FreshTree, Init PROVE Unplaced
<1>1. TypeOK
  BY TypeInit
<1>2. /\ LastWord \in Addr /\ LastWord \notin Tree
      /\ \A o \in 0 .. Size - 1 : load + o # LastWord
  BY <1>1, LastWordApart DEF FreshTree
<1>3. LastWord \notin load .. LoadEnd - 1
  <2> SUFFICES ASSUME LastWord \in load .. LoadEnd - 1 PROVE FALSE
    OBVIOUS
  <2>1. load \in Int /\ Size \in Int /\ LastWord \in Int
    BY <1>1, Copies, SizeFact, CopyTypes DEF LastWord
  <2>2. LastWord - load \in 0 .. Size - 1 /\ load + (LastWord - load) = LastWord
    BY <2>1 DEF LoadEnd
  <2> QED BY <1>2, <2>2
<1>4. mem[LastWord] = Junk
  BY <1>2, <1>3 DEF Init, Tree
<1>5. \A h \in Harts : pc[h] = "_start"
  BY DEF Init
<1> QED BY <1>4, <1>5 DEF Unplaced, UnplacedBy

(* The hart that starts to copy the tree is not past it. *)
LEMMA TreeBegins ==
  ASSUME IInv, HInv, Unplaced, NEW h \in Harts, Hart(h), ~PastTree(h), PastTree(h)'
  PROVE  mem[LastWord] = Junk /\ UNCHANGED mem /\ Apart
<1>0. h \in DOMAIN pc /\ h \in DOMAIN reg
      /\ reg[h] \in [d : Int, s : Int, e : Int, i : Nat, ret : InMain]
  BY DEF IInv, TypeOK
<1>1. ZstageMain(h) \/ PrepareFdt(h)
  <2>1. ~Memcpy(h)
    <3> SUFFICES ASSUME Memcpy(h) PROVE FALSE
      OBVIOUS
    <3>1. pc[h] = "memcpy" /\ reg[h].ret = "copy_blobs"
      BY DEF Memcpy, At, PastTree
    <3>2. CASE reg[h].d < reg[h].e
      BY <1>0, <3>1, <3>2 DEF Memcpy, PastTree, AfterTree, AfterPayload
    <3>3. CASE ~(reg[h].d < reg[h].e)
      BY <1>0, <3>1, <3>3 DEF Memcpy, Goto, PastTree, AfterTree, AfterPayload
    <3> QED BY <3>2, <3>3
  <2>2. ~(CopyNext(h) \/ FinalInit(h) \/ ReleaseSpin(h) \/ Jump(h))
    BY DEF CopyNext, FinalInit, ReleaseSpin, Jump, At, PastTree, AfterTree, AfterPayload
  <2>3. ~CopyBlob(h)
    <3> SUFFICES ASSUME CopyBlob(h) PROVE FALSE
      OBVIOUS
    <3>1. pc'[h] = "prepare_fdt" \/ (pc'[h] = "memcpy" /\ reg'[h].ret = "copy_blobs")
      BY <1>0 DEF CopyBlob, Call, Goto
    <3> QED BY <3>1 DEF PastTree, AfterTree, AfterPayload
  <2>4. ~(\/ Start(h) \/ Lottery(h) \/ SaveLoadAddress(h) \/ Relocate(h) \/ CopyToLower(h)
          \/ CopyToUpper(h) \/ WaitRelocateCopyDone(h) \/ WaitLoop(h) \/ RelocateDone(h)
          \/ SaveBootArg1(h) \/ BssZero(h) \/ SpinLoop(h))
    BY <1>0 DEF Start, Lottery, SaveLoadAddress, Relocate, CopyToLower, CopyToUpper,
       JumpRelocated, WaitRelocateCopyDone, WaitLoop, RelocateDone, SaveBootArg1, BssZero,
       SpinLoop, Enter, At, Goto, PastTree, AfterTree, AfterPayload
  <2>5. ~Rest(h)
    BY DEF Rest, vars, PastTree
  <2> QED BY <2>1, <2>2, <2>3, <2>4, <2>5, NoDerail DEF Hart
<1>2. pc[h] \in WinnerOnly /\ AtLink(h) /\ UNCHANGED mem
  BY <1>1 DEF ZstageMain, PrepareFdt, At, WinnerOnly, AtLink, AfterRelocation, InMain
<1>3. \A g \in Harts : ~PastTree(g)
  BY <1>2, PastTreeBoots DEF IInv, OneBootHart
<1> QED BY <1>2, <1>3, LinkFacts DEF Unplaced

(* Every step of a hart keeps the tree unplaced until it is copied. *)
LEMMA UnplacedHart ==
  ASSUME HandoffLayout, IInv, HInv, Unplaced, UNCHANGED boot, NEW h \in Harts, Hart(h)
  PROVE  Unplaced'
<1>0. /\ OnlyActs(h) /\ load' = load /\ Apart' = Apart
      /\ h \in DOMAIN pc /\ h \in DOMAIN reg
      /\ reg[h] \in [d : Int, s : Int, e : Int, i : Nat, ret : InMain]
  BY HartActsAlone DEF load, Apart, IInv, TypeOK
<1>1. \A g \in Harts \ {h} : pc'[g] = pc[g] /\ reg'[g] = reg[g]
  BY <1>0 DEF OnlyActs, OnlyMoves
<1>2. ASSUME \A g \in Harts : ~PastTree(g)' PROVE mem'[LastWord] = Junk
  <2>1. \A g \in Harts : ~PastTree(g)
    BY <1>1, <1>2, PastTreeStays DEF PastTree
  <2>2. mem'[LastWord] = mem[LastWord]
    BY <2>1, LastWordStays DEF PastTree
  <2> QED BY <2>1, <2>2 DEF Unplaced
<1>3. UnplacedBy(h)'
  <2>1. CASE PastTree(h)
    <3>1. Apart
      BY <2>1, PastTreeBoots
    <3>2. ASSUME pc'[h] = "memcpy", reg'[h].ret = "copy_next", reg'[h].d < reg'[h].e
          PROVE  mem'[LastWord] = Junk
      <4>1. /\ pc[h] = "memcpy" /\ reg[h].ret = "copy_next" /\ reg[h].d + 1 < reg[h].e
            /\ Memcpy(h)
        <5>1. CASE Memcpy(h)
          <6>1. pc[h] = "memcpy"
            BY <5>1 DEF Memcpy, At
          <6>2. CASE reg[h].d < reg[h].e
            BY <1>0, <3>2, <5>1, <6>1, <6>2 DEF Memcpy
          <6>3. CASE ~(reg[h].d < reg[h].e)
            <7>1. reg[h].ret \in {"copy_next", "final_init", "copy_blobs"}
              BY <6>1 DEF HInv, CopyProgress
            <7> QED BY <1>0, <3>2, <5>1, <6>3, <7>1 DEF Memcpy, Goto
          <6> QED BY <6>2, <6>3
        <5>2. CASE CopyNext(h)
          BY <1>0, <3>2, <5>2 DEF CopyNext, Call, Goto
        <5>3. CASE FinalInit(h) \/ ReleaseSpin(h) \/ Jump(h)
          BY <1>0, <3>2, <5>3 DEF FinalInit, ReleaseSpin, Jump, Enter, Goto
        <5>4. CASE Rest(h)
          BY <3>2, <5>4 DEF Rest, vars, Stopped
        <5> QED
          BY <2>1, <5>1, <5>2, <5>3, <5>4, NoDerail
          DEF Hart, Start, Lottery, SaveLoadAddress, Relocate, CopyToLower, CopyToUpper,
              WaitRelocateCopyDone, WaitLoop, RelocateDone, SaveBootArg1, BssZero, ZstageMain,
              CopyBlob, PrepareFdt, SpinLoop, At, PastTree, AfterTree, AfterPayload
      <4>2. mem[LastWord] = Junk
        <5>1. reg[h].d < reg[h].e
          BY <1>0, <4>1
        <5> QED BY <4>1, <5>1 DEF Unplaced, UnplacedBy
      <4>3. ~(reg[h].d + 1 = reg[h].e)
        BY <1>0, <4>1
      <4> QED BY <4>2, <4>3, LastWordStays
    <3> QED BY <1>0, <3>1, <3>2 DEF UnplacedBy
  <2>2. CASE ~PastTree(h) /\ PastTree(h)'
    BY <1>0, <2>2, TreeBegins DEF UnplacedBy
  <2>3. CASE ~PastTree(h)'
    BY <2>3 DEF UnplacedBy, PastTree
  <2> QED BY <2>1, <2>2, <2>3
<1>4. ASSUME NEW g \in Harts \ {h} PROVE UnplacedBy(g)'
  <2>1. UnplacedBy(g)
    BY DEF Unplaced
  <2>2. CASE pc[g] = "memcpy"
    <3>1. pc[h] # "memcpy"
      BY <2>2 DEF IInv, OneBootHart, WinnerOnly, AfterRelocation, InMain
    <3>2. mem'[LastWord] = mem[LastWord]
      BY <3>1, LastWordStays
    <3> QED BY <1>1, <2>1, <2>2, <3>2 DEF UnplacedBy
  <2>3. CASE pc[g] # "memcpy"
    BY <1>0, <1>1, <2>1, <2>3 DEF UnplacedBy
  <2> QED BY <2>2, <2>3
<1> QED BY <1>2, <1>3, <1>4 DEF Unplaced

(* So does every other step. *)
LEMMA UnplacedNext == HandoffLayout /\ IInv /\ HInv /\ Unplaced /\ [Next]_vars => Unplaced'
<1> SUFFICES ASSUME HandoffLayout, IInv, HInv, Unplaced, [Next]_vars PROVE Unplaced'
  OBVIOUS
<1>1. UNCHANGED boot
  BY BootKept
<1>2. CASE NextStageReleases
  <2>1. UNCHANGED <<pc, reg>> /\ Store(Link + OSpin, NextRun) /\ Apart' = Apart
    BY <1>2 DEF NextStageReleases, Apart, load
  <2>2. mem'[LastWord] = mem[LastWord]
    <3>1. TypeOK /\ OSpin \in 0 .. Size - 1
      BY Copies DEF IInv
    <3>2. LastWord \in Addr /\ Link + OSpin # LastWord
      BY <3>1, LastWordApart
    <3> QED BY <2>1, <3>1, <3>2, StoreElsewhere DEF TypeOK
  <2> QED BY <2>1, <2>2 DEF Unplaced, UnplacedBy, PastTree
<1>3. CASE UNCHANGED vars
  BY <1>3 DEF vars, Unplaced, UnplacedBy, PastTree, Apart, load
<1> QED BY <1>1, <1>2, <1>3, UnplacedHart DEF Next

-----------------------------------------------------------------------------
(***************************************************************************)
(* The steps of BootPromise, in terms of the labels.                       *)
(***************************************************************************)
SameStage(g) ==
  /\ pc'[g] \in InNext <=> pc[g] \in InNext
  /\ pc'[g] \in InHang <=> pc[g] \in InHang

SameBoot(g) == pc'[g] \in WinnerOnly <=> pc[g] \in WinnerOnly

(* Two equivalent conditions are equal. *)
LEMMA SameFlags ==
  /\ (Placed' <=> Placed) => Placed' = Placed
  /\ (Freed' <=> Freed) => Freed' = Freed
BY DEF Placed, PayloadPlaced, FdtPlaced, BlobsPlaced, Freed, Released

(* No hart changes its stage. *)
LEMMA StageKept ==
  ASSUME \A g \in Harts : SameStage(g)
  PROVE  UNCHANGED [h \in Harts |->
            CASE pc[h] \in {"booted", "joined"} -> "next"
              [] pc[h] \in {"_start_hang", "zstage_hang"} -> "hung"
              [] OTHER -> "zstage"]
BY DEF SameStage, InNext, InHang

(* A step that changes nothing of what BootPromise sees. *)
LEMMA PromiseStutter ==
  ASSUME \A g \in Harts : SameStage(g) /\ SameBoot(g),
         Placed' <=> Placed, Freed' <=> Freed
  PROVE  UNCHANGED Promise!vars
<1>1. UNCHANGED {h \in Harts : pc[h] \in WinnerOnly}
  BY DEF SameBoot
<1>2. UNCHANGED Placed /\ UNCHANGED Freed
  BY SameFlags
<1> QED BY <1>1, <1>2, StageKept DEF Promise!vars, Freed, Released

(* The lottery elects the hart that boots. *)
LEMMA PromiseElect ==
  ASSUME NEW h \in Harts, \A g \in Harts : SameStage(g) /\ pc[g] \notin WinnerOnly,
         \A g \in Harts : pc'[g] \in WinnerOnly <=> g = h,
         Placed' <=> Placed, Freed' <=> Freed
  PROVE  Promise!Next
<1>1. /\ {g \in Harts : pc[g] \in WinnerOnly} = {}
      /\ {g \in Harts : pc'[g] \in WinnerOnly} = {h}
  OBVIOUS
<1>2. UNCHANGED Placed /\ UNCHANGED Freed
  BY SameFlags
<1>3. Promise!Elect(h)
  BY <1>1, <1>2, StageKept DEF Promise!Elect, Freed, Released
<1> QED BY <1>3 DEF Promise!Next

(* The last word of the copies arrives. *)
LEMMA PromisePlace ==
  ASSUME \A g \in Harts : SameStage(g) /\ SameBoot(g),
         \E g \in Harts : pc[g] \in WinnerOnly,
         ~Placed, Placed', Freed' <=> Freed
  PROVE  Promise!Next
<1>1. /\ {g \in Harts : pc[g] \in WinnerOnly} # {}
      /\ UNCHANGED {g \in Harts : pc[g] \in WinnerOnly}
  BY DEF SameBoot
<1>2. UNCHANGED Freed
  BY SameFlags
<1>3. Placed' = TRUE
  BY DEF Placed, PayloadPlaced, FdtPlaced, BlobsPlaced
<1>4. Promise!Place
  BY <1>1, <1>2, <1>3, StageKept DEF Promise!Place, Freed, Released
<1> QED BY <1>4 DEF Promise!Next

(* The other harts are released. *)
LEMMA PromiseRelease ==
  ASSUME \A g \in Harts : SameStage(g) /\ SameBoot(g),
         Placed, Placed' <=> Placed, ~Freed, Freed'
  PROVE  Promise!Next
<1>1. UNCHANGED {g \in Harts : pc[g] \in WinnerOnly}
  BY DEF SameBoot
<1>2. UNCHANGED Placed
  BY SameFlags
<1>3. Freed' = TRUE
  BY DEF Freed, Released
<1>4. Promise!Release
  BY <1>1, <1>2, <1>3, StageKept DEF Promise!Release, Freed, Released
<1> QED BY <1>4 DEF Promise!Next

(* A hart changes its stage, and nothing else happens. *)
LEMMA StageMoves ==
  ASSUME NEW h \in Harts, \A g \in Harts \ {h} : SameStage(g), NEW s,
         \/ pc'[h] \in InNext /\ s = "next"
         \/ pc'[h] \in InHang /\ s = "hung"
  PROVE  [g \in Harts |->
            CASE pc[g] \in {"booted", "joined"} -> "next"
              [] pc[g] \in {"_start_hang", "zstage_hang"} -> "hung"
              [] OTHER -> "zstage"]'
           = [[g \in Harts |->
                 CASE pc[g] \in {"booted", "joined"} -> "next"
                   [] pc[g] \in {"_start_hang", "zstage_hang"} -> "hung"
                   [] OTHER -> "zstage"] EXCEPT ![h] = s]
BY DEF SameStage, InNext, InHang

(* A hart enters the next stage. *)
LEMMA PromiseEnter ==
  ASSUME NEW h \in Harts, \A g \in Harts \ {h} : SameStage(g), \A g \in Harts : SameBoot(g),
         pc[h] \notin InNext \union InHang, pc'[h] \in InNext,
         Placed, pc[h] \in WinnerOnly \/ Freed,
         Placed' <=> Placed, Freed' <=> Freed
  PROVE  Promise!Next
<1>1. UNCHANGED {g \in Harts : pc[g] \in WinnerOnly}
  BY DEF SameBoot
<1>2. UNCHANGED Placed /\ UNCHANGED Freed
  BY SameFlags
<1>3. Promise!Enter(h)
  BY <1>1, <1>2, StageMoves DEF Promise!Enter, Freed, Released, InNext, InHang
<1> QED BY <1>3 DEF Promise!Next

(* The boot hart gives up. *)
LEMMA PromiseHang ==
  ASSUME NEW h \in Harts, \A g \in Harts \ {h} : SameStage(g), \A g \in Harts : SameBoot(g),
         pc[h] \notin InNext \union InHang, pc'[h] \in InHang, pc[h] \in WinnerOnly, ~Freed,
         Placed' <=> Placed, Freed' <=> Freed
  PROVE  Promise!Next
<1>1. UNCHANGED {g \in Harts : pc[g] \in WinnerOnly}
  BY DEF SameBoot
<1>2. UNCHANGED Placed /\ UNCHANGED Freed
  BY SameFlags
<1>3. Promise!Hang(h)
  BY <1>1, <1>2, StageMoves DEF Promise!Hang, Freed, Released, InNext, InHang
<1> QED BY <1>3 DEF Promise!Next
-----------------------------------------------------------------------------
(***************************************************************************)
(* What a step of a hart does to the memory the next stage is promised.    *)
(***************************************************************************)
(* As long as the last word of the tree is Junk, the tree is not there. *)
LEMMA NotPlaced == mem[LastWord] = Junk => ~Placed
<1> SUFFICES ASSUME FdtPlaced PROVE mem[LastWord] # Junk
  BY DEF Placed
<1>1. FdtLen - 1 \in 0 .. FdtLen - 1
  BY CopyTypes
<1>2. mem[NextFdt + (FdtLen - 1)] = FdtWord(FdtLen - 1)
  BY <1>1 DEF FdtPlaced
<1>3. FdtWord(FdtLen - 1) # Junk
  BY CopyTypes DEF FdtWord, FdtMagic, Junk
<1> QED BY <1>2, <1>3 DEF LastWord

(* The same of the state after a step. *)
LEMMA NotPlacedNext == mem'[LastWord] = Junk => ~Placed'
<1> SUFFICES ASSUME FdtPlaced' PROVE mem'[LastWord] # Junk
  BY DEF Placed
<1>1. FdtLen - 1 \in 0 .. FdtLen - 1
  BY CopyTypes
<1>2. mem'[NextFdt + (FdtLen - 1)] = FdtWord(FdtLen - 1)
  BY <1>1 DEF FdtPlaced
<1>3. FdtWord(FdtLen - 1) # Junk
  BY CopyTypes DEF FdtWord, FdtMagic, Junk
<1> QED BY <1>2, <1>3 DEF LastWord

(* While a hart is past the tree, all others leave its memory alone, and so *)
(* does that hart, but for memcpy.                                          *)
LEMMA SteadyPast ==
  ASSUME HandoffLayout, IInv, HInv, Unplaced, NEW h \in Harts, Hart(h), ~Memcpy(h),
         NEW g \in Harts, PastTree(g)
  PROVE  /\ Steady
         /\ ReleaseSpin(h) \/ mem'[Link + OSpin] = mem[Link + OSpin]
<1>0. pc[g] \in WinnerOnly /\ Apart /\ TypeOK /\ HInv
  BY PastTreeBoots DEF IInv
<1>1. CASE UNCHANGED mem
  BY <1>1 DEF Steady
<1>2. CASE Lottery(h)
  <2>1. Calm(load + OLottery)
    BY <1>0, CalmVariable
  <2> QED BY <1>0, <1>2, <2>1, CalmStore DEF Lottery
<1>3. CASE ReleaseSpin(h)
  <2>1. AtLink(h)
    BY <1>3 DEF ReleaseSpin, At, AtLink, AfterRelocation
  <2>2. base[h] = Link /\ ArgsHeld
    BY <2>1, LinkFacts DEF HInv
  <2>3. CASE UNCHANGED mem
    BY <1>3, <2>3 DEF Steady
  <2>4. CASE Store(Link + OSpin, mem[base[h] + ONextRun])
    BY <1>0, <1>3, <2>2, <2>4, SpinStore
  <2> QED BY <1>3, <2>2, <2>3, <2>4 DEF ReleaseSpin
<1>4. CASE \/ SaveLoadAddress(h) \/ CopyToLower(h) \/ CopyToUpper(h)
           \/ RelocateDone(h) \/ SaveBootArg1(h) \/ BssZero(h)
  <2>1. /\ pc[h] \in WinnerOnly
        /\ ~PastTree(h)
    BY <1>4 DEF SaveLoadAddress, CopyToLower, CopyToUpper, RelocateDone, SaveBootArg1, BssZero,
       At, WinnerOnly, Relocating, AfterRelocation, PastTree, AfterTree, AfterPayload
  <2> QED BY <1>0, <2>1 DEF IInv, OneBootHart
<1> QED
  BY <1>1, <1>2, <1>3, <1>4
  DEF Hart, Start, Relocate, WaitRelocateCopyDone, WaitLoop, ZstageMain, CopyBlob, PrepareFdt,
      CopyNext, FinalInit, Jump, SpinLoop, Derail, Rest, vars

(* What is placed stays placed, and only memcpy places anything. *)
LEMMA PlacedStays ==
  ASSUME HandoffLayout, IInv, HInv, Unplaced, Unplaced', NEW h \in Harts, Hart(h), ~Memcpy(h)
  PROVE  Placed' <=> Placed
<1>1. \A g \in Harts \ {h} : PastTree(g)' <=> PastTree(g)
  BY HartMovesOne DEF IInv, OnlyMoves, PastTree
<1>2. CASE \A g \in Harts : ~PastTree(g)'
  <2>1. \A g \in Harts : ~PastTree(g)
    BY <1>1, <1>2, PastTreeStays
  <2>2. mem[LastWord] = Junk /\ mem'[LastWord] = Junk
    BY <1>2, <2>1 DEF Unplaced
  <2> QED BY <2>2, NotPlaced, NotPlacedNext
<1>3. CASE ~PastTree(h) /\ PastTree(h)'
  <2>1. UNCHANGED mem
    BY <1>3, TreeBegins
  <2> QED BY <2>1 DEF Placed, PayloadPlaced, FdtPlaced, BlobsPlaced
<1>4. CASE \E g \in Harts : PastTree(g)
  <2>1. Steady
    BY <1>4, SteadyPast
  <2> QED BY <2>1, SteadyPlaced DEF Placed
<1> QED BY <1>1, <1>2, <1>3, <1>4

(* memcpy takes nothing away that is in its place. *)
LEMMA MemcpyPlaces ==
  ASSUME HandoffLayout, IInv, HInv, Unplaced, NEW h \in Harts, Memcpy(h), Placed
  PROVE  Placed'
<1>0. /\ TypeOK /\ pc[h] = "memcpy" /\ pc[h] \in WinnerOnly /\ h \in DOMAIN reg
      /\ reg[h] \in [d : Int, s : Int, e : Int, i : Nat, ret : InMain]
  BY DEF IInv, TypeOK, Memcpy, At, WinnerOnly, AfterRelocation, InMain
<1>1. CASE ~(reg[h].d < reg[h].e)
  <2>1. UNCHANGED mem
    BY <1>1 DEF Memcpy
  <2> QED BY <2>1 DEF Placed, PayloadPlaced, FdtPlaced, BlobsPlaced
<1>2. CASE reg[h].d < reg[h].e
  <2>1. reg[h].ret # "copy_blobs"
    <3> SUFFICES ASSUME reg[h].ret = "copy_blobs" PROVE FALSE
      OBVIOUS
    <3>1. ~PastTree(h)
      BY <1>0 DEF PastTree, AfterTree, AfterPayload
    <3>2. \A g \in Harts : ~PastTree(g)
      BY <1>0, <3>1, PastTreeBoots DEF IInv, OneBootHart
    <3> QED BY <3>2, NotPlaced DEF Unplaced
  <2>2. reg[h].ret # "copy_next"
    BY <1>0, <1>2, NotPlaced DEF Unplaced, UnplacedBy
  <2>3. InPayload(h)
    BY <1>0, <2>1, <2>2 DEF HInv, CopyProgress
  <2>4. /\ Store(reg[h].d, Word(reg[h].s))
        /\ reg' = [reg EXCEPT ![h].d = reg[h].d + 1, ![h].s = reg[h].s + 1]
    BY <1>2 DEF Memcpy
  <2>5. /\ reg'[h].d = reg[h].d + 1 /\ reg'[h].s = reg[h].s + 1 /\ reg'[h].e = reg[h].e
    BY <1>0, <2>4
  <2>6. InPayload(h)'
    BY <1>0, <1>2, <2>3, <2>4, <2>5, PayloadWordStored
  <2>7. PICK k \in 0 .. PayLen :
          /\ reg[h].d = NextRun + k /\ reg[h].s = Link + OPayload + k
          /\ reg[h].e = NextRun + PayLen
          /\ Holds(Link + OPayload, PayloadWords, k, PayLen - 1)
    BY <2>3 DEF InPayload, InCopy
  <2>8. k \in 0 .. PayLen - 1
    BY <1>2, <2>7, CopyTypes
  <2>9. Word(reg[h].s) = Image[OPayload + k]
    <3>1. Link + OPayload + k \in Addr
      BY <1>0, <2>8, PayloadSource, Copies
    <3>2. mem[Link + OPayload + k] = PayloadWords[k]
      BY <2>7, <2>8 DEF Holds
    <3> QED BY <2>7, <2>8, <3>1, <3>2 DEF Word, PayloadWords
  <2>10. ASSUME NEW j \in 0 .. PayLen - 1 PROVE mem'[NextRun + j] = Image[OPayload + j]
    <3>1. mem[NextRun + j] = Image[OPayload + j]
      BY DEF Placed, PayloadPlaced
    <3>2. NextRun + j \in Addr
      BY CopyTypes, InArea DEF PayloadArea
    <3>3. CASE NextRun + j = reg[h].d
      <4>1. j = k
        BY <2>7, <2>8, <3>3, CopyTypes
      <4> QED BY <1>0, <2>4, <2>9, <3>2, <3>3, <4>1, StoreElsewhere DEF TypeOK
    <3>4. CASE NextRun + j # reg[h].d
      BY <1>0, <2>4, <3>1, <3>2, <3>4, StoreElsewhere DEF TypeOK
    <3> QED BY <3>3, <3>4
  <2> QED BY <2>6, <2>10 DEF Placed, PayloadPlaced, InPayload
<1> QED BY <1>1, <1>2

(* Only the two releases release anybody. *)
LEMMA FreedStays ==
  ASSUME HandoffLayout, IInv, HInv, Unplaced, NEW h \in Harts, Hart(h), ~ReleaseSpin(h)
  PROVE  Freed' <=> Freed
<1>1. Released' <=> Released
  <2>1. \A g \in Harts \ {h} : pc'[g] = pc[g]
    BY HartMovesOne DEF IInv, OnlyMoves
  <2>2. pc'[h] \in {"_jump", "booted"} <=> pc[h] \in {"_jump", "booted"}
    <3>0. h \in DOMAIN pc
      BY DEF IInv, TypeOK
    <3>1. CASE Memcpy(h)
      <4>1. pc[h] = "memcpy" /\ reg[h].ret \in {"copy_blobs", "copy_next", "final_init"}
        BY <3>1 DEF Memcpy, At, HInv, CopyProgress
      <4> QED BY <3>0, <3>1, <4>1 DEF Memcpy, Goto
    <3>2. CASE Rest(h)
      BY <3>2 DEF Rest, vars
    <3>3. CASE \/ Start(h) \/ Lottery(h) \/ SaveLoadAddress(h) \/ Relocate(h)
               \/ CopyToLower(h) \/ CopyToUpper(h)
               \/ WaitRelocateCopyDone(h) \/ WaitLoop(h)
      BY <3>0, <3>3 DEF Start, Lottery, SaveLoadAddress, Relocate, CopyToLower, CopyToUpper,
         JumpRelocated, WaitRelocateCopyDone, WaitLoop, At, Goto
    <3>4. CASE \/ RelocateDone(h) \/ SaveBootArg1(h) \/ BssZero(h) \/ ZstageMain(h)
               \/ CopyBlob(h) \/ PrepareFdt(h) \/ CopyNext(h) \/ FinalInit(h)
               \/ Jump(h) \/ SpinLoop(h)
      BY <3>0, <3>4 DEF RelocateDone, SaveBootArg1, BssZero, ZstageMain, CopyBlob, PrepareFdt,
         CopyNext, FinalInit, Jump, SpinLoop, Enter, Call, At, Goto
    <3> QED BY <3>1, <3>2, <3>3, <3>4, NoDerail DEF Hart
  <2> QED BY <2>1, <2>2 DEF Released
<1>2. CASE ~Released
  BY <1>1, <1>2 DEF Freed
<1>3. CASE Released
  <2>1. PICK g \in Harts : pc[g] \in {"_jump", "booted"}
    BY <1>3 DEF Released
  <2>2. PastTree(g)
    BY <2>1 DEF PastTree, AfterTree, AfterPayload
  <2>3. ~Memcpy(h)
    BY <2>1 DEF Memcpy, At, IInv, OneBootHart, WinnerOnly, AfterRelocation, InMain
  <2>4. mem'[Link + OSpin] = mem[Link + OSpin]
    BY <2>2, <2>3, SteadyPast
  <2> QED BY <1>1, <2>4 DEF Freed
<1> QED BY <1>2, <1>3

-----------------------------------------------------------------------------
(***************************************************************************)
(* Every step of Head is a step of BootPromise, or none.                   *)
(***************************************************************************)
(* The labels a step leaves: only the lottery elects, only the jumps enter, *)
(* and only the checks hang.                                                *)
LEMMA LabelsStay ==
  ASSUME IInv, HInv, NEW h \in Harts, Hart(h),
         ~Jump(h), pc'[h] \notin InHang \/ pc[h] \in InHang,
         ~SpinLoop(h) \/ pc'[h] = "_secondary_spin_loop"
  PROVE  SameStage(h) /\ (SameBoot(h) \/ Lottery(h))
<1>0. h \in DOMAIN pc
  BY DEF IInv, TypeOK
<1>1. CASE Memcpy(h)
  <2>1. pc[h] = "memcpy" /\ reg[h].ret \in {"copy_blobs", "copy_next", "final_init"}
    BY <1>1 DEF Memcpy, At, HInv, CopyProgress
  <2>2. pc'[h] \in {"memcpy", "copy_blobs", "copy_next", "final_init"}
    BY <1>0, <1>1, <2>1 DEF Memcpy, Goto
  <2> QED
    BY <2>1, <2>2 DEF SameStage, SameBoot, InNext, InHang, WinnerOnly, AfterRelocation, InMain
<1>2. CASE Rest(h)
  BY <1>2 DEF Rest, vars, SameStage, SameBoot
<1>3. CASE Start(h) \/ Lottery(h) \/ WaitRelocateCopyDone(h) \/ WaitLoop(h) \/ SpinLoop(h)
  <2>1. /\ pc[h] \notin InNext \union InHang \union WinnerOnly
        /\ pc'[h] \notin InNext \union InHang
        /\ Lottery(h) \/ pc'[h] \notin WinnerOnly
    BY <1>0, <1>3 DEF Start, Lottery, WaitRelocateCopyDone, WaitLoop, SpinLoop, At, Goto,
       InNext, InHang, WinnerOnly, Relocating, AfterRelocation, InMain
  <2> QED BY <2>1 DEF SameStage, SameBoot
<1>4. CASE \/ SaveLoadAddress(h) \/ Relocate(h) \/ CopyToLower(h) \/ CopyToUpper(h)
           \/ RelocateDone(h) \/ SaveBootArg1(h) \/ BssZero(h) \/ ZstageMain(h)
           \/ CopyBlob(h) \/ PrepareFdt(h) \/ CopyNext(h) \/ FinalInit(h) \/ ReleaseSpin(h)
  <2>1. pc[h] \in (Relocating \union AfterRelocation) \ (InNext \union InHang)
    BY <1>4 DEF SaveLoadAddress, Relocate, CopyToLower, CopyToUpper, RelocateDone,
       SaveBootArg1, BssZero, ZstageMain, CopyBlob, PrepareFdt, CopyNext, FinalInit,
       ReleaseSpin, At, Relocating, AfterRelocation, InMain, InNext, InHang
  <2>2. pc'[h] \notin InNext
    BY <1>0, <1>4 DEF SaveLoadAddress, Relocate, CopyToLower, CopyToUpper, JumpRelocated,
       RelocateDone, SaveBootArg1, BssZero, ZstageMain, CopyBlob, PrepareFdt, CopyNext,
       FinalInit, ReleaseSpin, Call, At, Goto, InNext
  <2>3. pc[h] \in WinnerOnly /\ pc'[h] \in WinnerOnly
    BY <2>1, LabelStep DEF WinnerOnly
  <2> QED BY <2>1, <2>2, <2>3 DEF SameStage, SameBoot
<1> QED BY <1>1, <1>2, <1>3, <1>4, NoDerail DEF Hart

(* When a hart is past _release_spin, all that was promised is in place. *)
LEMMA ReleasedPlaced == HInv /\ Released => Placed
BY DEF HInv, Released, CopyProgress, AfterBlobs, AfterTree, AfterPayload, Placed

(* Whatever a hart does, it does in BootPromise, or nothing there. *)
LEMMA HartPromise ==
  ASSUME HandoffLayout, IInv, HInv, Unplaced, Unplaced', NEW h \in Harts, Hart(h)
  PROVE  Promise!Next \/ UNCHANGED Promise!vars
<1>0. h \in DOMAIN pc /\ TypeOK
  BY DEF IInv, TypeOK
<1>1. \A g \in Harts \ {h} : SameStage(g) /\ SameBoot(g)
  BY HartMovesOne DEF IInv, OnlyMoves, SameStage, SameBoot
<1>2. CASE Jump(h)
  <2>1. pc[h] = "_jump" /\ pc'[h] = "booted"
    BY <1>0, <1>2 DEF Jump, At, Enter, Goto
  <2>2. Placed
    BY <2>1, ReleasedPlaced DEF Released
  <2>3. SameBoot(h)
    BY <2>1 DEF SameBoot, WinnerOnly, AfterRelocation
  <2>4. (Placed' <=> Placed) /\ (Freed' <=> Freed)
    <3>1. ~Memcpy(h) /\ ~ReleaseSpin(h)
      BY <2>1 DEF Memcpy, ReleaseSpin, At
    <3> QED BY <3>1, PlacedStays, FreedStays
  <2>5. pc[h] \notin InNext \union InHang /\ pc'[h] \in InNext /\ pc[h] \in WinnerOnly
    BY <2>1 DEF InNext, InHang, WinnerOnly, AfterRelocation
  <2> QED BY <1>1, <2>2, <2>3, <2>4, <2>5, PromiseEnter
<1>3. CASE SpinLoop(h) /\ pc'[h] # "_secondary_spin_loop"
  <2>1. pc[h] = "_secondary_spin_loop" /\ AtLink(h)
    BY <1>3 DEF SpinLoop, At, AtLink
  <2>2. base[h] = Link /\ CopyLive
    BY <2>1, LinkFacts
  <2>3. mem[Link + OSpin] # 0 /\ pc'[h] = "joined"
    BY <1>0, <1>3, <2>1, <2>2 DEF SpinLoop, Enter, Goto
  <2>4. Released
    BY <2>2, <2>3 DEF HInv, SpinHeld, SpinValues
  <2>5. Placed /\ Freed
    BY <2>3, <2>4, ReleasedPlaced DEF Freed
  <2>6. SameBoot(h)
    BY <2>1, <2>3 DEF SameBoot, WinnerOnly, Relocating, AfterRelocation, InMain
  <2>7. (Placed' <=> Placed) /\ (Freed' <=> Freed)
    <3>1. ~Memcpy(h) /\ ~ReleaseSpin(h)
      BY <2>1 DEF Memcpy, ReleaseSpin, At
    <3> QED BY <3>1, PlacedStays, FreedStays
  <2>8. pc[h] \notin InNext \union InHang /\ pc'[h] \in InNext
    BY <2>1, <2>3 DEF InNext, InHang
  <2> QED BY <1>1, <2>5, <2>6, <2>7, <2>8, PromiseEnter
<1>4. CASE pc'[h] \in InHang /\ pc[h] \notin InHang
  <2>1. pc[h] \in {"_relocate", "zstage_main", "prepare_fdt", "final_init"} /\ ~Memcpy(h)
    <3>1. ~Memcpy(h)
      <4> SUFFICES ASSUME Memcpy(h) PROVE FALSE
        OBVIOUS
      <4>1. pc[h] = "memcpy" /\ reg[h].ret \in {"copy_blobs", "copy_next", "final_init"}
        BY DEF Memcpy, At, HInv, CopyProgress
      <4> QED BY <1>0, <1>4, <4>1 DEF Memcpy, Goto, InHang
    <3>2. ~Rest(h)
      BY <1>4 DEF Rest, vars
    <3>3. ~(\/ Start(h) \/ Lottery(h) \/ SaveLoadAddress(h) \/ CopyToLower(h)
            \/ CopyToUpper(h) \/ WaitRelocateCopyDone(h) \/ WaitLoop(h)
            \/ RelocateDone(h) \/ SaveBootArg1(h) \/ BssZero(h))
      BY <1>0, <1>4 DEF Start, Lottery, SaveLoadAddress, CopyToLower, CopyToUpper,
         JumpRelocated, WaitRelocateCopyDone, WaitLoop, RelocateDone, SaveBootArg1, BssZero,
         At, Goto, InHang
    <3>4. ~(CopyBlob(h) \/ CopyNext(h) \/ ReleaseSpin(h) \/ Jump(h) \/ SpinLoop(h))
      BY <1>0, <1>4 DEF CopyBlob, CopyNext, ReleaseSpin, Jump, SpinLoop, Enter, Call, At, Goto,
         InHang
    <3> QED BY <3>1, <3>2, <3>3, <3>4, NoDerail DEF Hart, Relocate, ZstageMain, PrepareFdt,
         FinalInit, At
  <2>2. pc[h] \in WinnerOnly /\ pc'[h] \in WinnerOnly /\ pc[h] \notin InNext \union InHang
    BY <1>4, <2>1 DEF WinnerOnly, Relocating, AfterRelocation, InMain, InNext, InHang
  <2>3. SameBoot(h)
    BY <2>2 DEF SameBoot
  <2>4. ~Freed
    BY <2>1, <2>2 DEF Freed, Released, IInv, OneBootHart, WinnerOnly, AfterRelocation
  <2>5. (Placed' <=> Placed) /\ (Freed' <=> Freed)
    <3>1. ~ReleaseSpin(h)
      BY <2>1 DEF ReleaseSpin, At
    <3> QED BY <2>1, <3>1, PlacedStays, FreedStays
  <2> QED BY <1>1, <1>4, <2>2, <2>3, <2>4, <2>5, PromiseHang
<1>5. ASSUME ~Jump(h), ~(SpinLoop(h) /\ pc'[h] # "_secondary_spin_loop"),
             ~(pc'[h] \in InHang /\ pc[h] \notin InHang)
      PROVE  Promise!Next \/ UNCHANGED Promise!vars
  <2>0. SameStage(h) /\ (SameBoot(h) \/ Lottery(h))
    BY <1>5, LabelsStay
  <2>1. CASE ReleaseSpin(h)
    <3>1. pc[h] = "_release_spin" /\ pc'[h] = "_jump" /\ AtLink(h) /\ pc[h] \in WinnerOnly
      BY <1>0, <2>1 DEF ReleaseSpin, At, Goto, AtLink, AfterRelocation, WinnerOnly
    <3>2. SameBoot(h)
      BY <3>1 DEF SameBoot, WinnerOnly, AfterRelocation
    <3>3. ~Released /\ Released'
      BY <3>1 DEF Released, IInv, OneBootHart, WinnerOnly, AfterRelocation
    <3>4. Placed
      BY <3>1 DEF HInv, CopyProgress, AfterBlobs, AfterTree, AfterPayload, Placed
    <3>5. Placed' <=> Placed
      <4>1. ~Memcpy(h)
        BY <3>1 DEF Memcpy, At
      <4> QED BY <4>1, PlacedStays
    <3>6. CASE Freed'
      BY <1>1, <2>0, <3>2, <3>3, <3>4, <3>5, <3>6, PromiseRelease DEF Freed
    <3>7. CASE ~Freed'
      BY <1>1, <2>0, <3>2, <3>3, <3>5, <3>7, PromiseStutter DEF Freed
    <3> QED BY <3>6, <3>7
  <2>2. CASE Memcpy(h)
    <3>1. pc[h] = "memcpy" /\ pc[h] \in WinnerOnly /\ ~Lottery(h) /\ ~ReleaseSpin(h)
      BY <2>2 DEF Memcpy, Lottery, ReleaseSpin, At, WinnerOnly, AfterRelocation, InMain
    <3>2. Freed' <=> Freed
      BY <3>1, FreedStays
    <3>3. CASE ~Placed /\ Placed'
      BY <1>1, <2>0, <3>1, <3>2, <3>3, PromisePlace
    <3>4. CASE Placed' <=> Placed
      BY <1>1, <2>0, <3>1, <3>2, <3>4, PromiseStutter
    <3> QED BY <2>2, <3>3, <3>4, MemcpyPlaces
  <2>3. CASE Lottery(h)
    <3>1. /\ pc[h] = "_start_real" /\ pc[h] \notin WinnerOnly
          /\ pc'[h] = IF mem[load + OLottery] # 0 THEN "_wait_relocate_copy_done"
                                                  ELSE "_save_load_address"
      BY <1>0, <2>3 DEF Lottery, At, Goto, WinnerOnly, Relocating, AfterRelocation, InMain
    <3>2. (Placed' <=> Placed) /\ (Freed' <=> Freed)
      <4>1. ~Memcpy(h) /\ ~ReleaseSpin(h)
        BY <3>1 DEF Memcpy, ReleaseSpin, At
      <4> QED BY <4>1, PlacedStays, FreedStays
    <3>3. CASE mem[load + OLottery] # 0
      <4>1. SameBoot(h)
        BY <3>1, <3>3 DEF SameBoot, WinnerOnly, Relocating, AfterRelocation, InMain
      <4> QED BY <1>1, <2>0, <3>2, <4>1, PromiseStutter
    <3>4. CASE mem[load + OLottery] = 0
      <4>1. \A g \in Harts : pc[g] \in BeforeLottery
        BY <1>0, <3>4 DEF IInv, LotteryHeld
      <4>2. \A g \in Harts : pc[g] \notin WinnerOnly
        BY <4>1 DEF BeforeLottery, WinnerOnly, Relocating, AfterRelocation, InMain
      <4>3. \A g \in Harts : pc'[g] \in WinnerOnly <=> g = h
        BY <1>1, <3>1, <3>4, <4>2 DEF SameBoot, WinnerOnly, Relocating
      <4> QED BY <1>1, <2>0, <3>2, <4>2, <4>3, PromiseElect
    <3> QED BY <3>3, <3>4
  <2>4. CASE ~ReleaseSpin(h) /\ ~Memcpy(h) /\ ~Lottery(h)
    <3>1. (Placed' <=> Placed) /\ (Freed' <=> Freed)
      BY <2>4, PlacedStays, FreedStays
    <3> QED BY <1>1, <2>0, <2>4, <3>1, PromiseStutter
  <2> QED BY <2>1, <2>2, <2>3, <2>4
<1> QED BY <1>2, <1>3, <1>4, <1>5

(* The machine before anything ran is one that promised, and did nothing. *)
LEMMA PromiseInit == ASSUME HandoffLayout, FreshTree, Init PROVE Promise!Init
<1>1. \A h \in Harts : pc[h] = "_start"
  BY DEF Init
<1>2. {h \in Harts : pc[h] \in WinnerOnly} = {}
  BY <1>1 DEF WinnerOnly, Relocating, AfterRelocation, InMain
<1>3. ~Freed
  BY <1>1 DEF Freed, Released
<1>4. ~Placed
  BY <1>1, UnplacedInit, NotPlaced DEF Unplaced, PastTree, AfterTree, AfterPayload
<1>5. Placed = FALSE /\ Freed = FALSE
  BY <1>3, <1>4 DEF Placed, PayloadPlaced, FdtPlaced, BlobsPlaced, Freed, Released
<1>6. [h \in Harts |->
         CASE pc[h] \in {"booted", "joined"} -> "next"
           [] pc[h] \in {"_start_hang", "zstage_hang"} -> "hung"
           [] OTHER -> "zstage"] = [h \in Harts |-> "zstage"]
  BY <1>1
<1> QED BY <1>2, <1>5, <1>6 DEF Promise!Init, Freed, Released

(* Every step of the machine is a step of what it promises, or none. *)
LEMMA PromiseNext ==
  HandoffLayout /\ IInv /\ HInv /\ Unplaced /\ Unplaced' /\ [Next]_vars
    => [Promise!Next]_(Promise!vars)
<1> SUFFICES ASSUME HandoffLayout, IInv, HInv, Unplaced, Unplaced', [Next]_vars
             PROVE  Promise!Next \/ UNCHANGED Promise!vars
  OBVIOUS
<1>1. CASE \E h \in Harts : Hart(h)
  BY <1>1, HartPromise
<1>2. CASE NextStageReleases
  <2>0. UNCHANGED pc /\ TypeOK /\ Store(Link + OSpin, NextRun) /\ mem[Link + OSpin] = 0
    BY <1>2 DEF NextStageReleases, IInv
  <2>1. PICK h \in Harts : pc[h] = "booted"
    BY <1>2 DEF NextStageReleases
  <2>2. Apart
    BY <2>1, LinkFacts DEF AtLink
  <2>3. Steady /\ mem'[Link + OSpin] = NextRun
    BY <2>0, <2>2, SpinStore DEF HInv
  <2>4. Released /\ Released' /\ Placed
    BY <2>0, <2>1, ReleasedPlaced DEF Released
  <2>5. Placed' <=> Placed
    BY <2>3, SteadyPlaced DEF Placed
  <2>6. ~Freed /\ Freed'
    <3>1. NextRun # 0
      BY HeadAssumed DEF HeadAssumption
    <3> QED BY <2>0, <2>3, <2>4, <3>1 DEF Freed
  <2>7. \A g \in Harts : SameStage(g) /\ SameBoot(g)
    BY <2>0 DEF SameStage, SameBoot
  <2> QED BY <2>4, <2>5, <2>6, <2>7, PromiseRelease
<1>3. CASE UNCHANGED vars
  <2>1. UNCHANGED <<mem, pc>>
    BY <1>3 DEF vars
  <2>2. \A g \in Harts : SameStage(g) /\ SameBoot(g)
    BY <2>1 DEF SameStage, SameBoot
  <2>3. (Placed' <=> Placed) /\ (Freed' <=> Freed)
    BY <2>1 DEF Placed, PayloadPlaced, FdtPlaced, BlobsPlaced, Freed, Released
  <2> QED BY <2>2, <2>3, PromiseStutter
<1> QED BY <1>1, <1>2, <1>3 DEF Next

(* Where what is copied lies apart and the tree goes to fresh memory, the   *)
(* boot path of head.S, with all its copies, its overlaps and its words the *)
(* harts meet over, does what BootPromise says in four variables: one hart  *)
(* is elected, everything is placed before anybody enters the next stage,   *)
(* the others enter when released, and a hart that hangs releases nobody.   *)
THEOREM HeadKeepsPromise ==
  ASSUME HandoffLayout, FreshTree PROVE Spec => KeepsPromise
<1>1. Init => Promise!Init
  BY PromiseInit
<1>2. Init => Unplaced
  BY UnplacedInit
<1>3. IInv /\ HInv /\ Unplaced /\ [Next]_vars => Unplaced'
  BY UnplacedNext
<1>4. IInv /\ HInv /\ Unplaced /\ Unplaced' /\ [Next]_vars => [Promise!Next]_(Promise!vars)
  BY PromiseNext
<1> QED
  BY <1>1, <1>2, <1>3, <1>4, HandoffInvariance, PTL DEF Spec, KeepsPromise, Promise!Spec
=============================================================================

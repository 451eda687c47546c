---------------------------- MODULE HandoffProofs ----------------------------
(***************************************************************************)
(* What the next booting stage finds when a hart of Head enters it, for    *)
(* any number of harts, any addresses, any image and any blobs: the        *)
(* payload, its device tree and the blobs, whole; and nobody but the boot  *)
(* hart before it is released.                                             *)
(***************************************************************************)
EXTENDS HeadProofs

(***************************************************************************)
(* The layout these theorems need: what is copied lies apart.              *)
(***************************************************************************)
TreeArea    == NextFdt .. NextFdt + FdtLen - 1
PayloadArea == NextRun .. NextRun + PayLen - 1
BlobArea(i) == Blobs[i].dst .. Blobs[i].dst + Blobs[i].size - 1

(* Where the earlier stage left its device tree. *)
Tree == FdtSrc .. FdtSrc + FdtLen - 1

ImageAt(l) == l .. l + Size - 1

BlobsApart ==
  \A i \in 1 .. Len(Blobs) :
    \* an empty blob would be taken for the sentinel; .payload ends the image
    /\ Blobs[i].size # 0
    /\ Link + OPayload <= Blobs[i].src /\ Blobs[i].src + Blobs[i].size <= LinkEnd
    /\ \A j \in 1 .. Len(Blobs) \ {i} : BlobArea(i) \cap BlobArea(j) = {}
    /\ BlobArea(i) \cap (TreeArea \union PayloadArea \union Tree) = {}

(* The tree lies apart from every image, and so that memcpy, which copies   *)
(* upwards, can move it; and an a1 that is not the tree is no word that a   *)
(* boot writes.                                                             *)
TreeApart ==
  /\ TreeArea \cap PayloadArea = {}
  /\ NextFdt <= FdtSrc \/ FdtSrc + FdtLen <= NextFdt
  /\ \A l \in Loads \union {Link} : Tree \cap ImageAt(l) = {}
  /\ \A a \in Args \ {FdtSrc} :
       a \notin Tree \union Destinations
         \union UNION {ImageAt(l) : l \in Loads \union {Link}}

HandoffLayout == SafeLayout /\ BlobsApart /\ TreeApart

(***************************************************************************)
(* The progress of the copies.                                             *)
(***************************************************************************)
BlobWords(i) == [k \in 0 .. Blobs[i].size - 1 |-> Image[Blobs[i].src + k - Link]]
TreeWords    == [k \in 0 .. FdtLen - 1 |-> FdtWord(k)]
PayloadWords == [k \in 0 .. PayLen - 1 |-> Image[OPayload + k]]

(* The words i .. j of w lie in memory from address a on. *)
Holds(a, w, i, j) == \A k \in i .. j : mem[a + k] = w[k]

BlobPlaced(i) == Holds(Blobs[i].dst, BlobWords(i), 0, Blobs[i].size - 1)

(* h is in memcpy: k words of w have arrived, and the others still wait.    *)
InCopy(h, dst, src, len, w) ==
  \E k \in 0 .. len :
    /\ reg[h].d = dst + k /\ reg[h].s = src + k /\ reg[h].e = dst + len
    /\ Holds(dst, w, 0, k - 1)
    /\ Holds(src, w, k, len - 1)

InBlob(h) ==
  LET i == reg[h].i - 1 IN
  /\ i \in 1 .. Len(Blobs)
  /\ \A j \in 1 .. i - 1 : BlobPlaced(j)
  /\ InCopy(h, Blobs[i].dst, Blobs[i].src, Blobs[i].size, BlobWords(i))

InTree(h) == BlobsPlaced /\ InCopy(h, NextFdt, FdtSrc, FdtLen, TreeWords)

InPayload(h) ==
  /\ BlobsPlaced /\ FdtPlaced /\ Link + OPayload # NextRun
  /\ InCopy(h, NextRun, Link + OPayload, PayLen, PayloadWords)

AfterPayload == {"final_init", "_release_spin", "_jump", "booted"}

AfterTree == {"copy_next"} \union AfterPayload

AfterBlobs == {"prepare_fdt"} \union AfterTree

BeforeBlobs ==
  BeforeLottery \union Relocating
    \union {"_relocate_done", "_save_boot_arg1", "_bss_zero", "zstage_main"}

InBlobs(h) ==
  \/ pc[h] = "copy_blobs"
  \/ pc[h] = "memcpy" /\ reg[h].ret = "copy_blobs"

(* The boot hart has read the tree, or will not any more. *)
PastTree(h) ==
  \/ pc[h] \in AfterTree \union {"zstage_hang"}
  \/ pc[h] = "memcpy" /\ reg[h].ret # "copy_blobs"

CopyProgress(h) ==
  /\ pc[h] \in BeforeBlobs => reg[h].i = 1
  /\ pc[h] \in {"_bss_zero", "zstage_main", "prepare_fdt"} \/ InBlobs(h) =>
       mem[Link + OBootArg1] = boot.arg1
  /\ pc[h] = "copy_blobs" =>
       reg[h].i \in 1 .. Len(Blobs) + 1 /\ \A j \in 1 .. reg[h].i - 1 : BlobPlaced(j)
  /\ pc[h] = "memcpy" =>
       \/ reg[h].ret = "copy_blobs" /\ InBlob(h)
       \/ reg[h].ret = "copy_next" /\ InTree(h)
       \/ reg[h].ret = "final_init" /\ InPayload(h)
  /\ pc[h] \in AfterBlobs => BlobsPlaced
  /\ pc[h] \in AfterTree => FdtPlaced
  /\ pc[h] \in AfterPayload => PayloadPlaced

(***************************************************************************)
(* The tree and the spin word, whoever runs.                               *)
(***************************************************************************)
ArgsHeld == \A a \in Args \ {FdtSrc} : mem[a] = Junk

TreeWaits == (\A h \in Harts : ~PastTree(h)) => Holds(FdtSrc, TreeWords, 0, FdtLen - 1)

(* A hart may go on from _secondary_spin_loop from the moment the boot hart *)
(* is past _release_spin, and not before.                                   *)
Released == \E h \in Harts : pc[h] \in {"_jump", "booted"}

SpinValues == IF Released THEN {0, NextRun} ELSE {0}

CopyLive ==
  load = Link \/ mem[load + OBootStatus] > 0 \/ \E h \in Harts : AtLink(h)

(* The relocation carries the spin word, which is still zero. *)
SpinCarried(h) ==
  /\ pc[h] = "_relocate_copy_to_lower_loop" /\ OSpin < reg[h].d - Link =>
       mem[Link + OSpin] = 0
  /\ pc[h] = "_relocate_copy_to_upper_loop" /\ reg[h].d - Link <= OSpin =>
       mem[Link + OSpin] = 0

SpinHeld ==
  /\ load # Link => mem[load + OSpin] = 0
  /\ CopyLive => mem[Link + OSpin] \in SpinValues
  /\ \A h \in Harts : SpinCarried(h)

Entered(h) ==
  /\ pc[h] \in {"booted", "joined"} => handoff[h] = [entry |-> NextRun, fdt |-> NextFdt]
  /\ pc[h] = "joined" => Released

HInv ==
  /\ ArgsHeld
  /\ TreeWaits
  /\ SpinHeld
  /\ \A h \in Harts : CopyProgress(h) /\ Entered(h)
-----------------------------------------------------------------------------
(***************************************************************************)
(* The addresses of what is copied.                                        *)
(***************************************************************************)
USE DEF OStart, OMagic, ORunAddr, ONextRun, ONextFdt, OSpin, OReal, ORelocate,
        ORelocateDone, OMain, OLottery, OLoadStart, OBootArg1, OBootStatus, OBss

(* The constants of the copies are numbers, and their areas are RAM. *)
LEMMA CopyTypes ==
  /\ Link \in Int /\ Size \in Int /\ OPayload \in Int
  /\ NextRun \in Int /\ PayLen \in Nat \ {0} /\ NextFdt \in Int
  /\ FdtSrc \in Int /\ FdtLen \in Nat \ {0}
  /\ PayloadArea \subseteq Addr /\ TreeArea \subseteq Addr /\ Tree \subseteq Addr
  /\ OBss < OPayload /\ OPayload + PayLen <= Size
BY SizeFact, HeadAssumed DEF HeadAssumption, PayloadArea, TreeArea, Tree

(* So are those of a blob, and it has a size. *)
LEMMA BlobTypes ==
  ASSUME NEW i \in 1 .. Len(Blobs)
  PROVE  /\ Blobs[i].src \in Int /\ Blobs[i].dst \in Int /\ Blobs[i].size \in Nat
         /\ BlobArea(i) \subseteq Addr
         /\ Blobs[i].src .. Blobs[i].src + Blobs[i].size - 1 \subseteq Addr
<1>1. Blobs[i].src \in Int /\ Blobs[i].dst \in Int /\ Blobs[i].size \in Nat
  <2>1. Blobs[i] \in [src : Int, dst : Int, size : Nat]
    BY BlobType
  <2> QED BY <2>1
<1>2. /\ Blobs[i].dst .. Blobs[i].dst + Blobs[i].size - 1 \subseteq Addr
      /\ Blobs[i].src .. Blobs[i].src + Blobs[i].size - 1 \subseteq Addr
  BY HeadAssumed DEF HeadAssumption
<1> QED BY <1>1, <1>2 DEF BlobArea

(* A word of an area, counted from its start. *)
LEMMA InArea ==
  ASSUME NEW a \in Int, NEW n \in Int, NEW k \in 0 .. n - 1
  PROVE  a + k \in a .. a + n - 1
OBVIOUS

(* What is copied, but for a payload that stays, is a destination. *)
LEMMA AreasAreDestinations ==
  /\ TreeArea \subseteq Destinations
  /\ Link + OPayload # NextRun => PayloadArea \subseteq Destinations
  /\ \A i \in 1 .. Len(Blobs) : BlobArea(i) \subseteq Destinations
BY DEF Destinations, TreeArea, PayloadArea, BlobArea

(* No word of the images is a destination, a word of the tree, or an a1     *)
(* that is not the tree.                                                    *)
LEMMA ImagesApart ==
  ASSUME HandoffLayout, TypeOK, NEW l \in {load, Link}, NEW o \in 0 .. Size - 1
  PROVE  l + o \notin Destinations \union Tree \union (Args \ {FdtSrc})
<1>1. l \in Loads \union {Link}
  BY Copies
<1>2. l + o \in l .. l + Size - 1
  BY <1>1, InRAM, SizeFact, InArea
<1>3. l + o \notin Destinations
  BY <1>1, <1>2 DEF HandoffLayout, SafeLayout
<1>4. l + o \notin Tree
  BY <1>1, <1>2 DEF HandoffLayout, TreeApart, ImageAt
<1>5. l + o \notin Args \ {FdtSrc}
  <2>1. l + o \in UNION {ImageAt(m) : m \in Loads \union {Link}}
    BY <1>1, <1>2 DEF ImageAt
  <2> QED BY <2>1 DEF HandoffLayout, TreeApart
<1> QED BY <1>3, <1>4, <1>5

(* The words of a blob lie behind the payload in the running image. *)
LEMMA BlobSource ==
  ASSUME HandoffLayout, NEW i \in 1 .. Len(Blobs), NEW k \in 0 .. Blobs[i].size - 1
  PROVE  /\ Blobs[i].src + k - Link \in Fixed
         /\ Blobs[i].src + k = Link + (Blobs[i].src + k - Link)
<1>1. Link + OPayload <= Blobs[i].src /\ Blobs[i].src + Blobs[i].size <= Link + Size
  BY DEF HandoffLayout, BlobsApart, LinkEnd
<1>2. Blobs[i].src \in Int /\ Blobs[i].size \in Nat
  BY BlobTypes
<1> DEFINE o == Blobs[i].src + k - Link
<1>3. o \in OPayload .. Size - 1 /\ Blobs[i].src + k = Link + o
  BY <1>1, <1>2, CopyTypes
<1> HIDE DEF o
<1>4. o \in Fixed
  BY <1>3, CopyTypes DEF Fixed, Zeroed
<1> QED BY <1>3, <1>4 DEF o

(* And so do those of the payload. *)
LEMMA PayloadSource ==
  ASSUME NEW k \in 0 .. PayLen - 1
  PROVE  OPayload + k \in Fixed /\ Link + OPayload + k = Link + (OPayload + k)
<1>1. OPayload + k \in OPayload .. Size - 1
  BY CopyTypes
<1> QED BY <1>1, CopyTypes DEF Fixed, Zeroed
-----------------------------------------------------------------------------
(***************************************************************************)
(* Words that hold, and stay.                                              *)
(***************************************************************************)
(* What is copied, its sources in the running image, and the saved a1. *)
Tracked == Destinations \union Tree \union {Link + o : o \in Fixed \union {OBootArg1}}

Steady == \A b \in Tracked : mem'[b] = mem[b]

(* The properties of Head in the words of this module. *)
LEMMA PlacedAsHolds ==
  /\ BlobsPlaced <=> \A i \in 1 .. Len(Blobs) : BlobPlaced(i)
  /\ FdtPlaced <=> Holds(NextFdt, TreeWords, 0, FdtLen - 1)
  /\ PayloadPlaced <=> Holds(NextRun, PayloadWords, 0, PayLen - 1)
BY DEF BlobsPlaced, BlobPlaced, BlobWords, FdtPlaced, TreeWords, PayloadPlaced, PayloadWords,
   Holds

(* The same of the state after a step. *)
LEMMA PlacedAsHoldsNext ==
  /\ BlobsPlaced' <=> \A i \in 1 .. Len(Blobs) : BlobPlaced(i)'
  /\ FdtPlaced' <=> Holds(NextFdt, TreeWords, 0, FdtLen - 1)'
  /\ PayloadPlaced' <=> Holds(NextRun, PayloadWords, 0, PayLen - 1)'
BY DEF BlobsPlaced, BlobPlaced, BlobWords, FdtPlaced, TreeWords, PayloadPlaced, PayloadWords,
   Holds

(* Words the step does not change hold after it as before. *)
LEMMA HoldsStay ==
  ASSUME NEW a, NEW w, NEW i, NEW j, \A k \in i .. j : mem'[a + k] = mem[a + k]
  PROVE  Holds(a, w, i, j)' <=> Holds(a, w, i, j)
BY DEF Holds

(* The areas lie in what is tracked. *)
LEMMA AreasTracked ==
  ASSUME HandoffLayout
  PROVE  /\ \A k \in 0 .. FdtLen - 1 : NextFdt + k \in Tracked /\ FdtSrc + k \in Tracked
         /\ \A k \in 0 .. PayLen - 1 : NextRun + k \in Tracked /\ Link + OPayload + k \in Tracked
         /\ \A i \in 1 .. Len(Blobs) : \A k \in 0 .. Blobs[i].size - 1 :
              Blobs[i].dst + k \in Tracked /\ Blobs[i].src + k \in Tracked
<1>1. \A k \in 0 .. FdtLen - 1 : NextFdt + k \in Tracked /\ FdtSrc + k \in Tracked
  BY CopyTypes, InArea, AreasAreDestinations DEF Tracked, TreeArea, Tree
<1>2. ASSUME NEW k \in 0 .. PayLen - 1
      PROVE  NextRun + k \in Tracked /\ Link + OPayload + k \in Tracked
  <2>1. Link + OPayload + k \in Tracked
    BY PayloadSource DEF Tracked
  <2>2. NextRun + k \in PayloadArea
    BY CopyTypes, InArea DEF PayloadArea
  <2> QED BY <2>1, <2>2, AreasAreDestinations DEF Tracked
<1>3. ASSUME NEW i \in 1 .. Len(Blobs), NEW k \in 0 .. Blobs[i].size - 1
      PROVE  Blobs[i].dst + k \in Tracked /\ Blobs[i].src + k \in Tracked
  <2>1. Blobs[i].src + k \in Tracked
    BY BlobSource DEF Tracked
  <2>2. Blobs[i].dst + k \in BlobArea(i)
    BY BlobTypes, InArea DEF BlobArea
  <2> QED BY <2>1, <2>2, AreasAreDestinations DEF Tracked
<1> QED BY <1>1, <1>2, <1>3

(* What is in its place stays there when the tracked words stay. *)
LEMMA SteadyPlaced ==
  ASSUME HandoffLayout, Steady
  PROVE  /\ \A i \in 1 .. Len(Blobs) : BlobPlaced(i)' <=> BlobPlaced(i)
         /\ BlobsPlaced' <=> BlobsPlaced
         /\ FdtPlaced' <=> FdtPlaced
         /\ PayloadPlaced' <=> PayloadPlaced
<1>1. ASSUME NEW i \in 1 .. Len(Blobs) PROVE BlobPlaced(i)' <=> BlobPlaced(i)
  BY AreasTracked, HoldsStay DEF BlobPlaced, Steady
<1>2. FdtPlaced' <=> FdtPlaced
  BY AreasTracked, HoldsStay, PlacedAsHolds, PlacedAsHoldsNext DEF Steady
<1>3. PayloadPlaced' <=> PayloadPlaced
  BY AreasTracked, HoldsStay, PlacedAsHolds, PlacedAsHoldsNext DEF Steady
<1> QED BY <1>1, <1>2, <1>3, PlacedAsHolds, PlacedAsHoldsNext

(* A copy under way stays where it is when its words stay. *)
LEMMA SteadyCopy ==
  ASSUME Steady, NEW g, reg'[g] = reg[g],
         NEW dst \in Int, NEW src \in Int, NEW len \in Int, NEW w,
         \A k \in 0 .. len - 1 : dst + k \in Tracked /\ src + k \in Tracked,
         InCopy(g, dst, src, len, w)
  PROVE  InCopy(g, dst, src, len, w)'
<1>1. PICK k \in 0 .. len :
        /\ reg[g].d = dst + k /\ reg[g].s = src + k /\ reg[g].e = dst + len
        /\ Holds(dst, w, 0, k - 1)
        /\ Holds(src, w, k, len - 1)
  BY DEF InCopy
<1>2. \A j \in 0 .. len - 1 : mem'[dst + j] = mem[dst + j] /\ mem'[src + j] = mem[src + j]
  BY DEF Steady
<1>3. \A j \in 0 .. k - 1 : mem'[dst + j] = mem[dst + j]
  BY <1>2
<1>4. \A j \in k .. len - 1 : mem'[src + j] = mem[src + j]
  BY <1>2
<1>5. Holds(dst, w, 0, k - 1)'
  BY <1>1, <1>3, HoldsStay
<1>6. Holds(src, w, k, len - 1)'
  BY <1>1, <1>4, HoldsStay
<1> QED BY <1>1, <1>5, <1>6 DEF InCopy

(* So do the three kinds of copies zstage_main makes. *)
LEMMA SteadyCopies ==
  ASSUME HandoffLayout, Steady, NEW g, reg'[g] = reg[g]
  PROVE  /\ InBlob(g) => InBlob(g)'
         /\ InTree(g) => InTree(g)'
         /\ InPayload(g) => InPayload(g)'
<1>1. ASSUME InBlob(g) PROVE InBlob(g)'
  <2>1. PICK i \in 1 .. Len(Blobs) : i = reg[g].i - 1
    BY <1>1 DEF InBlob
  <2>2. /\ \A j \in 1 .. i - 1 : BlobPlaced(j)
        /\ InCopy(g, Blobs[i].dst, Blobs[i].src, Blobs[i].size, BlobWords(i))
    BY <1>1, <2>1 DEF InBlob
  <2>3. \A j \in 1 .. i - 1 : j \in 1 .. Len(Blobs)
    OBVIOUS
  <2>4. \A j \in 1 .. i - 1 : BlobPlaced(j)'
    BY <2>2, <2>3, SteadyPlaced
  <2>5. \A k \in 0 .. Blobs[i].size - 1 : Blobs[i].dst + k \in Tracked /\ Blobs[i].src + k \in Tracked
    BY AreasTracked
  <2>6. Blobs[i].dst \in Int /\ Blobs[i].src \in Int /\ Blobs[i].size \in Int
    BY BlobTypes
  <2>7. InCopy(g, Blobs[i].dst, Blobs[i].src, Blobs[i].size, BlobWords(i))'
    BY <2>2, <2>5, <2>6, SteadyCopy
  <2>8. reg'[g].i - 1 = i
    BY <2>1
  <2> QED BY <2>4, <2>7, <2>8 DEF InBlob
<1>2. ASSUME InTree(g) PROVE InTree(g)'
  <2>1. BlobsPlaced /\ InCopy(g, NextFdt, FdtSrc, FdtLen, TreeWords)
    BY <1>2 DEF InTree
  <2>2. /\ NextFdt \in Int /\ FdtSrc \in Int /\ FdtLen \in Int
        /\ \A k \in 0 .. FdtLen - 1 : NextFdt + k \in Tracked /\ FdtSrc + k \in Tracked
    BY CopyTypes, AreasTracked
  <2>3. InCopy(g, NextFdt, FdtSrc, FdtLen, TreeWords)'
    BY <2>1, <2>2, SteadyCopy
  <2> QED BY <2>1, <2>3, SteadyPlaced DEF InTree
<1>3. ASSUME InPayload(g) PROVE InPayload(g)'
  <2>1. /\ BlobsPlaced /\ FdtPlaced /\ Link + OPayload # NextRun
        /\ InCopy(g, NextRun, Link + OPayload, PayLen, PayloadWords)
    BY <1>3 DEF InPayload
  <2>2. /\ NextRun \in Int /\ Link + OPayload \in Int /\ PayLen \in Int
        /\ \A k \in 0 .. PayLen - 1 : NextRun + k \in Tracked /\ Link + OPayload + k \in Tracked
    BY CopyTypes, AreasTracked
  <2>3. InCopy(g, NextRun, Link + OPayload, PayLen, PayloadWords)'
    BY <2>1, <2>2, SteadyCopy
  <2> QED BY <2>1, <2>3, SteadyPlaced DEF InPayload
<1> QED BY <1>1, <1>2, <1>3

(* The labels at which the memory tells how far the boot hart is. *)
Copying == {"_bss_zero", "zstage_main", "copy_blobs", "memcpy"} \union AfterBlobs

(* A hart that takes no step is where it was, as long as the tracked words  *)
(* stay; and if it copies nothing, whatever happens to them.                *)
LEMMA ProgressStays ==
  ASSUME HandoffLayout, UNCHANGED boot, NEW g, pc'[g] = pc[g], reg'[g] = reg[g],
         Steady \/ pc[g] \notin Copying, CopyProgress(g)
  PROVE  CopyProgress(g)'
<1>1. CASE pc[g] \notin Copying
  BY <1>1 DEF CopyProgress, Copying, InBlobs, AfterBlobs, AfterTree, AfterPayload, BeforeBlobs,
     BeforeLottery, Relocating
<1>2. CASE Steady
  <2>1. mem'[Link + OBootArg1] = mem[Link + OBootArg1]
    BY <1>2 DEF Steady, Tracked
  <2>2. pc[g] = "copy_blobs" => \A j \in 1 .. reg[g].i - 1 : BlobPlaced(j)'
    BY <1>2, SteadyPlaced DEF CopyProgress
  <2>3. /\ InBlob(g) => InBlob(g)'
        /\ InTree(g) => InTree(g)'
        /\ InPayload(g) => InPayload(g)'
    BY <1>2, SteadyCopies
  <2>4. (BlobsPlaced => BlobsPlaced') /\ (FdtPlaced => FdtPlaced')
        /\ (PayloadPlaced => PayloadPlaced')
    BY <1>2, SteadyPlaced
  <2> QED BY <2>1, <2>2, <2>3, <2>4 DEF CopyProgress, InBlobs
<1> QED BY <1>1, <1>2

-----------------------------------------------------------------------------
(***************************************************************************)
(* memcpy.                                                                 *)
(***************************************************************************)
(* A call starts with nothing copied, and the source whole. *)
LEMMA CallBegins ==
  ASSUME TypeOK, NEW h \in Harts, UNCHANGED mem,
         NEW dst \in Int, NEW src \in Int, NEW len \in Nat, NEW i, NEW ret, NEW w,
         Call(h, dst, src, len, i, ret), Holds(src, w, 0, len - 1)
  PROVE  /\ pc'[h] = "memcpy" /\ reg'[h].i = i /\ reg'[h].ret = ret
         /\ InCopy(h, dst, src, len, w)'
<1>1. h \in DOMAIN pc /\ h \in DOMAIN reg
  BY DEF TypeOK
<1>2. /\ pc'[h] = "memcpy"
      /\ reg'[h] = [d |-> dst, s |-> src, e |-> dst + len, i |-> i, ret |-> ret]
  BY <1>1 DEF Call, Goto
<1>3. Holds(dst, w, 0, 0 - 1)' /\ Holds(src, w, 0, len - 1)'
  BY DEF Holds
<1>4. reg'[h].d = dst + 0 /\ reg'[h].s = src + 0 /\ reg'[h].e = dst + len
  BY <1>2
<1>5. 0 \in 0 .. len
  OBVIOUS
<1>6. InCopy(h, dst, src, len, w)'
  BY <1>3, <1>4, <1>5 DEF InCopy
<1> QED BY <1>2, <1>6

(* One word of memcpy, where a word that still waits is not overwritten:    *)
(* where the copy overlaps its source, it moves downwards.                  *)
LEMMA CopyWord ==
  ASSUME mem \in [Addr -> Int], NEW h,
         NEW dst \in Int, NEW src \in Int, NEW len \in Nat, NEW w,
         \A k \in 0 .. len - 1 : dst + k \in Addr /\ src + k \in Addr,
         \A k \in 0 .. len - 1 : \A j \in k + 1 .. len - 1 : dst + k # src + j,
         InCopy(h, dst, src, len, w), reg[h].d < reg[h].e,
         Store(reg[h].d, Word(reg[h].s)),
         reg'[h].d = reg[h].d + 1, reg'[h].s = reg[h].s + 1, reg'[h].e = reg[h].e
  PROVE  InCopy(h, dst, src, len, w)'
<1>1. PICK k \in 0 .. len :
        /\ reg[h].d = dst + k /\ reg[h].s = src + k /\ reg[h].e = dst + len
        /\ Holds(dst, w, 0, k - 1)
        /\ Holds(src, w, k, len - 1)
  BY DEF InCopy
<1>2. k \in 0 .. len - 1 /\ k + 1 \in 0 .. len
  BY <1>1
<1>3. dst + k \in Addr /\ src + k \in Addr
  BY <1>2
<1>4. Word(reg[h].s) = w[k]
  BY <1>1, <1>2, <1>3 DEF Word, Holds
<1>5. mem'[dst + k] = w[k] /\ \A b \in Addr : b # dst + k => mem'[b] = mem[b]
  BY <1>1, <1>3, <1>4, StoreElsewhere
<1>6. ASSUME NEW j \in 0 .. k PROVE mem'[dst + j] = w[j]
  <2>1. CASE j = k
    BY <1>5, <2>1
  <2>2. CASE j # k
    <3>1. j \in 0 .. k - 1 /\ j \in 0 .. len - 1 /\ dst + j # dst + k
      BY <1>2, <2>2
    <3> QED BY <1>1, <1>5, <3>1 DEF Holds
  <2> QED BY <2>1, <2>2
<1>7. ASSUME NEW j \in k + 1 .. len - 1 PROVE mem'[src + j] = w[j]
  <2>1. j \in k .. len - 1 /\ j \in 0 .. len - 1
    BY <1>2
  <2>2. dst + k # src + j
    BY <1>2
  <2>3. src + j \in Addr /\ mem[src + j] = w[j]
    BY <1>1, <2>1 DEF Holds
  <2> QED BY <1>5, <2>2, <2>3
<1>8. Holds(dst, w, 0, (k + 1) - 1)' /\ Holds(src, w, k + 1, len - 1)'
  BY <1>2, <1>6, <1>7 DEF Holds
<1>9. reg'[h].d = dst + (k + 1) /\ reg'[h].s = src + (k + 1) /\ reg'[h].e = dst + len
  BY <1>1, <1>2
<1> QED BY <1>2, <1>8, <1>9 DEF InCopy

(* The word a copy under way is about to store lies in its area. *)
LEMMA CopyCursor ==
  ASSUME NEW h, NEW dst \in Int, NEW src \in Int, NEW len \in Nat, NEW w,
         InCopy(h, dst, src, len, w), reg[h].d < reg[h].e
  PROVE  reg[h].d \in dst .. dst + len - 1
BY DEF InCopy

(* When memcpy returns everything has arrived. *)
LEMMA CopyDone ==
  ASSUME NEW h, NEW dst \in Int, NEW src \in Int, NEW len \in Nat, NEW w,
         InCopy(h, dst, src, len, w), ~(reg[h].d < reg[h].e)
  PROVE  Holds(dst, w, 0, len - 1)
<1>1. PICK k \in 0 .. len :
        /\ reg[h].d = dst + k /\ reg[h].e = dst + len
        /\ Holds(dst, w, 0, k - 1)
  BY DEF InCopy
<1>2. k = len
  BY <1>1
<1> QED BY <1>1, <1>2
-----------------------------------------------------------------------------
(***************************************************************************)
(* What a step of one hart leaves to the others.                           *)
(***************************************************************************)
OnlyActs(h) == OnlyMoves(h) /\ \A g \in Harts \ {h} : handoff'[g] = handoff[g]

(* A step of one hart hands nothing to another. *)
LEMMA HartActsAlone ==
  ASSUME TypeOK, NEW h \in Harts, Hart(h) PROVE OnlyActs(h)
<1>1. \A g \in Harts \ {h} : handoff'[g] = handoff[g]
  BY DEF TypeOK, Hart, Start, Lottery, SaveLoadAddress, Relocate, CopyToLower, CopyToUpper,
     WaitRelocateCopyDone, WaitLoop, RelocateDone, SaveBootArg1, BssZero, ZstageMain,
     CopyBlob, Memcpy, PrepareFdt, CopyNext, FinalInit, ReleaseSpin, Jump, SpinLoop, Derail,
     Rest, vars, Enter
<1> QED BY <1>1, HartMovesOne DEF OnlyActs

(* The parts of the invariant, put together: what the step has to do for    *)
(* the tree, the spin word, and the hart that takes it.                     *)
LEMMA Assemble ==
  ASSUME HandoffLayout, HInv, UNCHANGED boot, NEW h \in Harts, OnlyActs(h),
         ArgsHeld',
         PastTree(h) => PastTree(h)',
         PastTree(h)' \/ \A b \in Tree : mem'[b] = mem[b],
         Steady \/ \A g \in Harts \ {h} : pc[g] \notin Copying,
         SpinHeld', Released => Released',
         CopyProgress(h)', Entered(h)'
  PROVE  HInv'
<1>1. \A g \in Harts \ {h} :
        pc'[g] = pc[g] /\ reg'[g] = reg[g] /\ handoff'[g] = handoff[g]
  BY DEF OnlyActs, OnlyMoves
<1>2. TreeWaits'
  <2> SUFFICES ASSUME \A g \in Harts : ~PastTree(g)'
               PROVE  Holds(FdtSrc, TreeWords, 0, FdtLen - 1)'
    BY DEF TreeWaits
  <2>1. \A g \in Harts : ~PastTree(g)
    BY <1>1 DEF PastTree
  <2>2. Holds(FdtSrc, TreeWords, 0, FdtLen - 1)
    BY <2>1 DEF HInv, TreeWaits
  <2>3. \A k \in 0 .. FdtLen - 1 : FdtSrc + k \in Tree
    BY CopyTypes, InArea DEF Tree
  <2>4. \A b \in Tree : mem'[b] = mem[b]
    OBVIOUS
  <2> QED BY <2>2, <2>3, <2>4, HoldsStay
<1>3. ASSUME NEW g \in Harts \ {h} PROVE CopyProgress(g)'
  BY <1>1, ProgressStays DEF HInv
<1>4. ASSUME NEW g \in Harts \ {h} PROVE Entered(g)'
  <2>1. Entered(g)
    BY DEF HInv
  <2> QED BY <1>1, <2>1 DEF Entered
<1> QED BY <1>2, <1>3, <1>4 DEF HInv

(* The spin words stay as they are when nobody stores to them. *)
LEMMA SpinStays ==
  ASSUME TypeOK, SpinHeld, UNCHANGED boot, NEW h \in Harts, OnlyMoves(h),
         mem'[load + OSpin] = mem[load + OSpin], mem'[Link + OSpin] = mem[Link + OSpin],
         Released => Released', CopyLive' => CopyLive, SpinCarried(h)'
  PROVE  SpinHeld'
<1>1. load' = load
  BY DEF load
<1>2. load # Link => mem'[load + OSpin] = 0
  BY DEF SpinHeld
<1>3. CopyLive' => mem'[Link + OSpin] \in SpinValues'
  BY DEF SpinHeld, SpinValues
<1>4. ASSUME NEW g \in Harts \ {h} PROVE SpinCarried(g)'
  <2>1. SpinCarried(g) /\ pc'[g] = pc[g] /\ reg'[g] = reg[g]
    BY DEF SpinHeld, OnlyMoves
  <2> QED BY <2>1 DEF SpinCarried
<1> QED BY <1>1, <1>2, <1>3, <1>4 DEF SpinHeld

(* An address at which a store disturbs nothing of this invariant. *)
Calm(a) ==
  /\ a \notin Tracked \union (Args \ {FdtSrc})
  /\ a # load + OSpin /\ a # Link + OSpin

(* What a store at such an address leaves. *)
LEMMA CalmStore ==
  ASSUME TypeOK, HInv, NEW a, NEW v, Calm(a), Store(a, v)
  PROVE  /\ Steady /\ ArgsHeld' /\ \A b \in Tree : mem'[b] = mem[b]
         /\ mem'[load + OSpin] = mem[load + OSpin]
         /\ mem'[Link + OSpin] = mem[Link + OSpin]
<1>1. \A b : b # a => mem'[b] = mem[b]
  BY DEF Store, TypeOK
<1>2. Steady /\ \A b \in Tree : mem'[b] = mem[b]
  BY <1>1 DEF Calm, Steady, Tracked
<1>3. ArgsHeld'
  BY <1>1 DEF Calm, HInv, ArgsHeld
<1> QED BY <1>1, <1>2, <1>3 DEF Calm

(* A step that stores nothing, or where it disturbs nothing. *)
LEMMA CalmStep ==
  ASSUME HandoffLayout, TypeOK, HInv, UNCHANGED boot, NEW h \in Harts, OnlyActs(h),
         \/ UNCHANGED mem
         \/ \E a, v : Calm(a) /\ Store(a, v),
         PastTree(h) => PastTree(h)', Released => Released',
         CopyLive' => CopyLive, SpinCarried(h)',
         CopyProgress(h)', Entered(h)'
  PROVE  HInv'
<1>1. /\ Steady /\ ArgsHeld' /\ \A b \in Tree : mem'[b] = mem[b]
      /\ mem'[load + OSpin] = mem[load + OSpin]
      /\ mem'[Link + OSpin] = mem[Link + OSpin]
  <2>1. CASE UNCHANGED mem
    BY <2>1 DEF Steady, HInv, ArgsHeld
  <2>2. CASE \E a, v : Calm(a) /\ Store(a, v)
    BY <2>2, CalmStore
  <2> QED BY <2>1, <2>2
<1>2. SpinHeld'
  BY <1>1, SpinStays DEF HInv, OnlyActs
<1> QED BY <1>1, <1>2, Assemble

(* Words of the two images: the same word only where the offset is. *)
LEMMA CopiesApart ==
  ASSUME TypeOK, Apart, NEW o \in 0 .. OBss - 1, NEW p \in 0 .. Size - 1, o # p
  PROVE  load + o # Link + p
<1>1. load \in Int /\ Link \in Int /\ Size \in Int /\ o \in Int /\ p \in Int
  BY Copies, SizeFact
<1>2. CASE load = Link
  BY <1>1, <1>2
<1>3. CASE load + o < Link \/ Link + Size <= load + o
  BY <1>1, <1>3
<1> QED BY <1>2, <1>3 DEF Apart, LinkEnd

(* Once the copies are apart, the variables of head.S and .bss are words    *)
(* nobody else relies on.                                                   *)
LEMMA CalmVariable ==
  ASSUME HandoffLayout, TypeOK, Apart
  PROVE  /\ \A o \in {OLottery, OLoadStart, OBootStatus} : Calm(load + o)
         /\ \A o \in OBss .. OPayload - 1 : Calm(Link + o)
<1>1. {OLottery, OLoadStart, OBootStatus, OSpin} \subseteq 0 .. OBss - 1
  OBVIOUS
<1>2. load \in Int /\ Link \in Int /\ OBss < Size /\ OPayload < Size /\ OPayload \in Int
      /\ Size \in Int
  BY Copies, SizeFact
<1>3. ASSUME NEW o \in {OLottery, OLoadStart, OBootStatus} PROVE Calm(load + o)
  <2>1. o \in 0 .. OBss - 1 /\ o \in 0 .. Size - 1 /\ o # OSpin /\ OSpin \in 0 .. Size - 1
    BY <1>1, <1>2
  <2>2. load + o \notin Destinations \union Tree \union (Args \ {FdtSrc})
    BY <2>1, ImagesApart
  <2>3. ASSUME NEW p \in Fixed \union {OBootArg1} PROVE load + o # Link + p
    <3>1. p \in 0 .. Size - 1 /\ o # p
      BY <1>2 DEF Fixed, Zeroed
    <3> QED BY <2>1, <3>1, CopiesApart
  <2>4. load + o # Link + OSpin
    BY <2>1, CopiesApart
  <2>5. load + o # load + OSpin
    BY <1>2, <2>1
  <2> QED BY <2>2, <2>3, <2>4, <2>5 DEF Calm, Tracked
<1>4. ASSUME NEW o \in OBss .. OPayload - 1 PROVE Calm(Link + o)
  <2>1. o \in 0 .. Size - 1 /\ o # OSpin /\ OSpin \in 0 .. OBss - 1
    BY <1>2
  <2>2. Link + o \notin Destinations \union Tree \union (Args \ {FdtSrc})
    BY <2>1, ImagesApart
  <2>3. ASSUME NEW p \in Fixed \union {OBootArg1} PROVE Link + o # Link + p
    <3>1. p \in Int /\ o # p
      BY <1>2 DEF Fixed, Zeroed
    <3> QED BY <1>2, <2>1, <3>1
  <2>4. load + OSpin # Link + o
    BY <2>1, CopiesApart
  <2>5. Link + o # Link + OSpin
    BY <1>2, <2>1
  <2> QED BY <2>2, <2>3, <2>4, <2>5 DEF Calm, Tracked
<1> QED BY <1>3, <1>4

-----------------------------------------------------------------------------
(***************************************************************************)
(* The steps of head.S before the C code.                                  *)
(***************************************************************************)
(* A hart that copies nothing and has nothing to hand over. *)
LEMMA IdleHart ==
  ASSUME NEW h,
         \/ /\ pc'[h] \in BeforeLottery
                 \union {"_save_load_address", "_relocate", "_relocate_done", "_save_boot_arg1"}
            /\ reg'[h].i = 1
         \/ pc'[h] \in Waiting \union (Stopped \ {"booted", "joined"})
  PROVE  CopyProgress(h)' /\ Entered(h)' /\ SpinCarried(h)'
BY DEF CopyProgress, Entered, SpinCarried, BeforeLottery, Waiting, Stopped, BeforeBlobs,
   Relocating, InBlobs, AfterBlobs, AfterTree, AfterPayload

(* The copy at the link address is not live before a hart finds it so. *)
LEMMA LiveStays ==
  ASSUME UNCHANGED boot, NEW h \in Harts, OnlyMoves(h),
         mem'[load + OBootStatus] = mem[load + OBootStatus], AtLink(h)' => CopyLive
  PROVE  CopyLive' => CopyLive
BY DEF CopyLive, AtLink, OnlyMoves, load

(* A hart in the copy at the link address finds it apart, and whole. *)
LEMMA LinkFacts ==
  ASSUME IInv, NEW h \in Harts, AtLink(h)
  PROVE  /\ base[h] = Link /\ Relocated /\ Apart /\ CopyLive
         /\ mem[base[h] + ORunAddr] = Link
         /\ mem[base[h] + ONextRun] = NextRun
         /\ mem[base[h] + ONextFdt] = NextFdt
<1>1. base[h] = Link /\ Relocated /\ Apart
  BY DEF IInv, HartInv, BaseInv
<1>2. \A o \in {ORunAddr, ONextRun, ONextFdt} : mem[Link + o] = Image[o]
  BY <1>1, KeptFixed DEF Relocated
<1> QED BY <1>1, <1>2, ImageHeader DEF CopyLive

(* _start to the platform hook (head.S:82-92). *)
LEMMA StartCopies ==
  ASSUME HandoffLayout, IInv, HInv, UNCHANGED boot, NEW h \in Harts, OnlyActs(h), Start(h)
  PROVE  HInv'
<1>1. pc[h] = "_start" /\ pc'[h] = "_start_real" /\ UNCHANGED <<mem, reg>>
  BY DEF Start, At, Goto, IInv, TypeOK
<1>2. reg[h].i = 1
  BY <1>1 DEF HInv, CopyProgress, BeforeBlobs, BeforeLottery
<1>3. CopyProgress(h)' /\ Entered(h)' /\ SpinCarried(h)'
  BY <1>1, <1>2, IdleHart DEF BeforeLottery
<1>4. CopyLive' => CopyLive
  BY <1>1, LiveStays DEF OnlyActs, AtLink, AfterRelocation, InMain
<1>5. ~PastTree(h) /\ (Released => Released')
  BY <1>1 DEF PastTree, AfterTree, AfterPayload, Released, OnlyActs, OnlyMoves
<1> QED BY <1>1, <1>3, <1>4, <1>5, CalmStep DEF IInv

(* Before a relocation that is going to hang, nobody is at the link address *)
(* or copies anything: a store to a variable of the load copy is free.      *)
LEMMA OverlapStep ==
  ASSUME HandoffLayout, IInv, HInv, IInv', UNCHANGED boot, NEW h \in Harts, OnlyActs(h),
         ~Apart, NEW o \in 0 .. OBss - 1, o # OSpin, NEW v, Store(load + o, v),
         ~PastTree(h), CopyProgress(h)', Entered(h)'
  PROVE  HInv'
<1>0. TypeOK /\ load' = load /\ Apart' = Apart
  BY DEF IInv, load, Apart
<1>1. o \in 0 .. Size - 1 /\ OSpin \in 0 .. Size - 1 /\ load \in Int
  BY <1>0, SizeFact, Copies
<1>2. \A b : b # load + o => mem'[b] = mem[b]
  BY <1>0 DEF Store, TypeOK
<1>3. load + o \notin Destinations \union Tree \union (Args \ {FdtSrc})
  BY <1>0, <1>1, ImagesApart
<1>4. ArgsHeld' /\ \A b \in Tree : mem'[b] = mem[b]
  BY <1>2, <1>3 DEF HInv, ArgsHeld
<1>5. /\ \A g \in Harts : ~AtLink(g) /\ ~AtLink(g)'
      /\ \A g \in Harts : pc'[g] \notin {"_relocate_copy_to_lower_loop", "_relocate_copy_to_upper_loop"}
      /\ ~(mem'[load + OBootStatus] > 0)
      /\ load # Link
  BY <1>0 DEF IInv, HartInv, BaseInv, LowerInv, UpperInv, StatusMeansRelocated, Apart
<1>6. \A g \in Harts : pc[g] \notin Copying
  BY <1>5 DEF Copying, AtLink, AfterBlobs, AfterTree, AfterPayload, AfterRelocation, InMain
<1>7. ~Released
  BY <1>5 DEF Released, AtLink, AfterRelocation
<1>8. SpinHeld'
  <2>1. mem'[load + OSpin] = mem[load + OSpin]
    BY <1>1, <1>2
  <2>2. ~CopyLive'
    BY <1>0, <1>5 DEF CopyLive
  <2>3. \A g \in Harts : SpinCarried(g)'
    BY <1>5 DEF SpinCarried
  <2> QED BY <1>0, <2>1, <2>2, <2>3 DEF HInv, SpinHeld
<1> QED BY <1>4, <1>6, <1>7, <1>8, Assemble

(* The lottery, and the note of the load address (head.S:97-103): variables *)
(* of the load copy, which no copy is made of.                              *)
LEMMA VariableCopies ==
  ASSUME HandoffLayout, IInv, HInv, IInv', UNCHANGED boot, NEW h \in Harts, OnlyActs(h),
         Lottery(h) \/ SaveLoadAddress(h)
  PROVE  HInv'
<1>0. TypeOK
  BY DEF IInv
<1>1. /\ pc[h] \in {"_start_real", "_save_load_address"}
      /\ pc'[h] \in {"_wait_relocate_copy_done", "_save_load_address", "_relocate"}
      /\ UNCHANGED reg
      /\ \E o \in {OLottery, OLoadStart} : \E v : Store(load + o, v)
  BY DEF Lottery, SaveLoadAddress, At, Goto, IInv, TypeOK
<1>2. PICK o \in {OLottery, OLoadStart} : \E v : Store(load + o, v)
  BY <1>1
<1>3. reg[h].i = 1
  BY <1>1 DEF HInv, CopyProgress, BeforeBlobs, BeforeLottery, Relocating
<1>4. CopyProgress(h)' /\ Entered(h)' /\ SpinCarried(h)'
  BY <1>1, <1>3, IdleHart DEF BeforeLottery, Waiting
<1>5. ~PastTree(h) /\ (Released => Released')
  BY <1>1 DEF PastTree, AfterTree, AfterPayload, Released, OnlyActs, OnlyMoves
<1>6. CASE Apart
  <2>1. Calm(load + o)
    BY <1>0, <1>6, CalmVariable
  <2>2. mem'[load + OBootStatus] = mem[load + OBootStatus]
    <3>1. load + OBootStatus # load + o
      BY <1>0, Copies
    <3> QED BY <1>0, <1>2, <3>1 DEF Store, TypeOK
  <2>3. CopyLive' => CopyLive
    BY <1>1, <2>2, LiveStays DEF OnlyActs, AtLink, AfterRelocation, InMain
  <2> QED BY <1>0, <1>2, <1>4, <1>5, <2>1, <2>3, CalmStep
<1>7. CASE ~Apart
  <2>1. o \in 0 .. OBss - 1 /\ o # OSpin
    OBVIOUS
  <2> QED BY <1>2, <1>4, <1>5, <1>7, <2>1, OverlapStep
<1> QED BY <1>6, <1>7

(* The decision of head.S:105-149: nothing is stored, and a copy starts     *)
(* with its cursor at an end of the image.                                  *)
LEMMA RelocateCopies ==
  ASSUME HandoffLayout, IInv, HInv, IInv', UNCHANGED boot, NEW h \in Harts, OnlyActs(h),
         Relocate(h)
  PROVE  HInv'
<1>0. TypeOK /\ UNCHANGED mem /\ pc[h] = "_relocate" /\ h \in DOMAIN pc /\ h \in DOMAIN reg
      /\ reg[h] \in [d : Int, s : Int, e : Int, i : Nat, ret : InMain]
  BY DEF IInv, TypeOK, Relocate, At
<1>1. mem[load + OLoadStart] = load /\ mem[load + ORunAddr] = Link
  BY <1>0, KeptFixed, ImageHeader DEF IInv, HartInv, StartInv, LoadCopyKept
<1>2. reg[h].i = 1
  BY <1>0 DEF HInv, CopyProgress, BeforeBlobs, Relocating
<1>3. ~PastTree(h) /\ (Released => Released')
  BY <1>0 DEF PastTree, AfterTree, AfterPayload, Released, OnlyActs, OnlyMoves
<1>4. \/ /\ Link = load
         /\ Goto(h, "_relocate_done") /\ UNCHANGED reg
      \/ Goto(h, "_start_hang")
      \/ /\ Goto(h, "_relocate_copy_to_lower_loop")
         /\ reg' = [reg EXCEPT ![h].d = Link, ![h].s = load, ![h].e = Link + Size]
      \/ /\ Goto(h, "_relocate_copy_to_upper_loop")
         /\ reg' = [reg EXCEPT ![h].d = Link + Size, ![h].s = load + Size, ![h].e = Link]
  BY <1>1 DEF Relocate
<1>5. /\ CopyProgress(h)' /\ Entered(h)' /\ SpinCarried(h)'
      /\ AtLink(h)' => CopyLive
  <2>1. CASE Link = load /\ Goto(h, "_relocate_done") /\ UNCHANGED reg
    BY <1>0, <1>2, <2>1, IdleHart DEF Goto, CopyLive
  <2>2. CASE Goto(h, "_start_hang")
    BY <1>0, <2>2, IdleHart DEF Goto, Stopped, AtLink, AfterRelocation, InMain
  <2>3. CASE /\ Goto(h, "_relocate_copy_to_lower_loop")
             /\ reg' = [reg EXCEPT ![h].d = Link, ![h].s = load, ![h].e = Link + Size]
    <3>1. pc'[h] = "_relocate_copy_to_lower_loop" /\ reg'[h].d = Link /\ reg'[h].i = 1
      BY <1>0, <1>2, <2>3 DEF Goto
    <3>2. SpinCarried(h)'
      BY <3>1, CopyTypes DEF SpinCarried
    <3> QED BY <3>1, <3>2 DEF CopyProgress, Entered, AtLink, AfterRelocation, InMain, BeforeBlobs,
          InBlobs, AfterBlobs, AfterTree, AfterPayload
  <2>4. CASE /\ Goto(h, "_relocate_copy_to_upper_loop")
             /\ reg' = [reg EXCEPT ![h].d = Link + Size, ![h].s = load + Size, ![h].e = Link]
    <3>1. pc'[h] = "_relocate_copy_to_upper_loop" /\ reg'[h].d = Link + Size /\ reg'[h].i = 1
      BY <1>0, <1>2, <2>4 DEF Goto
    <3>2. SpinCarried(h)'
      BY <3>1, CopyTypes DEF SpinCarried
    <3> QED BY <3>1, <3>2 DEF CopyProgress, Entered, AtLink, AfterRelocation, InMain, BeforeBlobs,
          InBlobs, AfterBlobs, AfterTree, AfterPayload
  <2> QED BY <1>4, <2>1, <2>2, <2>3, <2>4
<1>6. CopyLive' => CopyLive
  BY <1>0, <1>5, LiveStays DEF OnlyActs
<1> QED BY <1>0, <1>3, <1>5, <1>6, CalmStep

(* One word of the relocation, in either direction: only the relocated      *)
(* image changes, and its spin word becomes the zero of the load copy.      *)
LEMMA ImageWordCopies ==
  ASSUME HandoffLayout, IInv, HInv, UNCHANGED boot, NEW h \in Harts, OnlyActs(h),
         pc[h] \in {"_relocate_copy_to_lower_loop", "_relocate_copy_to_upper_loop"},
         Apart, load # Link, NEW k \in 0 .. Size - 1, Store(Link + k, mem[load + k]),
         CopyProgress(h)', Entered(h)',
         mem'[Link + OSpin] \in {0, mem[Link + OSpin]} => SpinCarried(h)',
         AtLink(h)' => mem[Link + OSpin] = 0
  PROVE  HInv'
<1>0. TypeOK /\ load' = load
  BY DEF IInv, load
<1>1. /\ OSpin \in 0 .. Size - 1 /\ OSpin \in 0 .. OBss - 1 /\ OBootStatus \in 0 .. OBss - 1
      /\ load \in Int /\ Link \in Int /\ Link + k \in Addr
  BY <1>0, SizeFact, Copies
<1>2. \A b : b # Link + k => mem'[b] = mem[b]
  BY <1>0 DEF Store, TypeOK
<1>3. Link + k \notin Destinations \union Tree \union (Args \ {FdtSrc})
  BY <1>0, ImagesApart
<1>4. ArgsHeld' /\ \A b \in Tree : mem'[b] = mem[b]
  BY <1>2, <1>3 DEF HInv, ArgsHeld
<1>5. \A o \in 0 .. OBss - 1 : mem'[load + o] = mem[load + o]
  <2> SUFFICES ASSUME NEW o \in 0 .. OBss - 1 PROVE load + o # Link + k
    BY <1>2
  <2>1. load + o < Link \/ Link + Size <= load + o
    BY DEF Apart, LinkEnd
  <2> QED BY <1>1, <2>1, CopyTypes
<1>6. mem[load + OSpin] = 0
  BY DEF HInv, SpinHeld
<1>7. mem'[Link + OSpin] \in {0, mem[Link + OSpin]}
  <2>1. CASE k = OSpin
    BY <1>0, <1>1, <1>6, <2>1, StoreElsewhere DEF TypeOK
  <2>2. CASE k # OSpin
    BY <1>1, <1>2, <2>2
  <2> QED BY <2>1, <2>2
<1>8. \A g \in Harts \ {h} : pc[g] \notin Copying /\ pc'[g] = pc[g] /\ reg'[g] = reg[g]
  BY DEF IInv, OneBootHart, WinnerOnly, Relocating, AfterRelocation, InMain, Copying,
     AfterBlobs, AfterTree, AfterPayload, OnlyActs, OnlyMoves
<1>9. /\ Released => Released'
      /\ ~PastTree(h)
  BY <1>8 DEF Released, PastTree, AfterTree, AfterPayload
<1>10. SpinHeld'
  <2>1. mem'[load + OSpin] = 0
    BY <1>1, <1>5, <1>6
  <2>2. mem'[load + OBootStatus] = mem[load + OBootStatus]
    BY <1>1, <1>5
  <2>3. ASSUME CopyLive' PROVE mem'[Link + OSpin] \in SpinValues'
    <3>1. CASE CopyLive
      <4>1. mem[Link + OSpin] \in SpinValues /\ SpinValues \subseteq SpinValues' /\ 0 \in SpinValues'
        BY <1>9, <3>1 DEF HInv, SpinHeld, SpinValues
      <4> QED BY <1>7, <4>1
    <3>2. CASE ~CopyLive
      <4>1. AtLink(h)'
        BY <1>0, <1>8, <2>2, <2>3, <3>2 DEF CopyLive, AtLink
      <4> QED BY <1>7, <4>1 DEF SpinValues
    <3> QED BY <3>1, <3>2
  <2>4. \A g \in Harts \ {h} : SpinCarried(g)'
    BY <1>7, <1>8 DEF HInv, SpinHeld, SpinCarried
  <2> QED BY <1>0, <1>7, <2>1, <2>3, <2>4 DEF SpinHeld
<1> QED BY <1>4, <1>8, <1>9, <1>10, Assemble

(* _relocate_copy_to_lower_loop: from the first word of the image on. *)
LEMMA CopyToLowerCopies ==
  ASSUME HandoffLayout, IInv, HInv, UNCHANGED boot, NEW h \in Harts, OnlyActs(h), CopyToLower(h)
  PROVE  HInv'
<1> DEFINE k == reg[h].d - Link
<1>0. TypeOK /\ pc[h] = "_relocate_copy_to_lower_loop" /\ h \in DOMAIN pc /\ h \in DOMAIN reg
      /\ reg[h] \in [d : Int, s : Int, e : Int, i : Nat, ret : InMain]
  BY DEF IInv, TypeOK, CopyToLower, At
<1>1. /\ Apart /\ load # Link
      /\ k \in 0 .. Size - 1 /\ reg[h].s = load + k /\ reg[h].e = LinkEnd
  <2>1. load \in Int /\ Link \in Int
    BY <1>0, Copies
  <2> QED BY <1>0, <2>1 DEF IInv, HartInv, LowerInv
<1>2. reg[h].d = Link + k /\ load + k \in Addr
  BY <1>0, <1>1, Copies
<1>3. Store(Link + k, mem[load + k])
  BY <1>1, <1>2 DEF CopyToLower, Word
<1>4. /\ reg'[h].d = reg[h].d + 1 /\ reg'[h].i = reg[h].i
      /\ \/ pc'[h] = "_relocate_copy_to_lower_loop"
         \/ pc'[h] = "_relocate_done" /\ ~(reg[h].d + 1 < reg[h].e)
  BY <1>0 DEF CopyToLower, JumpRelocated, Goto
<1>5. reg'[h].i = 1 /\ (OSpin < k => mem[Link + OSpin] = 0)
  BY <1>0, <1>4 DEF HInv, CopyProgress, BeforeBlobs, Relocating, SpinHeld, SpinCarried
<1>6. CopyProgress(h)' /\ Entered(h)'
  BY <1>4, <1>5 DEF CopyProgress, Entered, BeforeBlobs, Relocating, InBlobs, AfterBlobs,
     AfterTree, AfterPayload
<1>7. reg'[h].d - Link = k + 1 /\ (pc'[h] = "_relocate_done" => OSpin < k)
  BY <1>0, <1>1, <1>2, <1>4, CopyTypes DEF LinkEnd
<1> HIDE DEF k
<1>8. mem'[Link + OSpin] \in {0, mem[Link + OSpin]} => SpinCarried(h)'
  <2> SUFFICES ASSUME mem'[Link + OSpin] \in {0, mem[Link + OSpin]},
                      pc'[h] = "_relocate_copy_to_lower_loop", OSpin < k + 1
               PROVE  mem'[Link + OSpin] = 0
    BY <1>4, <1>7 DEF SpinCarried
  <2>1. CASE k = OSpin
    <3>1. mem[load + OSpin] = 0
      BY <1>1 DEF HInv, SpinHeld
    <3>2. Link + OSpin \in Addr
      BY <1>0, SizeFact, Copies
    <3> QED BY <1>0, <1>3, <2>1, <3>1, <3>2, StoreElsewhere DEF TypeOK
  <2>2. CASE k # OSpin
    BY <1>1, <1>5, <2>2, CopyTypes
  <2> QED BY <2>1, <2>2
<1>9. AtLink(h)' => mem[Link + OSpin] = 0
  BY <1>4, <1>5, <1>7 DEF AtLink, AfterRelocation, InMain
<1> QED BY <1>0, <1>1, <1>3, <1>6, <1>8, <1>9, ImageWordCopies

(* _relocate_copy_to_upper_loop: from the last word of the image down. *)
LEMMA CopyToUpperCopies ==
  ASSUME HandoffLayout, IInv, HInv, UNCHANGED boot, NEW h \in Harts, OnlyActs(h), CopyToUpper(h)
  PROVE  HInv'
<1> DEFINE k == reg[h].d - Link - 1
<1>0. TypeOK /\ pc[h] = "_relocate_copy_to_upper_loop" /\ h \in DOMAIN pc /\ h \in DOMAIN reg
      /\ reg[h] \in [d : Int, s : Int, e : Int, i : Nat, ret : InMain]
  BY DEF IInv, TypeOK, CopyToUpper, At
<1>1. /\ Apart /\ load # Link
      /\ k \in 0 .. Size - 1 /\ reg[h].s = load + k + 1 /\ reg[h].e = Link
  <2>1. load \in Int /\ Link \in Int /\ Size \in Int
    BY <1>0, Copies, SizeFact
  <2>2. /\ Apart /\ load < Link
        /\ reg[h].d - Link \in 1 .. Size /\ reg[h].s = load + (reg[h].d - Link)
        /\ reg[h].e = Link
    BY <1>0 DEF IInv, HartInv, UpperInv
  <2> QED BY <1>0, <2>1, <2>2
<1>2. reg[h].d - 1 = Link + k /\ reg[h].s - 1 = load + k /\ load + k \in Addr
  BY <1>0, <1>1, Copies
<1>3. Store(Link + k, mem[load + k])
  BY <1>1, <1>2 DEF CopyToUpper, Word
<1>4. /\ reg'[h].d = reg[h].d - 1 /\ reg'[h].i = reg[h].i
      /\ \/ pc'[h] = "_relocate_copy_to_upper_loop"
         \/ pc'[h] = "_relocate_done" /\ ~(reg[h].e < reg[h].d - 1)
  BY <1>0 DEF CopyToUpper, JumpRelocated, Goto
<1>5. reg'[h].i = 1 /\ (reg[h].d - Link <= OSpin => mem[Link + OSpin] = 0)
  BY <1>0, <1>4 DEF HInv, CopyProgress, BeforeBlobs, Relocating, SpinHeld, SpinCarried
<1>6. CopyProgress(h)' /\ Entered(h)'
  BY <1>4, <1>5 DEF CopyProgress, Entered, BeforeBlobs, Relocating, InBlobs, AfterBlobs,
     AfterTree, AfterPayload
<1>7. /\ reg'[h].d - Link = k /\ reg[h].d - Link = k + 1
      /\ (pc'[h] = "_relocate_done" => k < OSpin)
  BY <1>0, <1>1, <1>2, <1>4, CopyTypes
<1> HIDE DEF k
<1>8. mem'[Link + OSpin] \in {0, mem[Link + OSpin]} => SpinCarried(h)'
  <2> SUFFICES ASSUME mem'[Link + OSpin] \in {0, mem[Link + OSpin]},
                      pc'[h] = "_relocate_copy_to_upper_loop", k <= OSpin
               PROVE  mem'[Link + OSpin] = 0
    BY <1>4, <1>7 DEF SpinCarried
  <2>1. CASE k = OSpin
    <3>1. mem[load + OSpin] = 0
      BY <1>1 DEF HInv, SpinHeld
    <3>2. Link + OSpin \in Addr
      BY <1>0, SizeFact, Copies
    <3> QED BY <1>0, <1>3, <2>1, <3>1, <3>2, StoreElsewhere DEF TypeOK
  <2>2. CASE k # OSpin
    BY <1>1, <1>5, <1>7, <2>2, CopyTypes
  <2> QED BY <2>1, <2>2
<1>9. AtLink(h)' => mem[Link + OSpin] = 0
  BY <1>1, <1>4, <1>5, <1>7, CopyTypes DEF AtLink, AfterRelocation, InMain
<1> QED BY <1>0, <1>1, <1>3, <1>6, <1>8, <1>9, ImageWordCopies

(* The losers' waits (head.S:236-275): they change no memory, and reach the *)
(* spin loop of the running image only when it is live.                     *)
LEMMA WaitCopies ==
  ASSUME HandoffLayout, IInv, HInv, UNCHANGED boot, NEW h \in Harts, OnlyActs(h),
         WaitRelocateCopyDone(h) \/ WaitLoop(h)
  PROVE  HInv'
<1>0. TypeOK /\ UNCHANGED mem /\ h \in DOMAIN pc
      /\ pc[h] \in {"_wait_relocate_copy_done", "_wait_loop"}
  BY DEF IInv, TypeOK, WaitRelocateCopyDone, WaitLoop, At
<1>1. /\ pc'[h] \in Waiting \union {"lost"}
      /\ pc'[h] = "_secondary_spin_loop" => load = Link \/ mem[load + OBootStatus] > 0
  <2>1. CASE WaitRelocateCopyDone(h)
    <3>1. mem[load + ORunAddr] = Link
      BY <1>0, KeptFixed, ImageHeader DEF IInv, LoadCopyKept
    <3> QED BY <1>0, <2>1, <3>1 DEF WaitRelocateCopyDone, Goto, Waiting
  <2>2. CASE WaitLoop(h)
    <3>1. mem[load + OBootStatus] \in Int
      BY <1>0, Copies DEF TypeOK
    <3>2. CASE 1 > mem[load + OBootStatus]
      <4>1. pc'[h] = "_wait_loop"
        BY <1>0, <2>2, <3>2 DEF WaitLoop, At
      <4> QED BY <4>1 DEF Waiting
    <3>3. CASE ~(1 > mem[load + OBootStatus])
      <4>1. mem[load + OBootStatus] > 0
        BY <3>1, <3>3
      <4>2. pc'[h] \in {"_secondary_spin_loop", "lost"}
        BY <1>0, <2>2, <3>3 DEF WaitLoop, Goto
      <4> QED BY <4>1, <4>2 DEF Waiting
    <3> QED BY <3>2, <3>3
  <2> QED BY <2>1, <2>2
<1>2. CopyProgress(h)' /\ Entered(h)' /\ SpinCarried(h)'
  BY <1>1, IdleHart DEF Stopped
<1>3. CopyLive' => CopyLive
  BY <1>0, <1>1, LiveStays DEF OnlyActs, AtLink, AfterRelocation, InMain, CopyLive, Waiting
<1>4. ~PastTree(h) /\ (Released => Released')
  BY <1>0 DEF PastTree, AfterTree, AfterPayload, Released, OnlyActs, OnlyMoves
<1> QED BY <1>0, <1>2, <1>3, <1>4, CalmStep

(* A step of a hart in the running image that stores nothing, or where it   *)
(* disturbs nothing.                                                        *)
LEMMA LinkStep ==
  ASSUME HandoffLayout, IInv, HInv, UNCHANGED boot, NEW h \in Harts, OnlyActs(h), AtLink(h),
         \/ UNCHANGED mem
         \/ \E a, v : Calm(a) /\ Store(a, v),
         PastTree(h) => PastTree(h)',
         pc[h] \in {"_jump", "booted"} => pc'[h] = "booted",
         pc'[h] \notin {"_relocate_copy_to_lower_loop", "_relocate_copy_to_upper_loop"},
         CopyProgress(h)', Entered(h)'
  PROVE  HInv'
<1>1. CopyLive /\ TypeOK
  BY LinkFacts DEF IInv
<1>2. Released => Released'
  BY DEF Released, OnlyActs, OnlyMoves
<1>3. SpinCarried(h)'
  BY DEF SpinCarried
<1> QED BY <1>1, <1>2, <1>3, CalmStep

(* _secondary_spin_loop (head.S:277-286): a hart leaves it with the entry   *)
(* that is in the spin word, which is the run address once it is released.  *)
LEMMA SpinLoopCopies ==
  ASSUME HandoffLayout, IInv, HInv, UNCHANGED boot, NEW h \in Harts, OnlyActs(h), SpinLoop(h)
  PROVE  HInv'
<1>0. TypeOK /\ UNCHANGED mem /\ pc[h] = "_secondary_spin_loop" /\ AtLink(h)
      /\ h \in DOMAIN pc /\ h \in DOMAIN handoff
  BY DEF IInv, TypeOK, SpinLoop, At, AtLink
<1>1. base[h] = Link /\ CopyLive /\ mem[base[h] + ONextFdt] = NextFdt
  BY <1>0, LinkFacts
<1>2. ~PastTree(h)
  BY <1>0 DEF PastTree, AfterTree, AfterPayload
<1>3. CASE mem[Link + OSpin] = 0
  <2>1. pc'[h] = "_secondary_spin_loop"
    BY <1>0, <1>1, <1>3 DEF SpinLoop
  <2>2. CopyProgress(h)' /\ Entered(h)'
    BY <2>1, IdleHart DEF Waiting
  <2> QED BY <1>0, <1>2, <2>1, <2>2, LinkStep
<1>4. CASE mem[Link + OSpin] # 0
  <2>1. mem[Link + OSpin] = NextRun /\ Released
    BY <1>1, <1>4 DEF HInv, SpinHeld, SpinValues
  <2>2. /\ pc'[h] = "joined"
        /\ handoff'[h] = [entry |-> mem[Link + OSpin], fdt |-> mem[base[h] + ONextFdt]]
    BY <1>0, <1>1, <1>4 DEF SpinLoop, Enter, Goto
  <2>3. Released'
    <3>1. PICK g \in Harts : pc[g] \in {"_jump", "booted"}
      BY <2>1 DEF Released
    <3>2. g # h
      BY <1>0, <3>1
    <3>3. pc'[g] = pc[g]
      BY <3>2 DEF OnlyActs, OnlyMoves
    <3> QED BY <3>1, <3>3 DEF Released
  <2>4. Entered(h)'
    BY <1>1, <2>1, <2>2, <2>3 DEF Entered
  <2>5. CopyProgress(h)'
    BY <2>2 DEF CopyProgress, BeforeBlobs, BeforeLottery, Relocating, InBlobs, AfterBlobs,
       AfterTree, AfterPayload
  <2> QED BY <1>0, <1>2, <2>2, <2>4, <2>5, LinkStep
<1> QED BY <1>3, <1>4

(* _relocate_done (head.S:151-158): the status word is one of the load copy. *)
LEMMA RelocateDoneCopies ==
  ASSUME HandoffLayout, IInv, HInv, UNCHANGED boot, NEW h \in Harts, OnlyActs(h),
         RelocateDone(h)
  PROVE  HInv'
<1>0. TypeOK /\ pc[h] = "_relocate_done" /\ pc'[h] = "_save_boot_arg1" /\ AtLink(h)
      /\ UNCHANGED reg
  BY DEF IInv, TypeOK, RelocateDone, At, Goto, AtLink, AfterRelocation
<1>1. base[h] = Link /\ Apart /\ mem[base[h] + ORunAddr] = Link
      /\ mem[base[h] + OLoadStart] = load
  BY <1>0, LinkFacts DEF IInv, HartInv, StartInv
<1>2. load \in Int /\ Link \in Int
  BY <1>0, Copies
<1>3. base[h] + OBootStatus - mem[base[h] + ORunAddr] + mem[base[h] + OLoadStart]
        = load + OBootStatus
  BY <1>1, <1>2
<1>4. Store(load + OBootStatus, 1)
  BY <1>3 DEF RelocateDone
<1>5. Calm(load + OBootStatus)
  BY <1>0, <1>1, CalmVariable
<1>6. reg[h].i = 1
  BY <1>0 DEF HInv, CopyProgress, BeforeBlobs
<1>7. CopyProgress(h)' /\ Entered(h)'
  BY <1>0, <1>6, IdleHart
<1>8. ~PastTree(h)
  BY <1>0 DEF PastTree, AfterTree, AfterPayload
<1> QED BY <1>0, <1>4, <1>5, <1>7, <1>8, LinkStep

(* The save of a1 (head.S:160-162), before .bss is zeroed. *)
LEMMA SaveBootArg1Copies ==
  ASSUME HandoffLayout, IInv, HInv, UNCHANGED boot, NEW h \in Harts, OnlyActs(h),
         SaveBootArg1(h)
  PROVE  HInv'
<1>0. TypeOK /\ pc[h] = "_save_boot_arg1" /\ pc'[h] = "_bss_zero" /\ AtLink(h)
      /\ h \in DOMAIN reg /\ load' = load
      /\ reg[h] \in [d : Int, s : Int, e : Int, i : Nat, ret : InMain]
  BY DEF IInv, TypeOK, SaveBootArg1, At, Goto, AtLink, AfterRelocation, load
<1>1. base[h] = Link /\ Apart /\ CopyLive
  BY <1>0, LinkFacts
<1>2. Store(Link + OBootArg1, boot.arg1)
  BY <1>1 DEF SaveBootArg1
<1>3. /\ OSpin \in 0 .. OBss - 1 /\ OBootArg1 \in 0 .. Size - 1 /\ OSpin # OBootArg1
      /\ Link \in Int
  BY <1>0, Copies
<1>4. \A b : b # Link + OBootArg1 => mem'[b] = mem[b]
  BY <1>0, <1>2 DEF Store, TypeOK
<1>5. mem'[Link + OBootArg1] = boot.arg1
  BY <1>0, <1>2, Copies, StoreElsewhere DEF TypeOK
<1>6. Link + OBootArg1 \notin Destinations \union Tree \union (Args \ {FdtSrc})
  BY <1>0, <1>3, ImagesApart
<1>7. ArgsHeld' /\ \A b \in Tree : mem'[b] = mem[b]
  BY <1>4, <1>6 DEF HInv, ArgsHeld
<1>8. mem'[load + OSpin] = mem[load + OSpin] /\ mem'[Link + OSpin] = mem[Link + OSpin]
  BY <1>0, <1>1, <1>3, <1>4, CopiesApart
<1>9. reg'[h].i = 1
  <2>1. reg[h].i = 1
    BY <1>0 DEF HInv, CopyProgress, BeforeBlobs
  <2>2. reg' = [reg EXCEPT ![h].d = base[h] + OBss, ![h].e = base[h] + OPayload]
    BY DEF SaveBootArg1
  <2> QED BY <1>0, <2>1, <2>2
<1>10. CopyProgress(h)' /\ Entered(h)' /\ SpinCarried(h)'
  BY <1>0, <1>5, <1>9 DEF CopyProgress, Entered, SpinCarried, InBlobs, AfterBlobs, AfterTree,
     AfterPayload
<1>11. \A g \in Harts \ {h} : pc[g] \notin Copying
  BY <1>0 DEF IInv, OneBootHart, WinnerOnly, AfterRelocation, InMain, Copying, AfterBlobs,
     AfterTree, AfterPayload
<1>12. ~PastTree(h) /\ (Released => Released')
  BY <1>0 DEF PastTree, AfterTree, AfterPayload, Released, OnlyActs, OnlyMoves
<1>13. SpinHeld'
  BY <1>0, <1>1, <1>8, <1>10, <1>12, SpinStays DEF HInv, OnlyActs
<1> QED BY <1>7, <1>10, <1>11, <1>12, <1>13, Assemble

(* The zeroing of .bss (head.S:164-170). *)
LEMMA BssZeroCopies ==
  ASSUME HandoffLayout, IInv, HInv, UNCHANGED boot, NEW h \in Harts, OnlyActs(h), BssZero(h)
  PROVE  HInv'
<1>0. TypeOK /\ pc[h] = "_bss_zero" /\ AtLink(h) /\ h \in DOMAIN pc /\ h \in DOMAIN reg
      /\ reg[h] \in [d : Int, s : Int, e : Int, i : Nat, ret : InMain]
  BY DEF IInv, TypeOK, BssZero, At, AtLink, AfterRelocation
<1>1. Apart /\ reg[h].d \in Link + OBss .. Link + OPayload - 1
  BY <1>0, LinkFacts DEF IInv, HartInv, BssInv
<1>2. \E o \in OBss .. OPayload - 1 : reg[h].d = Link + o
  <2>1. reg[h].d - Link \in OBss .. OPayload - 1 /\ reg[h].d = Link + (reg[h].d - Link)
    BY <1>0, <1>1, CopyTypes
  <2> QED BY <2>1
<1>3. Calm(reg[h].d) /\ Store(reg[h].d, 0)
  BY <1>0, <1>1, <1>2, CalmVariable DEF BssZero
<1>4. pc'[h] \in {"_bss_zero", "zstage_main"}
  BY <1>0 DEF BssZero, Goto
<1>5. reg'[h].i = 1
  <2>1. reg[h].i = 1
    BY <1>0 DEF HInv, CopyProgress, BeforeBlobs
  <2>2. reg' = [reg EXCEPT ![h].d = reg[h].d + 1]
    BY DEF BssZero
  <2> QED BY <1>0, <2>1, <2>2
<1>6. mem'[Link + OBootArg1] = mem[Link + OBootArg1] /\ mem[Link + OBootArg1] = boot.arg1
  <2>1. Steady
    BY <1>0, <1>3, CalmStore
  <2> QED BY <1>0, <2>1 DEF Steady, Tracked, HInv, CopyProgress
<1>7. CopyProgress(h)' /\ Entered(h)'
  BY <1>4, <1>5, <1>6 DEF CopyProgress, Entered, InBlobs, AfterBlobs, AfterTree, AfterPayload
<1>8. ~PastTree(h)
  BY <1>0 DEF PastTree, AfterTree, AfterPayload
<1> QED BY <1>0, <1>3, <1>4, <1>7, <1>8, LinkStep

-----------------------------------------------------------------------------
(***************************************************************************)
(* The steps of main.c and platform.c.                                     *)
(***************************************************************************)
(* A hart that hangs has nothing to hand over. *)
LEMMA HangCopies ==
  ASSUME HandoffLayout, IInv, HInv, UNCHANGED <<mem, boot>>, NEW h \in Harts, OnlyActs(h),
         AtLink(h), pc[h] \notin {"_jump", "booted"}, pc'[h] = "zstage_hang"
  PROVE  HInv'
<1>1. CopyProgress(h)' /\ Entered(h)'
  BY IdleHart DEF Stopped
<1>2. PastTree(h)'
  BY DEF PastTree
<1> QED BY <1>1, <1>2, LinkStep

(* The checks of zstage_main (main.c:40-66). *)
LEMMA ZstageMainCopies ==
  ASSUME HandoffLayout, IInv, HInv, UNCHANGED boot, NEW h \in Harts, OnlyActs(h), ZstageMain(h)
  PROVE  HInv'
<1>0. pc[h] = "zstage_main" /\ AtLink(h) /\ UNCHANGED <<mem, reg>>
      /\ pc'[h] \in {"copy_blobs", "zstage_hang"}
  BY DEF IInv, TypeOK, ZstageMain, At, Goto, AtLink, AfterRelocation, InMain
<1>1. CASE pc'[h] = "copy_blobs"
  <2>1. reg[h].i = 1 /\ mem[Link + OBootArg1] = boot.arg1
    BY <1>0 DEF HInv, CopyProgress, BeforeBlobs
  <2>2. reg'[h].i \in 1 .. Len(Blobs) + 1 /\ \A j \in 1 .. reg'[h].i - 1 : BlobPlaced(j)'
    <3>1. Len(Blobs) \in Nat
      BY HeadAssumed DEF HeadAssumption
    <3>2. reg'[h].i = 1
      BY <1>0, <2>1
    <3> QED BY <3>1, <3>2
  <2>3. CopyProgress(h)' /\ Entered(h)'
    BY <1>0, <1>1, <2>1, <2>2 DEF CopyProgress, Entered, BeforeBlobs, BeforeLottery, Relocating,
       InBlobs, AfterBlobs, AfterTree, AfterPayload
  <2>4. ~PastTree(h)
    BY <1>0 DEF PastTree, AfterTree, AfterPayload
  <2> QED BY <1>0, <1>1, <2>3, <2>4, LinkStep
<1>2. CASE pc'[h] = "zstage_hang"
  BY <1>0, <1>2, HangCopies
<1> QED BY <1>0, <1>1, <1>2

(* The words of the image lie in the running copy, to be copied from. *)
LEMMA SourcesHeld ==
  ASSUME HandoffLayout, Relocated
  PROVE  /\ \A i \in 1 .. Len(Blobs) : Holds(Blobs[i].src, BlobWords(i), 0, Blobs[i].size - 1)
         /\ Holds(Link + OPayload, PayloadWords, 0, PayLen - 1)
<1>1. ASSUME NEW i \in 1 .. Len(Blobs), NEW k \in 0 .. Blobs[i].size - 1
      PROVE  mem[Blobs[i].src + k] = Image[Blobs[i].src + k - Link]
  <2>1. /\ Blobs[i].src + k - Link \in Fixed
        /\ Blobs[i].src + k = Link + (Blobs[i].src + k - Link)
    BY BlobSource
  <2> QED BY <2>1 DEF Relocated
<1>2. ASSUME NEW k \in 0 .. PayLen - 1
      PROVE  mem[Link + OPayload + k] = Image[OPayload + k]
  BY PayloadSource DEF Relocated
<1> QED BY <1>1, <1>2 DEF Holds, BlobWords, PayloadWords

(* The loop over the blobs (main.c:68-76): no blob of the table is empty,   *)
(* so that the loop ends behind the last.                                   *)
LEMMA CopyBlobCopies ==
  ASSUME HandoffLayout, IInv, HInv, UNCHANGED boot, NEW h \in Harts, OnlyActs(h), CopyBlob(h)
  PROVE  HInv'
<1>0. pc[h] = "copy_blobs" /\ AtLink(h) /\ UNCHANGED mem /\ h \in DOMAIN pc /\ TypeOK
  BY DEF IInv, TypeOK, CopyBlob, At, AtLink, AfterRelocation, InMain
<1>1. /\ reg[h].i \in 1 .. Len(Blobs) + 1 /\ \A j \in 1 .. reg[h].i - 1 : BlobPlaced(j)
      /\ mem[Link + OBootArg1] = boot.arg1
  BY <1>0 DEF HInv, CopyProgress, InBlobs
<1>2. \A j \in 1 .. Len(Blobs) : BlobPlaced(j)' <=> BlobPlaced(j)
  BY <1>0 DEF BlobPlaced, Holds
<1>3. Len(Blobs) \in Nat
  BY HeadAssumed DEF HeadAssumption
<1>4. ~PastTree(h)
  BY <1>0 DEF PastTree, AfterTree, AfterPayload
<1>5. CASE reg[h].i \in 1 .. Len(Blobs)
  <2>1. PICK i \in 1 .. Len(Blobs) : i = reg[h].i
    BY <1>5
  <2>2. Blobs[i].size # 0
    BY DEF HandoffLayout, BlobsApart
  <2>3. Call(h, Blobs[i].dst, Blobs[i].src, Blobs[i].size, i + 1, "copy_blobs")
    BY <2>1, <2>2 DEF CopyBlob
  <2>4. Holds(Blobs[i].src, BlobWords(i), 0, Blobs[i].size - 1)
    BY <1>0, LinkFacts, SourcesHeld
  <2>5. /\ pc'[h] = "memcpy" /\ reg'[h].i = i + 1 /\ reg'[h].ret = "copy_blobs"
        /\ InCopy(h, Blobs[i].dst, Blobs[i].src, Blobs[i].size, BlobWords(i))'
    BY <1>0, <2>3, <2>4, BlobTypes, CallBegins
  <2>6. \A j \in 1 .. i - 1 : BlobPlaced(j)'
    <3>1. \A j \in 1 .. i - 1 : j \in 1 .. Len(Blobs)
      OBVIOUS
    <3> QED BY <1>1, <1>2, <2>1, <3>1
  <2>7. InBlob(h)'
    <3>1. reg'[h].i - 1 = i
      BY <2>5
    <3> QED BY <2>5, <2>6, <3>1 DEF InBlob
  <2>8. CopyProgress(h)' /\ Entered(h)'
    BY <1>0, <1>1, <2>5, <2>7 DEF CopyProgress, Entered, BeforeBlobs, BeforeLottery, Relocating,
       InBlobs, AfterBlobs, AfterTree, AfterPayload
  <2> QED BY <1>0, <1>4, <2>5, <2>8, LinkStep
<1>6. CASE ~(reg[h].i \in 1 .. Len(Blobs))
  <2>1. pc'[h] = "prepare_fdt"
    BY <1>0, <1>6 DEF CopyBlob, Goto
  <2>2. reg[h].i - 1 = Len(Blobs)
    BY <1>1, <1>3, <1>6
  <2>3. BlobsPlaced'
    <3>1. \A j \in 1 .. Len(Blobs) : BlobPlaced(j)'
      BY <1>1, <1>2, <2>2
    <3> QED BY <3>1, PlacedAsHoldsNext
  <2>4. CopyProgress(h)' /\ Entered(h)'
    BY <1>0, <1>1, <2>1, <2>3 DEF CopyProgress, Entered, BeforeBlobs, BeforeLottery, Relocating,
       InBlobs, AfterBlobs, AfterTree, AfterPayload
  <2> QED BY <1>0, <1>4, <2>1, <2>4, LinkStep
<1> QED BY <1>5, <1>6

(* platform_prepare_fdt (platform.c): the a1 that was saved is a tree only  *)
(* if it is the one the earlier stage left, and that one is still whole.    *)
LEMMA PrepareFdtCopies ==
  ASSUME HandoffLayout, IInv, HInv, UNCHANGED boot, NEW h \in Harts, OnlyActs(h), PrepareFdt(h)
  PROVE  HInv'
<1>0. pc[h] = "prepare_fdt" /\ AtLink(h) /\ UNCHANGED mem /\ h \in DOMAIN pc /\ TypeOK
  BY DEF IInv, TypeOK, PrepareFdt, At, AtLink, AfterRelocation, InMain
<1>1. base[h] = Link /\ mem[base[h] + ONextFdt] = NextFdt
  BY <1>0, LinkFacts
<1>2. mem[Link + OBootArg1] = boot.arg1 /\ BlobsPlaced
  BY <1>0 DEF HInv, CopyProgress, AfterBlobs
<1>3. boot.arg1 \in Args /\ Args \subseteq Addr
  BY <1>0, HeadAssumed DEF TypeOK, HeadAssumption
<1>4. ~PastTree(h)
  BY <1>0 DEF PastTree, AfterTree, AfterPayload
<1>5. CASE Word(boot.arg1) = FdtMagic
  <2>1. boot.arg1 = FdtSrc
    BY <1>3, <1>5 DEF HInv, ArgsHeld, Word, FdtMagic, Junk
  <2>2. \A g \in Harts : ~PastTree(g)
    <3>1. \A g \in Harts \ {h} : pc[g] \notin WinnerOnly
      BY <1>0 DEF IInv, OneBootHart, WinnerOnly, AfterRelocation, InMain
    <3> QED BY <1>4, <3>1 DEF PastTree, AfterTree, AfterPayload, WinnerOnly, AfterRelocation,
          InMain
  <2>3. Holds(FdtSrc, TreeWords, 0, FdtLen - 1)
    BY <2>2 DEF HInv, TreeWaits
  <2>4. Call(h, NextFdt, FdtSrc, FdtLen, 0, "copy_next")
    BY <1>1, <1>2, <1>5, <2>1 DEF PrepareFdt
  <2>5. /\ pc'[h] = "memcpy" /\ reg'[h].ret = "copy_next"
        /\ InCopy(h, NextFdt, FdtSrc, FdtLen, TreeWords)'
    BY <1>0, <2>3, <2>4, CopyTypes, CallBegins
  <2>6. BlobsPlaced'
    BY <1>0, <1>2 DEF BlobsPlaced
  <2>7. CopyProgress(h)' /\ Entered(h)'
    BY <2>5, <2>6 DEF CopyProgress, Entered, InTree, BeforeBlobs, BeforeLottery, Relocating,
       InBlobs, AfterBlobs, AfterTree, AfterPayload
  <2> QED BY <1>0, <1>4, <2>5, <2>7, LinkStep
<1>6. CASE Word(boot.arg1) # FdtMagic
  <2>1. pc'[h] = "zstage_hang"
    BY <1>0, <1>1, <1>2, <1>6 DEF PrepareFdt, Goto
  <2> QED BY <1>0, <2>1, HangCopies
<1> QED BY <1>5, <1>6

(* A hart past the tree with nothing under way (copy_next to _jump). *)
LEMMA PastTreeStep ==
  ASSUME HandoffLayout, IInv, HInv, UNCHANGED <<mem, boot>>, NEW h \in Harts, OnlyActs(h),
         pc[h] \in AfterTree, pc[h] \in {"_jump", "booted"} => pc'[h] = "booted",
         pc'[h] \in AfterPayload, PayloadPlaced, Entered(h)'
  PROVE  HInv'
<1>1. BlobsPlaced /\ FdtPlaced
  BY DEF HInv, CopyProgress, AfterBlobs
<1>2. BlobsPlaced' /\ FdtPlaced' /\ PayloadPlaced'
  BY <1>1 DEF BlobsPlaced, FdtPlaced, PayloadPlaced
<1>3. CopyProgress(h)'
  BY <1>2 DEF CopyProgress, BeforeBlobs, BeforeLottery, Relocating, InBlobs, AfterBlobs,
     AfterTree, AfterPayload
<1>4. AtLink(h) /\ PastTree(h)'
  BY DEF AtLink, PastTree, AfterTree, AfterPayload, AfterRelocation, InMain
<1> QED BY <1>3, <1>4, LinkStep DEF AfterPayload

(* The payload (main.c:82-88): copied, or already where it runs. *)
LEMMA CopyNextCopies ==
  ASSUME HandoffLayout, IInv, HInv, UNCHANGED boot, NEW h \in Harts, OnlyActs(h), CopyNext(h)
  PROVE  HInv'
<1>0. pc[h] = "copy_next" /\ AtLink(h) /\ UNCHANGED mem /\ h \in DOMAIN pc /\ TypeOK
  BY DEF IInv, TypeOK, CopyNext, At, AtLink, AfterRelocation, InMain
<1>1. mem[base[h] + ONextRun] = NextRun /\ Relocated
  BY <1>0, LinkFacts
<1>2. BlobsPlaced /\ FdtPlaced
  BY <1>0 DEF HInv, CopyProgress, AfterBlobs, AfterTree
<1>3. Holds(Link + OPayload, PayloadWords, 0, PayLen - 1)
  BY <1>1, SourcesHeld
<1>4. CASE Link + OPayload # NextRun
  <2>1. Call(h, NextRun, Link + OPayload, PayLen, 0, "final_init")
    BY <1>1, <1>4 DEF CopyNext
  <2>2. NextRun \in Int /\ Link + OPayload \in Int /\ PayLen \in Nat
    BY CopyTypes
  <2>3. /\ pc'[h] = "memcpy" /\ reg'[h].ret = "final_init"
        /\ InCopy(h, NextRun, Link + OPayload, PayLen, PayloadWords)'
    BY <1>0, <1>3, <2>1, <2>2, CallBegins
  <2>4. BlobsPlaced' /\ FdtPlaced'
    BY <1>0, <1>2 DEF BlobsPlaced, FdtPlaced
  <2>5. CopyProgress(h)' /\ Entered(h)'
    BY <1>4, <2>3, <2>4 DEF CopyProgress, Entered, InPayload, BeforeBlobs, BeforeLottery,
       Relocating, InBlobs, AfterBlobs, AfterTree, AfterPayload
  <2>6. PastTree(h)'
    BY <2>3 DEF PastTree
  <2> QED BY <1>0, <2>3, <2>5, <2>6, LinkStep
<1>5. CASE Link + OPayload = NextRun
  <2>1. pc'[h] = "final_init"
    BY <1>0, <1>1, <1>5 DEF CopyNext, Goto
  <2>2. PayloadPlaced
    BY <1>3, <1>5, PlacedAsHolds
  <2>3. Entered(h)'
    BY <2>1 DEF Entered
  <2> QED BY <1>0, <2>1, <2>2, <2>3, PastTreeStep DEF AfterTree, AfterPayload
<1> QED BY <1>4, <1>5

(* platform_final_init (main.c:90-96) gives the machine away, or hangs. *)
LEMMA FinalInitCopies ==
  ASSUME HandoffLayout, IInv, HInv, UNCHANGED boot, NEW h \in Harts, OnlyActs(h), FinalInit(h)
  PROVE  HInv'
<1>0. pc[h] = "final_init" /\ AtLink(h) /\ UNCHANGED mem
      /\ pc'[h] \in {"_release_spin", "zstage_hang"}
  BY DEF IInv, TypeOK, FinalInit, At, Goto, AtLink, AfterRelocation, InMain
<1>1. PayloadPlaced
  BY <1>0 DEF HInv, CopyProgress, AfterPayload
<1>2. CASE pc'[h] = "_release_spin"
  BY <1>0, <1>1, <1>2, PastTreeStep DEF AfterTree, AfterPayload, Entered
<1>3. CASE pc'[h] = "zstage_hang"
  BY <1>0, <1>3, HangCopies
<1> QED BY <1>0, <1>2, <1>3

(* The jump (head.S:221-230): to the run address, with the tree in a1. *)
LEMMA JumpCopies ==
  ASSUME HandoffLayout, IInv, HInv, UNCHANGED boot, NEW h \in Harts, OnlyActs(h), Jump(h)
  PROVE  HInv'
<1>0. pc[h] = "_jump" /\ AtLink(h) /\ UNCHANGED mem /\ pc'[h] = "booted"
      /\ handoff'[h] = [entry |-> mem[base[h] + ONextRun], fdt |-> mem[base[h] + ONextFdt]]
  BY DEF IInv, TypeOK, Jump, At, Enter, Goto, AtLink, AfterRelocation, InMain
<1>1. Entered(h)'
  BY <1>0, LinkFacts DEF Entered
<1>2. PayloadPlaced
  BY <1>0 DEF HInv, CopyProgress, AfterPayload
<1> QED BY <1>0, <1>1, <1>2, PastTreeStep DEF AfterTree, AfterPayload

-----------------------------------------------------------------------------
(***************************************************************************)
(* The steps of memcpy.                                                    *)
(***************************************************************************)
(* A word of a copy changes no image, and no a1 that is not the tree. *)
LEMMA DestinationStore ==
  ASSUME HandoffLayout, TypeOK, ArgsHeld, NEW a \in Destinations, NEW v, Store(a, v)
  PROVE  /\ ArgsHeld'
         /\ \A l \in {load, Link} : \A o \in 0 .. Size - 1 : mem'[l + o] = mem[l + o]
<1>1. \A b : b # a => mem'[b] = mem[b]
  BY DEF Store, TypeOK
<1>2. \A l \in {load, Link} : \A o \in 0 .. Size - 1 : l + o \notin Destinations
  BY ImagesApart
<1>3. \A b \in Args \ {FdtSrc} : b # a
  BY DEF HandoffLayout, TreeApart
<1>4. ArgsHeld'
  BY <1>1, <1>3 DEF ArgsHeld
<1> QED BY <1>1, <1>2, <1>4

(* Words apart from the one that is stored hold as before. *)
LEMMA HoldsElsewhere ==
  ASSUME TypeOK, NEW a, NEW v, Store(a, v),
         NEW dst \in Int, NEW len \in Int, NEW w, a \notin dst .. dst + len - 1,
         Holds(dst, w, 0, len - 1)
  PROVE  Holds(dst, w, 0, len - 1)'
<1>1. \A b : b # a => mem'[b] = mem[b]
  BY DEF Store, TypeOK
<1>2. ASSUME NEW k \in 0 .. len - 1 PROVE mem'[dst + k] = mem[dst + k]
  <2>1. dst + k \in dst .. dst + len - 1
    OBVIOUS
  <2> QED BY <1>1, <2>1
<1> QED BY <1>2, HoldsStay

(* A word of a blob: the blobs before it, and the source, stay. *)
LEMMA BlobWordStored ==
  ASSUME HandoffLayout, TypeOK, NEW h, InBlob(h), reg[h].d < reg[h].e,
         Store(reg[h].d, Word(reg[h].s)), reg'[h].i = reg[h].i,
         reg'[h].d = reg[h].d + 1, reg'[h].s = reg[h].s + 1, reg'[h].e = reg[h].e
  PROVE  InBlob(h)' /\ reg[h].d \in Destinations \ Tree
<1>1. PICK i \in 1 .. Len(Blobs) : i = reg[h].i - 1
  BY DEF InBlob
<1>2. /\ \A j \in 1 .. i - 1 : BlobPlaced(j)
      /\ InCopy(h, Blobs[i].dst, Blobs[i].src, Blobs[i].size, BlobWords(i))
  BY <1>1 DEF InBlob
<1>3. Blobs[i].dst \in Int /\ Blobs[i].src \in Int /\ Blobs[i].size \in Nat
  BY BlobTypes
<1>4. reg[h].d \in BlobArea(i)
  BY <1>2, <1>3, CopyCursor DEF BlobArea
<1>5. reg[h].d \in Destinations \ Tree
  BY <1>4, AreasAreDestinations DEF HandoffLayout, BlobsApart
<1>6. ASSUME NEW j \in 1 .. i - 1 PROVE BlobPlaced(j)'
  <2>1. j \in 1 .. Len(Blobs) \ {i}
    OBVIOUS
  <2>2. reg[h].d \notin Blobs[j].dst .. Blobs[j].dst + Blobs[j].size - 1
    BY <1>4, <2>1 DEF HandoffLayout, BlobsApart, BlobArea
  <2>3. Blobs[j].dst \in Int /\ Blobs[j].size \in Int
    BY <2>1, BlobTypes
  <2> QED BY <1>2, <2>2, <2>3, HoldsElsewhere DEF BlobPlaced
<1>7. ASSUME NEW k \in 0 .. Blobs[i].size - 1
      PROVE  /\ Blobs[i].dst + k \in Addr /\ Blobs[i].src + k \in Addr
             /\ Blobs[i].dst + k \in Destinations /\ Blobs[i].src + k \notin Destinations
  <2>1. Blobs[i].dst + k \in BlobArea(i)
    BY <1>3, InArea DEF BlobArea
  <2>2. Blobs[i].src + k \in Blobs[i].src .. Blobs[i].src + Blobs[i].size - 1
    BY <1>3, InArea
  <2>3. Blobs[i].src + k - Link \in 0 .. Size - 1
        /\ Blobs[i].src + k = Link + (Blobs[i].src + k - Link)
    BY BlobSource, KeptFixed
  <2>4. Link + (Blobs[i].src + k - Link) \notin Destinations
    BY <2>3, ImagesApart
  <2> QED BY <2>1, <2>2, <2>3, <2>4, BlobTypes, AreasAreDestinations
<1>8. \A k \in 0 .. Blobs[i].size - 1 : \A j \in k + 1 .. Blobs[i].size - 1 :
        Blobs[i].dst + k # Blobs[i].src + j
  <2>1. \A k \in 0 .. Blobs[i].size - 1 : \A j \in k + 1 .. Blobs[i].size - 1 :
          j \in 0 .. Blobs[i].size - 1
    BY <1>3
  <2> QED BY <1>7, <2>1
<1>9. InCopy(h, Blobs[i].dst, Blobs[i].src, Blobs[i].size, BlobWords(i))'
  <2>1. mem \in [Addr -> Int]
    BY DEF TypeOK
  <2> QED BY <1>2, <1>3, <1>7, <1>8, <2>1, CopyWord
<1>10. reg'[h].i - 1 = i
  BY <1>1
<1> QED BY <1>5, <1>6, <1>9, <1>10 DEF InBlob

(* A word of the tree: the blobs stay, and where the tree overlaps itself   *)
(* it moves downwards.                                                      *)
LEMMA TreeWordStored ==
  ASSUME HandoffLayout, TypeOK, NEW h, InTree(h), reg[h].d < reg[h].e,
         Store(reg[h].d, Word(reg[h].s)),
         reg'[h].d = reg[h].d + 1, reg'[h].s = reg[h].s + 1, reg'[h].e = reg[h].e
  PROVE  InTree(h)' /\ reg[h].d \in Destinations
<1>1. BlobsPlaced /\ InCopy(h, NextFdt, FdtSrc, FdtLen, TreeWords)
  BY DEF InTree
<1>2. reg[h].d \in TreeArea
  BY <1>1, CopyTypes, CopyCursor DEF TreeArea
<1>3. BlobsPlaced'
  <2>1. ASSUME NEW j \in 1 .. Len(Blobs) PROVE BlobPlaced(j)'
    <3>1. reg[h].d \notin Blobs[j].dst .. Blobs[j].dst + Blobs[j].size - 1
      BY <1>2 DEF HandoffLayout, BlobsApart, BlobArea
    <3>2. Blobs[j].dst \in Int /\ Blobs[j].size \in Int /\ BlobPlaced(j)
      BY <1>1, BlobTypes, PlacedAsHolds
    <3> QED BY <3>1, <3>2, HoldsElsewhere DEF BlobPlaced
  <2> QED BY <2>1, PlacedAsHoldsNext
<1>4. \A k \in 0 .. FdtLen - 1 : NextFdt + k \in Addr /\ FdtSrc + k \in Addr
  <2>1. \A k \in 0 .. FdtLen - 1 : NextFdt + k \in TreeArea /\ FdtSrc + k \in Tree
    BY CopyTypes, InArea DEF TreeArea, Tree
  <2> QED BY <2>1, CopyTypes
<1>5. \A k \in 0 .. FdtLen - 1 : \A j \in k + 1 .. FdtLen - 1 : NextFdt + k # FdtSrc + j
  <2>1. NextFdt <= FdtSrc \/ FdtSrc + FdtLen <= NextFdt
    BY DEF HandoffLayout, TreeApart
  <2> QED BY <2>1, CopyTypes
<1>6. InCopy(h, NextFdt, FdtSrc, FdtLen, TreeWords)'
  <2>1. mem \in [Addr -> Int]
    BY DEF TypeOK
  <2>2. NextFdt \in Int /\ FdtSrc \in Int /\ FdtLen \in Nat
    BY CopyTypes
  <2> QED BY <1>1, <1>4, <1>5, <2>1, <2>2, CopyWord
<1> QED BY <1>2, <1>3, <1>6, AreasAreDestinations DEF InTree

(* A word of the payload: the blobs, the tree and the source stay. *)
LEMMA PayloadWordStored ==
  ASSUME HandoffLayout, TypeOK, NEW h, InPayload(h), reg[h].d < reg[h].e,
         Store(reg[h].d, Word(reg[h].s)),
         reg'[h].d = reg[h].d + 1, reg'[h].s = reg[h].s + 1, reg'[h].e = reg[h].e
  PROVE  InPayload(h)' /\ reg[h].d \in Destinations
<1>1. /\ BlobsPlaced /\ FdtPlaced /\ Link + OPayload # NextRun
      /\ InCopy(h, NextRun, Link + OPayload, PayLen, PayloadWords)
  BY DEF InPayload
<1>2. NextRun \in Int /\ Link + OPayload \in Int /\ PayLen \in Nat
  BY CopyTypes
<1>3. reg[h].d \in PayloadArea
  BY <1>1, <1>2, CopyCursor DEF PayloadArea
<1>4. BlobsPlaced'
  <2>1. ASSUME NEW j \in 1 .. Len(Blobs) PROVE BlobPlaced(j)'
    <3>1. reg[h].d \notin Blobs[j].dst .. Blobs[j].dst + Blobs[j].size - 1
      BY <1>3 DEF HandoffLayout, BlobsApart, BlobArea
    <3>2. Blobs[j].dst \in Int /\ Blobs[j].size \in Int /\ BlobPlaced(j)
      BY <1>1, BlobTypes, PlacedAsHolds
    <3> QED BY <3>1, <3>2, HoldsElsewhere DEF BlobPlaced
  <2> QED BY <2>1, PlacedAsHoldsNext
<1>5. FdtPlaced'
  <2>1. reg[h].d \notin NextFdt .. NextFdt + FdtLen - 1
    BY <1>3 DEF HandoffLayout, TreeApart, TreeArea
  <2>2. NextFdt \in Int /\ FdtLen \in Int /\ Holds(NextFdt, TreeWords, 0, FdtLen - 1)
    BY <1>1, CopyTypes, PlacedAsHolds
  <2> QED BY <2>1, <2>2, HoldsElsewhere, PlacedAsHoldsNext
<1>6. ASSUME NEW k \in 0 .. PayLen - 1
      PROVE  /\ NextRun + k \in Addr /\ Link + OPayload + k \in Addr
             /\ NextRun + k \in Destinations /\ Link + OPayload + k \notin Destinations
  <2>1. NextRun + k \in PayloadArea
    BY <1>2, InArea DEF PayloadArea
  <2>2. OPayload + k \in 0 .. Size - 1 /\ Link + OPayload + k = Link + (OPayload + k)
    BY PayloadSource, KeptFixed
  <2>3. Link + (OPayload + k) \in Addr /\ Link + (OPayload + k) \notin Destinations
    BY <2>2, Copies, ImagesApart
  <2> QED BY <1>1, <2>1, <2>2, <2>3, CopyTypes, AreasAreDestinations
<1>7. \A k \in 0 .. PayLen - 1 : \A j \in k + 1 .. PayLen - 1 :
        NextRun + k # Link + OPayload + j
  <2>1. \A k \in 0 .. PayLen - 1 : \A j \in k + 1 .. PayLen - 1 : j \in 0 .. PayLen - 1
    BY <1>2
  <2> QED BY <1>6, <2>1
<1>8. InCopy(h, NextRun, Link + OPayload, PayLen, PayloadWords)'
  <2>1. mem \in [Addr -> Int]
    BY DEF TypeOK
  <2> QED BY <1>1, <1>2, <1>6, <1>7, <2>1, CopyWord
<1> QED BY <1>1, <1>3, <1>4, <1>5, <1>8, AreasAreDestinations DEF InPayload

(* memcpy in the middle of a copy. *)
LEMMA MemcpyStoreCopies ==
  ASSUME HandoffLayout, IInv, HInv, UNCHANGED boot, NEW h \in Harts, OnlyActs(h),
         Memcpy(h), reg[h].d < reg[h].e
  PROVE  HInv'
<1>0. /\ TypeOK /\ pc[h] = "memcpy" /\ pc'[h] = "memcpy" /\ AtLink(h) /\ h \in DOMAIN reg
      /\ reg[h] \in [d : Int, s : Int, e : Int, i : Nat, ret : InMain]
      /\ Store(reg[h].d, Word(reg[h].s))
      /\ reg' = [reg EXCEPT ![h].d = reg[h].d + 1, ![h].s = reg[h].s + 1]
  BY DEF IInv, TypeOK, Memcpy, At, AtLink, AfterRelocation, InMain
<1>1. /\ reg'[h].d = reg[h].d + 1 /\ reg'[h].s = reg[h].s + 1 /\ reg'[h].e = reg[h].e
      /\ reg'[h].i = reg[h].i /\ reg'[h].ret = reg[h].ret
  BY <1>0
<1>2. \/ reg[h].ret = "copy_blobs" /\ InBlob(h)
      \/ reg[h].ret = "copy_next" /\ InTree(h)
      \/ reg[h].ret = "final_init" /\ InPayload(h)
  BY <1>0 DEF HInv, CopyProgress
<1>3. /\ \/ reg[h].ret = "copy_blobs" /\ InBlob(h)'
         \/ reg[h].ret = "copy_next" /\ InTree(h)'
         \/ reg[h].ret = "final_init" /\ InPayload(h)'
      /\ reg[h].d \in Destinations
      /\ reg[h].ret = "copy_blobs" => reg[h].d \notin Tree
  BY <1>0, <1>1, <1>2, BlobWordStored, TreeWordStored, PayloadWordStored
<1>4. /\ ArgsHeld'
      /\ mem'[Link + OBootArg1] = mem[Link + OBootArg1]
      /\ mem'[load + OBootStatus] = mem[load + OBootStatus]
      /\ mem'[load + OSpin] = mem[load + OSpin]
      /\ mem'[Link + OSpin] = mem[Link + OSpin]
  <2>1. {OBootArg1, OBootStatus, OSpin} \subseteq 0 .. Size - 1
    BY <1>0, Copies
  <2> QED BY <1>0, <1>3, <2>1, DestinationStore DEF HInv
<1>5. CopyProgress(h)' /\ Entered(h)'
  <2>1. reg[h].ret = "copy_blobs" => mem[Link + OBootArg1] = boot.arg1
    BY <1>0 DEF HInv, CopyProgress, InBlobs
  <2> QED BY <1>0, <1>1, <1>3, <1>4, <2>1 DEF CopyProgress, Entered, InBlobs, BeforeBlobs,
       BeforeLottery, Relocating, AfterBlobs, AfterTree, AfterPayload
<1>6. /\ PastTree(h) => PastTree(h)'
      /\ PastTree(h)' \/ \A b \in Tree : mem'[b] = mem[b]
  <2>1. PastTree(h) => PastTree(h)'
    BY <1>0, <1>1 DEF PastTree
  <2>2. CASE reg[h].ret = "copy_blobs"
    <3>1. \A b : b # reg[h].d => mem'[b] = mem[b]
      BY <1>0 DEF Store, TypeOK
    <3> QED BY <1>3, <2>1, <2>2, <3>1
  <2>3. CASE reg[h].ret # "copy_blobs"
    BY <1>0, <1>1, <2>1, <2>3 DEF PastTree
  <2> QED BY <2>2, <2>3
<1>7. \A g \in Harts \ {h} : pc[g] \notin Copying
  BY <1>0 DEF IInv, OneBootHart, WinnerOnly, AfterRelocation, InMain, Copying, AfterBlobs,
     AfterTree, AfterPayload
<1>8. Released => Released'
  BY <1>0 DEF Released, OnlyActs, OnlyMoves
<1>9. SpinHeld'
  <2>1. CopyLive
    BY <1>0, LinkFacts
  <2>2. SpinCarried(h)'
    BY <1>0 DEF SpinCarried
  <2> QED BY <1>0, <1>4, <1>8, <2>1, <2>2, SpinStays DEF HInv, OnlyActs
<1> QED BY <1>4, <1>5, <1>6, <1>7, <1>8, <1>9, Assemble

(* memcpy returns: what it was called for has arrived. *)
LEMMA MemcpyReturnCopies ==
  ASSUME HandoffLayout, IInv, HInv, UNCHANGED boot, NEW h \in Harts, OnlyActs(h),
         Memcpy(h), ~(reg[h].d < reg[h].e)
  PROVE  HInv'
<1>0. /\ TypeOK /\ pc[h] = "memcpy" /\ pc'[h] = reg[h].ret /\ AtLink(h)
      /\ UNCHANGED <<mem, reg>>
  BY DEF IInv, TypeOK, Memcpy, At, Goto, AtLink, AfterRelocation, InMain
<1>1. \/ reg[h].ret = "copy_blobs" /\ InBlob(h)
      \/ reg[h].ret = "copy_next" /\ InTree(h)
      \/ reg[h].ret = "final_init" /\ InPayload(h)
  BY <1>0 DEF HInv, CopyProgress
<1>2. CASE reg[h].ret = "copy_blobs" /\ InBlob(h)
  <2>1. PICK i \in 1 .. Len(Blobs) : i = reg[h].i - 1
    BY <1>2 DEF InBlob
  <2>2. /\ \A j \in 1 .. i - 1 : BlobPlaced(j)
        /\ InCopy(h, Blobs[i].dst, Blobs[i].src, Blobs[i].size, BlobWords(i))
    BY <1>2, <2>1 DEF InBlob
  <2>3. BlobPlaced(i)
    BY <2>2, BlobTypes, CopyDone DEF BlobPlaced
  <2>4. reg[h].i \in Nat
    <3>1. reg[h] \in [d : Int, s : Int, e : Int, i : Nat, ret : InMain]
      BY <1>0 DEF TypeOK
    <3> QED BY <3>1
  <2>5. reg[h].i = i + 1 /\ reg[h].i \in 1 .. Len(Blobs) + 1
    <3>1. Len(Blobs) \in Nat
      BY HeadAssumed DEF HeadAssumption
    <3> QED BY <2>1, <2>4, <3>1
  <2>6. \A j \in 1 .. reg[h].i - 1 : BlobPlaced(j)
    <3>1. \A j \in 1 .. reg[h].i - 1 : j = i \/ j \in 1 .. i - 1
      BY <2>5
    <3> QED BY <2>2, <2>3, <3>1
  <2>7. \A j \in 1 .. reg'[h].i - 1 : BlobPlaced(j)'
    BY <1>0, <2>6 DEF BlobPlaced, Holds
  <2>8. mem'[Link + OBootArg1] = boot'.arg1
    BY <1>0, <1>2 DEF HInv, CopyProgress, InBlobs
  <2>9. pc'[h] = "copy_blobs" /\ reg'[h].i \in 1 .. Len(Blobs) + 1
    BY <1>0, <1>2, <2>5
  <2>10. CopyProgress(h)' /\ Entered(h)'
    BY <2>7, <2>8, <2>9 DEF CopyProgress, Entered, BeforeBlobs, BeforeLottery, Relocating,
       InBlobs, AfterBlobs, AfterTree, AfterPayload
  <2>11. ~PastTree(h)
    BY <1>0, <1>2 DEF PastTree, AfterTree, AfterPayload
  <2> QED BY <1>0, <2>9, <2>10, <2>11, LinkStep
<1>3. CASE reg[h].ret = "copy_next" /\ InTree(h)
  <2>1. BlobsPlaced /\ InCopy(h, NextFdt, FdtSrc, FdtLen, TreeWords)
    BY <1>3 DEF InTree
  <2>2. FdtPlaced
    BY <2>1, CopyTypes, CopyDone, PlacedAsHolds
  <2>3. BlobsPlaced' /\ FdtPlaced' /\ pc'[h] = "copy_next"
    BY <1>0, <1>3, <2>1, <2>2 DEF BlobsPlaced, FdtPlaced
  <2>4. CopyProgress(h)' /\ Entered(h)' /\ PastTree(h)'
    BY <2>3 DEF CopyProgress, Entered, BeforeBlobs, BeforeLottery, Relocating,
       InBlobs, AfterBlobs, AfterTree, AfterPayload, PastTree
  <2> QED BY <1>0, <2>3, <2>4, LinkStep
<1>4. CASE reg[h].ret = "final_init" /\ InPayload(h)
  <2>1. /\ BlobsPlaced /\ FdtPlaced
        /\ InCopy(h, NextRun, Link + OPayload, PayLen, PayloadWords)
    BY <1>4 DEF InPayload
  <2>2. PayloadPlaced
    <3>1. NextRun \in Int /\ Link + OPayload \in Int /\ PayLen \in Nat
      BY CopyTypes
    <3> QED BY <2>1, <3>1, CopyDone, PlacedAsHolds
  <2>3. BlobsPlaced' /\ FdtPlaced' /\ PayloadPlaced' /\ pc'[h] = "final_init"
    BY <1>0, <1>4, <2>1, <2>2 DEF BlobsPlaced, FdtPlaced, PayloadPlaced
  <2>4. CopyProgress(h)' /\ Entered(h)' /\ PastTree(h)'
    BY <2>3 DEF CopyProgress, Entered, BeforeBlobs, BeforeLottery, Relocating,
       InBlobs, AfterBlobs, AfterTree, AfterPayload, PastTree
  <2> QED BY <1>0, <2>3, <2>4, LinkStep
<1> QED BY <1>1, <1>2, <1>3, <1>4
-----------------------------------------------------------------------------
(***************************************************************************)
(* The release of the other harts, by head.S or by the next stage.         *)
(***************************************************************************)
(* The spin word of the running image is no word a copy is made of. *)
LEMMA SpinStore ==
  ASSUME HandoffLayout, TypeOK, Apart, ArgsHeld, NEW v, Store(Link + OSpin, v)
  PROVE  /\ Steady /\ ArgsHeld' /\ \A b \in Tree : mem'[b] = mem[b]
         /\ load # Link => mem'[load + OSpin] = mem[load + OSpin]
         /\ mem'[load + OBootStatus] = mem[load + OBootStatus]
         /\ mem'[Link + OSpin] = v
<1>1. \A b : b # Link + OSpin => mem'[b] = mem[b]
  BY DEF Store, TypeOK
<1>2. /\ OSpin \in 0 .. Size - 1 /\ OBootStatus \in 0 .. OBss - 1
      /\ OSpin \in 0 .. OBss - 1 /\ load \in Int /\ Link \in Int /\ Link + OSpin \in Addr
  BY Copies
<1>3. Link + OSpin \notin Destinations \union Tree \union (Args \ {FdtSrc})
  BY <1>2, ImagesApart
<1>4. \A o \in Fixed \union {OBootArg1} : Link + o # Link + OSpin
  <2>1. \A o \in Fixed \union {OBootArg1} : o \in Int /\ o # OSpin
    BY Copies DEF Fixed, Zeroed
  <2> QED BY <1>2, <2>1
<1>5. Steady /\ \A b \in Tree : mem'[b] = mem[b]
  BY <1>1, <1>3, <1>4 DEF Steady, Tracked
<1>6. ArgsHeld'
  BY <1>1, <1>3 DEF ArgsHeld
<1>7. load + OBootStatus # Link + OSpin
  BY <1>2, CopiesApart
<1>8. load # Link => load + OSpin # Link + OSpin
  BY <1>2
<1> QED BY <1>1, <1>2, <1>5, <1>6, <1>7, <1>8, StoreElsewhere DEF TypeOK

(* The spin word after a release. *)
LEMMA SpinReleased ==
  ASSUME HandoffLayout, IInv, HInv, UNCHANGED boot, Released', Apart,
         \/ UNCHANGED mem /\ CopyLive
         \/ Store(Link + OSpin, NextRun),
         \A g \in Harts : SpinCarried(g)'
  PROVE  SpinHeld'
<1>1. load' = load /\ TypeOK
  BY DEF load, IInv
<1>2. load # Link => mem'[load + OSpin] = 0
  BY <1>1, SpinStore DEF HInv, SpinHeld
<1>3. mem'[Link + OSpin] \in {0, NextRun}
  BY <1>1, SpinStore DEF HInv, SpinHeld, SpinValues
<1> QED BY <1>1, <1>2, <1>3 DEF SpinHeld, SpinValues

(* _release_spin (head.S:212-219): the word the others spin on becomes the  *)
(* run address, when everything is in its place.                            *)
LEMMA ReleaseSpinCopies ==
  ASSUME HandoffLayout, IInv, HInv, UNCHANGED boot, NEW h \in Harts, OnlyActs(h),
         ReleaseSpin(h)
  PROVE  HInv'
<1>0. TypeOK /\ pc[h] = "_release_spin" /\ pc'[h] = "_jump" /\ AtLink(h)
  BY DEF IInv, TypeOK, ReleaseSpin, At, Goto, AtLink, AfterRelocation
<1>1. base[h] = Link /\ Apart /\ CopyLive /\ mem[base[h] + ONextRun] = NextRun
  BY <1>0, LinkFacts
<1>2. UNCHANGED mem \/ Store(Link + OSpin, NextRun)
  BY <1>1 DEF ReleaseSpin
<1>3. Steady /\ ArgsHeld' /\ \A b \in Tree : mem'[b] = mem[b]
  <2>1. ArgsHeld
    BY DEF HInv
  <2>2. CASE UNCHANGED mem
    BY <2>1, <2>2 DEF Steady, ArgsHeld
  <2>3. CASE Store(Link + OSpin, NextRun)
    BY <1>0, <1>1, <2>1, <2>3, SpinStore
  <2> QED BY <1>2, <2>2, <2>3
<1>4. Released' /\ PastTree(h)'
  BY <1>0 DEF Released, PastTree, AfterTree, AfterPayload
<1>5. \A g \in Harts : SpinCarried(g)'
  <2>1. \A g \in Harts \ {h} : pc[g] \notin WinnerOnly /\ pc'[g] = pc[g]
    BY <1>0 DEF IInv, OneBootHart, WinnerOnly, AfterRelocation, OnlyActs, OnlyMoves
  <2> QED BY <1>0, <2>1 DEF SpinCarried, WinnerOnly, Relocating
<1>6. SpinHeld'
  BY <1>1, <1>2, <1>4, <1>5, SpinReleased
<1>7. BlobsPlaced' /\ FdtPlaced' /\ PayloadPlaced'
  BY <1>0, <1>3, SteadyPlaced DEF HInv, CopyProgress, AfterBlobs, AfterTree, AfterPayload
<1>8. CopyProgress(h)' /\ Entered(h)'
  BY <1>0, <1>7 DEF CopyProgress, Entered, BeforeBlobs, BeforeLottery, Relocating, InBlobs,
     AfterBlobs, AfterTree, AfterPayload
<1> QED BY <1>3, <1>4, <1>6, <1>8, Assemble

(* Without ZSTAGE_NO_SPIN it is the next stage that stores the same word.   *)
LEMMA NextStageReleasesCopies ==
  ASSUME HandoffLayout, IInv, HInv, NextStageReleases
  PROVE  HInv'
<1>0. TypeOK /\ UNCHANGED <<pc, base, reg, handoff, boot>> /\ Store(Link + OSpin, NextRun)
  BY DEF IInv, NextStageReleases
<1>1. PICK h \in Harts : pc[h] = "booted"
  BY DEF NextStageReleases
<1>2. Apart /\ Released'
  BY <1>0, <1>1, LinkFacts DEF AtLink, Released
<1>3. Steady /\ ArgsHeld' /\ \A b \in Tree : mem'[b] = mem[b]
  BY <1>0, <1>2, SpinStore DEF HInv
<1>4. \A g \in Harts : SpinCarried(g)'
  <2>1. \A g \in Harts \ {h} : pc[g] \notin WinnerOnly
    BY <1>1 DEF IInv, OneBootHart, WinnerOnly
  <2> QED BY <1>0, <1>1, <2>1 DEF SpinCarried, WinnerOnly, Relocating
<1>5. SpinHeld'
  BY <1>0, <1>2, <1>4, SpinReleased
<1>6. OnlyActs(h)
  BY <1>0 DEF OnlyActs, OnlyMoves
<1>7. CopyProgress(h)' /\ Entered(h)'
  <2>1. CopyProgress(h) /\ Entered(h)
    BY DEF HInv
  <2>2. CopyProgress(h)'
    BY <1>0, <1>3, <2>1, ProgressStays
  <2> QED BY <1>0, <1>1, <2>1, <2>2 DEF Entered
<1>8. PastTree(h)'
  BY <1>0, <1>1 DEF PastTree, AfterTree, AfterPayload
<1> QED BY <1>0, <1>2, <1>3, <1>5, <1>6, <1>7, <1>8, Assemble

-----------------------------------------------------------------------------
(***************************************************************************)
(* The invariant, and what it means for the next stage.                    *)
(***************************************************************************)
(* A step that changes nothing keeps the invariant. *)
LEMMA StutterCopies == HInv /\ UNCHANGED vars => HInv'
<1> SUFFICES ASSUME HInv, UNCHANGED vars PROVE HInv'
  OBVIOUS
<1>1. /\ mem' = mem /\ pc' = pc /\ base' = base /\ reg' = reg /\ handoff' = handoff
      /\ boot' = boot /\ load' = load
  BY DEF vars, load
<1>2. ArgsHeld'
  BY <1>1 DEF HInv, ArgsHeld
<1>3. TreeWaits'
  BY <1>1 DEF HInv, TreeWaits, PastTree, Holds
<1>4. SpinHeld'
  BY <1>1 DEF HInv, SpinHeld, SpinCarried, CopyLive, SpinValues, Released, AtLink
<1>5. ASSUME NEW h \in Harts PROVE CopyProgress(h)' /\ Entered(h)'
  <2>1. CopyProgress(h) /\ Entered(h)
    BY DEF HInv
  <2> QED
    BY <1>1, <2>1 DEF CopyProgress, Entered, InBlobs, InBlob, InTree, InPayload, InCopy, Holds,
       BlobPlaced, BlobsPlaced, FdtPlaced, PayloadPlaced, Released
<1> QED BY <1>2, <1>3, <1>4, <1>5 DEF HInv

(* Whatever a hart does keeps the invariant. *)
LEMMA HartCopies ==
  ASSUME HandoffLayout, IInv, HInv, IInv', UNCHANGED boot, NEW h \in Harts, Hart(h)
  PROVE  HInv'
<1>1. OnlyActs(h)
  BY HartActsAlone DEF IInv
<1>2. CASE Memcpy(h)
  BY <1>1, <1>2, MemcpyStoreCopies, MemcpyReturnCopies
<1> QED
  BY <1>1, <1>2, StartCopies, VariableCopies, RelocateCopies, CopyToLowerCopies,
     CopyToUpperCopies, WaitCopies, RelocateDoneCopies, SaveBootArg1Copies, BssZeroCopies,
     ZstageMainCopies, CopyBlobCopies, PrepareFdtCopies, CopyNextCopies, FinalInitCopies,
     ReleaseSpinCopies, JumpCopies, SpinLoopCopies, NoDerail, StutterCopies
  DEF Hart, Rest

(* The invariant holds at reset: the tree waits where it was left, and      *)
(* every other a1 points at memory nobody has written.                      *)
LEMMA HInvInit == ASSUME HandoffLayout, Init PROVE HInv
<1>1. /\ load \in Loads /\ load \in Int /\ OSpin \in 0 .. Size - 1
      /\ OBootStatus \in 0 .. Size - 1 /\ Size \in Int
  BY TypeInit, Copies, SizeFact
<1>2. \A h \in Harts : pc[h] = "_start" /\ reg[h].i = 1
  BY DEF Init
<1>3. ImageAt(load) = load .. LoadEnd - 1
  BY <1>1 DEF ImageAt, LoadEnd
<1>4. ArgsHeld
  <2> SUFFICES ASSUME NEW a \in Args \ {FdtSrc} PROVE mem[a] = Junk
    BY DEF ArgsHeld
  <2>1. a \in Addr /\ a \notin Tree /\ a \notin ImageAt(load)
    BY <1>1, HeadAssumed DEF HeadAssumption, HandoffLayout, TreeApart
  <2> QED BY <1>3, <2>1 DEF Init, Tree
<1>5. Holds(FdtSrc, TreeWords, 0, FdtLen - 1)
  <2> SUFFICES ASSUME NEW k \in 0 .. FdtLen - 1 PROVE mem[FdtSrc + k] = FdtWord(k)
    BY DEF Holds, TreeWords
  <2>1. FdtSrc + k \in Tree
    BY CopyTypes, InArea DEF Tree
  <2>2. FdtSrc + k \notin ImageAt(load) /\ FdtSrc + k \in Addr
    BY <1>1, <2>1, CopyTypes DEF HandoffLayout, TreeApart
  <2>3. PICK a \in Addr : a = FdtSrc + k
    BY <2>2
  <2>4. a \notin load .. LoadEnd - 1 /\ a \in FdtSrc .. FdtSrc + FdtLen - 1 /\ a - FdtSrc = k
    BY <1>3, <2>1, <2>2, <2>3, CopyTypes DEF Tree
  <2>5. mem[a] = FdtWord(a - FdtSrc)
    BY <2>4 DEF Init
  <2> QED BY <2>3, <2>4, <2>5
<1>6. \A o \in 0 .. Size - 1 : mem[load + o] = Image[o]
  <2> SUFFICES ASSUME NEW o \in 0 .. Size - 1 PROVE mem[load + o] = Image[o]
    OBVIOUS
  <2>1. load + o \in Addr /\ load + o \in load .. LoadEnd - 1 /\ (load + o) - load = o
    BY <1>1, TypeInit, Copies DEF LoadEnd
  <2> QED BY <2>1 DEF Init
<1>7. mem[load + OSpin] = 0 /\ mem[load + OBootStatus] = 0
  BY <1>1, <1>6 DEF Image, Zeroed
<1>8. SpinHeld
  <2>1. CopyLive => load = Link
    BY <1>2, <1>7 DEF CopyLive, AtLink, AfterRelocation, InMain
  <2>2. \A h \in Harts : SpinCarried(h)
    BY <1>2 DEF SpinCarried
  <2> QED BY <1>7, <2>1, <2>2 DEF SpinHeld, SpinValues
<1>9. \A h \in Harts : CopyProgress(h) /\ Entered(h)
  BY <1>2 DEF CopyProgress, Entered, InBlobs, AfterBlobs, AfterTree, AfterPayload
<1> QED BY <1>4, <1>5, <1>8, <1>9 DEF HInv, TreeWaits

(* Every step keeps the invariant. *)
LEMMA HInvNext == HandoffLayout /\ IInv /\ IInv' /\ HInv /\ [Next]_vars => HInv'
<1> SUFFICES ASSUME HandoffLayout, IInv, IInv', HInv, [Next]_vars PROVE HInv'
  OBVIOUS
<1>1. UNCHANGED boot
  BY BootKept
<1> QED BY <1>1, HartCopies, NextStageReleasesCopies, StutterCopies DEF Next

(* Where what is copied lies apart, the progress of every copy, the tree    *)
(* that still waits and the spin word are as the inductive invariant says,  *)
(* for any number of harts, any addresses and any blobs.                    *)
THEOREM HandoffInvariance == ASSUME HandoffLayout PROVE Spec => [](IInv /\ HInv)
<1>1. SafeLayout
  BY DEF HandoffLayout
<1>2. Spec => []IInv
  BY <1>1, Invariance
<1>3. Init => HInv
  BY HInvInit
<1>4. IInv /\ IInv' /\ HInv /\ [Next]_vars => HInv'
  BY HInvNext
<1> QED BY <1>2, <1>3, <1>4, PTL DEF Spec

(* Who is released is released by a hart that is past _release_spin. *)
LEMMA ReleasedBy ==
  ASSUME HInv, NEW h \in Harts, pc[h] \in {"booted", "joined"}
  PROVE  \E g \in Harts : pc[g] \in {"_jump", "booted"}
BY DEF HInv, Entered, Released

(* A hart enters the next stage at its run address, with the address of the *)
(* tree in a1, and only when payload, tree and blobs are all there; and they *)
(* stay as they are.                                                        *)
THEOREM HandoffIsComplete == ASSUME HandoffLayout PROVE Spec => []HandoffComplete
<1>1. HInv => HandoffComplete
  <2> SUFFICES ASSUME HInv, NEW h \in Harts, pc[h] \in {"booted", "joined"}
               PROVE  Placed /\ handoff[h] = [entry |-> NextRun, fdt |-> NextFdt]
    BY DEF HandoffComplete
  <2>1. PICK g \in Harts : pc[g] \in {"_jump", "booted"}
    BY ReleasedBy
  <2>2. Placed
    BY <2>1 DEF HInv, CopyProgress, AfterBlobs, AfterTree, AfterPayload, Placed
  <2>3. Entered(h)
    BY DEF HInv
  <2> QED BY <2>2, <2>3 DEF Entered
<1> QED BY <1>1, HandoffInvariance, PTL

(* When the boot hart gives up, in head.S or in the C code, no other hart   *)
(* is or ever was let into the next stage.                                  *)
THEOREM HangHolds == ASSUME HandoffLayout PROVE Spec => []HangHoldsAll
<1>1. IInv /\ HInv => HangHoldsAll
  <2> SUFFICES ASSUME IInv, HInv, NEW g \in Harts, pc[g] \in {"_start_hang", "zstage_hang"},
                      NEW h \in Harts, pc[h] \in {"booted", "joined"}
               PROVE  FALSE
    BY DEF HangHoldsAll
  <2>1. PICK b \in Harts : pc[b] \in {"_jump", "booted"}
    BY ReleasedBy
  <2>2. b = g
    BY <2>1 DEF IInv, OneBootHart, WinnerOnly, AfterRelocation
  <2> QED BY <2>1, <2>2
<1> QED BY <1>1, HandoffInvariance, PTL
=============================================================================

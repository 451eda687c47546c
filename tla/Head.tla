-------------------------------- MODULE Head --------------------------------
(***************************************************************************)
(* The boot path of zStage on all harts: firmware/head.S from _start to    *)
(* the jump into the next booting stage, with the memory effects of        *)
(* zstage_main (firmware/main.c) and platform_prepare_fdt                  *)
(* (platform/generic/platform.c), which run between its labels.            *)
(*                                                                         *)
(* Memory is a function from word addresses to integers.  The image holds  *)
(* one word for each thing head.S names (a header field, a stretch of      *)
(* code, a .data variable) followed by a .bss, a payload and the blobs of  *)
(* any length.  A stretch of code is one word whose value stands for its   *)
(* instructions: a hart can execute it only where that value is still      *)
(* there, and is lost otherwise.                                           *)
(***************************************************************************)
EXTENDS Integers, Sequences

CONSTANTS
  Harts,        \* the harts that leave reset at _start
  Addr,         \* the addresses of the words of RAM
  Link,         \* ZSTAGE_TEXT_START, the address the image is linked at
  Loads,        \* the addresses the earlier stage may have loaded it at
  NoSpins,      \* the ZSTAGE_NO_SPIN choices: a subset of BOOLEAN
  NextRun,      \* ZSTAGE_PAYLOAD_NEXT_ADDR
  NextFdt,      \* ZSTAGE_PAYLOAD_FDT_ADDR
  BssLen,       \* words of .bss, the stack included
  PayLen,       \* words of the payload (next_size)
  Size,         \* words of the image (image_size)
  Blobs,        \* _zstage_blob_table without its sentinel
  Args,         \* the values a1 may have at _start
  FdtSrc,       \* where the earlier stage left a device tree
  FdtLen        \* its fdt_totalsize, in words

(***************************************************************************)
(* The offsets of the words of the image.                                  *)
(***************************************************************************)
OStart        == 0   \* _start: j _start_real
OMagic        == 1   \* _zstage_header_magic and _version
ORunAddr      == 2   \* _zstage_header_image_run_addr
ONextRun      == 3   \* _zstage_header_next_run_addr
ONextFdt      == 4   \* _zstage_header_next_fdt_addr
OSpin         == 5   \* _zstage_spin_addr
OReal         == 6   \* code from _start_real to _relocate
ORelocate     == 7   \* code from _relocate to _relocate_done
ORelocateDone == 8   \* code from _relocate_done on
OMain         == 9   \* the C code
OLottery      == 10  \* _zstage_relocate_lottery
OLoadStart    == 11  \* _zstage_load_start
OBootArg1     == 12  \* _zstage_boot_arg1
OBootStatus   == 13  \* _zstage_boot_status
OBss          == 14  \* _bss_start
OPayload      == OBss + BssLen  \* _zstage_payload_bin

HeadAssumption ==
  /\ Addr \subseteq Int
  /\ Link \in Int /\ Loads \subseteq Int /\ NextRun \in Int \ {0} /\ NextFdt \in Int
  /\ FdtSrc \in Int /\ Args \subseteq Addr /\ NoSpins \subseteq BOOLEAN
  /\ BssLen \in Nat \ {0} /\ PayLen \in Nat \ {0} /\ FdtLen \in Nat \ {0}
  /\ Size \in Nat /\ OPayload + PayLen <= Size
  /\ Blobs \in Seq([src : Int, dst : Int, size : Nat])
  \* an image and every place it is copied to, or copies from, is RAM
  /\ \A l \in Loads \union {Link} : l .. l + Size - 1 \subseteq Addr
  /\ NextRun .. NextRun + PayLen - 1 \subseteq Addr
  /\ NextFdt .. NextFdt + FdtLen - 1 \subseteq Addr
  /\ FdtSrc .. FdtSrc + FdtLen - 1 \subseteq Addr
  /\ \A i \in 1 .. Len(Blobs) :
       /\ Blobs[i].src .. Blobs[i].src + Blobs[i].size - 1 \subseteq Addr
       /\ Blobs[i].dst .. Blobs[i].dst + Blobs[i].size - 1 \subseteq Addr

ASSUME HeadAssumed == HeadAssumption

(***************************************************************************)
(* What the words hold.  Code and payload words are positive numbers no    *)
(* other word has; memory nobody has written holds Junk.                   *)
(***************************************************************************)
Junk == -1
FdtMagic == 5000
Content(o) == 1000 + o

Zeroed == {OSpin, OLottery, OLoadStart, OBootArg1, OBootStatus}

Image ==
  [o \in 0 .. Size - 1 |->
     CASE o = ORunAddr -> Link
       [] o = ONextRun -> NextRun
       [] o = ONextFdt -> NextFdt
       [] o \in Zeroed \/ o \in OBss .. OPayload - 1 -> 0
       [] OTHER -> Content(o)]

FdtWord(i) == FdtMagic + i

VARIABLES
  mem,      \* [Addr -> Int], coherent and sequentially consistent here
  pc,       \* the label each hart is at
  base,     \* the copy of the image each hart executes: load or Link
  reg,      \* the registers the copy loops and the calls keep
  handoff,  \* a0's companions at the jump: the entry taken and a1
  boot      \* how this machine was booted: load address, build, a1

vars == <<mem, pc, base, reg, handoff, boot>>

(***************************************************************************)
(* The labels, and the word of the image a hart at each of them executes.  *)
(***************************************************************************)
CodeOf ==
  [_start                       |-> OStart,
   _start_real                  |-> OReal,
   _save_load_address           |-> OReal,
   _relocate                    |-> ORelocate,
   _relocate_copy_to_lower_loop |-> ORelocate,
   _relocate_copy_to_upper_loop |-> ORelocate,
   _wait_relocate_copy_done     |-> ORelocate,
   _wait_loop                   |-> ORelocate,
   _relocate_done               |-> ORelocateDone,
   _save_boot_arg1              |-> ORelocateDone,
   _bss_zero                    |-> ORelocateDone,
   zstage_main                  |-> OMain,
   copy_blobs                   |-> OMain,
   memcpy                       |-> OMain,
   prepare_fdt                  |-> OMain,
   copy_next                    |-> OMain,
   final_init                   |-> OMain,
   _release_spin                |-> ORelocateDone,
   _jump                        |-> ORelocateDone,
   _secondary_spin_loop         |-> ORelocateDone]

Running == DOMAIN CodeOf

BeforeLottery == {"_start", "_start_real"}

Relocating ==
  {"_save_load_address", "_relocate", "_relocate_copy_to_lower_loop",
   "_relocate_copy_to_upper_loop"}

InMain ==
  {"zstage_main", "copy_blobs", "memcpy", "prepare_fdt", "copy_next", "final_init"}

AfterRelocation ==
  InMain \union {"_relocate_done", "_save_boot_arg1", "_bss_zero",
                 "_release_spin", "_jump"}

Waiting == {"_wait_relocate_copy_done", "_wait_loop", "_secondary_spin_loop"}

(* booted and joined are the next stage; lost is a hart that executed a     *)
(* word that is not the code it was sent to.                                *)
Stopped == {"_start_hang", "zstage_hang", "booted", "joined", "lost"}

Labels == Running \union Stopped

(* The labels only the hart that won the relocation lottery can be at. *)
WinnerOnly ==
  Relocating \union AfterRelocation \union {"_start_hang", "zstage_hang", "booted"}

load == boot.load

LoadEnd == load + Size

LinkEnd == Link + Size

NoHandoff == [entry |-> 0, fdt |-> 0]

Init ==
  /\ boot \in [load : Loads, nospin : NoSpins, arg1 : Args]
  /\ mem = [a \in Addr |->
              IF a \in load .. LoadEnd - 1 THEN Image[a - load]
              ELSE IF a \in FdtSrc .. FdtSrc + FdtLen - 1 THEN FdtWord(a - FdtSrc)
              ELSE Junk]
  /\ pc = [h \in Harts |-> "_start"]
  /\ base = [h \in Harts |-> load]
  /\ reg = [h \in Harts |-> [d |-> 0, s |-> 0, e |-> 0, i |-> 1, ret |-> "copy_blobs"]]
  /\ handoff = [h \in Harts |-> NoHandoff]

-----------------------------------------------------------------------------
(* h executes its label, in memory that still holds that code. *)
At(h, label) ==
  /\ pc[h] = label
  /\ mem[base[h] + CodeOf[label]] = Image[CodeOf[label]]

Goto(h, label) == pc' = [pc EXCEPT ![h] = label]

(* REG_L and REG_S: one aligned access.  Where there is no RAM, a load      *)
(* returns Junk and a store is lost.                                        *)
Word(a) == IF a \in Addr THEN mem[a] ELSE Junk

Store(a, v) == mem' = [mem EXCEPT ![a] = v]

(* h falls into what is no longer its code. *)
Derail(h) ==
  /\ pc[h] \in Running
  /\ mem[base[h] + CodeOf[pc[h]]] # Image[CodeOf[pc[h]]]
  /\ Goto(h, "lost")
  /\ UNCHANGED <<mem, base, reg, handoff, boot>>

(* _start to the platform hook: no shared state. *)
Start(h) ==
  /\ At(h, "_start")
  /\ Goto(h, "_start_real")
  /\ UNCHANGED <<mem, base, reg, handoff, boot>>

(* Mutant: amoor.w of zero, which leaves the lottery to the next hart. *)
LotteryNotTaken(h) ==
  /\ At(h, "_start_real")
  /\ Goto(h, IF mem[load + OLottery] # 0 THEN "_wait_relocate_copy_done"
                                         ELSE "_save_load_address")
  /\ UNCHANGED <<mem, base, reg, handoff, boot>>

(* amoadd.w on the lottery word of the load copy. *)
Lottery(h) ==
  /\ At(h, "_start_real")
  /\ Store(load + OLottery, mem[load + OLottery] + 1)
  /\ Goto(h, IF mem[load + OLottery] # 0 THEN "_wait_relocate_copy_done"
                                         ELSE "_save_load_address")
  /\ UNCHANGED <<base, reg, handoff, boot>>

SaveLoadAddress(h) ==
  /\ At(h, "_save_load_address")
  /\ Store(load + OLoadStart, load)
  /\ Goto(h, "_relocate")
  /\ UNCHANGED <<base, reg, handoff, boot>>

(* BRANGE start, end, check: start <= check < end. *)
BRANGE(start, end, check) == start <= check /\ check < end

(* Mutant: only the start of the overlap is compared with the loop. *)
OverlapHangsInLoop(start, end, first) ==
  BRANGE(load + ORelocate, load + ORelocateDone, first)

(* The words of the load copy the relocation loop and the waiting harts use *)
(* lie in start .. end - 1, which the copy overwrites; or first, where the  *)
(* overlap begins, lies in the loop.                                        *)
OverlapHangs(start, end, first) ==
  \/ \E o \in {OLottery, OBootStatus, ORelocate, ORelocateDone} :
       BRANGE(start, end, load + o)
  \/ BRANGE(load + ORelocate, load + ORelocateDone, first)

Relocate(h) ==
  LET run  == mem[load + ORunAddr]
      from == mem[load + OLoadStart]
      fend == from + Size
      rend == run + Size
  IN /\ At(h, "_relocate")
     /\ \/ /\ run = from
           /\ Goto(h, "_relocate_done")
           /\ UNCHANGED reg
        \/ /\ run < from
           /\ IF rend > from /\ OverlapHangs(from, rend, from)
              THEN Goto(h, "_start_hang") /\ UNCHANGED reg
              ELSE /\ Goto(h, "_relocate_copy_to_lower_loop")
                   /\ reg' = [reg EXCEPT ![h].d = run, ![h].s = from, ![h].e = rend]
        \/ /\ from < run
           /\ IF fend > run /\ OverlapHangs(run, fend, run)
              THEN Goto(h, "_start_hang") /\ UNCHANGED reg
              ELSE /\ Goto(h, "_relocate_copy_to_upper_loop")
                   /\ reg' = [reg EXCEPT ![h].d = rend, ![h].s = fend, ![h].e = run]
     /\ UNCHANGED <<mem, base, handoff, boot>>

(* Mutant: the jump target is built on the loop's own register. *)
JumpRelocatedToCursor(h, more) ==
  IF more
  THEN UNCHANGED <<pc, base>>
  ELSE Goto(h, "_relocate_done") /\ base' = [base EXCEPT ![h] = reg[h].s]

(* jr t4: to _relocate_done in the copy the image was linked for. *)
JumpRelocated(h, more) ==
  IF more
  THEN UNCHANGED <<pc, base>>
  ELSE Goto(h, "_relocate_done") /\ base' = [base EXCEPT ![h] = Link]

CopyToLower(h) ==
  LET r == reg[h] IN
  /\ At(h, "_relocate_copy_to_lower_loop")
  /\ Store(r.d, Word(r.s))
  /\ reg' = [reg EXCEPT ![h].d = r.d + 1, ![h].s = r.s + 1]
  /\ JumpRelocated(h, r.d + 1 < r.e)
  /\ UNCHANGED <<handoff, boot>>

CopyToUpper(h) ==
  LET r == reg[h] IN
  /\ At(h, "_relocate_copy_to_upper_loop")
  /\ Store(r.d - 1, Word(r.s - 1))
  /\ reg' = [reg EXCEPT ![h].d = r.d - 1, ![h].s = r.s - 1]
  /\ JumpRelocated(h, r.e < r.d - 1)
  /\ UNCHANGED <<handoff, boot>>

(* A loser reads where the image runs, and keeps the target of its jr t3. *)
WaitRelocateCopyDone(h) ==
  LET run == mem[load + ORunAddr] IN
  /\ At(h, "_wait_relocate_copy_done")
  /\ reg' = [reg EXCEPT ![h].d = run]
  /\ Goto(h, IF run = load THEN "_secondary_spin_loop" ELSE "_wait_loop")
  /\ UNCHANGED <<mem, base, handoff, boot>>

(* Mutant: bge for bgt, so that a status of zero ends the wait. *)
WaitLoopOffByOne(h) ==
  /\ At(h, "_wait_loop")
  /\ IF 0 > mem[load + OBootStatus]
     THEN UNCHANGED <<pc, base>>
     ELSE Goto(h, "_secondary_spin_loop") /\ base' = [base EXCEPT ![h] = Link]
  /\ UNCHANGED <<mem, reg, handoff, boot>>

(* 1: poll the status word of the load copy, then jr t3.  A target that is  *)
(* not the link address is no code of zStage.                               *)
WaitLoop(h) ==
  /\ At(h, "_wait_loop")
  /\ IF 1 > mem[load + OBootStatus]
     THEN UNCHANGED <<pc, base>>
     ELSE IF reg[h].d = Link
          THEN Goto(h, "_secondary_spin_loop") /\ base' = [base EXCEPT ![h] = Link]
          ELSE Goto(h, "lost") /\ UNCHANGED base
  /\ UNCHANGED <<mem, reg, handoff, boot>>

(* The status word is addressed through what the relocated copy says of     *)
(* where it runs and of where it was loaded.                                *)
RelocateDone(h) ==
  /\ At(h, "_relocate_done")
  /\ Store(base[h] + OBootStatus - mem[base[h] + ORunAddr] + mem[base[h] + OLoadStart], 1)
  /\ Goto(h, "_save_boot_arg1")
  /\ UNCHANGED <<base, reg, handoff, boot>>

SaveBootArg1(h) ==
  /\ At(h, "_save_boot_arg1")
  /\ Store(base[h] + OBootArg1, boot.arg1)
  /\ reg' = [reg EXCEPT ![h].d = base[h] + OBss, ![h].e = base[h] + OPayload]
  /\ Goto(h, "_bss_zero")
  /\ UNCHANGED <<base, handoff, boot>>

(* Mutant: the loop does not advance. *)
BssZeroStuck(h) ==
  /\ At(h, "_bss_zero")
  /\ Store(reg[h].d, 0)
  /\ UNCHANGED <<pc, base, reg, handoff, boot>>

BssZero(h) ==
  LET r == reg[h] IN
  /\ At(h, "_bss_zero")
  /\ Store(r.d, 0)
  /\ reg' = [reg EXCEPT ![h].d = r.d + 1]
  /\ IF r.d + 1 < r.e THEN UNCHANGED pc ELSE Goto(h, "zstage_main")
  /\ UNCHANGED <<base, handoff, boot>>

-----------------------------------------------------------------------------
(* zstage_main(boot_arg1, hdr, blobs): a failed check or platform call      *)
(* hangs the boot hart.  The results of the platform calls are free: they   *)
(* are the hooks of include/zstage/platform.h.                              *)
Call(h, dst, src, len, i, ret) ==
  /\ reg' = [reg EXCEPT ![h] = [d |-> dst, s |-> src, e |-> dst + len, i |-> i, ret |-> ret]]
  /\ Goto(h, "memcpy")

ZstageMain(h) ==
  /\ At(h, "zstage_main")
  /\ \E initialised \in BOOLEAN :
       Goto(h, IF mem[base[h] + OMagic] = Image[OMagic] /\ initialised
               THEN "copy_blobs" ELSE "zstage_hang")
  /\ UNCHANGED <<mem, base, reg, handoff, boot>>

(* while (blobs->size): the sentinel, or an empty blob, ends the loop. *)
CopyBlob(h) ==
  LET i == reg[h].i IN
  /\ At(h, "copy_blobs")
  /\ IF i \in 1 .. Len(Blobs) /\ Blobs[i].size # 0
     THEN Call(h, Blobs[i].dst, Blobs[i].src, Blobs[i].size, i + 1, "copy_blobs")
     ELSE Goto(h, "prepare_fdt") /\ UNCHANGED reg
  /\ UNCHANGED <<mem, base, handoff, boot>>

(* memcpy copies upwards, whatever the overlap. *)
Memcpy(h) ==
  LET r == reg[h] IN
  /\ At(h, "memcpy")
  /\ IF r.d < r.e
     THEN /\ Store(r.d, Word(r.s))
          /\ reg' = [reg EXCEPT ![h].d = r.d + 1, ![h].s = r.s + 1]
          /\ UNCHANGED pc
     ELSE Goto(h, r.ret) /\ UNCHANGED <<mem, reg>>
  /\ UNCHANGED <<base, handoff, boot>>

(* platform_prepare_fdt: boot_arg1 is what the boot hart saved before it   *)
(* zeroed .bss.                                                            *)
PrepareFdt(h) ==
  LET fdt == mem[base[h] + OBootArg1] IN
  /\ At(h, "prepare_fdt")
  /\ IF Word(fdt) = FdtMagic
     THEN Call(h, mem[base[h] + ONextFdt], fdt, FdtLen, 0, "copy_next")
     ELSE Goto(h, "zstage_hang") /\ UNCHANGED reg
  /\ UNCHANGED <<mem, base, handoff, boot>>

(* Mutant: the comparison of load and run address is inverted. *)
CopyNextInverted(h) ==
  LET run == mem[base[h] + ONextRun] IN
  /\ At(h, "copy_next")
  /\ IF Link + OPayload = run
     THEN Call(h, run, Link + OPayload, PayLen, 0, "final_init")
     ELSE Goto(h, "final_init") /\ UNCHANGED reg
  /\ UNCHANGED <<mem, base, handoff, boot>>

CopyNext(h) ==
  LET run == mem[base[h] + ONextRun] IN
  /\ At(h, "copy_next")
  /\ IF Link + OPayload # run
     THEN Call(h, run, Link + OPayload, PayLen, 0, "final_init")
     ELSE Goto(h, "final_init") /\ UNCHANGED reg
  /\ UNCHANGED <<mem, base, handoff, boot>>

(* Mutant: the spin word is released before platform_final_init is asked. *)
FinalInitAfterRelease(h) ==
  /\ At(h, "final_init")
  /\ \E initialised \in BOOLEAN :
       Goto(h, IF initialised THEN "_release_spin" ELSE "zstage_hang")
  /\ Store(base[h] + OSpin, mem[base[h] + ONextRun])
  /\ UNCHANGED <<base, reg, handoff, boot>>

FinalInit(h) ==
  /\ At(h, "final_init")
  /\ \E initialised \in BOOLEAN :
       Goto(h, IF initialised THEN "_release_spin" ELSE "zstage_hang")
  /\ UNCHANGED <<mem, base, reg, handoff, boot>>

-----------------------------------------------------------------------------
(* Mutant: the spin word of the load copy is released. *)
ReleaseLoadCopySpin(h) ==
  /\ At(h, "_release_spin")
  /\ IF boot.nospin
     THEN Store(load + OSpin, mem[base[h] + ONextRun])
     ELSE UNCHANGED mem
  /\ Goto(h, "_jump")
  /\ UNCHANGED <<base, reg, handoff, boot>>

(* Back in head.S: with ZSTAGE_NO_SPIN the boot hart releases the others. *)
ReleaseSpin(h) ==
  /\ At(h, "_release_spin")
  /\ IF boot.nospin
     THEN Store(base[h] + OSpin, mem[base[h] + ONextRun])
     ELSE UNCHANGED mem
  /\ Goto(h, "_jump")
  /\ UNCHANGED <<base, reg, handoff, boot>>

Enter(h, entry, stage) ==
  /\ handoff' = [handoff EXCEPT ![h] = [entry |-> entry, fdt |-> mem[base[h] + ONextFdt]]]
  /\ Goto(h, stage)

Jump(h) ==
  /\ At(h, "_jump")
  /\ Enter(h, mem[base[h] + ONextRun], "booted")
  /\ UNCHANGED <<mem, base, reg, boot>>

(* Mutant: a secondary takes the entry from the header, without waiting. *)
SpinLoopWithoutSpin(h) ==
  /\ At(h, "_secondary_spin_loop")
  /\ Enter(h, mem[base[h] + ONextRun], "joined")
  /\ UNCHANGED <<mem, base, reg, boot>>

SpinLoop(h) ==
  LET entry == mem[base[h] + OSpin] IN
  /\ At(h, "_secondary_spin_loop")
  /\ IF entry = 0
     THEN UNCHANGED <<pc, handoff>>
     ELSE Enter(h, entry, "joined")
  /\ UNCHANGED <<mem, base, reg, boot>>

(* Without ZSTAGE_NO_SPIN the next stage, told where by the image header,  *)
(* writes the spin word itself once it runs.                               *)
NextStageReleases ==
  /\ ~boot.nospin
  /\ \E h \in Harts : pc[h] = "booted"
  /\ mem[Link + OSpin] = 0
  /\ Store(Link + OSpin, NextRun)
  /\ UNCHANGED <<pc, base, reg, handoff, boot>>

(* wfi loops, and harts that are no longer zStage's. *)
Rest(h) == pc[h] \in Stopped /\ UNCHANGED vars

Hart(h) ==
  \/ Start(h) \/ Lottery(h) \/ SaveLoadAddress(h) \/ Relocate(h)
  \/ CopyToLower(h) \/ CopyToUpper(h)
  \/ WaitRelocateCopyDone(h) \/ WaitLoop(h)
  \/ RelocateDone(h) \/ SaveBootArg1(h) \/ BssZero(h)
  \/ ZstageMain(h) \/ CopyBlob(h) \/ Memcpy(h) \/ PrepareFdt(h)
  \/ CopyNext(h) \/ FinalInit(h)
  \/ ReleaseSpin(h) \/ Jump(h) \/ SpinLoop(h)
  \/ Derail(h) \/ Rest(h)

Next == (\E h \in Harts : Hart(h)) \/ NextStageReleases

Spec == Init /\ [][Next]_vars

(* Every hart keeps fetching: the harts run independently of one another. *)
FairSpec == Spec /\ \A h \in Harts : WF_vars(Hart(h))

-----------------------------------------------------------------------------
TypeOK ==
  /\ mem \in [Addr -> Int]
  /\ pc \in [Harts -> Labels]
  /\ base \in [Harts -> {load, Link}]
  /\ reg \in [Harts -> [d : Int, s : Int, e : Int, i : Nat, ret : InMain]]
  /\ handoff \in [Harts -> [entry : Int, fdt : Int]]
  /\ boot \in [load : Loads, nospin : NoSpins, arg1 : Args]

(* The words of the image nothing writes to once it is in place. *)
Fixed == (0 .. Size - 1) \ (Zeroed \union OBss .. OPayload - 1)

(* Every hart executes zStage's own code until it leaves zStage. *)
NoHartLost == \A h \in Harts : pc[h] # "lost"

(* At most one hart wins the relocation lottery and boots the machine.     *)
OneBootHart ==
  \A g, h \in Harts : pc[g] \in WinnerOnly /\ pc[h] \in WinnerOnly => g = h

(* A hart that executes the copy at the link address finds all of the       *)
(* image there, as it was built.                                            *)
RelocatedBeforeUse ==
  \A h \in Harts :
    pc[h] \in AfterRelocation \union {"_secondary_spin_loop"} =>
      /\ base[h] = Link
      /\ \A o \in Fixed : mem[Link + o] = Image[o]

(* What the next stage is promised to find in memory. *)
PayloadPlaced == \A k \in 0 .. PayLen - 1 : mem[NextRun + k] = Image[OPayload + k]
FdtPlaced == \A k \in 0 .. FdtLen - 1 : mem[NextFdt + k] = FdtWord(k)
BlobsPlaced ==
  \A i \in 1 .. Len(Blobs) : \A k \in 0 .. Blobs[i].size - 1 :
    mem[Blobs[i].dst + k] = Image[Blobs[i].src + k - Link]
Placed == PayloadPlaced /\ FdtPlaced /\ BlobsPlaced

(* A hart in the next stage entered it at its run address, with the address *)
(* of its device tree, when the payload, the tree and the blobs were there. *)
HandoffComplete ==
  \A h \in Harts : pc[h] \in {"booted", "joined"} =>
    Placed /\ handoff[h] = [entry |-> NextRun, fdt |-> NextFdt]

(* When the boot hart gives up, no hart enters the next stage. *)
HangHoldsAll ==
  (\E h \in Harts : pc[h] \in {"_start_hang", "zstage_hang"}) =>
    \A h \in Harts : pc[h] \notin {"booted", "joined"}

(* The hart that won the lottery never executes anything but zStage, and    *)
(* never falls back among the waiting: whatever overlap BRANGE accepts, the *)
(* copy does not pull the code from under the hart that copies.             *)
BootHartSurvives ==
  [][\A h \in Harts : pc[h] \in WinnerOnly => pc'[h] \in WinnerOnly]_vars

(* "Jump to relocation wait loop if we don't get relocation lottery", there *)
(* "Waiting for relocate copy done": from the lottery to the copy a loser   *)
(* goes to the spin loop.                                                   *)
LosersWait ==
  [][\A h \in Harts :
       pc[h] \in {"_wait_relocate_copy_done", "_wait_loop"} =>
         pc'[h] \in {pc[h], "_wait_loop", "_secondary_spin_loop"}]_vars

-----------------------------------------------------------------------------
(* The boot hart always gets an answer: it enters the next stage, or hangs. *)
BootEnds == <>(\E h \in Harts : pc[h] \in {"_start_hang", "zstage_hang", "booted"})

(* Once a boot hart built with ZSTAGE_NO_SPIN is in the next stage, every   *)
(* other hart gets there.                                                   *)
EveryHartJoins ==
  (boot.nospin /\ \E h \in Harts : pc[h] = "booted")
    ~> (\A h \in Harts : pc[h] \in {"booted", "joined"})

(***************************************************************************)
(* Head implements BootPromise.  The spin word counts as a release from    *)
(* the moment the boot hart has been past _release_spin: before the copy,  *)
(* the word at its address is whatever the memory held.                    *)
(***************************************************************************)
Promise ==
  INSTANCE BootPromise WITH
    stage <- [h \in Harts |->
                CASE pc[h] \in {"booted", "joined"} -> "next"
                  [] pc[h] \in {"_start_hang", "zstage_hang"} -> "hung"
                  [] OTHER -> "zstage"],
    bootHart <- {h \in Harts : pc[h] \in WinnerOnly},
    placed <- Placed,
    released <- /\ \E h \in Harts : pc[h] \in {"_jump", "booted"}
                /\ mem[Link + OSpin] # 0

KeepsPromise == Promise!Spec
=============================================================================

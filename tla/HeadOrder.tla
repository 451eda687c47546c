------------------------------ MODULE HeadOrder ------------------------------
(***************************************************************************)
(* When the stores of the boot hart become visible to the others.  Head    *)
(* takes memory to be sequentially consistent; here the boot hart of       *)
(* firmware/head.S, relocated and built with ZSTAGE_NO_SPIN, puts its      *)
(* stores in a buffer, and they reach memory in program order (InOrder,    *)
(* RISC-V's Ztso) or in any order that keeps the stores to one word apart  *)
(* (RVWMO).  "fence rw, rw" waits for all of them.  A secondary hart may   *)
(* under RVWMO perform the load of the spin word before that of the status *)
(* it follows: a branch orders no load after a load.                       *)
(***************************************************************************)
EXTENDS Naturals, Sequences

CONSTANTS
  Secondaries,  \* the harts that lost the lottery
  Code,         \* the words of the running image a waiting hart executes
  Payload,      \* the words zstage_main copies for the next stage
  Spin,         \* _zstage_spin_addr of the running image
  Status,       \* _zstage_boot_status of the load copy
  InOrder       \* the machine keeps loads and stores in program order

OrderAssumption ==
  /\ InOrder \in BOOLEAN
  /\ Code \cap Payload = {}
  /\ Spin \notin Code \union Payload
  /\ Status \notin Code \union Payload \union {Spin}

ASSUME OrderAssumed == OrderAssumption

Image == Code \union {Spin}

Cells == Image \union Payload \union {Status}

(* What a word holds: what was there before, what the copy (or the status   *)
(* store) puts there, or the run address of the next stage.  The image has  *)
(* a zero spin word.                                                        *)
Values == {"old", "new", "entry"}

VARIABLES
  mem,     \* what the other harts see
  buffer,  \* the stores of the boot hart they do not see yet
  left,    \* the words its copy loop has yet to store
  boot,    \* its label
  pc,      \* the labels of the secondaries
  ahead    \* the spin word a secondary has loaded early, or "none"

vars == <<mem, buffer, left, boot, pc, ahead>>

BootLabels ==
  {"_relocate_copy_loop", "_relocate_done", "fence_189", "memcpy",
   "_release_spin", "fence_218", "_jump"}

Labels == {"_wait_loop", "_secondary_spin_loop", "joined", "lost"}

Init ==
  /\ mem = [c \in Cells |-> "old"]
  /\ buffer = <<>>
  /\ left = Image
  /\ boot = "_relocate_copy_loop"
  /\ pc = [s \in Secondaries |-> "_wait_loop"]
  /\ ahead = [s \in Secondaries |-> "none"]

Secondary == <<pc, ahead>>

-----------------------------------------------------------------------------
(* REG_S of the boot hart. *)
Put(c, v) == buffer' = Append(buffer, [cell |-> c, val |-> v])

(* Store number i of the buffer becomes visible. *)
Drain(i) ==
  /\ i \in 1 .. Len(buffer)
  /\ InOrder => i = 1
  /\ \A j \in 1 .. i - 1 : buffer[j].cell # buffer[i].cell
  /\ mem' = [mem EXCEPT ![buffer[i].cell] = buffer[i].val]
  /\ buffer' = SubSeq(buffer, 1, i - 1) \o SubSeq(buffer, i + 1, Len(buffer))
  /\ UNCHANGED <<left, boot, Secondary>>

(* Mutant: the loop ends one word early. *)
CopyLoopShort(label, after, then) ==
  /\ boot = label
  /\ \E c \in left :
       /\ Put(c, "new")
       /\ IF \E d \in left \ {c} : left = {c, d}
          THEN boot' = after /\ left' = then
          ELSE boot' = label /\ left' = left \ {c}
  /\ UNCHANGED <<mem, Secondary>>

(* A copy loop stores every word once, in an order that depends on the      *)
(* direction it runs in.                                                    *)
CopyLoop(label, after, then) ==
  /\ boot = label
  /\ \E c \in left :
       /\ Put(c, "new")
       /\ IF left = {c}
          THEN boot' = after /\ left' = then
          ELSE boot' = label /\ left' = left \ {c}
  /\ UNCHANGED <<mem, Secondary>>

Copy == CopyLoop("_relocate_copy_loop", "_relocate_done", {})

(* Mutant: the status word of the running image, which nobody polls. *)
RelocateDoneAtLink ==
  /\ boot = "_relocate_done"
  /\ Put("link_status", "new")
  /\ boot' = "fence_189"
  /\ UNCHANGED <<mem, left, Secondary>>

RelocateDone ==
  /\ boot = "_relocate_done"
  /\ Put(Status, "new")
  /\ boot' = "fence_189"
  /\ UNCHANGED <<mem, left, Secondary>>

(* Mutant: a fence that orders nothing. *)
FenceNothing(label, after, then) ==
  /\ boot = label
  /\ boot' = after
  /\ left' = then
  /\ UNCHANGED <<mem, buffer, Secondary>>

(* fence rw, rw *)
Fence(label, after, then) ==
  /\ boot = label
  /\ buffer = <<>>
  /\ boot' = after
  /\ left' = then
  /\ UNCHANGED <<mem, buffer, Secondary>>

FenceStatus == Fence("fence_189", "memcpy", Payload)

(* The memcpy calls of zstage_main and of platform_prepare_fdt. *)
Place == CopyLoop("memcpy", "_release_spin", {})

(* Mutant: the code between #ifdef ZSTAGE_NO_SPIN and #endif is left out. *)
ReleaseNothing ==
  /\ boot = "_release_spin"
  /\ boot' = "fence_218"
  /\ UNCHANGED <<mem, buffer, left, Secondary>>

ReleaseSpin ==
  /\ boot = "_release_spin"
  /\ Put(Spin, "entry")
  /\ boot' = "fence_218"
  /\ UNCHANGED <<mem, left, Secondary>>

FenceSpin == Fence("fence_218", "_jump", {})

-----------------------------------------------------------------------------
(* 1: poll the status; there is no fence on the way to the spin loop. *)
WaitLoop(s) ==
  /\ pc[s] = "_wait_loop"
  /\ mem[Status] = "new"
  /\ pc' = [pc EXCEPT ![s] = "_secondary_spin_loop"]
  /\ UNCHANGED <<mem, buffer, left, boot, ahead>>

(* The load of the spin word is performed before that of the status. *)
LoadAhead(s) ==
  /\ ~InOrder
  /\ pc[s] = "_wait_loop"
  /\ ahead[s] = "none"
  /\ ahead' = [ahead EXCEPT ![s] = mem[Spin]]
  /\ UNCHANGED <<mem, buffer, left, boot, pc>>

(* A hart that fetches a word the copy has not put there is lost, and one   *)
(* that finds an old spin word is, unless that happens to be zero.          *)
SpinLoop(s) ==
  LET spin == IF ahead[s] = "none" THEN mem[Spin] ELSE ahead[s] IN
  /\ pc[s] = "_secondary_spin_loop"
  /\ \E to \in Labels :
       /\ pc' = [pc EXCEPT ![s] = to]
       /\ to \in IF \E c \in Code : mem[c] = "old" THEN {"lost"}
                 ELSE IF spin = "old" THEN {"lost", "_secondary_spin_loop"}
                 ELSE IF spin = "new" THEN {"_secondary_spin_loop"}
                 ELSE {"joined"}
  /\ ahead' = [ahead EXCEPT ![s] = "none"]
  /\ UNCHANGED <<mem, buffer, left, boot>>

Boot == Copy \/ RelocateDone \/ FenceStatus \/ Place \/ ReleaseSpin \/ FenceSpin

Visible == \E i \in 1 .. Len(buffer) : Drain(i)

Hart(s) == WaitLoop(s) \/ LoadAhead(s) \/ SpinLoop(s)

Next == Boot \/ Visible \/ \E s \in Secondaries : Hart(s)

Spec == Init /\ [][Next]_vars

(* The harts run independently, and a store does not stay invisible.        *)
FairSpec ==
  /\ Spec
  /\ WF_vars(Boot)
  /\ WF_vars(Visible)
  /\ \A s \in Secondaries : WF_vars(WaitLoop(s)) /\ WF_vars(SpinLoop(s))

-----------------------------------------------------------------------------
TypeOK ==
  /\ mem \in [Cells -> Values]
  /\ buffer \in Seq([cell : Cells, val : Values])
  /\ left \subseteq Cells
  /\ boot \in BootLabels
  /\ pc \in [Secondaries -> Labels]
  /\ ahead \in [Secondaries -> Values \union {"none"}]

(* "Mark relocate copy done": a hart that has seen the status of head.S:188 *)
(* sees the whole relocated image.                                          *)
FlagMeansCopied ==
  \A s \in Secondaries : pc[s] # "_wait_loop" => \A c \in Image : mem[c] # "old"

(* A hart the spin word of head.S:217 has sent to the next stage sees the   *)
(* whole payload there.                                                     *)
SpinMeansPlaced ==
  \A s \in Secondaries : pc[s] = "joined" => \A c \in Payload : mem[c] = "new"

(* The fence of head.S:189: what zstage_main stores is never seen before    *)
(* the relocated image and the status are, on any machine.                  *)
PayloadAfterImage ==
  (\E c \in Payload : mem[c] = "new") =>
    mem[Status] = "new" /\ \A c \in Image : mem[c] # "old"

(* The fence of head.S:218: when the boot hart jumps, the release and all   *)
(* it releases the others to can be seen by them, on any machine.           *)
ReleasedAtJump ==
  boot = "_jump" => mem[Spin] = "entry" /\ \A c \in Payload : mem[c] = "new"

(* Where stores stay in order, every secondary gets to the next stage.      *)
EverySecondaryJoins == <>(\A s \in Secondaries : pc[s] = "joined")
=============================================================================

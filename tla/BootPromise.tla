---------------------------- MODULE BootPromise -----------------------------
(***************************************************************************)
(* What zStage promises the next booting stage, whatever it does to get    *)
(* there: one hart boots the machine; no hart enters the next stage before *)
(* everything that stage needs is in its place, the others not before they *)
(* are released; and a boot that fails releases nobody.                    *)
(***************************************************************************)
CONSTANT Harts

VARIABLES
  stage,     \* where each hart is: in zStage, hung in it, or in the next stage
  bootHart,  \* the hart that boots the machine, once it is known
  placed,    \* payload, device tree and blobs are where the next stage wants them
  released   \* the other harts may go on

vars == <<stage, bootHart, placed, released>>

Init ==
  /\ stage = [h \in Harts |-> "zstage"]
  /\ bootHart = {}
  /\ placed = FALSE
  /\ released = FALSE

Elect(h) ==
  /\ bootHart = {}
  /\ bootHart' = {h}
  /\ UNCHANGED <<stage, placed, released>>

Place ==
  /\ bootHart # {}
  /\ ~placed
  /\ placed' = TRUE
  /\ UNCHANGED <<stage, bootHart, released>>

Release ==
  /\ placed
  /\ ~released
  /\ released' = TRUE
  /\ UNCHANGED <<stage, bootHart, placed>>

Enter(h) ==
  /\ stage[h] = "zstage"
  /\ placed
  /\ h \in bootHart \/ released
  /\ stage' = [stage EXCEPT ![h] = "next"]
  /\ UNCHANGED <<bootHart, placed, released>>

Hang(h) ==
  /\ stage[h] = "zstage"
  /\ h \in bootHart
  /\ ~released
  /\ stage' = [stage EXCEPT ![h] = "hung"]
  /\ UNCHANGED <<bootHart, placed, released>>

Next ==
  \/ \E h \in Harts : Elect(h) \/ Enter(h) \/ Hang(h)
  \/ Place \/ Release

Spec == Init /\ [][Next]_vars
=============================================================================

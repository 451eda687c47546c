------------------------------- MODULE MCHead -------------------------------
(***************************************************************************)
(* Small machines for Head: an image of 19 words linked at 30, with two    *)
(* words of .bss, two of payload and a blob of one word; and one with a    *)
(* payload long enough to cover the code of the copy it was loaded as.     *)
(***************************************************************************)
EXTENDS PromiseProofs

MCAddr == 0 .. 79
MCBlobs == <<[src |-> Link + 18, dst |-> 74, size |-> 1]>>

(* Where a boot works: at the link address, below and above it without an   *)
(* overlap, below it with an overlap in .bss and payload only, and below and *)
(* above it with an overlap head.S refuses.                                 *)
SafeLoads == {30, 8, 50, 16, 20, 32}

(* Above the link address with an overlap head.S accepts, because only the  *)
(* words before _relocate lie in it.                                        *)
AcceptedLoads == {42, 45, 48}

NoBlobs == <<>>

(* The hypotheses of the theorems: the first layouts satisfy all of them,   *)
(* the second miss the one that AcceptedLoads is named for.                 *)
ASSUME LayoutsKnown ==
  /\ Loads = SafeLoads => SafeLayout /\ HandoffLayout /\ FreshTree
  /\ Loads = AcceptedLoads => ~SafeLayout
=============================================================================

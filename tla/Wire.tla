--------------------------------- MODULE Wire ---------------------------------
(***************************************************************************)
(* What a console device promises to putc and nputs: every character it    *)
(* has been asked to write is shown, in the order of the calls, each once. *)
(***************************************************************************)
EXTENDS SequencesExt

VARIABLES
  asked,  \* the characters the device has been asked to write
  shown   \* those that have come out

Init == asked = <<>> /\ shown = <<>>

Ask == IsStrictPrefix(asked, asked') /\ UNCHANGED shown

Show == IsStrictPrefix(shown, shown') /\ IsPrefix(shown', asked) /\ UNCHANGED asked

(* A debugger writes what it is given while the hart waits. *)
AskAndShow == IsStrictPrefix(asked, asked') /\ shown = asked /\ shown' = asked'

Next == Ask \/ Show \/ AskAndShow

Spec == Init /\ [][Next]_<<asked, shown>>
=============================================================================

----------------------------- MODULE AllOrError -----------------------------
(***************************************************************************)
(* What a bulk deletion promises its caller: items go away a few at a      *)
(* time, the call may give up at any moment, and it reports success only   *)
(* when every item it was given is gone.                                   *)
(***************************************************************************)
CONSTANT Items

VARIABLES
  given,   \* the items of this call
  gone,    \* those deleted so far
  status   \* "running", "resolved" or "rejected"

vars == <<given, gone, status>>

Init ==
  /\ given \in SUBSET Items
  /\ gone = {}
  /\ status = IF given = {} THEN "resolved" ELSE "running"

\* Some items are deleted; the call goes on, ends well or gives up.
Progress ==
  /\ status = "running"
  /\ gone' \in SUBSET given
  /\ gone \subseteq gone'
  /\ status' \in {"running", "resolved", "rejected"}
  /\ status' = "resolved" => gone' = given
  /\ UNCHANGED given

Next == Progress

Spec == Init /\ [][Next]_vars

=============================================================================

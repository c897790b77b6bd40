----------------------------- MODULE SendOnce -----------------------------
(***************************************************************************)
(* What owner-approved sending promises of one draft, without approvals,   *)
(* requests, journals or readbacks: the draft is committed to a send, the  *)
(* provider is called at most once while it is, the draft is opened again  *)
(* only when no call was made, and it is called sent only after the call.  *)
(* A call whose fate stays unknown leaves the draft committed for ever.    *)
(***************************************************************************)
EXTENDS Naturals

VARIABLES phase,  \* "open", "committed" or "sent"
          calls   \* provider calls that were ever made for the draft

Init == phase = "open" /\ calls = 0

Commit == phase = "open" /\ calls = 0 /\ phase' = "committed" /\ UNCHANGED calls

Call == phase = "committed" /\ calls = 0 /\ calls' = 1 /\ UNCHANGED phase

Reopen == phase = "committed" /\ calls = 0 /\ phase' = "open" /\ UNCHANGED calls

Conclude == phase = "committed" /\ calls = 1 /\ phase' = "sent" /\ UNCHANGED calls

Next == Commit \/ Call \/ Reopen \/ Conclude

Spec == Init /\ [][Next]_<<phase, calls>>
============================================================================

------------------------- MODULE MutationPromise -------------------------
(***************************************************************************)
(* What the policy package promises of an authorised action, without       *)
(* executors, claims, readbacks or crashes: it is started at most once, its *)
(* effect lands in the mailbox at most once and never before the start, a  *)
(* cancelled action has none, and an action is called verified only when   *)
(* the mailbox is in the state the action asked for.  An effect may still  *)
(* land after the action was given up as failed or unverifiable.           *)
(***************************************************************************)
EXTENDS Naturals

CONSTANTS Actions,
          Already   \* actions whose target state held beforehand

VARIABLES phase, landed

Phases == {"waiting", "started", "verified", "failed", "unverifiable",
           "cancelled"}

Init ==
    /\ phase = [a \in Actions |-> "waiting"]
    /\ landed = [a \in Actions |-> 0]

Move(a, next) == phase' = [phase EXCEPT ![a] = next] /\ UNCHANGED landed

Start(a) == phase[a] = "waiting" /\ Move(a, "started")

Refuse(a) == phase[a] = "waiting" /\ Move(a, "cancelled")

Land(a) ==
    /\ phase[a] \notin {"waiting", "cancelled"}
    /\ landed[a] = 0
    /\ landed' = [landed EXCEPT ![a] = 1]
    /\ UNCHANGED phase

Verify(a) ==
    /\ phase[a] = "started"
    /\ landed[a] > 0 \/ a \in Already
    /\ Move(a, "verified")

GiveUp(a) ==
    /\ phase[a] \in {"waiting", "started"}
    /\ Move(a, "failed") \/ Move(a, "unverifiable")

Next == \E a \in Actions :
    Start(a) \/ Refuse(a) \/ Land(a) \/ Verify(a) \/ GiveUp(a)

Spec == Init /\ [][Next]_<<phase, landed>>
============================================================================

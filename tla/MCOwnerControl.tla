--------------------------- MODULE MCOwnerControl ---------------------------
(***************************************************************************)
(* What the owner allows and who acts on it: approved sends, and beside    *)
(* them the owner's services.  No state is shared, so a behaviour picks    *)
(* one of them and leaves the others as they start.                        *)
(***************************************************************************)
EXTENDS ApprovedSend, OwnerServices, Sequences, TLC

CONSTANT MaxRecords    \* bound: runs and events of the activity together

\* Handlers are interchangeable.
Symmetry == Permutations(Handlers)

VARIABLE part

sending == <<draft, approval, approvedAt, lapsed, request, overdue, action, submission,
             reference, started, stale, session, pc, job, version, reply, crashes, mistaken, calls,
             delivered>>

ControlInit ==
    /\ Init /\ Access!Init /\ Authority!Init /\ History!Init /\ Tenants!Init
    /\ part \in {"sending", "access", "authority", "history", "tenants"}
    /\ part # "authority" => assignment.manager = "none"

ControlNext ==
    /\ UNCHANGED part
    /\ \/ part = "sending" /\ Next /\ UNCHANGED <<access, authority, history, tenants>>
       \/ part = "access" /\ Access!Next /\ UNCHANGED <<sending, authority, history, tenants>>
       \/ part = "authority" /\ Authority!Next /\ UNCHANGED <<sending, access, history, tenants>>
       \/ /\ part = "history" /\ History!Next /\ UNCHANGED <<sending, access, authority, tenants>>
          /\ Len(runs') + Len(events') <= MaxRecords
       \/ part = "tenants" /\ Tenants!Next /\ UNCHANGED <<sending, access, authority, history>>

ControlSpec ==
    ControlInit /\ [][ControlNext]_<<sending, access, authority, history, tenants, part>>
=============================================================================

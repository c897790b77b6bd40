---------------------------- MODULE OwnerServices ----------------------------
(***************************************************************************)
(* Who may act on a mailbox and what is on record of it: beside the        *)
(* owner's own access the authority of connected agents, the history of    *)
(* their work, and the sessions a mailbox is reached by.  They share no    *)
(* state; what must hold of them is stated here, for the runs that check   *)
(* it and the theorems about it.                                           *)
(***************************************************************************)
EXTENDS OwnerAccess, FiniteSets

CONSTANTS
    Connections,        \* agent connections of the owner
    MaxRevisions,       \* bound: revisions of what an agent's authority rests on
    MaxGeneration,      \* bound: generations of a token family
    Actions,            \* identities of actions
    NoAction,           \* not an action
    MaxRuns,            \* bound: runs of an activity
    MaxEvents,          \* bound: its events
    MaxRevision,        \* bound: its revision
    Users,              \* tenants with a route
    Callers,            \* operations that lease a session
    MaxSessions,        \* sessions of the pool
    MaxEntries,         \* bound: sessions ever begun
    MaxConfigurations   \* bound: configurations

ASSUME ServicesAssumption ==
    /\ "mastra" \notin Connections /\ "none" \notin Connections
    /\ MaxRevisions \in Nat /\ MaxGeneration \in Nat \ {0}
    /\ NoAction \notin Actions
    /\ MaxRuns \in Nat /\ MaxEvents \in Nat /\ MaxRevision \in Nat \ {0}
    /\ IsFiniteSet(Users) /\ IsFiniteSet(Callers)
    /\ MaxSessions \in Nat \ {0} /\ MaxEntries \in Nat /\ MaxConfigurations \in Nat \ {0}

VARIABLES
    connection, assignment, grants, reapprovals, ceiling, consent, family, fenced, changes,
    activity, runs, work, evidence, events, memory,
    entry, pool, configuration, closed, lease

authority == <<connection, assignment, grants, reapprovals, ceiling, consent, family, fenced,
               changes>>
history == <<activity, runs, work, evidence, events, memory>>
tenants == <<entry, pool, configuration, closed, lease>>

Authority == INSTANCE AgentAuthority
             WITH MaxChanges <- MaxRevisions, approvals <- reapprovals, lapsed <- fenced
History == INSTANCE WorkHistory WITH action <- work
Tenants == INSTANCE TenantSessions
           WITH MaxVersions <- MaxConfigurations, version <- configuration

-----------------------------------------------------------------------------

\* A password, a recovery link, a grant or a token that was replaced, taken
\* back or used up opens nothing any more, whoever read it before.
AccessIsCurrent ==
    /\ Access!TypeOK /\ Access!OldCredentialsAreDead
    /\ Authority!TypeOK /\ Authority!AccessNeedsApproval /\ Authority!ReuseEndsFamily

\* Once an access is refused for its revisions, it stays refused.
RefusedStaysRefused == Authority!RefusedStaysRefused

\* The records of runs, actions, evidence, events and memories agree, however
\* callers race and repeat themselves and whatever they write beside.
HistoryAgrees ==
    /\ History!TypeOK
    /\ History!VerifiedIsOnRecord /\ History!RetriesFollowFailure /\ History!ContinuedOnce

\* A leased session is open, unless the configuration changed while it was being
\* initialised, and no open session is forgotten.
SessionsAreSound == Tenants!TypeOK /\ Tenants!LeasedIsOpen /\ Tenants!NoneForgotten
=============================================================================

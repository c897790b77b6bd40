---------------------------- MODULE WorkServices ----------------------------
(***************************************************************************)
(* Work that goes on while processes fail: beside the owner's access with  *)
(* its recovery mail the tasks of hosted agents and the journaled tool     *)
(* calls of connected ones.  They share no state; what must hold of them   *)
(* is stated here, for the runs that check it and the theorems about it.   *)
(***************************************************************************)
EXTENDS OwnerAccess, FiniteSets

CONSTANTS
    HostedTasks,     \* tasks of the owner
    TaskWorkers,     \* executors that claim them
    NoOne,           \* not an executor
    MaxClaims,       \* claims of one task
    MaxLeased,       \* tasks that may be leased at a time
    MaxPending,      \* tasks that may wait
    MaxTroubles,     \* bound: crashes, lost answers, slow leases, owner changes
    Mutations,       \* tool calls, each with the action it journals
    Drafts,          \* those on drafts
    Executors,       \* deliveries of policy.execute
    MaxFaults        \* bound: crashes, lost answers, readings in vain, revocations

ASSUME WorkAssumption ==
    /\ IsFiniteSet(HostedTasks) /\ HostedTasks # {} /\ NoOne \notin TaskWorkers
    /\ MaxClaims \in Nat /\ MaxLeased \in Nat /\ MaxPending \in Nat /\ MaxTroubles \in Nat
    /\ Mutations # {} /\ MaxFaults \in Nat

VARIABLES
    task, late, awaiting, verified, owned, reports, worker, strays, troubles,
    call, provider, handler, executor, authorized, faults

tasks == <<task, late, awaiting, verified, owned, reports, worker, strays, troubles>>
calls == <<call, provider, handler, executor, authorized, faults>>

Tasks == INSTANCE AgentTasks
         WITH Tasks <- HostedTasks, Workers <- TaskWorkers, MaxAttempts <- MaxClaims,
              MaxFaults <- MaxTroubles, authority <- owned, faults <- troubles
Calls == INSTANCE McpMutations WITH row <- call, authority <- authorized

-----------------------------------------------------------------------------

\* Executors that claim different tasks at the same time do not lease more of
\* them than the operator allows the owner, and no recovery mail is claimed or
\* handed over more often than the code allows.
Consistent ==
    /\ Access!TypeOK /\ Access!MailIsBounded
    /\ Tasks!TypeOK /\ Tasks!ConcurrencyBounded

\* A tool call and the recovery that takes it for interrupted work never both
\* ask the provider, and the journal and the answer tell what took effect.
JournalTellsTruth == Calls!TypeOK /\ Calls!AskedOnce /\ Calls!JournalTellsTruth

\* A report ends its own attempt, once, and what is refused never counts,
\* whatever answers are lost and whatever comes late or again.
ReportsAreHonest == Tasks!ReportsAreHonest
=============================================================================

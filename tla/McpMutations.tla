---------------------------- MODULE McpMutations ----------------------------
(***************************************************************************)
(* A mutating tool call of a connected agent: TenantRoutedMailboxAdapter   *)
(* (apps/web/src/mcp/tenant-mailbox.ts) and TenantDraftServiceAdapter      *)
(* (tenant-drafts.ts), the journal that records the call                   *)
(* (postgres-mutation-journal.ts) and, on the same rows, the recovery of   *)
(* policy execution (apps/worker/src/policy.ts and packages/policy), which *)
(* takes every open action for its own, whoever is carrying it out.        *)
(*                                                                         *)
(* Left out: pauses and preconditions, which PolicyExecution models; the   *)
(* provider's proven refusals; what identifies messages and folders.       *)
(***************************************************************************)
EXTENDS Naturals

CONSTANTS
    Mutations,     \* tool calls, each with the action it journals
    Drafts,        \* those on drafts
    Executors,     \* deliveries of policy.execute
    MaxFaults      \* bound: crashes, lost answers, readings in vain, revocations

VARIABLES
    row,           \* the action, the events of its activity, run and activity
    authority,     \* token, assignment, grant and ceiling are what they were
    provider,      \* requests for the mutation, and whether it took effect
    handler,       \* how far the tool call is
    executor,      \* what each delivery is doing
    faults

vars == <<row, authority, provider, handler, executor, faults>>

Open == {"authorized", "executing", "verifying"}
Settled == {"verified", "failed", "unverifiable", "cancelled"}
NoRow == [state |-> "none", events |-> 0, reported |-> FALSE, run |-> "none", activity |-> "none"]
Resting == [stage |-> "idle", mutation |-> CHOOSE m \in Mutations : TRUE, confirmed |-> FALSE]

Init ==
    /\ row = [m \in Mutations |-> NoRow]
    /\ authority = TRUE
    /\ provider = [m \in Mutations |-> [asked |-> 0, applied |-> FALSE]]
    /\ handler = [m \in Mutations |-> "idle"]
    /\ executor = [e \in Executors |-> Resting]
    /\ faults = 0

Fault == faults < MaxFaults /\ faults' = faults + 1
Stage(m, to) == handler' = [handler EXCEPT ![m] = to]

\* The provider carries out a request and answers, or the answer is an error
\* that leaves open whether it did.
Ask(m, answered) ==
    \E applied \in IF answered THEN {TRUE} ELSE BOOLEAN :
       provider' = [provider EXCEPT ![m] = [asked |-> @.asked + 1, applied |-> @.applied \/ applied]]

-----------------------------------------------------------------------------
(* The tool call and its journal *)

\* prepare(): under the locks of everything the authority rests on.
Prepare(m) ==
    /\ handler[m] = "idle"
    /\ IF authority
       THEN /\ row' = [row EXCEPT ![m] = [state |-> "authorized", events |-> 2, reported |-> FALSE,
                                          run |-> "running", activity |-> "open"]]
            /\ Stage(m, "prepared")
       ELSE UNCHANGED row /\ Stage(m, "refused")
    /\ UNCHANGED <<authority, provider, executor, faults>>

\* The event carries the number 3, which the trigger compares.
StartFits(m) == row[m].events = 2

\* start(): the state moves if it still may; the event must fit.
Start(m) ==
    /\ handler[m] = "prepared"
    /\ IF StartFits(m)
       THEN /\ row' = [row EXCEPT ![m] =
                          [row[m] EXCEPT !.state = IF @ = "authorized" THEN "executing" ELSE @,
                                         !.events = @ + 1]]
            /\ Stage(m, "started")
       ELSE UNCHANGED row /\ Stage(m, "refused")
    /\ UNCHANGED <<authority, provider, executor, faults>>

\* cancel() carries the event numbers 4 and 5.
Cancels(m) == row[m].events = 3 /\ row[m].state \in {"authorized", "executing"}

\* finalFence(), and cancel() when it fails.
FinalFence(m) ==
    /\ handler[m] = "started"
    /\ IF authority
       THEN UNCHANGED row /\ Stage(m, "fenced")
       ELSE /\ row' = IF Cancels(m)
                      THEN [row EXCEPT ![m] =
                              [row[m] EXCEPT !.state = "cancelled", !.events = @ + 2,
                                             !.run = "cancelled", !.activity = "resolved"]]
                      ELSE row
            /\ Stage(m, "refused")
    /\ UNCHANGED <<authority, provider, executor, faults>>

Call(m) ==
    /\ handler[m] = "fenced"
    /\ \/ Ask(m, TRUE) /\ Stage(m, "called") /\ UNCHANGED faults
       \/ Ask(m, FALSE) /\ Stage(m, "failing") /\ Fault
    /\ UNCHANGED <<row, authority, executor>>

\* verifying() carries the event number 4; unless it fits the call has failed.
Verifying(m) ==
    /\ handler[m] = "called"
    /\ IF row[m].events = 3
       THEN /\ row' = [row EXCEPT ![m] = [row[m] EXCEPT !.state = "verifying", !.reported = TRUE,
                                                        !.events = @ + 1]]
            /\ Stage(m, "verifying")
       ELSE UNCHANGED row /\ Stage(m, "failing")
    /\ UNCHANGED <<authority, provider, executor, faults>>

\* Readback and verified(): a row that recovery settled meanwhile is left as it is.
Verified(m) ==
    /\ handler[m] = "verifying"
    /\ provider[m].applied
    /\ row' = IF row[m].state = "verifying"
              THEN [row EXCEPT ![m] =
                      [row[m] EXCEPT !.state = "verified", !.events = @ + 2,
                                     !.run = "completed", !.activity = "resolved"]]
              ELSE row
    /\ Stage(m, "done")
    /\ UNCHANGED <<authority, provider, executor, faults>>

\* Folders or the message cannot be read.
NotObserved(m) ==
    /\ handler[m] = "verifying"
    /\ Fault
    /\ Stage(m, "failing")
    /\ UNCHANGED <<row, authority, provider, executor>>

\* finish(unverifiable)
Finish(m) ==
    /\ handler[m] = "failing"
    /\ row' = IF row[m].state \in {"executing", "verifying"}
              THEN [row EXCEPT ![m] =
                      [row[m] EXCEPT !.state = "unverifiable", !.events = @ + 1,
                                     !.run = "failed", !.activity = "attention_required"]]
              ELSE row
    /\ Stage(m, "refused")
    /\ UNCHANGED <<authority, provider, executor, faults>>

Ended == {"idle", "done", "refused", "dead"}

\* The web process dies, or a final fence throws, which nobody catches
\* (tenant-mailbox.ts:33): the row stays as it is.
Die(m) ==
    /\ handler[m] \notin Ended
    /\ Fault
    /\ Stage(m, "dead")
    /\ UNCHANGED <<row, authority, provider, executor>>

-----------------------------------------------------------------------------
(* Recovery of open actions by policy execution *)

Leave(e) == executor' = [executor EXCEPT ![e] = Resting]
Settle(m, state, activity) ==
    row' = [row EXCEPT ![m] =
              [row[m] EXCEPT !.state = state, !.events = @ + 1, !.activity = activity]]

\* Mutant of Takes: an action is cancelled or carried out as long as it is open.
TakesOpen(m) == row[m].state \in Open

\* Only an action that nobody started is carried out.
Takes(m) == row[m].state = "authorized"

\* DurablePolicyRecovery.recover()
Recovers(m) == row[m].state \in Open

\* claim(); the target of a journaled draft is not one that the executor's
\* input schema takes, so its delivery throws before.
Claim(e, m) ==
    /\ executor[e].stage = "idle"
    /\ m \notin Drafts
    /\ Recovers(m)
    /\ executor' = [executor EXCEPT ![e] =
          [stage |-> IF Takes(m) THEN "claimed" ELSE "verifying",
           mutation |-> m, confirmed |-> row[m].reported]]
    /\ UNCHANGED <<row, authority, provider, handler, faults>>

\* claimImmediatelyBeforeMutation()
Fence(e) ==
    LET m == executor[e].mutation
    IN /\ executor[e].stage = "claimed"
       /\ \/ ~Takes(m) /\ Leave(e) /\ UNCHANGED row
          \/ Takes(m) /\ ~authority /\ Leave(e) /\ Settle(m, "cancelled", "attention_required")
          \/ /\ Takes(m) /\ authority
             /\ row' = [row EXCEPT ![m] = [row[m] EXCEPT !.state = "executing", !.events = @ + 1]]
             /\ executor' = [executor EXCEPT ![e].stage = "fenced"]
       /\ UNCHANGED <<authority, provider, handler, faults>>

Execute(e) ==
    LET m == executor[e].mutation
    IN /\ executor[e].stage = "fenced"
       /\ \/ /\ Ask(m, TRUE) /\ UNCHANGED faults
             /\ executor' = [executor EXCEPT ![e].stage = "reporting"]
          \/ /\ Ask(m, FALSE) /\ Fault
             /\ executor' = [executor EXCEPT ![e].stage = "verifying"]
       /\ UNCHANGED <<row, authority, handler>>

\* reportProvider()
Report(e) ==
    LET m == executor[e].mutation
    IN /\ executor[e].stage = "reporting"
       /\ IF row[m].state = "executing"
          THEN /\ row' = [row EXCEPT ![m] = [row[m] EXCEPT !.state = "verifying", !.reported = TRUE,
                                                           !.events = @ + 1]]
               /\ executor' = [executor EXCEPT ![e].stage = "verifying", ![e].confirmed = TRUE]
          ELSE UNCHANGED row /\ Leave(e)
       /\ UNCHANGED <<authority, provider, handler, faults>>

\* verify() and complete(): a settled action keeps its outcome.
Complete(e) ==
    LET m == executor[e].mutation
    IN /\ executor[e].stage = "verifying"
       /\ \/ row[m].state \notin Open /\ UNCHANGED <<row, faults>>
          \/ /\ row[m].state \in Open /\ provider[m].applied
             /\ Settle(m, "verified", "resolved") /\ UNCHANGED faults
          \/ /\ row[m].state \in Open /\ ~provider[m].applied
             /\ Settle(m, IF executor[e].confirmed THEN "failed" ELSE "unverifiable",
                       "attention_required")
             /\ UNCHANGED faults
          \/ /\ row[m].state \in Open /\ Fault
             /\ Settle(m, "unverifiable", "attention_required")
       /\ Leave(e)
       /\ UNCHANGED <<authority, provider, handler>>

Crash(e) ==
    /\ executor[e].stage # "idle"
    /\ Fault
    /\ Leave(e)
    /\ UNCHANGED <<row, authority, provider, handler>>

\* The owner or the operator withdraws what the call rests on.
Withdraw ==
    /\ authority
    /\ Fault
    /\ authority' = FALSE
    /\ UNCHANGED <<row, provider, handler, executor>>

Handle(m) == Start(m) \/ FinalFence(m) \/ Call(m) \/ Verifying(m) \/ Verified(m)
             \/ NotObserved(m) \/ Finish(m)

Recover(e) == Fence(e) \/ Execute(e) \/ Report(e) \/ Complete(e)

Next ==
    \/ \E m \in Mutations : Prepare(m) \/ Handle(m) \/ Die(m)
    \/ \E e \in Executors : Recover(e) \/ Crash(e) \/ \E m \in Mutations : Claim(e, m)
    \/ Withdraw

Spec == Init /\ [][Next]_vars

\* A tool call goes on while its process lives; recovery delivers what is
\* open every five seconds, and a delivery goes on.
Fairness ==
    /\ \A m \in Mutations : WF_vars(Handle(m)) /\ WF_vars(\E e \in Executors : Claim(e, m))
    /\ \A e \in Executors : WF_vars(Recover(e))

FairSpec == Spec /\ Fairness

-----------------------------------------------------------------------------
(* Properties *)

TypeOK ==
    /\ row \in [Mutations -> [state : Open \cup Settled \cup {"none"}, events : 0..9,
                              reported : BOOLEAN,
                              run : {"none", "running", "completed", "failed", "cancelled"},
                              activity : {"none", "open", "resolved", "attention_required"}]]
    /\ authority \in BOOLEAN
    /\ provider \in [Mutations -> [asked : 0..3, applied : BOOLEAN]]
    /\ handler \in [Mutations -> Ended \cup {"prepared", "started", "fenced", "called",
                                             "failing", "verifying"}]
    /\ executor \in [Executors -> [stage : {"idle", "claimed", "fenced", "reporting", "verifying"},
                                   mutation : Mutations, confirmed : BOOLEAN]]
    /\ faults \in 0..MaxFaults

\* The tool call and the recovery that mistakes it for interrupted work never
\* both carry the mutation out.
AskedOnce == \A m \in Mutations : provider[m].asked <= 1

\* What the journal and the answer claim is so: verified mutations and calls
\* answered with success took effect, cancelled ones were never asked for.
JournalTellsTruth ==
    \A m \in Mutations :
        /\ row[m].state = "verified" \/ handler[m] = "done" => provider[m].applied
        /\ row[m].state = "cancelled" => provider[m].asked = 0
        /\ row[m].activity = "resolved" => row[m].state \in {"verified", "cancelled"}

\* Every journaled action comes to an outcome for good, also when the web process
\* dies over it, except a draft's: nothing but its own call settles that.
JournalSettles ==
    <>[](\A m \in Mutations :
            row[m].state \in Open => m \in Drafts /\ handler[m] = "dead")
=============================================================================

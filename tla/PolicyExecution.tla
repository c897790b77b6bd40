------------------------- MODULE PolicyExecution -------------------------
(***************************************************************************)
(* The execution of one authorised mailbox action: packages/policy (the    *)
(* PolicyExecutor and its PostgreSQL persistence) together with the worker *)
(* transport that calls Hypermail and reads the result back.               *)
(*                                                                         *)
(* An executor is one delivery of a policy.execute job.  DurablePolicy-    *)
(* Recovery queues every unsettled action again each five seconds, and     *)
(* several worker processes may run, so several executors may hold the     *)
(* same action; any of them may die between two steps.  A database         *)
(* transaction is one step; provider I/O happens between transactions.     *)
(***************************************************************************)
EXTENDS Integers, FiniteSets

CONSTANTS
    Actions,        \* ids of app.agent_authorized_actions
    Executors,      \* concurrent deliveries of policy.execute
    Accounts,       \* mailboxes
    Activities,     \* ids of app.agent_activities
    AccountOf,      \* the mailbox of an action
    ActivityOf,     \* the activity an action belongs to
    KindsOf,        \* the capabilities that an action may ask for
    Preconditioned, \* actions that carry provider preconditions
    Already,        \* actions whose target state holds beforehand
    MaxAttempts,    \* PolicyExecutorOptions.maxAttempts
    Pages,          \* pages of the folder that a readback scans
    RateNum, RateDen,   \* PolicySafetyConfig.maxIncorrectRate
    MaxCrashes,     \* bound: executors that die
    Interventions   \* bound: what the owner does in this instance

FolderKinds == {"archive", "move", "recoverable_trash"}
FlagKinds == {"mark_read", "mark_unread"}
DraftKinds == {"draft_create", "draft_edit"}
Kinds == FolderKinds \cup FlagKinds \cup DraftKinds

ASSUME ActionsAssumption ==
    /\ IsFiniteSet(Actions)
    /\ AccountOf \in [Actions -> Accounts]
    /\ ActivityOf \in [Actions -> Activities]
    /\ KindsOf \in [Actions -> SUBSET Kinds]
    /\ Preconditioned \subseteq Actions
    /\ Already \subseteq {a \in Actions : KindsOf[a] \cap DraftKinds = {}}
ASSUME BoundsAssumption ==
    /\ MaxAttempts \in 1..10
    /\ Pages \in Nat \ {0}
    /\ RateNum \in Nat \ {0} /\ RateDen \in Nat \ {0} /\ RateNum <= RateDen
    /\ MaxCrashes \in Nat

Uncertain == {"executing", "verifying"}
Settled == {"verified", "failed", "unverifiable", "cancelled"}
ActionStates == {"authorized"} \cup Uncertain \cup Settled
Outcomes == {"succeeded", "failed", "incorrect", "unverifiable"}

VARIABLES
    kind,       \* agent_authorized_actions.kind, frozen
    state,      \* agent_authorized_actions.state
    reported,   \* provider_reported_at IS NOT NULL
    expired,    \* verification_deadline_at has passed
    cursor,     \* verification_cursor: pages already read (0 is null)
    legacy,     \* app.actions.state, the projection the web UI reads
    sample,     \* policy_safety_samples inside the sliding window
    granted,    \* the frozen authority still holds
    remembered, \* actions with a mailbox-memory event
    activity,   \* agent_activities.state
    paused,     \* accounts.autonomy_paused_at IS NOT NULL
    allPaused,  \* users.autonomy_paused_at IS NOT NULL
    active,     \* accounts.state in ('ready','degraded')
    alerts,     \* safety activities created per account
    pc, job, tries, confirmed, from, at, result,  \* one executor's locals
    crashes,
    inflight, applied, visible, page  \* Hypermail: requests and the mailbox

records == <<state, reported, legacy, remembered, activity>>
readback == <<kind, expired, cursor>>
safety == <<sample, paused, alerts>>
owner == <<granted, allPaused, active>>
locals == <<pc, job, tries, confirmed, from, at, result>>
provider == <<inflight, applied, visible, page>>
vars == <<records, readback, safety, owner, locals, crashes, provider>>

NoAction == "none"

Init ==
    /\ kind \in {k \in [Actions -> Kinds] : \A a \in Actions : k[a] \in KindsOf[a]}
    /\ state = [a \in Actions |-> "authorized"]
    /\ reported = [a \in Actions |-> FALSE]
    /\ expired = [a \in Actions |-> FALSE]
    /\ cursor = [a \in Actions |-> 0]
    /\ legacy = [a \in Actions |-> "planned"]
    /\ sample = [a \in Actions |-> "none"]
    /\ granted = [a \in Actions |-> TRUE]
    /\ remembered = {}
    /\ activity = [v \in Activities |-> "open"]
    /\ paused = [m \in Accounts |-> FALSE]
    /\ allPaused = FALSE
    /\ active = [m \in Accounts |-> TRUE]
    /\ alerts = [m \in Accounts |-> 0]
    /\ pc = [e \in Executors |-> "idle"]
    /\ job = [e \in Executors |-> NoAction]
    /\ tries = [e \in Executors |-> 0]
    /\ confirmed = [e \in Executors |-> FALSE]
    /\ from = [e \in Executors |-> 0]
    /\ at = [e \in Executors |-> 0]
    /\ result = [e \in Executors |-> "none"]
    /\ crashes = 0
    /\ inflight = [a \in Actions |-> 0]
    /\ applied = [a \in Actions |-> 0]
    /\ visible = [a \in Actions |-> kind[a] # "draft_create"]
    /\ page = [a \in Actions |-> 1]

-----------------------------------------------------------------------------
(* Executor control. *)

Goto(e, label) == pc' = [pc EXCEPT ![e] = label]

\* The job ends: normally, by an exception, or with the process.
Leave(e) ==
    /\ Goto(e, "idle")
    /\ job' = [job EXCEPT ![e] = NoAction]
    /\ tries' = [tries EXCEPT ![e] = 0]
    /\ confirmed' = [confirmed EXCEPT ![e] = FALSE]
    /\ from' = [from EXCEPT ![e] = 0]
    /\ at' = [at EXCEPT ![e] = 0]
    /\ result' = [result EXCEPT ![e] = "none"]

\* verify() is entered with the evidence that the provider confirmed, or not.
Verify(e, evidence) ==
    /\ Goto(e, "verify")
    /\ confirmed' = [confirmed EXCEPT ![e] = evidence]
    /\ UNCHANGED <<job, tries, from, at, result>>

Finish(e, outcome) ==
    /\ Goto(e, "complete")
    /\ result' = [result EXCEPT ![e] = outcome]
    /\ UNCHANGED <<job, tries, confirmed, from, at>>

\* The mailbox is in the state that the action asks for.
InPlace(a) == applied[a] > 0 \/ a \in Already

PausedFor(a) == paused[AccountOf[a]] \/ allPaused

-----------------------------------------------------------------------------
(* PolicyExecutor.execute up to the mutation. *)

\* claim(): an interrupted action is recovered, even while paused; a new one
\* runs only when nothing is paused.  Claims of settled actions return.
ClaimUnpaused(e, a) ==          \* a fault: a pause holds recovery back too
    /\ pc[e] = "idle"
    /\ active[AccountOf[a]]
    /\ ~PausedFor(a)
    /\ \/ /\ state[a] \in Uncertain
          /\ Goto(e, "verify")
          /\ confirmed' = [confirmed EXCEPT ![e] = reported[a]]
       \/ /\ state[a] = "authorized"
          /\ Goto(e, IF a \in Preconditioned THEN "precheck" ELSE "fence")
          /\ UNCHANGED confirmed
    /\ job' = [job EXCEPT ![e] = a]
    /\ UNCHANGED <<tries, from, at, result, records, readback, safety, owner,
                   crashes, provider>>
Claim(e, a) ==
    /\ pc[e] = "idle"
    /\ active[AccountOf[a]]
    /\ \/ /\ state[a] \in Uncertain
          /\ Goto(e, "verify")
          /\ confirmed' = [confirmed EXCEPT ![e] = reported[a]]
       \/ /\ state[a] = "authorized"
          /\ ~PausedFor(a)
          /\ Goto(e, IF a \in Preconditioned THEN "precheck" ELSE "fence")
          /\ UNCHANGED confirmed
    /\ job' = [job EXCEPT ![e] = a]
    /\ UNCHANGED <<tries, from, at, result, records, readback, safety, owner,
                   crashes, provider>>

\* The provider facts are read before the fence; reading may also fail, and
\* the exception ends the job.
Precheck(e) ==
    /\ pc[e] = "precheck"
    /\ \/ /\ Goto(e, "fence")
          /\ UNCHANGED <<job, tries, confirmed, from, at, result>>
       \/ Finish(e, "failed")
       \/ Leave(e)
    /\ UNCHANGED <<records, readback, safety, owner, crashes, provider>>

\* aggregateAgentActivityInTransaction, for activities made of actions.
AggregateFailures(v, states) == \* a fault: only failures ask for attention
    LET of == {states[a] : a \in {b \in Actions : ActivityOf[b] = v}}
    IN  IF "failed" \in of THEN "attention_required"
        ELSE IF of \cap ({"authorized"} \cup Uncertain) # {} THEN "open"
        ELSE "resolved"
Aggregate(v, states) ==
    LET of == {states[a] : a \in {b \in Actions : ActivityOf[b] = v}}
    IN  IF of \cap {"failed", "unverifiable", "cancelled"} # {}
          THEN "attention_required"
        ELSE IF of \cap ({"authorized"} \cup Uncertain) # {} THEN "open"
        ELSE "resolved"

AggregateActivity(v, states) ==
    activity' = [activity EXCEPT ![v] =
        IF @ = "acknowledged" THEN @ ELSE Aggregate(v, states)]

\* claimImmediatelyBeforeMutation(): the last transaction before provider I/O.
FenceLost(e) ==
    /\ state[job[e]] # "authorized"
    /\ Leave(e)
    /\ UNCHANGED records

FencePaused(e) ==
    /\ state[job[e]] = "authorized"
    /\ PausedFor(job[e])
    /\ Leave(e)
    /\ UNCHANGED records

FenceDeniedUnguarded(e) ==      \* a fault: UPDATE without state='authorized'
    LET a == job[e] IN
    /\ ~PausedFor(a)
    /\ ~(granted[a] /\ active[AccountOf[a]])
    /\ state' = [state EXCEPT ![a] = "cancelled"]
    /\ AggregateActivity(ActivityOf[a], state')
    /\ Leave(e)
    /\ UNCHANGED <<reported, legacy, remembered>>
FenceDenied(e) ==
    LET a == job[e] IN
    /\ state[a] = "authorized"
    /\ ~PausedFor(a)
    /\ ~(granted[a] /\ active[AccountOf[a]])
    /\ state' = [state EXCEPT ![a] = "cancelled"]
    /\ AggregateActivity(ActivityOf[a], state')
    /\ Leave(e)
    /\ UNCHANGED <<reported, legacy, remembered>>

FencePassedOnClaim(e) ==        \* a fault: the pause is read by claim() only
    LET a == job[e] IN
    /\ state[a] = "authorized"
    /\ granted[a] /\ active[AccountOf[a]]
    /\ state' = [state EXCEPT ![a] = "executing"]
    /\ legacy' = [legacy EXCEPT ![a] = "executing"]
    /\ Goto(e, "mutate")
    /\ UNCHANGED <<reported, remembered, activity,
                   job, tries, confirmed, from, at, result>>
FencePassed(e) ==
    LET a == job[e] IN
    /\ state[a] = "authorized"
    /\ ~PausedFor(a)
    /\ granted[a] /\ active[AccountOf[a]]
    /\ state' = [state EXCEPT ![a] = "executing"]
    /\ legacy' = [legacy EXCEPT ![a] = "executing"]
    /\ Goto(e, "mutate")
    /\ UNCHANGED <<reported, remembered, activity,
                   job, tries, confirmed, from, at, result>>

Fence(e) ==
    /\ pc[e] = "fence"
    /\ FenceLost(e) \/ FencePaused(e) \/ FenceDenied(e) \/ FencePassed(e)
    /\ UNCHANGED <<readback, safety, owner, crashes, provider>>

-----------------------------------------------------------------------------
(* The mutation call and its answers. *)

IssueCall(e) ==
    /\ pc[e] = "mutate"
    /\ inflight' = [inflight EXCEPT ![job[e]] = @ + 1]
    /\ tries' = [tries EXCEPT ![e] = @ + 1]
    /\ Goto(e, "await")
    /\ UNCHANGED <<job, confirmed, from, at, result, records, readback, safety,
                   owner, crashes, applied, visible, page>>

\* The transport throws before it reaches the provider (initialisation, a
\* missing folder, a draft body that cannot be selected, ...).
CallNeverMade(e) ==
    /\ pc[e] = "mutate"
    /\ Verify(e, FALSE)
    /\ UNCHANGED <<records, readback, safety, owner, crashes, provider>>

\* The provider carries a request out, possibly long after its caller is gone.
\* The message may take another provider id, which only the answer names.
ProviderApplies(a) ==
    /\ inflight[a] > 0
    /\ inflight' = [inflight EXCEPT ![a] = @ - 1]
    /\ applied' = [applied EXCEPT ![a] = @ + 1]
    /\ \E p \in 1..Pages : page' = [page EXCEPT ![a] = p]
    /\ \E kept \in BOOLEAN : visible' = [visible EXCEPT ![a] = @ /\ kept]
    /\ UNCHANGED <<records, readback, safety, owner, locals, crashes>>

\* The provider accepts a request and does not carry it out.
ProviderIgnores(a) ==
    /\ inflight[a] > 0
    /\ inflight' = [inflight EXCEPT ![a] = @ - 1]
    /\ UNCHANGED <<records, readback, safety, owner, locals, crashes,
                   applied, visible, page>>

CallSucceeds(e) ==
    /\ pc[e] = "await"
    /\ inflight[job[e]] = 0
    /\ Goto(e, "retain")
    /\ UNCHANGED <<job, tries, confirmed, from, at, result, records, readback,
                   safety, owner, crashes, provider>>

\* A failure that proves that nothing was applied: the only safe retry.
CallRefusedOneMore(e) ==        \* a fault: the last attempt is counted out
    /\ pc[e] = "await"
    /\ inflight[job[e]] > 0
    /\ inflight' = [inflight EXCEPT ![job[e]] = @ - 1]
    /\ IF tries[e] <= MaxAttempts
         THEN /\ Goto(e, "mutate")
              /\ UNCHANGED <<job, tries, confirmed, from, at, result>>
         ELSE Verify(e, FALSE)
    /\ UNCHANGED <<records, readback, safety, owner, crashes, applied, visible,
                   page>>
CallRefused(e) ==
    /\ pc[e] = "await"
    /\ inflight[job[e]] > 0
    /\ inflight' = [inflight EXCEPT ![job[e]] = @ - 1]
    /\ IF tries[e] < MaxAttempts
         THEN /\ Goto(e, "mutate")
              /\ UNCHANGED <<job, tries, confirmed, from, at, result>>
         ELSE Verify(e, FALSE)
    /\ UNCHANGED <<records, readback, safety, owner, crashes, applied, visible,
                   page>>

\* A timeout or a lost connection: the request may have been applied, may be
\* applied later, or never.
CallAmbiguous(e) ==
    /\ pc[e] = "await"
    /\ Verify(e, FALSE)
    /\ UNCHANGED <<records, readback, safety, owner, crashes, provider>>

\* retainProviderMessageId / retainProviderDraftId, before the receipt returns.
Retain(e) ==
    /\ pc[e] = "retain"
    /\ \/ /\ visible' = [visible EXCEPT ![job[e]] = @ \/ applied[job[e]] > 0]
          /\ Goto(e, "report")
          /\ UNCHANGED <<job, tries, confirmed, from, at, result>>
       \/ /\ Verify(e, FALSE)
          /\ UNCHANGED visible
    /\ UNCHANGED <<records, readback, safety, owner, crashes, inflight, applied,
                   page>>

\* reportProvider(): durable progress, which another executor may have overtaken.
Report(e) ==
    LET a == job[e] IN
    /\ pc[e] = "report"
    /\ IF state[a] = "executing"
         THEN /\ state' = [state EXCEPT ![a] = "verifying"]
              /\ reported' = [reported EXCEPT ![a] = TRUE]
              /\ Verify(e, TRUE)
         ELSE /\ Leave(e)
              /\ UNCHANGED <<state, reported>>
    /\ UNCHANGED <<legacy, remembered, activity, readback, safety, owner,
                   crashes, provider>>

-----------------------------------------------------------------------------
(* verify() and the transport's read(). *)

Mismatch(e) == IF confirmed[e] THEN "incorrect" ELSE "unverifiable"

\* The readback cannot be made, or shows nothing that could be compared.
VerificationUnavailable(e) ==
    /\ pc[e] = "verify"
    /\ Finish(e, "unverifiable")
    /\ UNCHANGED <<records, readback, safety, owner, crashes, provider>>

\* read_email of a message that still answers to the stored provider id.
ReadFlag(e) ==
    LET a == job[e] IN
    /\ pc[e] = "verify"
    /\ kind[a] \in FlagKinds
    /\ visible[a]
    /\ Finish(e, IF InPlace(a) THEN "succeeded" ELSE Mismatch(e))
    /\ UNCHANGED <<records, readback, safety, owner, crashes, provider>>

\* For drafts read() answers { draftId } once the draft can be read at all.
ReadDraft(e) ==
    /\ pc[e] = "verify"
    /\ kind[job[e]] \in DraftKinds
    /\ visible[job[e]]
    /\ Finish(e, "succeeded")
    /\ UNCHANGED <<records, readback, safety, owner, crashes, provider>>

BeginScan(e) ==
    LET a == job[e] IN
    /\ pc[e] = "verify"
    /\ kind[a] \in FolderKinds
    /\ IF expired[a]
         THEN Finish(e, "unverifiable")
         ELSE /\ Goto(e, "scan")
              /\ from' = [from EXCEPT ![e] = cursor[a]]
              /\ at' = [at EXCEPT ![e] = cursor[a]]
              /\ UNCHANGED <<job, tries, confirmed, result>>
    /\ UNCHANGED <<records, readback, safety, owner, crashes, provider>>

\* The cursor moves only from the value that this readback started with.
SaveCursor(e, next) ==
    LET a == job[e] IN
    /\ cursor' = IF cursor[a] = from[e] /\ state[a] \in Uncertain
                   THEN [cursor EXCEPT ![a] = next] ELSE cursor
    /\ UNCHANGED <<kind, expired>>

\* One page of list_emails: present, absent at the end of the list, or go on.
ScanPageTrustsReceipt(e) ==     \* a fault: the receipt stands in for readback
    /\ pc[e] = "scan"
    /\ \/ /\ confirmed[e]
          /\ SaveCursor(e, 0)
          /\ Finish(e, "succeeded")
       \/ /\ ~confirmed[e]
          /\ SaveCursor(e, 0)
          /\ Finish(e, "unverifiable")
    /\ UNCHANGED <<records, safety, owner, crashes, provider>>
ScanPage(e) ==
    LET a == job[e]
        present == InPlace(a) /\ visible[a] /\ page[a] = at[e] + 1
    IN
    /\ pc[e] = "scan"
    /\ \/ /\ present
          /\ SaveCursor(e, 0)
          /\ Finish(e, "succeeded")
       \/ /\ ~present
          /\ at[e] + 1 >= Pages
          /\ SaveCursor(e, 0)
          /\ Finish(e, Mismatch(e))
       \/ /\ ~present
          /\ at[e] + 1 < Pages
          /\ at' = [at EXCEPT ![e] = @ + 1]
          /\ UNCHANGED <<pc, job, tries, confirmed, from, result, readback>>
    /\ UNCHANGED <<records, safety, owner, crashes, provider>>

\* The page budget or the 30 seconds run out, or the listing fails: the job
\* ends with VerificationPendingError and the action stays as it is.
ScanIncomplete(e) ==
    /\ pc[e] = "scan"
    /\ SaveCursor(e, at[e]) \/ UNCHANGED readback
    /\ Leave(e)
    /\ UNCHANGED <<records, safety, owner, crashes, provider>>

-----------------------------------------------------------------------------
(* complete() and the safety window. *)

InWindow(m, samples, which) ==
    {a \in Actions : AccountOf[a] = m /\ samples[a] \in which}

\* incorrect / total >= maxIncorrectRate, over a non-empty window.
AboveThreshold(m, samples) ==   \* a fault: the boundary itself is let through
    LET total == Cardinality(InWindow(m, samples, {"succeeded", "incorrect"}))
        incorrect == Cardinality(InWindow(m, samples, {"incorrect"}))
    IN  total > 0 /\ incorrect * RateDen > RateNum * total
OverThreshold(m, samples) ==
    LET total == Cardinality(InWindow(m, samples, {"succeeded", "incorrect"}))
        incorrect == Cardinality(InWindow(m, samples, {"incorrect"}))
    IN  total > 0 /\ incorrect * RateDen >= RateNum * total

\* sampleSafety(): one sample for each action; the crossing pauses the account
\* once and raises one alert.
SampleSafety(a, outcome) ==
    LET m == AccountOf[a]
        crossing == OverThreshold(m, sample') /\ ~paused[m]
    IN  /\ sample' = IF sample[a] = "none"
                       THEN [sample EXCEPT ![a] = outcome] ELSE sample
        /\ paused' = IF crossing THEN [paused EXCEPT ![m] = TRUE] ELSE paused
        /\ alerts' = IF crossing THEN [alerts EXCEPT ![m] = @ + 1] ELSE alerts

CompleteVerified(a) ==
    /\ state[a] \in Uncertain
    /\ state' = [state EXCEPT ![a] = "verified"]
    /\ legacy' = [legacy EXCEPT ![a] = "succeeded"]
    /\ IF kind[a] \in FolderKinds
         THEN SampleSafety(a, "succeeded") ELSE UNCHANGED safety

CompleteOtherwise(a, outcome) ==
    /\ state[a] \in {"authorized"} \cup Uncertain
    /\ state' = [state EXCEPT ![a] =
                    IF outcome = "unverifiable" THEN "unverifiable" ELSE "failed"]
    /\ legacy' = [legacy EXCEPT ![a] = outcome]
    /\ IF outcome = "incorrect" /\ kind[a] \in FolderKinds
         THEN SampleSafety(a, "incorrect") ELSE UNCHANGED safety

\* The first outcome stands; a completion that arrives later returns it, and a
\* cancelled action is not completable.
CompleteLastWriter(e) ==        \* a fault: a late completion overwrites
    LET a == job[e] IN
    /\ pc[e] = "complete"
    /\ state' = [state EXCEPT ![a] =
           CASE result[e] = "succeeded" -> "verified"
             [] result[e] = "unverifiable" -> "unverifiable"
             [] OTHER -> "failed"]
    /\ Leave(e)
    /\ UNCHANGED <<reported, legacy, remembered, activity, readback, safety,
                   owner, crashes, provider>>
Complete(e) ==
    LET a == job[e] IN
    /\ pc[e] = "complete"
    /\ IF state[a] \in Settled
         THEN UNCHANGED <<records, safety>>
         ELSE /\ IF result[e] = "succeeded" THEN CompleteVerified(a)
                 ELSE CompleteOtherwise(a, result[e])
              /\ remembered' = remembered \cup {a}
              /\ AggregateActivity(ActivityOf[a], state')
              /\ UNCHANGED reported
    /\ Leave(e)
    /\ UNCHANGED <<readback, owner, crashes, provider>>

-----------------------------------------------------------------------------
(* The owner, the clock and failures. *)

SetAccountPause(m) ==
    /\ "pause" \in Interventions
    /\ paused' = [paused EXCEPT ![m] = ~@]
    /\ UNCHANGED <<records, readback, sample, alerts, owner, locals, crashes,
                   provider>>

SetGlobalPause ==
    /\ "pause_all" \in Interventions
    /\ allPaused' = ~allPaused
    /\ UNCHANGED <<records, readback, safety, granted, active, locals, crashes,
                   provider>>

\* A revision of the assignment, grant, safety ceiling or connection moves on.
Revoke(a) ==
    /\ "revoke" \in Interventions
    /\ granted[a]
    /\ granted' = [granted EXCEPT ![a] = FALSE]
    /\ UNCHANGED <<records, readback, safety, allPaused, active, locals,
                   crashes, provider>>

SetAccountActive(m) ==
    /\ "disconnect" \in Interventions
    /\ active' = [active EXCEPT ![m] = ~@]
    /\ UNCHANGED <<records, readback, safety, granted, allPaused, locals,
                   crashes, provider>>

\* Only a resolved activity whose actions, in both tables, all succeeded.
Acknowledge(v) ==
    /\ activity[v] = "resolved"
    /\ \A a \in Actions : ActivityOf[a] = v =>
          state[a] = "verified" /\ legacy[a] = "succeeded"
    /\ activity' = [activity EXCEPT ![v] = "acknowledged"]
    /\ UNCHANGED <<state, reported, legacy, remembered, readback, safety, owner,
                   locals, crashes, provider>>

DeadlinePasses(a) ==
    /\ state[a] \in Uncertain
    /\ ~expired[a]
    /\ expired' = [expired EXCEPT ![a] = TRUE]
    /\ UNCHANGED <<kind, records, cursor, safety, owner, locals, crashes, provider>>

\* A sample leaves the sliding window.
WindowSlides(a) ==
    /\ sample[a] \in {"succeeded", "incorrect"}
    /\ sample' = [sample EXCEPT ![a] = "aged"]
    /\ UNCHANGED <<records, readback, paused, alerts, owner, locals, crashes,
                   provider>>

Crash(e) ==
    /\ pc[e] # "idle"
    /\ crashes < MaxCrashes
    /\ crashes' = crashes + 1
    /\ Leave(e)
    /\ UNCHANGED <<records, readback, safety, owner, provider>>

-----------------------------------------------------------------------------
Readback(e) ==
    \/ VerificationUnavailable(e)
    \/ ReadFlag(e) \/ ReadDraft(e)
    \/ BeginScan(e) \/ ScanPage(e) \/ ScanIncomplete(e)

Mutation(e) ==
    \/ IssueCall(e) \/ CallNeverMade(e)
    \/ CallSucceeds(e) \/ CallRefused(e) \/ CallAmbiguous(e)
    \/ Retain(e) \/ Report(e)

Work(e) == Precheck(e) \/ Fence(e) \/ Mutation(e) \/ Readback(e) \/ Complete(e)

Environment ==
    \/ \E a \in Actions : ProviderApplies(a) \/ ProviderIgnores(a)
    \/ \E a \in Actions : DeadlinePasses(a) \/ WindowSlides(a) \/ Revoke(a)
    \/ \E m \in Accounts : SetAccountPause(m) \/ SetAccountActive(m)
    \/ \E v \in Activities : Acknowledge(v)
    \/ SetGlobalPause

Next ==
    \/ \E e \in Executors, a \in Actions : Claim(e, a)
    \/ \E e \in Executors : Work(e) \/ Crash(e)
    \/ Environment

Spec == Init /\ [][Next]_vars

\* The queue redelivers every unsettled action and runs what it delivers; the
\* clock moves on.  Nothing obliges the provider or the owner to act.
Fairness ==
    /\ \A a \in Actions : SF_vars(\E e \in Executors : Claim(e, a))
    /\ \A e \in Executors : WF_vars(Work(e))
    /\ \A a \in Actions : WF_vars(DeadlinePasses(a))

FairSpec == Spec /\ Fairness

-----------------------------------------------------------------------------
(* Properties. *)

Labels == {"idle", "precheck", "fence", "mutate", "await", "retain", "report",
           "verify", "scan", "complete"}

(* The type invariant, by the groups of variables that steps change together. *)
LocalsTyped ==
    /\ pc \in [Executors -> Labels]
    /\ job \in [Executors -> Actions \cup {NoAction}]
    /\ tries \in [Executors -> 0..MaxAttempts]
    /\ confirmed \in [Executors -> BOOLEAN]
    /\ from \in [Executors -> 0..Pages - 1]
    /\ at \in [Executors -> 0..Pages - 1]
    /\ result \in [Executors -> Outcomes \cup {"none"}]

RecordsTyped ==
    /\ state \in [Actions -> ActionStates]
    /\ reported \in [Actions -> BOOLEAN]
    /\ legacy \in [Actions -> {"planned", "executing"} \cup Outcomes]
    /\ remembered \in SUBSET Actions
    /\ activity \in [Activities ->
                       {"open", "attention_required", "resolved", "acknowledged"}]

ReadbackTyped ==
    /\ kind \in [Actions -> Kinds]
    /\ expired \in [Actions -> BOOLEAN]
    /\ cursor \in [Actions -> 0..Pages - 1]

SafetyTyped ==
    /\ sample \in [Actions -> {"none", "succeeded", "incorrect", "aged"}]
    /\ paused \in [Accounts -> BOOLEAN]
    /\ alerts \in [Accounts -> Nat]

OwnerTyped ==
    /\ granted \in [Actions -> BOOLEAN]
    /\ allPaused \in BOOLEAN
    /\ active \in [Accounts -> BOOLEAN]

ProviderTyped ==
    /\ inflight \in [Actions -> Nat]
    /\ applied \in [Actions -> Nat]
    /\ visible \in [Actions -> BOOLEAN]
    /\ page \in [Actions -> 1..Pages]

TypeOK ==
    /\ LocalsTyped /\ RecordsTyped /\ ReadbackTyped /\ SafetyTyped
    /\ OwnerTyped /\ ProviderTyped /\ crashes \in 0..MaxCrashes

\* However often an action is delivered, retried, crashed and recovered, the
\* provider holds at most one request of it, carried out or still to come.
AtMostOnce == \A a \in Actions : applied[a] + inflight[a] <= 1

\* An action that was cancelled at the fence never reached the provider.
CancelledIsUntouched ==
    \A a \in Actions : state[a] = "cancelled" => applied[a] + inflight[a] = 0

\* No silent success: verified means that the mailbox is as the action asked.
VerifiedMeansInPlace ==
    \A a \in Actions : state[a] = "verified" => InPlace(a)

\* Only an action whose call the provider confirmed is called incorrect, and
\* only such an action counts against the account in the safety window.
IncorrectNeedsReport ==
    \A a \in Actions :
        legacy[a] = "incorrect" \/ sample[a] = "incorrect" => reported[a]

\* What the record says of an action is what happened to it: cancelled was never
\* sent, verified is in place, incorrect was confirmed by the provider.
OutcomesAreTrue == CancelledIsUntouched /\ VerifiedMeansInPlace /\ IncorrectNeedsReport

\* What is called incorrect is really missing from the destination folder.
IncorrectMeansAbsent ==
    \A a \in Actions : legacy[a] = "incorrect" => ~InPlace(a)

\* An activity rests only when every one of its actions was verified.
ResolvedMeansVerified ==
    \A a \in Actions : activity[ActivityOf[a]] \in {"resolved", "acknowledged"}
        => state[a] = "verified"

\* The first recorded outcome stands: executors that race to complete an
\* action, or that complete it twice, do not change it.
FirstOutcomeStands ==
    [][\A a \in Actions : state[a] \in Settled => state'[a] = state[a]]_state

\* Whatever was read when the job was claimed, an action is started only under
\* authority that still holds and while neither pause is in force.
StartsUnderAuthority ==
    [][\A a \in Actions : state[a] = "authorized" /\ state'[a] = "executing"
          => granted[a] /\ active[AccountOf[a]] /\ ~PausedFor(a)]_state

\* A new sample that leaves the window at or over the limit leaves the account
\* paused; each such pause raises one alert and touches no other account.
CrossingPausesOnce ==
    [][\A m \in Accounts :
          LET new == \E a \in Actions : AccountOf[a] = m
                        /\ sample[a] = "none" /\ sample'[a] # "none"
              share == Cardinality(InWindow(m, sample', {"incorrect"}))
              total == Cardinality(InWindow(m, sample', {"succeeded", "incorrect"}))
          IN  IF new
                THEN /\ share * RateDen >= RateNum * total => paused'[m]
                     /\ alerts'[m] - alerts[m] =
                           (IF paused'[m] /\ ~paused[m] THEN 1 ELSE 0)
                ELSE alerts'[m] = alerts[m]]_safety

\* The provider is never called once a pause has been committed.
NoCallWhilePaused ==
    [][\A e \in Executors : pc[e] = "mutate" /\ pc'[e] = "await"
          => ~PausedFor(job[e])]_vars

\* An interrupted action settles, even while autonomy is paused, unless its
\* account stays disconnected.
UncertainSettles ==
    \A a \in Actions :
        state[a] \in Uncertain ~>
            (state[a] \in Settled \/ ~active[AccountOf[a]])

\* What the promise sees of an action's state.
Phase(s) ==
    CASE s = "authorized" -> "waiting"
      [] s \in Uncertain -> "started"
      [] OTHER -> s

Promise == INSTANCE MutationPromise WITH
    phase <- [a \in Actions |-> Phase(state[a])],
    landed <- applied

\* Executors, claims and readbacks implement the promise of the package.
KeepsPromise == Promise!Spec
============================================================================

------------------------- MODULE ArrivalIngestion -------------------------
(***************************************************************************)
(* How mail that arrives in one mailbox becomes work for the agent:        *)
(* apps/worker/src/ingestion.ts with its PostgreSQL store.                 *)
(*                                                                         *)
(* A worker that holds the ingestion lease polls the mailbox.  The first   *)
(* cycle projects what is there as the baseline; a later one reconciles    *)
(* the recent Inbox, asks Hypermail for new mail and records each message  *)
(* in a transaction of its own.  The lease carries a fencing token that no *)
(* write checks, so a slow cycle may overlap the next holder's.  Each      *)
(* process also offers recorded jobs to pg-boss, at the end of a cycle and *)
(* every five seconds.                                                     *)
(*                                                                         *)
(* Messages are numbered in the order they arrive, and a time is the       *)
(* number of messages that had arrived by then: received_at of m is m, and *)
(* a baseline completed at time t cuts off the messages up to t.           *)
(***************************************************************************)
EXTENDS Integers, FiniteSets

CONSTANTS
    Workers,      \* worker processes, with their lease holder ids
    Total,        \* bound: messages that ever arrive
    Existing,     \* messages in the Inbox when the mailbox is connected
    RecentLimit,  \* IngestionOptions.recentLimit
    PollLimit,    \* IngestionOptions.pollLimit
    MaxFailures   \* bound: calls that fail or outlast the lease in a baseline,
                  \* and processes that die

Nobody == "nobody"
Gone == "gone"     \* the holder id of a process that died

ASSUME IngestionAssumption ==
    /\ IsFiniteSet(Workers) /\ {Nobody, Gone} \cap Workers = {}
    /\ Total \in Nat /\ Existing \in 0..Total
    /\ RecentLimit \in Nat \ {0} /\ PollLimit \in Nat \ {0}
    /\ MaxFailures \in Nat

Messages == 1..Total
Open == Total + 1  \* baseline_completed_at IS NULL

VARIABLES
    arrived,    \* messages 1..arrived are in the Inbox
    checkpoint, \* Hypermail: messages that get_new_emails will not return
    row,        \* app.messages: absent, or is_baseline
    cutoff,     \* accounts.baseline_completed_at
    jobs,       \* messages with an activity, a notification and an agent job
    queueId,    \* jobs whose queue_job_id is set
    sent,       \* agent.evaluate deliveries accepted by pg-boss
    holder, lapsed,      \* scheduler_leases
    pc, known, batch,    \* a worker's cycle
    pending, offered,    \* a worker's DispatchRecovery
    outlasted,  \* history: a baseline cycle outlasted the lease of its worker
    failures

mailbox == <<arrived, checkpoint>>
records == <<row, cutoff, jobs>>
outbox == <<queueId, sent, pending, offered>>
lease == <<holder, lapsed>>
cycle == <<pc, known, batch>>
vars == <<mailbox, records, outbox, lease, cycle, outlasted, failures>>

Init ==
    /\ arrived = Existing
    /\ checkpoint = 0
    /\ row = [m \in Messages |-> "absent"]
    /\ cutoff = Open
    /\ jobs = {}
    /\ queueId = {}
    /\ sent = [m \in Messages |-> 0]
    /\ holder = Nobody
    /\ lapsed = FALSE
    /\ pc = [w \in Workers |-> "idle"]
    /\ known = [w \in Workers |-> FALSE]
    /\ batch = [w \in Workers |-> {}]
    /\ pending = [w \in Workers |-> {}]
    /\ offered = [w \in Workers |-> {}]
    /\ outlasted = FALSE
    /\ failures = 0

Goto(w, label) == pc' = [pc EXCEPT ![w] = label]

RecentInbox == {m \in 1..arrived : m > arrived - RecentLimit}
NewInbox == {m \in 1..arrived : checkpoint < m /\ m <= checkpoint + PollLimit}
AfterPoll == IF checkpoint + PollLimit < arrived THEN checkpoint + PollLimit ELSE arrived

-----------------------------------------------------------------------------
(* The cycle of a lease holder. *)

\* acquireLease(): a free or expired lease, or the worker's own.
AcquireLease(w) ==
    /\ pc[w] = "idle"
    /\ lapsed \/ holder \in {Nobody, w}
    /\ holder' = w
    /\ lapsed' = FALSE
    /\ Goto(w, "accounts")
    /\ UNCHANGED <<mailbox, records, outbox, known, batch, failures, outlasted>>

\* readyAccounts(): what the whole cycle goes by, until it reaches this mailbox.
ReadAccount(w) ==
    /\ pc[w] = "accounts"
    /\ known' = [known EXCEPT ![w] = cutoff # Open]
    /\ Goto(w, IF cutoff = Open THEN "establish" ELSE "recent")
    /\ UNCHANGED <<mailbox, records, outbox, lease, batch, failures, outlasted>>

EstablishBaseline(w) ==
    /\ pc[w] = "establish"
    /\ checkpoint' = arrived
    /\ Goto(w, "recent")
    /\ UNCHANGED <<arrived, records, outbox, lease, known, batch, failures, outlasted>>

\* recentInbox(), for the baseline or to reconcile.
ListRecent(w) ==
    /\ pc[w] = "recent"
    /\ batch' = [batch EXCEPT ![w] = RecentInbox]
    /\ Goto(w, IF known[w] THEN "reconcile" ELSE "baseline")
    /\ UNCHANGED <<mailbox, records, outbox, lease, known, failures, outlasted>>

\* recordBaseline(): a row that is there already keeps its is_baseline.
RecordBaseline(w) ==
    /\ pc[w] = "baseline"
    /\ \E m \in batch[w] :
          /\ row' = [row EXCEPT ![m] = IF @ = "absent" THEN "baseline" ELSE @]
          /\ batch' = [batch EXCEPT ![w] = @ \ {m}]
    /\ UNCHANGED <<mailbox, cutoff, jobs, outbox, lease, pc, known, failures, outlasted>>

\* markBaseline(): the first completion stands.
MarkBaselineBegun(w) ==         \* a fault: the time at which the cycle began
    /\ pc[w] = "baseline" /\ batch[w] = {}
    /\ cutoff' = IF cutoff = Open THEN 0 ELSE cutoff
    /\ Goto(w, "idle")
    /\ UNCHANGED <<mailbox, row, jobs, outbox, lease, known, batch, failures, outlasted>>
MarkBaseline(w) ==
    /\ pc[w] = "baseline" /\ batch[w] = {}
    /\ cutoff' = IF cutoff = Open THEN arrived ELSE cutoff
    /\ Goto(w, "idle")
    /\ UNCHANGED <<mailbox, row, jobs, outbox, lease, known, batch, failures, outlasted>>

\* recordArrival(): message, activity, notification, job and memory event in
\* one transaction; the activity only for mail that the baseline did not hold
\* and that was received after its completion.
RecordArrival(w) ==
    /\ pc[w] \in {"reconcile", "poll"}
    /\ \E m \in batch[w] :
          /\ row' = [row EXCEPT ![m] = IF @ = "absent" THEN "arrival" ELSE @]
          /\ jobs' = IF row'[m] = "arrival" /\ m > cutoff THEN jobs \cup {m} ELSE jobs
          /\ batch' = [batch EXCEPT ![w] = @ \ {m}]
    /\ UNCHANGED <<mailbox, cutoff, outbox, lease, pc, known, failures, outlasted>>

\* pollNewInbox() moves Hypermail's own checkpoint before anything is recorded.
PollNew(w) ==
    /\ pc[w] = "reconcile" /\ batch[w] = {}
    /\ batch' = [batch EXCEPT ![w] = NewInbox]
    /\ checkpoint' = AfterPoll
    /\ Goto(w, "poll")
    /\ UNCHANGED <<arrived, records, outbox, lease, known, failures, outlasted>>

\* markPollSucceeded(); the other mailboxes of the cycle follow.
PollSucceeded(w) ==
    /\ pc[w] = "poll" /\ batch[w] = {}
    /\ Goto(w, "idle")
    /\ UNCHANGED <<mailbox, records, outbox, lease, known, batch, failures, outlasted>>

\* A provider call or a transaction fails: markPollFailed() ends the mailbox's
\* cycle.  A failed poll may have moved the checkpoint all the same.
PollFails(w) ==
    /\ pc[w] \notin {"idle", "accounts"}
    /\ failures < MaxFailures
    /\ failures' = failures + 1
    /\ \/ UNCHANGED checkpoint
       \/ pc[w] = "reconcile" /\ batch[w] = {}
          /\ checkpoint' = AfterPoll
       \/ pc[w] = "establish" /\ checkpoint' = arrived
    /\ Goto(w, "idle")
    /\ batch' = [batch EXCEPT ![w] = {}]
    /\ UNCHANGED <<arrived, records, outbox, lease, known, outlasted>>

-----------------------------------------------------------------------------
(* DispatchRecovery: the committed job is truth, the queue follows. *)

PendingDispatches(w) ==
    /\ pending[w] = {} /\ offered[w] = {}
    /\ jobs \ queueId # {}
    /\ pending' = [pending EXCEPT ![w] = jobs \ queueId]
    /\ UNCHANGED <<mailbox, records, queueId, sent, offered, lease, cycle, failures, outlasted>>

Offer(w) ==
    /\ offered[w] = {}
    /\ \E m \in pending[w] :
          /\ sent' = [sent EXCEPT ![m] = @ + 1]
          /\ offered' = [offered EXCEPT ![w] = {m}]
          /\ pending' = [pending EXCEPT ![w] = @ \ {m}]
    /\ UNCHANGED <<mailbox, records, queueId, lease, cycle, failures, outlasted>>

\* Only while queue_job_id is null, so the first delivery is the one named.
MarkDispatched(w) ==
    /\ offered[w] # {}
    /\ queueId' = queueId \cup offered[w]
    /\ offered' = [offered EXCEPT ![w] = {}]
    /\ UNCHANGED <<mailbox, records, sent, pending, lease, cycle, failures, outlasted>>

\* The queue refuses, or the mark is not written: the job stays pending.
DispatchFails(w) ==
    /\ failures < MaxFailures
    /\ failures' = failures + 1
    /\ \/ /\ offered[w] # {}
          /\ offered' = [offered EXCEPT ![w] = {}]
          /\ UNCHANGED pending
       \/ /\ offered[w] = {}
          /\ \E m \in pending[w] : pending' = [pending EXCEPT ![w] = @ \ {m}]
          /\ UNCHANGED offered
    /\ UNCHANGED <<mailbox, records, queueId, sent, lease, cycle, outlasted>>

-----------------------------------------------------------------------------
(* Mail, the owner, the clock and failures. *)

Arrive ==
    /\ arrived < Total
    /\ arrived' = arrived + 1
    /\ UNCHANGED <<checkpoint, records, outbox, lease, cycle, failures, outlasted>>

\* projectReadMessage(): the owner lists the Inbox before the worker sees it.
OwnerReads(m) ==
    /\ m <= arrived
    /\ row[m] = "absent"
    /\ row' = [row EXCEPT ![m] = "arrival"]
    /\ UNCHANGED <<mailbox, cutoff, jobs, outbox, lease, cycle, failures, outlasted>>

\* A worker may be about to project a baseline, by what it read.
AtBaseline(w) ==
    pc[w] \in {"accounts", "establish", "baseline"} \/ (pc[w] = "recent" /\ ~known[w])

\* The lease is not renewed within a cycle, however long the calls take.
LeaseExpires ==
    /\ holder # Nobody /\ ~lapsed
    /\ lapsed' = TRUE
    /\ IF \E w \in Workers : AtBaseline(w)
       THEN /\ failures < MaxFailures
            /\ failures' = failures + 1
            /\ outlasted' = TRUE
       ELSE UNCHANGED <<failures, outlasted>>
    /\ UNCHANGED <<mailbox, records, outbox, holder, cycle>>

\* A restarted process has another holder id: the lease must run out.
Crash(w) ==
    /\ pc[w] # "idle" \/ offered[w] # {} \/ pending[w] # {}
    /\ failures < MaxFailures
    /\ failures' = failures + 1
    /\ Goto(w, "idle")
    /\ known' = [known EXCEPT ![w] = FALSE]
    /\ batch' = [batch EXCEPT ![w] = {}]
    /\ pending' = [pending EXCEPT ![w] = {}]
    /\ offered' = [offered EXCEPT ![w] = {}]
    /\ holder' = IF holder = w THEN Gone ELSE holder
    /\ UNCHANGED <<mailbox, records, queueId, sent, lapsed, outlasted>>

-----------------------------------------------------------------------------
Poll(w) ==
    \/ AcquireLease(w) \/ ReadAccount(w)
    \/ EstablishBaseline(w) \/ ListRecent(w) \/ RecordBaseline(w) \/ MarkBaseline(w)
    \/ RecordArrival(w) \/ PollNew(w) \/ PollSucceeded(w)

Dispatch(w) == PendingDispatches(w) \/ Offer(w) \/ MarkDispatched(w)

Next ==
    \/ \E w \in Workers : Poll(w) \/ PollFails(w)
    \/ \E w \in Workers : Dispatch(w) \/ DispatchFails(w)
    \/ \E w \in Workers : Crash(w)
    \/ \E m \in Messages : OwnerReads(m)
    \/ Arrive \/ LeaseExpires

Spec == Init /\ [][Next]_vars

\* Each process ticks and recovers on a timer, and a lease has an end.
Fairness ==
    /\ \A w \in Workers : WF_vars(Poll(w)) /\ WF_vars(Dispatch(w))
    /\ WF_vars(LeaseExpires)

FairSpec == Spec /\ Fairness

-----------------------------------------------------------------------------
(* Properties. *)

MailTyped ==
    /\ arrived \in 0..Total /\ checkpoint \in 0..Total
    /\ checkpoint <= arrived
    /\ row \in [Messages -> {"absent", "baseline", "arrival"}]
    /\ cutoff \in 0..Open
    /\ jobs \subseteq Messages
OutboxTyped ==
    /\ queueId \subseteq jobs
    /\ pending \in [Workers -> SUBSET jobs]
    /\ offered \in [Workers -> SUBSET jobs]
    /\ failures \in 0..MaxFailures
CycleTyped ==
    /\ holder \in Workers \cup {Nobody, Gone}
    /\ lapsed \in BOOLEAN
    /\ pc \in [Workers -> {"idle", "accounts", "establish", "recent", "baseline",
                           "reconcile", "poll"}]
    /\ known \in [Workers -> BOOLEAN]
    /\ batch \in [Workers -> SUBSET Messages]

\* A job is offered to the queue at most once by each worker that found it
\* unmarked, and once more for every failure.
OffersBounded == sent \in [Messages -> 0..Cardinality(Workers) + MaxFailures]

TypeOK == MailTyped /\ OutboxTyped /\ CycleTyped /\ OffersBounded /\ outlasted \in BOOLEAN

\* Mail that was in the Inbox when the mailbox was connected never becomes
\* work for the agent, however often baselines are repeated, whatever the owner
\* reads meanwhile and however little of the Inbox the baseline lists.
ExistingMailIsQuiet == \A m \in jobs : m > Existing

\* Baseline identities are projected before the baseline is complete: no mail
\* received after the completion is called baseline, unless a worker was still
\* at the baseline when its lease ran out and the next one completed it.
LaterMailIsNotBaseline ==
    \A m \in Messages : row[m] = "baseline" => cutoff = Open \/ m <= cutoff \/ outlasted

\* A job that names its queue delivery has one.
DispatchedIsQueued == \A m \in queueId : sent[m] > 0

\* Mail from before the connection stays quiet, later mail is never taken for
\* it, and what counts as dispatched is in the queue.
ArrivalsAreSound ==
    TypeOK /\ ExistingMailIsQuiet /\ LaterMailIsNotBaseline /\ DispatchedIsQueued

\* Every message received after the baseline becomes a job that the queue
\* delivers, whatever the owner reads first, whoever polls and whichever call
\* fails, as long as the recent window reaches back over the failure and no
\* baseline outlasts its lease.
ArrivalsReachTheAgent ==
    <>[](\A m \in Messages : m <= arrived /\ m > cutoff => m \in queueId \/ outlasted)
============================================================================

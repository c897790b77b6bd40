----------------------------- MODULE AgentTasks -----------------------------
(***************************************************************************)
(* The tasks of automatic work: AgentTaskStore                             *)
(* (packages/db/src/agent-task-store.ts) with the transitions of           *)
(* packages/contracts/src/agent-task-domain.ts, the admission guard of     *)
(* apps/worker/src/operational-safety.ts and the adapters and recovery of  *)
(* apps/worker/src/agent-task-delivery.ts, for the tasks of one owner and  *)
(* one manager.  Production only runs the recovery so far.                 *)
(*                                                                         *)
(* The attempt number is the lease generation: claim() raises both.        *)
(* Heartbeats keep a lease from running out and are not steps; the rate    *)
(* windows of the guard are the freedom to deny; the outbox, which wakes   *)
(* executors up, is left out.                                              *)
(***************************************************************************)
EXTENDS Integers, FiniteSets

CONSTANTS
    Tasks,         \* tasks of the owner
    Workers,       \* executors that claim them
    NoOne,         \* not an executor
    MaxAttempts,   \* claims of one task; 5 in the code
    MaxLeased,     \* OperationalLimits.concurrentTasks
    MaxPending,    \* OperationalLimits.pendingTasks
    MaxFaults      \* bound: crashes, lost answers, slow leases, owner changes

VARIABLES
    task,          \* agent_tasks
    late,          \* the deadline of the task has passed
    awaiting,      \* pairs of tasks awaiting verification, by updated_at
    verified,      \* tasks all of whose actions policy execution verified
    authority,     \* assignment, grant, ceiling and connection are as the tasks say
    reports,       \* agent_task_reports: the command and the attempt it ended
    worker,        \* what each executor is doing
    strays,        \* commands under way that their executor waits for no more
    faults

owner == <<late, verified, authority>>
vars == <<task, awaiting, owner, reports, worker, strays, faults>>

States == {"none", "pending", "leased", "waiting_for_answer",
           "awaiting_action_verification", "completed", "cancelled", "dead_letter"}
Terminal == {"completed", "cancelled", "dead_letter"}
NoTask == [state |-> "none", attempts |-> 0, holder |-> NoOne, expired |-> FALSE]
Idle == [stage |-> "idle", task |-> CHOOSE t \in Tasks : TRUE, generation |-> 0,
         kind |-> "none"]
Kinds == {"result", "failure"}
\* The request id of a command names its run, so its generation, and its kind.
Command(t, g, k) == [task |-> t, generation |-> g, kind |-> k]

Init ==
    /\ task = [t \in Tasks |-> NoTask]
    /\ late = [t \in Tasks |-> FALSE]
    /\ awaiting = {}
    /\ verified = {}
    /\ authority = TRUE
    /\ reports = {}
    /\ worker = [w \in Workers |-> Idle]
    /\ strays = {}
    /\ faults = 0

In(state) == {t \in Tasks : task[t].state = state}
RowFree(t) == \A w \in Workers : worker[w].stage \in {"locked", "admitted"} => worker[w].task # t
SubjectFree == \A w \in Workers : worker[w].stage # "admitted"
Fault == faults < MaxFaults /\ faults' = faults + 1

\* The lease and the run end with the state "leased".
To(t, state) ==
    task' = [task EXCEPT ![t] = [@ EXCEPT !.state = state, !.holder = NoOne, !.expired = FALSE]]

\* The order of the tasks awaiting verification, when one of them leaves.
Without(t) == {p \in awaiting : p[1] # t /\ p[2] # t}

-----------------------------------------------------------------------------
(* Creation and claim *)

\* authorizeTaskCreation() under the lock of the owner, and enqueue().
Enqueue(t) ==
    /\ task[t].state = "none"
    /\ SubjectFree
    /\ Cardinality(In("pending") \cup In("waiting_for_answer")
                   \cup In("awaiting_action_verification")) < MaxPending
    /\ To(t, "pending")
    /\ UNCHANGED <<owner, awaiting, reports, worker, strays, faults>>

\* claim() locks a row that is due, skipping those that others hold.
Lock(w, t) ==
    /\ worker[w].stage \in {"idle", "refused"}
    /\ task[t].state = "pending" /\ task[t].attempts < MaxAttempts
    /\ ~late[t] /\ authority /\ RowFree(t)
    /\ worker' = [worker EXCEPT ![w] = [stage |-> "locked", task |-> t, generation |-> 0,
                                            kind |-> "none"]]
    /\ UNCHANGED <<task, owner, awaiting, reports, strays, faults>>

\* Mutant of MayCount: the leases are counted without the lock of the owner.
MayCountAnyTime == TRUE

\* lockAndClock(): the lock of the owner, held to the end of the transaction.
MayCount == SubjectFree

\* authorizeTaskClaim(): the leases of the owner are counted.
Admit(w) ==
    /\ worker[w].stage = "locked"
    /\ MayCount
    /\ Cardinality(In("leased")) < MaxLeased
    /\ worker' = [worker EXCEPT ![w].stage = "admitted"]
    /\ UNCHANGED <<task, owner, awaiting, reports, strays, faults>>

\* Too many leases, or too many claims in this minute: claim() returns nothing.
Deny(w) ==
    /\ worker[w].stage = "locked"
    /\ SubjectFree
    /\ worker' = [worker EXCEPT ![w] = Idle]
    /\ UNCHANGED <<task, owner, awaiting, reports, strays, faults>>

\* The lease, its run and its delivery attempt are stored; a deadline that
\* passed meanwhile aborts the claim.
Claim(w) ==
    LET t == worker[w].task
    IN /\ worker[w].stage = "admitted"
       /\ IF late[t]
          THEN /\ worker' = [worker EXCEPT ![w] = Idle]
               /\ UNCHANGED task
          ELSE /\ task' = [task EXCEPT ![t] = [state |-> "leased", attempts |-> @.attempts + 1,
                                               holder |-> w, expired |-> FALSE]]
               /\ worker' = [worker EXCEPT ![w] =
                      [@ EXCEPT !.stage = "working", !.generation = task[t].attempts + 1]]
       /\ UNCHANGED <<owner, awaiting, reports, strays, faults>>

-----------------------------------------------------------------------------
(* Reports *)

Recorded(q) == \E r \in reports : Command(r.task, r.generation, r.kind) = q

\* Mutant of Replays: the lease is required before the request id is looked up.
ReplaysHeld(q) ==
    Recorded(q) /\ task[q.task].state = "leased" /\ task[q.task].attempts = q.generation

\* mutateReport(): under the lock of the task a request id that is on record
\* answers with its snapshot.
Replays(q) == Recorded(q)

\* requireAuthority(), requireLease(): the generation, its token and the expiry.
Holds(q) ==
    LET t == task[q.task]
    IN authority /\ t.state = "leased" /\ t.attempts = q.generation /\ ~t.expired

\* reportResult()
ReportResult(t) ==
    \/ /\ \E state \in {"completed", "waiting_for_answer"} : To(t, state)
       /\ UNCHANGED awaiting
    \/ /\ To(t, "awaiting_action_verification")
       /\ awaiting' = awaiting \cup {<<s, t>> : s \in In("awaiting_action_verification")}

\* A retry is due after a pause, which must not reach beyond the deadline.
Outcome(t) ==
    IF task[t].attempts >= MaxAttempts \/ late[t] THEN {"dead_letter"}
    ELSE {"pending", "dead_letter"}

\* reportFailure(): an error that is not retryable ends the task at once.
ReportFailure(t) ==
    /\ \E state \in Outcome(t) : To(t, state)
    /\ UNCHANGED awaiting

\* The command counts, and its row is stored with the generation of the task.
Counts(q) ==
    /\ ~Replays(q) /\ Holds(q)
    /\ IF q.kind = "result" THEN ReportResult(q.task) ELSE ReportFailure(q.task)
    /\ reports' = reports \cup {[task |-> q.task, generation |-> q.generation, kind |-> q.kind,
                                 ended |-> task[q.task].attempts]}

\* STALE_LEASE, LEASE_EXPIRED, AUTHORIZATION_REVOKED.
Rejects(q) == ~Replays(q) /\ ~Holds(q)
Nothing == UNCHANGED <<task, awaiting, reports>>

\* What the executor may report: when the answer is lost the same again, and
\* when a result is lost or refused a failure (MastraAutomaticTaskAdapter).
Reportable(w) ==
    CASE worker[w].stage = "working" -> Kinds
      [] worker[w].stage = "reporting" -> {worker[w].kind, "failure"}
      [] worker[w].stage = "refused" /\ worker[w].kind = "result" -> {"failure"}
      [] OTHER -> {}

Of(w, k) == Command(worker[w].task, worker[w].generation, k)
Turn(w, stage, k) ==
    worker' = [worker EXCEPT ![w] = [stage |-> stage, task |-> @.task,
                                     generation |-> @.generation, kind |-> k]]

\* A refusal is remembered while more may come of it: a failure in place of a
\* result, or the same command, that is still under way.
Told(w, k) ==
    IF k = "result" \/ Of(w, k) \in strays THEN Turn(w, "refused", k)
    ELSE worker' = [worker EXCEPT ![w] = Idle]

\* The answer reaches the executor, or is lost.
Report(w) ==
    /\ \E k \in Reportable(w) :
          \/ /\ Counts(Of(w, k)) \/ (Replays(Of(w, k)) /\ Nothing)
             /\ \/ worker' = [worker EXCEPT ![w] = Idle] /\ UNCHANGED faults
                \/ Turn(w, "reporting", k) /\ Fault
          \/ /\ Rejects(Of(w, k)) /\ Nothing
             /\ \/ Told(w, k) /\ UNCHANGED faults
                \/ Turn(w, "reporting", k) /\ Fault
    /\ UNCHANGED <<owner, strays>>

\* The executor gives a command up that is still under way ...
Delayed(w) ==
    /\ worker[w].stage = "working"
    /\ Fault
    /\ \E k \in Kinds : Turn(w, "reporting", k) /\ strays' = strays \cup {Of(w, k)}
    /\ UNCHANGED <<task, owner, awaiting, reports>>

\* ... and is handled all the same, when anything may have happened.
Arrives(q) ==
    /\ q \in strays
    /\ strays' = strays \ {q}
    /\ Counts(q) \/ ((Replays(q) \/ Rejects(q)) /\ Nothing)
    /\ UNCHANGED <<owner, worker, faults>>

\* The executor dies; a claim that was not committed is undone.
Crash(w) ==
    /\ worker[w].stage # "idle"
    /\ Fault
    /\ worker' = [worker EXCEPT ![w] = Idle]
    /\ UNCHANGED <<task, owner, awaiting, reports, strays>>

\* answer(): the task continues in a run of its own.
Answer(t) ==
    /\ task[t].state = "waiting_for_answer"
    /\ ~late[t] /\ authority
    /\ To(t, "pending")
    /\ UNCHANGED <<owner, awaiting, reports, worker, strays, faults>>

\* cancel()
Cancel(t) ==
    /\ task[t].state \notin Terminal \cup {"none"}
    /\ RowFree(t)
    /\ Fault
    /\ To(t, "cancelled")
    /\ awaiting' = Without(t)
    /\ UNCHANGED <<owner, reports, worker, strays>>

-----------------------------------------------------------------------------
(* Time and recovery *)

Abandoned(t) == LET w == task[t].holder
                IN worker[w].stage \notin {"working", "reporting"} \/ worker[w].task # t

\* No heartbeat for 60 seconds.
Expire(t) ==
    /\ task[t].state = "leased" /\ ~task[t].expired
    /\ IF Abandoned(t) THEN UNCHANGED faults ELSE Fault
    /\ task' = [task EXCEPT ![t].expired = TRUE]
    /\ UNCHANGED <<owner, awaiting, reports, worker, strays>>

\* A lease never reaches beyond the deadline.
DeadlinePasses(t) ==
    /\ task[t].state \notin Terminal \cup {"none"}
    /\ ~late[t]
    /\ late' = [late EXCEPT ![t] = TRUE]
    /\ task' = [task EXCEPT ![t].expired = @ \/ task[t].state = "leased"]
    /\ UNCHANGED <<awaiting, verified, authority, reports, worker, strays, faults>>

\* Mutant of Reclaimable: a lease of the last attempt is not looked at.
ReclaimableRetries(t) == task[t].expired /\ task[t].attempts < MaxAttempts

Reclaimable(t) == task[t].expired

\* reconcileExpired()
ReconcileExpired(t) ==
    /\ task[t].state = "leased" /\ Reclaimable(t)
    /\ \E state \in Outcome(t) : To(t, state)
    /\ UNCHANGED <<owner, awaiting, reports, worker, strays, faults>>

Before(t) == {s \in Tasks : <<s, t>> \in awaiting}

\* An incomplete verification is passed over; a verified task beyond its
\* deadline throws and ends the sweep.
SweepReaches(t) == \A s \in Before(t) : ~(s \in verified /\ late[s])

\* reconcileVerifiedActions(), completeActionVerification(); the limit of a
\* hundred tasks a sweep is left out.
CompleteVerified(t) ==
    /\ task[t].state = "awaiting_action_verification"
    /\ SweepReaches(t)
    /\ t \in verified /\ ~late[t]
    /\ To(t, "completed")
    /\ awaiting' = Without(t)
    /\ UNCHANGED <<owner, reports, worker, strays, faults>>

\* Policy execution verifies the actions of the task's run.
VerifyActions(t) ==
    /\ task[t].state = "awaiting_action_verification"
    /\ t \notin verified
    /\ verified' = verified \cup {t}
    /\ UNCHANGED <<task, late, authority, awaiting, reports, worker, strays, faults>>

\* The owner revises the assignment or the grant: what was queued under the
\* old revision is not claimed and not reported any more.
ReviseAuthority ==
    /\ authority
    /\ Fault
    /\ authority' = FALSE
    /\ UNCHANGED <<task, late, verified, awaiting, reports, worker, strays>>

Execute(w) == Admit(w) \/ Deny(w) \/ Claim(w) \/ Report(w)

Recover(t) == Expire(t) \/ ReconcileExpired(t) \/ CompleteVerified(t)

Next ==
    \/ \E t \in Tasks : \/ Enqueue(t) \/ Answer(t) \/ Cancel(t) \/ DeadlinePasses(t)
                        \/ VerifyActions(t) \/ Recover(t)
    \/ \E w \in Workers : \/ Execute(w) \/ Delayed(w) \/ Crash(w)
                          \/ \E t \in Tasks : Lock(w, t)
    \/ \E q \in strays : Arrives(q)
    \/ ReviseAuthority

Spec == Init /\ [][Next]_vars

\* An executor goes on while it lives, and the recovery runs on a timer.
Fairness ==
    /\ \A w \in Workers : WF_vars(Execute(w))
    /\ \A t \in Tasks : WF_vars(Recover(t))

FairSpec == Spec /\ Fairness

-----------------------------------------------------------------------------
(* Properties *)

\* The types of the rows and of the executors' claims.
TypeOK ==
    /\ task \in [Tasks -> [state : States, attempts : 0..MaxAttempts,
                           holder : Workers \cup {NoOne}, expired : BOOLEAN]]
    /\ \A t \in Tasks : (task[t].state = "leased") <=> (task[t].holder # NoOne)
    /\ late \in [Tasks -> BOOLEAN] /\ verified \subseteq Tasks /\ authority \in BOOLEAN
    /\ LET waiting == In("awaiting_action_verification")
       IN /\ awaiting \subseteq waiting \X waiting
          /\ \A s, t \in waiting : (<<s, t>> \in awaiting) <=> (s # t /\ <<t, s>> \notin awaiting)
    /\ reports \subseteq [task : Tasks, generation : 1..MaxAttempts, kind : Kinds,
                          ended : 1..MaxAttempts]
    /\ strays \subseteq [task : Tasks, generation : 1..MaxAttempts, kind : Kinds]
    /\ worker \in [Workers -> [stage : {"idle", "locked", "admitted", "working", "reporting",
                                        "refused"},
                               task : Tasks, generation : 0..MaxAttempts,
                               kind : Kinds \cup {"none"}]]
    /\ faults \in 0..MaxFaults

\* Executors that claim different rows at the same time do not lease more
\* tasks of the owner than the operator allows.
ConcurrencyBounded == Cardinality(In("leased")) <= MaxLeased

\* Whatever answers are lost and whatever commands come late or again: a report
\* ends the attempt that it is about, an attempt is reported once, as a result or
\* a failure, and an executor is only told of a refusal when its command does not
\* and will never count.
ReportsAreHonest ==
    /\ \A r \in reports : r.ended = r.generation
    /\ \A r, s \in reports : r.task = s.task /\ r.generation = s.generation => r = s
    /\ \A w \in Workers : worker[w].stage = "refused" => ~Recorded(Of(w, worker[w].kind))

\* No attempt holds a task for ever: the lease of an executor that died, was
\* too slow or lost its authority is taken back, the last attempt's too.
LeaseIsReclaimed(t) == task[t].state = "leased" ~> task[t].state # "leased"

\* A task whose actions are verified is completed, unless the deadline of
\* some task passed before: such a task ends every sweep at its place.
VerifiedCompletes(t) ==
    task[t].state = "awaiting_action_verification" /\ t \in verified
        ~> task[t].state \in {"completed", "cancelled"} \/ \E s \in Tasks : late[s]
=============================================================================

----------------------------- MODULE Retention -----------------------------
(***************************************************************************)
(* Retention: the lifecycle pass of the workers (apps/worker/src/lifecycle)*)
(* that removes what is past its time: LifecycleScheduler, LifecycleWorker *)
(* and the statements of PostgresLifecycleStore.                           *)
(*                                                                         *)
(* A pass runs its statements at once, each of them atomic and on a        *)
(* bounded batch of the rows that are due (the oldest, where any of them   *)
(* are here); a statement is named for what it sweeps.  "Swept" is what    *)
(* that does to a row: bodies and OAuth rows and sessions are deleted, a   *)
(* send's payload and the text of an outbox row are cleared, a push        *)
(* subscription is disabled, a task's result is redacted.  The audits are  *)
(* of the same statements and left out.                                    *)
(***************************************************************************)
EXTENDS Naturals, FiniteSets

CONSTANTS
    Workers,     \* worker processes
    Rows,        \* rows that come due
    Sweep,       \* Sweep[r]: the statement that is about the row
    Sends,       \* the rows that are submissions of approved sends
    Tasks,       \* the rows that are tasks of hosted agents
    Families,    \* the rows that are OAuth token families
    Family,      \* Family[r]: the family of a token, for tokens
    Limit,       \* rows of a batch
    MaxTroubles, \* bound: failed statements and dead processes
    MaxReturns   \* bound: bodies that are cached again

VARIABLES
    row,         \* each row is "live", "due" or "swept"
    submitted,   \* sends whose submission is neither pending nor dispatching
    report,      \* what the replay of a task's report answers
    holder,      \* the lease: whose it is, "free", or "gone" with its process
    lapsed,      \* its time is up
    loop,        \* the scheduler of each worker
    todo,        \* the statements of its pass that are still running
    troubles, returns

table == <<row, submitted, report>>
lease == <<holder, lapsed>>
workers == <<loop, todo>>
bounds == <<troubles, returns>>
vars == <<table, lease, workers, bounds>>

Statements == {Sweep[r] : r \in Rows}
NoReport == [state |-> "none", result |-> "none"]

Init ==
    /\ row = [r \in Rows |-> "live"]
    /\ submitted = {}
    /\ report = [t \in Tasks |-> NoReport]
    /\ holder = "free"
    /\ lapsed = TRUE
    /\ loop = [w \in Workers |-> "asleep"]
    /\ todo = [w \in Workers |-> {}]
    /\ troubles = 0
    /\ returns = 0

Due(r) == row[r] = "due"
Swept(r) == row[r] = "swept"
Trouble == troubles < MaxTroubles /\ troubles' = troubles + 1

-----------------------------------------------------------------------------
(* The rows *)

\* A task is over before its time can pass.
Ages(r) ==
    /\ row[r] = "live"
    /\ r \in Tasks => report[r].state \in {"completed", "verified"}
    /\ row' = [row EXCEPT ![r] = "due"]
    /\ UNCHANGED <<submitted, report, lease, workers, bounds>>

\* A body is cached again, with its time before it (cacheBody).
CachedAgain(r) ==
    /\ Sweep[r] = "bodies" /\ row[r] # "live"
    /\ returns < MaxReturns /\ returns' = returns + 1
    /\ row' = [row EXCEPT ![r] = "live"]
    /\ UNCHANGED <<submitted, report, lease, workers, troubles>>

\* The submission has an outcome, or none is known; it never is pending again.
Submitted(r) ==
    /\ r \in Sends \ submitted
    /\ submitted' = submitted \cup {r}
    /\ UNCHANGED <<row, report, lease, workers, bounds>>

\* A task is reported complete, or with the actions it asks for; their
\* verification completes it then, and the report stays as it was answered.
Reported(r) ==
    /\ r \in Tasks /\ report[r] = NoReport
    /\ \E answer \in {[state |-> "completed", result |-> "no_action"],
                      [state |-> "awaiting", result |-> "actions"]} :
          report' = [report EXCEPT ![r] = answer]
    /\ UNCHANGED <<row, submitted, lease, workers, bounds>>
Verified(r) ==
    /\ r \in Tasks /\ report[r].state = "awaiting"
    /\ report' = [report EXCEPT ![r].state = "verified"]
    /\ UNCHANGED <<row, submitted, lease, workers, bounds>>

-----------------------------------------------------------------------------
(* The scheduler *)

\* tick(): the lease is free, over, or the worker's own, and is taken for two
\* intervals.
AcquirableFree(w) == holder \in {w, "free"}   \* a fault: an expired lease is kept
Acquirable(w) == holder \in {w, "free"} \/ lapsed
Tick(w) ==
    /\ loop[w] = "asleep" /\ Acquirable(w)
    /\ holder' = w /\ lapsed' = FALSE
    /\ loop' = [loop EXCEPT ![w] = "sweeping"]
    /\ todo' = [todo EXCEPT ![w] = Statements]
    /\ UNCHANGED <<table, bounds>>

\* Rows that a statement passes over: an unresolved submission keeps its
\* payload, and a family stays while it has tokens.
KeptPayloads(r) == r \in Sends \ submitted    \* a fault: tokens do not keep their family
Kept(r) ==
    \/ r \in Sends \ submitted
    \/ r \in Families /\ \E t \in DOMAIN Family : Family[t] = r /\ ~Swept(t)

Waits(r) == Due(r) /\ ~Kept(r)

Batches(k) ==
    LET candidates == {r \in Rows : Sweep[r] = k /\ Waits(r)}
    IN {batch \in SUBSET candidates :
           Cardinality(batch) <= Limit /\ (batch = candidates \/ Cardinality(batch) = Limit)}

\* A redaction also takes the completed snapshots of the task's reports.
Redacted(batch) ==
    [t \in Tasks |-> IF t \in batch /\ report[t].state = "completed"
                     THEN [report[t] EXCEPT !.result = "redacted"] ELSE report[t]]

Run(w, k) ==
    /\ k \in todo[w]
    /\ todo' = [todo EXCEPT ![w] = @ \ {k}]
    /\ \E batch \in Batches(k) :
          /\ row' = [r \in Rows |-> IF r \in batch THEN "swept" ELSE row[r]]
          /\ report' = Redacted(batch)
    /\ UNCHANGED <<submitted, lease, loop, bounds>>

Sleep(w) ==
    /\ loop[w] = "sweeping" /\ todo[w] = {}
    /\ loop' = [loop EXCEPT ![w] = "asleep"]
    /\ UNCHANGED <<table, lease, todo, bounds>>

\* A statement that fails ends the loop; the others of the pass go on.
Fails(w, k) ==
    /\ Trouble /\ k \in todo[w]
    /\ loop' = [loop EXCEPT ![w] = "ended"]
    /\ todo' = [todo EXCEPT ![w] = @ \ {k}]
    /\ UNCHANGED <<table, lease, returns>>

\* Started anew, the process has another holder's name.
Dies(w) ==
    /\ Trouble /\ loop[w] # "down"
    /\ loop' = [loop EXCEPT ![w] = "down"]
    /\ todo' = [todo EXCEPT ![w] = {}]
    /\ UNCHANGED <<table, lease, returns>>
Restart(w) ==
    /\ loop[w] \in {"ended", "down"}
    /\ loop' = [loop EXCEPT ![w] = "asleep"]
    /\ todo' = [todo EXCEPT ![w] = {}]
    /\ holder' = IF holder = w THEN "gone" ELSE holder
    /\ UNCHANGED <<table, lapsed, bounds>>

\* A living holder renews the lease in time, unless its pass takes longer.
LeaseExpires ==
    /\ ~lapsed
    /\ holder \in Workers => loop[holder] # "asleep"
    /\ lapsed' = TRUE
    /\ UNCHANGED <<table, holder, workers, bounds>>

Next ==
    \/ \E r \in Rows : Ages(r) \/ CachedAgain(r) \/ Submitted(r) \/ Reported(r) \/ Verified(r)
    \/ \E w \in Workers :
          \/ Tick(w) \/ Sleep(w) \/ Dies(w) \/ Restart(w)
          \/ \E k \in Statements : Run(w, k) \/ Fails(w, k)
    \/ LeaseExpires

\* Loops and statements go on, the lease runs out, and a worker that is not
\* ready any more is started again.
Fairness ==
    /\ \A w \in Workers :
          /\ WF_vars(Tick(w)) /\ WF_vars(Sleep(w)) /\ WF_vars(Restart(w))
          /\ \A k \in Statements : WF_vars(Run(w, k))
    /\ WF_vars(LeaseExpires)

Spec == Init /\ [][Next]_vars
FairSpec == Spec /\ Fairness

-----------------------------------------------------------------------------

TypeOK ==
    /\ row \in [Rows -> {"live", "due", "swept"}] /\ submitted \subseteq Sends
    /\ report \in [Tasks -> [state : {"none", "awaiting", "completed", "verified"},
                             result : {"none", "no_action", "actions", "redacted"}]]
    /\ holder \in Workers \cup {"free", "gone"} /\ lapsed \in BOOLEAN
    /\ loop \in [Workers -> {"asleep", "sweeping", "ended", "down"}]
    /\ todo \in [Workers -> SUBSET Statements]
    /\ troubles \in 0..MaxTroubles /\ returns \in 0..MaxReturns

\* Whatever passes overlap: an unresolved submission keeps its payload, no token
\* loses its family, and the replay of a completed report answers what the
\* redacted task says.
SweepsAreSound ==
    /\ \A r \in Sends : Swept(r) => r \in submitted
    /\ \A t \in DOMAIN Family : Swept(Family[t]) => Swept(t)
    /\ \A t \in Tasks : Swept(t) /\ report[t].state = "completed" => report[t].result = "redacted"

\* What is past its time is swept, also when passes die over it and more is due
\* than a batch takes.
DueIsSwept == \A r \in Rows : Waits(r) ~> ~Waits(r)

\* What docs/retention.md says of the redaction: replayed reports of a redacted
\* task do not retain action identifiers.  The report that names the actions
\* was answered before their verification, and its snapshot is kept as it is.
ReplaysForget == \A t \in Tasks : Swept(t) => report[t].result # "actions"
=============================================================================

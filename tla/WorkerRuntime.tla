--------------------------- MODULE WorkerRuntime ---------------------------
(***************************************************************************)
(* The worker process: WorkerRuntime (apps/worker/src/runtime.ts) with the  *)
(* loops of its three schedulers, the health it reports (health.ts), and    *)
(* the supervisor that starts it again when it ends.                        *)
(*                                                                         *)
(* start() is one step for each thing it awaits.  What the consumers, the   *)
(* recoveries and the loops do is in the modules of their components; here  *)
(* a pass of a loop is a step that the database lets through or not.  The   *)
(* model and notification probes, which always succeed, are left out.       *)
(***************************************************************************)
EXTENDS Naturals

CONSTANTS MaxOutages, MaxRuns    \* bounds: outages, and starts of the process

VARIABLES
    working,     \* the dependencies that work
    stage,       \* how far start() or shutdown() is
    status,      \* the dependencies reported to work
    loop,        \* the schedulers
    consuming,   \* the queue has this process's handlers
    handling,    \* a job is in a handler
    database,    \* the database pool: "open" or "closed"
    code,        \* what the process exited with
    outages, runs

process == <<stage, status, loop, consuming, handling, database, code>>
vars == <<working, process, outages, runs>>

Dependencies == {"database", "hypermail", "hindsight"}
Reported == Dependencies \cup {"queue", "scheduler", "policy"}
Schedulers == {"ingestion", "lifecycle", "memory"}

Ready == status = Reported        \* readiness(): nothing unavailable

Off == [l \in Schedulers |-> "off"]

Init ==
    /\ working \in {Dependencies, Dependencies \ {"hindsight"}, Dependencies \ {"database"}}
    /\ stage = "down"
    /\ status = {}
    /\ loop = Off
    /\ consuming = FALSE
    /\ handling = FALSE
    /\ database = "closed"
    /\ code = 0
    /\ outages = 0
    /\ runs = 0

Observe(d, ok) == status' = IF ok THEN status \cup {d} ELSE status \ {d}

-----------------------------------------------------------------------------
(* start() *)

Boot ==
    /\ stage = "down" /\ runs < MaxRuns
    /\ runs' = runs + 1
    /\ stage' = "gate"
    /\ database' = "open"
    /\ UNCHANGED <<working, status, loop, consuming, handling, code, outages>>

\* Exact readiness of Hindsight gates every consumer and scheduler.
Gate ==
    /\ stage = "gate"
    /\ Observe("hindsight", "hindsight" \in working)
    /\ IF "hindsight" \in working
       THEN stage' = "queue" /\ UNCHANGED <<database, code>>
       ELSE stage' = "down" /\ database' = "closed" /\ code' = 1
    /\ UNCHANGED <<working, loop, consuming, handling, outages, runs>>

\* The queue is started and its handlers registered, which is not tried again;
\* it lives in the database.
StartQueue ==
    /\ stage = "queue"
    /\ Observe("queue", "database" \in working)
    /\ consuming' = ("database" \in working)
    /\ stage' = "recover"
    /\ UNCHANGED <<working, loop, handling, database, code, outages, runs>>

\* The first pass of every recovery is awaited, whatever comes of it; then the
\* recovery timer runs, and the loops.
StartLoops ==
    /\ stage = "recover"
    /\ loop' = [l \in Schedulers |-> "running"]
    /\ Observe("scheduler", TRUE)
    /\ stage' = "database"
    /\ UNCHANGED <<working, consuming, handling, database, code, outages, runs>>

\* Each dependency is probed once, in this order.
ProbeAt(d, next) ==
    /\ stage = d
    /\ Observe(d, d \in working)
    /\ stage' = next
    /\ UNCHANGED <<working, loop, consuming, handling, database, code, outages, runs>>
ProbePolicy ==
    /\ stage = "policy"
    /\ Observe("policy", "hypermail" \in working)
    /\ stage' = "serving"
    /\ UNCHANGED <<working, loop, consuming, handling, database, code, outages, runs>>
Probes == ProbeAt("database", "hypermail") \/ ProbeAt("hypermail", "policy") \/ ProbePolicy

-----------------------------------------------------------------------------
(* The process at work *)

\* A pass that the database fails ends the loop of the ingestion and the
\* lifecycle scheduler, which nothing begins again; the memory scheduler
\* leaves it to its next pass.
Mortal == Schedulers \ {"memory"}

LoopEndsUnseen(l) ==             \* a fault: nobody catches it
    /\ loop[l] = "running" /\ l \in Mortal /\ "database" \notin working
    /\ loop' = [loop EXCEPT ![l] = "ended"]
    /\ UNCHANGED <<working, stage, status, consuming, handling, database, code, outages, runs>>
LoopEnds(l) ==
    /\ loop[l] = "running" /\ l \in Mortal /\ "database" \notin working
    /\ loop' = [loop EXCEPT ![l] = "ended"]
    /\ Observe("scheduler", FALSE)
    /\ UNCHANGED <<working, stage, consuming, handling, database, code, outages, runs>>

\* The timer that probes Hindsight again, every thirty seconds.
ProbeHindsight ==
    /\ stage = "serving"
    /\ Observe("hindsight", "hindsight" \in working)
    /\ UNCHANGED <<working, stage, loop, consuming, handling, database, code, outages, runs>>

HandlerBegins ==
    /\ consuming /\ ~handling
    /\ handling' = TRUE
    /\ UNCHANGED <<working, stage, status, loop, consuming, database, code, outages, runs>>
HandlerEnds ==
    /\ handling
    /\ handling' = FALSE
    /\ UNCHANGED <<working, stage, status, loop, consuming, database, code, outages, runs>>

WorldChanges ==
    /\ outages < MaxOutages
    /\ \E d \in Dependencies : working' = working \ {d} /\ d \in working
    /\ outages' = outages + 1
    /\ UNCHANGED <<process, runs>>
WorldRecovers ==
    /\ working # Dependencies
    /\ working' = Dependencies
    /\ UNCHANGED <<process, outages, runs>>

-----------------------------------------------------------------------------
(* The end of the process *)

\* SIGTERM or SIGINT.  The signal path is installed when start() is through;
\* before that the signal ends the process.  Loops do not begin another pass,
\* and the queue takes no more jobs.
Signal ==
    /\ stage = "serving"
    /\ stage' = "draining"
    /\ loop' = Off
    /\ Observe("scheduler", FALSE)
    /\ consuming' = FALSE
    /\ UNCHANGED <<working, handling, database, code, outages, runs>>

\* The queue waits for its handlers; then the database is closed.
HandlersDone == ~handling
Drained ==
    /\ stage = "draining" /\ HandlersDone
    /\ stage' = "drained"
    /\ database' = "closed"
    /\ status' = status \ {"database", "queue"}
    /\ UNCHANGED <<working, loop, consuming, handling, code, outages, runs>>

Gone(result) ==
    /\ stage' = "down"
    /\ status' = {}
    /\ loop' = Off
    /\ consuming' = FALSE
    /\ handling' = FALSE
    /\ database' = "closed"
    /\ code' = result
    /\ UNCHANGED <<working, outages, runs>>
Exit == stage = "drained" /\ Gone(0)

\* The shutdown's time is up, or the process is killed.
TimeIsUp == stage \in {"draining", "drained"} /\ Gone(1)
Killed == stage # "down" /\ Gone(1)

Starting == Boot \/ Gate \/ StartQueue \/ StartLoops \/ Probes
Stopping == Drained \/ Exit \/ TimeIsUp

Next ==
    \/ Starting \/ Stopping \/ Signal \/ Killed
    \/ \E l \in Schedulers : LoopEnds(l)
    \/ ProbeHindsight \/ HandlerBegins \/ HandlerEnds
    \/ WorldChanges \/ WorldRecovers

\* start() and shutdown() go on, timers fire, and what is down comes back; the
\* process itself need not.
Fairness ==
    /\ WF_vars(Gate \/ StartQueue \/ StartLoops \/ Probes)
    /\ WF_vars(Stopping) /\ WF_vars(ProbeHindsight) /\ WF_vars(WorldRecovers)

Spec == Init /\ [][Next]_vars
FairSpec == Spec /\ Fairness

-----------------------------------------------------------------------------

TypeOK ==
    /\ working \subseteq Dependencies
    /\ stage \in {"down", "gate", "queue", "recover", "database", "hypermail", "policy",
                  "serving", "draining", "drained"}
    /\ status \subseteq Reported
    /\ loop \in [Schedulers -> {"off", "running", "ended"}]
    /\ consuming \in BOOLEAN /\ handling \in BOOLEAN
    /\ database \in {"open", "closed"} /\ code \in {0, 1}
    /\ outages \in 0..MaxOutages /\ runs \in 0..MaxRuns

\* A worker that reports itself ready takes jobs from the queue and runs every
\* loop, however its dependencies came and went while it started.
ReadyMeansServing ==
    Ready => consuming /\ \A l \in Schedulers : loop[l] = "running"

\* No job is in a handler when the database is closed under it.
DatabaseOutlivesHandlers == handling => database = "open"

\* What docs/release/deployed-fault-drill.md says of a restart of PostgreSQL:
\* readiness becomes unavailable and then recovers.  It does not: the loops
\* that ended are not begun again.
ReadinessRecovers ==
    stage = "serving" /\ "scheduler" \notin status ~> Ready \/ stage # "serving"
=============================================================================

----------------------------- MODULE MCProgress -----------------------------
(***************************************************************************)
(* What must come to an end whoever fails on the way: mail that arrives,   *)
(* recovery mail, tasks of hosted agents and journaled tool calls.  They   *)
(* share no state here, so a behaviour picks one of them and leaves the    *)
(* others as they start.                                                   *)
(***************************************************************************)
EXTENDS ArrivalIngestion, WorkServices

CONSTANT t1    \* one of the tasks

VARIABLE part

arrivals == <<arrived, checkpoint, row, cutoff, jobs, queueId, sent, holder, lapsed,
              pc, known, batch, pending, offered, outlasted, failures>>

ProgressInit ==
    /\ Init /\ Access!Init /\ Tasks!Init /\ Calls!Init
    /\ part \in {"arrivals", "recovery", "tasks", "calls"}

ProgressNext ==
    /\ UNCHANGED part
    /\ \/ part = "arrivals" /\ Next /\ UNCHANGED <<access, tasks, calls>>
       \/ part = "recovery" /\ Access!Next /\ UNCHANGED <<arrivals, tasks, calls>>
       \/ part = "tasks" /\ Tasks!Next /\ UNCHANGED <<arrivals, access, calls>>
       \/ part = "calls" /\ Calls!Next /\ UNCHANGED <<arrivals, access, tasks>>

\* The Fairness of each module, of the part it is about.
ProgressFairness ==
    /\ \A w \in Workers : /\ WF_arrivals(part = "arrivals" /\ Poll(w))
                          /\ WF_arrivals(part = "arrivals" /\ Dispatch(w))
    /\ WF_arrivals(part = "arrivals" /\ LeaseExpires)
    /\ \A m \in Recoveries : WF_access(part = "recovery" /\ Access!Sweep(m))
    /\ \A d \in MailSchedulers : WF_access(part = "recovery" /\ Access!Work(d))
    /\ \A w \in TaskWorkers : WF_tasks(part = "tasks" /\ Tasks!Execute(w))
    /\ \A t \in HostedTasks : WF_tasks(part = "tasks" /\ Tasks!Recover(t))
    /\ \A m \in Mutations :
          /\ WF_calls(part = "calls" /\ Calls!Handle(m))
          /\ WF_calls(part = "calls" /\ \E e \in Executors : Calls!Claim(e, m))
    /\ \A e \in Executors : WF_calls(part = "calls" /\ Calls!Recover(e))

ProgressSpec ==
    /\ ProgressInit /\ [][ProgressNext]_<<arrivals, access, tasks, calls, part>>
    /\ ProgressFairness

-----------------------------------------------------------------------------

\* Every message that arrives after the baseline gets its queued job, and every
\* recovery mail is delivered or given up and its link removed, also when
\* processes die over them.
MailComesThrough ==
    /\ part = "arrivals" => ArrivalsReachTheAgent
    /\ Access!MailSettles

\* Every journaled action comes to an outcome, also when the web process dies
\* over it, except a draft's; no attempt keeps a task for ever; and verified
\* work is completed unless a task past its deadline blocks the sweep.  Either
\* task stands for the other.
WorkSettles ==
    Calls!JournalSettles /\ Tasks!LeaseIsReclaimed(t1) /\ Tasks!VerifiedCompletes(t1)
=============================================================================

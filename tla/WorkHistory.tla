----------------------------- MODULE WorkHistory ----------------------------
(***************************************************************************)
(* The history of one activity as AgentWorkStore keeps it                  *)
(* (packages/db/src/agent-work-store.ts), with the transitions of          *)
(* packages/contracts/src/activity-domain.ts and the triggers of           *)
(* packages/db/drizzle.  Every method is one transaction under row locks,  *)
(* so a step.  A caller supplies a revision or a sequence number that it   *)
(* read before; unless that is still current the method throws, as every   *)
(* refusal does, and nothing is changed.  A method called again with the   *)
(* identity of an existing row answers with that row.  Neither is a step.  *)
(* Payloads, the frozen authority and times are left out, and so is what   *)
(* the store does not write: proposals, questions and jobs.                *)
(***************************************************************************)
EXTENDS Naturals, Sequences, FiniteSets, SequencesExt

CONSTANTS
    Actions,       \* identities of actions
    NoAction,      \* not an action
    MaxRuns,       \* bound on the runs of the activity
    MaxEvents,     \* bound on its events
    MaxRevision    \* bound on its revision

VARIABLES
    activity,      \* agent_activities
    runs,          \* agent_runs by sequence
    action,        \* agent_authorized_actions
    evidence,      \* agent_action_verifications
    events,        \* agent_activity_events by sequence
    memory         \* actions and outcomes in mailbox_memory_events

vars == <<activity, runs, action, evidence, events, memory>>

ActivityStates == {"none", "open", "waiting_for_answer", "resolved", "attention_required",
                   "acknowledged"}
\* Outcomes after which nothing may continue are one; so are "failed" and "cancelled".
Outcomes == {"question_asked", "failed", "finished"}
\* "unchecked" is any trigger, of whatever kind, that nobody compared with a run;
\* the store does not read the trigger of a run that it has.
Triggers == {"unchecked", "question_answer", "retry"}
\* What a run continues is history: the run createContinuation() was given, or 0.
Runs == [state : {"created", "running", "completed"}, outcome : Outcomes \cup {"none"},
         trigger : Triggers, continues : Nat]
Open == {"authorized", "executing", "verifying"}
Failures == {"failed", "unverifiable", "cancelled"}
Rows == [state : Open \cup Failures \cup {"none", "verified"}, retryOf : Actions \cup {NoAction},
         attempt : Nat]
\* Whether an event was written with the evidence is history.
Event(of, proven) == [of |-> of, proven |-> proven]
Events == [of : Actions \cup {NoAction}, proven : BOOLEAN]

Init ==
    /\ activity = [state |-> "none", revision |-> 0]
    /\ runs = <<>>
    /\ action = [a \in Actions |-> [state |-> "none", retryOf |-> NoAction, attempt |-> 0]]
    /\ evidence = {}
    /\ events = <<>>
    /\ memory = {}

Exists == activity.state # "none"

-----------------------------------------------------------------------------
(* Activity and runs *)

CreateActivity ==
    /\ ~Exists
    /\ activity' = [state |-> "open", revision |-> 1]
    /\ UNCHANGED <<runs, action, evidence, events, memory>>

\* activityTransitions, which the trigger repeats.
Lawful(from) ==
    CASE from = "open" -> {"waiting_for_answer", "resolved", "attention_required"}
      [] from = "waiting_for_answer" -> {"open", "resolved", "attention_required"}
      [] from = "attention_required" -> {"open", "resolved", "acknowledged"}
      [] from = "resolved" -> {"acknowledged"}
      [] OTHER -> {}

\* The trigger finds no unresolved work: an action that was not verified, be it
\* given up and retried since, or a run under way.
NothingOpen ==
    /\ \A a \in Actions : action[a].state \in {"none", "verified"}
    /\ \A r \in 1..Len(runs) : runs[r].state = "completed"

TransitionActivity ==
    /\ Exists /\ activity.revision < MaxRevision
    /\ \E to \in Lawful(activity.state) :
          /\ to \in {"resolved", "acknowledged"} => NothingOpen
          /\ activity' = [state |-> to, revision |-> activity.revision + 1]
    /\ UNCHANGED <<runs, action, evidence, events, memory>>

InsertRun(trigger, prior) ==
    /\ Exists /\ Len(runs) < MaxRuns
    /\ runs' = Append(runs, [state |-> "created", outcome |-> "none", trigger |-> trigger,
                             continues |-> prior])
    /\ UNCHANGED <<activity, action, evidence, events, memory>>

\* createRun() takes any trigger, an answer and a retry as well, and does not
\* look at the run that it names.
CreateRun == InsertRun("unchecked", 0)

\* Mutant of Continues: the sequence of the prior run is not compared.
ContinuesAny(p) == p \in 1..Len(runs) /\ runs[p].state = "completed"

\* Only the last run of the activity has the sequence before the next one.
Continues(p) == p = Len(runs) /\ runs[p].state = "completed"

\* createContinuation(): the prior run asked, or failed.
CreateContinuation(p) ==
    /\ Continues(p)
    /\ \/ runs[p].outcome = "question_asked" /\ InsertRun("question_answer", p)
       \/ runs[p].outcome = "failed" /\ InsertRun("retry", p)

SetRun(r, to, outcome) ==
    /\ runs' = [runs EXCEPT ![r].state = to, ![r].outcome = outcome]
    /\ UNCHANGED <<activity, action, evidence, events, memory>>

StartRun(r) == runs[r].state = "created" /\ SetRun(r, "running", "none")

CompleteRun(r) ==
    /\ runs[r].state = "running"
    /\ \E outcome \in Outcomes : SetRun(r, "completed", outcome)

-----------------------------------------------------------------------------
(* Actions *)

Insert(a, retryOf, attempt) ==
    /\ action[a].state = "none"
    /\ action' = [action EXCEPT ![a] = [state |-> "authorized", retryOf |-> retryOf,
                                        attempt |-> attempt]]
    /\ UNCHANGED <<activity, runs, evidence, events, memory>>

\* authorizeAction(), in any run of the activity.
AuthorizeAction(a) == runs # <<>> /\ Insert(a, NoAction, 1)

\* validateAgentActionRetry()
MayRetry(prior) == action[prior].state \in {"failed", "unverifiable"}

RetryAction(a, prior) ==
    /\ MayRetry(prior)
    /\ Insert(a, prior, action[prior].attempt + 1)

SetAction(a, to) ==
    /\ action' = [action EXCEPT ![a].state = to]
    /\ UNCHANGED <<activity, runs>>

StartAction(a) ==
    /\ action[a].state = "authorized"
    /\ SetAction(a, "executing")
    /\ UNCHANGED <<evidence, events, memory>>

ReportAction(a) ==
    /\ action[a].state = "executing"
    /\ SetAction(a, "verifying")
    /\ UNCHANGED <<evidence, events, memory>>

Verifiable(a) == action[a].state = "verifying"

\* verifyAction(): evidence, state, event and memory in one transaction.
VerifyAction(a) ==
    /\ Verifiable(a)
    /\ Len(events) < MaxEvents
    /\ SetAction(a, "verified")
    /\ evidence' = evidence \cup {a}
    /\ events' = Append(events, Event(a, TRUE))
    /\ memory' = memory \cup {<<a, "verified">>}

\* failAction()
FailAction(a) ==
    /\ action[a].state \in Open
    /\ \E outcome \in Failures :
          /\ SetAction(a, outcome)
          /\ memory' = IF outcome = "cancelled" THEN memory ELSE memory \cup {<<a, outcome>>}
    /\ UNCHANGED <<evidence, events>>

\* appendEvent() takes any event, also one that calls an action verified.
AppendEvent ==
    /\ Exists
    /\ Len(events) < MaxEvents
    /\ \E of \in Actions \cup {NoAction} : events' = Append(events, Event(of, FALSE))
    /\ UNCHANGED <<activity, runs, action, evidence, memory>>

Next ==
    \/ CreateActivity \/ TransitionActivity \/ CreateRun \/ AppendEvent
    \/ \E r \in 1..Len(runs) : CreateContinuation(r) \/ StartRun(r) \/ CompleteRun(r)
    \/ \E a \in Actions : \/ AuthorizeAction(a) \/ StartAction(a) \/ ReportAction(a)
                          \/ VerifyAction(a) \/ FailAction(a)
                          \/ \E prior \in Actions : RetryAction(a, prior)

Spec == Init /\ [][Next]_vars

-----------------------------------------------------------------------------
(* Properties *)

TypeOK ==
    /\ activity \in [state : ActivityStates, revision : 0..MaxRevision]
    /\ runs \in Seq(Runs) /\ Len(runs) <= MaxRuns
    /\ action \in [Actions -> Rows]
    /\ evidence \subseteq Actions
    /\ events \in Seq(Events) /\ Len(events) <= MaxEvents
    /\ memory \subseteq Actions \X (Failures \cup {"verified"})

\* However callers race and repeat themselves, and whatever events they write:
\* an action in the state verified has its evidence, one event that was written
\* with it, and one memory, of that; and nothing else has any of them.
VerifiedIsOnRecord ==
    \A a \in Actions :
        /\ (action[a].state = "verified") = (a \in evidence)
        /\ Cardinality({i \in 1..Len(events) : events[i] = Event(a, TRUE)}) =
              IF a \in evidence THEN 1 ELSE 0
        /\ {m \in memory : m[1] = a} =
              IF action[a].state \in {"verified", "failed", "unverifiable"}
              THEN {<<a, action[a].state>>} ELSE {}

\* A retried attempt stays given up: its work is not done by it after all.
RetriesFollowFailure ==
    \A a \in Actions : action[a].retryOf # NoAction =>
        LET prior == action[action[a].retryOf]
        IN prior.state \in {"failed", "unverifiable"} /\ action[a].attempt = prior.attempt + 1

\* Whatever runs other callers create in between, of whatever trigger: a run that
\* createContinuation() stored comes right after the one it answers or retries,
\* which had ended so as to ask for that; hence no run is continued twice.
ContinuedOnce ==
    \A i \in 1..Len(runs) : runs[i].continues # 0 =>
        LET prior == runs[runs[i].continues]
        IN /\ runs[i].continues = i - 1
           /\ prior.state = "completed"
           /\ \/ prior.outcome = "question_asked" /\ runs[i].trigger = "question_answer"
              \/ prior.outcome = "failed" /\ runs[i].trigger = "retry"
=============================================================================

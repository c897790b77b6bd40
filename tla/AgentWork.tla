----------------------------- MODULE AgentWork -----------------------------
(***************************************************************************)
(* The work of the embedded assistant on one activity, from the arrival    *)
(* job to the actions it was allowed to take: apps/worker/src/production.ts *)
(* (job claim and DeliverAgentConsumer), packages/agent (TriageService and *)
(* its persistence), packages/db/src/agent-proposal-store.ts (proposals,   *)
(* review, authorisation, aggregation) and the owner's operations of       *)
(* apps/web.                                                               *)
(*                                                                         *)
(* Consumers of the queue run concurrently and may hold a delivery the     *)
(* queue has already given to another.  Every handler is one transaction;  *)
(* between them only the claimed attempt and run are remembered.  An       *)
(* operation of the owner that comes with an outdated version changes      *)
(* nothing and is not a step.  What becomes of an authorised action is     *)
(* PolicyExecution's; here it is only settled.                             *)
(***************************************************************************)
EXTENDS Integers, FiniteSets

CONSTANTS
    Consumers,   \* concurrent agent.evaluate handlers
    Keys,        \* action keys of a decision
    Shapes,      \* plans the model may answer: [actions, unsure, needs]
    Resumptions, \* how answers come back: "web", the application; "workflow", the library
    MaxAttempts, \* bound: attempts of the job
    MaxRuns,     \* bound: runs of the activity
    MaxQueued,   \* bound: deliveries of the job in the queue
    MaxFaults,   \* bound: crashes, redeliveries, lost marks and deferrals
    MaxChanges   \* bound: changes of the authority or of the pause

\* agentDecisionSchema: an action rests on actions of its own plan.
ASSUME PlansAssumption ==
    Shapes \subseteq [actions : SUBSET Keys, unsure : SUBSET Keys, needs : SUBSET (Keys \X Keys)]

ASSUME BoundsAssumption ==
    /\ MaxAttempts \in Nat \ {0} /\ MaxRuns \in Nat \ {0}
    /\ MaxQueued \in Nat /\ MaxFaults \in Nat /\ MaxChanges \in Nat

VARIABLES
    mail,        \* "ordinary" or a "recovery" mail of the product itself
    auth,        \* the manager assignment, grant and ceiling of the mailbox
    paused,      \* autonomy is paused
    job,         \* agent_jobs
    runs,        \* agent_runs, by sequence
    decision,    \* decisions, by attempt
    question,    \* questions, by the attempt that asked
    proposal,    \* agent_action_proposals: the state
    needs,       \* agent_proposal_dependencies
    review,      \* agent_action_reviews: the decision
    action,      \* agent_authorized_actions and its legacy twin, by proposal
    canonical,   \* agent_activities.state
    legacy,      \* activities.state
    offset,      \* agent_activities.revision - activities.version
    errored,     \* activities.last_error_code is set
    queued,      \* deliveries of the job in the queue
    marking,     \* a dispatcher has sent the job and not yet recorded it
    consumer,    \* one handler's locals
    faults, changes

records == <<job, runs, decision, question, proposal, needs, review, action,
             canonical, legacy, offset, errored>>
queue == <<queued, marking>>
owner == <<auth, paused, changes>>
vars == <<mail, owner, records, queue, consumer, faults>>

Attempts == 1..MaxAttempts
RunIds == 1..MaxRuns
NoRun == 0
Proposals == Attempts \X Keys \X {"model", "owner"}

Jobs == [state : {"pending", "running", "suspended", "succeeded", "failed"},
         attempt : 0..MaxAttempts, run : RunIds \cup {NoRun}, marked : BOOLEAN]
RunRows == [state : {"none", "running", "completed"},
            outcome : {"none", "actionable", "question", "no_action", "failed"}, rev : Nat]
DecisionKinds == {"actionable", "question", "no_action", "failed"}
NoPlan == [actions |-> {}, unsure |-> {}, needs |-> {}]
Undecided == [kind |-> "none", run |-> NoRun, plan |-> NoPlan]
ProposalStates == {"none", "waiting_review", "ready", "authorized", "rejected",
                   "superseded", "blocked"}
Verdicts == {"approve", "reject", "correct"}
QuestionStates == {"none", "open", "answered"}
ActionRows == {"none", "working", "verified", "failed"}
CanonicalStates == {"open", "waiting_for_answer", "attention_required", "resolved",
                    "acknowledged"}
LegacyStates == {"new", "waiting_question", "failed", "handled", "acknowledged"}
Idle == [pc |-> "idle", attempt |-> 0, run |-> NoRun]

\* What an arrival leaves behind.
Init ==
    /\ mail \in {"ordinary", "recovery"}
    /\ auth = [rev |-> 1, live |-> TRUE]
    /\ paused = FALSE
    /\ job = [state |-> "pending", attempt |-> 0, run |-> NoRun, marked |-> FALSE]
    /\ runs = [r \in RunIds |-> [state |-> "none", outcome |-> "none", rev |-> 0]]
    /\ decision = [a \in Attempts |-> Undecided]
    /\ question = [a \in Attempts |-> "none"]
    /\ proposal = [p \in Proposals |-> "none"]
    /\ needs = {}
    /\ review = [p \in Proposals |-> "none"]
    /\ action = [p \in Proposals |-> "none"]
    /\ canonical = "open"
    /\ legacy = "new"
    /\ offset = 0
    /\ errored = FALSE
    /\ queued = 0
    /\ marking = FALSE
    /\ consumer = [c \in Consumers |-> Idle]
    /\ faults = 0
    /\ changes = 0

-----------------------------------------------------------------------------
(* The rows of the activity as one value, the way a transaction changes them. *)

Rows == [job |-> job, runs |-> runs, decision |-> decision, question |-> question,
         proposal |-> proposal, needs |-> needs, review |-> review, action |-> action,
         canonical |-> canonical, legacy |-> legacy, offset |-> offset, errored |-> errored]

Become(w) ==
    /\ job' = w.job /\ runs' = w.runs /\ decision' = w.decision /\ question' = w.question
    /\ proposal' = w.proposal /\ needs' = w.needs /\ review' = w.review /\ action' = w.action
    /\ canonical' = w.canonical /\ legacy' = w.legacy /\ offset' = w.offset
    /\ errored' = w.errored

MoveTo(w, state) ==
    IF w.canonical = state THEN w
    ELSE [w EXCEPT !.canonical = state, !.offset = @ + 1]

Unfinished(w) ==
    \/ \E p \in Proposals :
          \/ w.proposal[p] \in {"waiting_review", "ready", "blocked"}
          \/ w.action[p] \in {"working", "failed"}
    \/ \E r \in RunIds : w.runs[r].state = "running"
    \/ \E a \in Attempts : w.question[a] = "open"
    \/ w.job.state # "succeeded"

\* enforce_agent_activity_transition: what the trigger refuses aborts the transaction.
Lawful(w) ==
    \/ w.canonical = canonical
    \/ /\ <<canonical, w.canonical>> \in
              {<<"open", "waiting_for_answer">>, <<"open", "resolved">>,
               <<"open", "attention_required">>, <<"waiting_for_answer", "open">>,
               <<"waiting_for_answer", "resolved">>,
               <<"waiting_for_answer", "attention_required">>,
               <<"attention_required", "open">>, <<"attention_required", "resolved">>,
               <<"attention_required", "acknowledged">>, <<"resolved", "acknowledged">>}
       /\ w.canonical \in {"resolved", "acknowledged"} => ~Unfinished(w)

Commit(w) == \E after \in {w} : Lawful(after) /\ Become(after)

\* The proposals that rest, directly or not, on one of the given ones: what the
\* recursive query answers, the least set closed under the dependencies.
Dependents(w, roots) ==
    LET resting == {d[1] : d \in w.needs}
        Closed(S) == \A d \in w.needs : d[2] \in roots \cup S => d[1] \in S
    IN {p \in resting : \A S \in SUBSET resting : Closed(S) => p \in S}

Block(w, blocked) ==
    [w EXCEPT !.proposal = [p \in Proposals |->
        IF p \in blocked /\ w.proposal[p] \in {"ready", "waiting_review"} THEN "blocked"
        ELSE w.proposal[p]]]

StateOf(w) ==
    IF \/ \E p \in Proposals : w.proposal[p] = "waiting_review"
       \/ \E a \in Attempts : w.question[a] = "open"
    THEN "waiting_for_answer"
    ELSE IF \/ \E p \in Proposals : w.proposal[p] = "blocked" \/ w.action[p] = "failed"
            \/ w.job.state = "failed"
    THEN "attention_required"
    ELSE IF \/ \E p \in Proposals : w.proposal[p] = "ready" \/ w.action[p] = "working"
            \/ \E r \in RunIds : w.runs[r].state = "running"
            \/ w.job.state \in {"pending", "running", "suspended"}
    THEN "open" ELSE "resolved"

LegacyOf(state) ==
    CASE state = "waiting_for_answer" -> "waiting_question"
      [] state = "attention_required" -> "failed"
      [] state = "resolved" -> "handled"
      [] OTHER -> "new"

\* aggregateAgentActivityInTransaction(): what a change means for the activity.
Aggregate(w) ==
    IF w.canonical = "acknowledged" THEN w ELSE
    LET failed == {p \in Proposals : w.proposal[p] \in {"rejected", "blocked"}
                                     \/ w.action[p] = "failed"}
        blocked == Block(w, Dependents(w, failed))
        moved == MoveTo(blocked, StateOf(blocked))
        told == LegacyOf(StateOf(blocked))
    IN IF moved.legacy = told THEN moved
       ELSE [moved EXCEPT !.legacy = told, !.offset = @ - 1]

\* authority(): what the run was frozen under still holds, unchanged.
Authority(p) == auth.live /\ runs[decision[p[1]].run].rev = auth.rev

-----------------------------------------------------------------------------
(* The queue *)

\* DispatchRecovery sends what is pending and was not recorded as sent ...
Dispatch ==
    /\ ~marking
    /\ job.state = "pending" /\ ~job.marked
    /\ queued < MaxQueued
    /\ queued' = queued + 1
    /\ marking' = TRUE
    /\ UNCHANGED <<mail, owner, records, consumer, faults>>

\* ... and records it afterwards, whatever became of the job meanwhile.
MarkDispatched ==
    /\ marking
    /\ marking' = FALSE
    /\ job' = [job EXCEPT !.marked = TRUE]
    /\ UNCHANGED <<mail, owner, runs, decision, question, proposal, needs, review, action,
                   canonical, legacy, offset, errored, queued, consumer, faults>>

LoseMark ==
    /\ marking
    /\ faults < MaxFaults
    /\ faults' = faults + 1
    /\ marking' = FALSE
    /\ UNCHANGED <<mail, owner, records, queued, consumer>>

Leave(c) == consumer' = [consumer EXCEPT ![c] = Idle]

\* A handler that throws leaves its delivery in the queue.
Throw(c) ==
    /\ Leave(c)
    /\ queued' = IF queued < MaxQueued THEN queued + 1 ELSE queued
    /\ UNCHANGED marking

\* A handler dies, or the queue takes a slow one for dead: delivered again.
Redeliver(c) ==
    /\ consumer[c].pc # "idle"
    /\ faults < MaxFaults
    /\ queued < MaxQueued
    /\ queued' = queued + 1
    /\ faults' = faults + 1
    /\ \/ Leave(c)
       \/ UNCHANGED consumer
    /\ UNCHANGED <<mail, owner, records, marking>>

-----------------------------------------------------------------------------
(* ClaimingAgentConsumer and DeliverAgentConsumer *)

\* claim() finds nothing to do, or no authority: the delivery is spent.
ClaimNothing(c) ==
    /\ consumer[c].pc = "idle"
    /\ queued > 0
    /\ job.state \notin {"pending", "running"} \/ ~auth.live
    /\ queued' = queued - 1
    /\ UNCHANGED <<mail, owner, records, marking, consumer, faults>>

\* claim(): the first claim creates the run, a later one goes on under the job's.
Claim(c) ==
    /\ consumer[c].pc = "idle"
    /\ queued > 0
    /\ job.state \in {"pending", "running"} /\ auth.live
    /\ LET run == IF job.run = NoRun THEN 1 ELSE job.run
           attempt == IF job.state = "pending" THEN job.attempt + 1 ELSE job.attempt
       IN /\ attempt \in Attempts
          /\ job' = [job EXCEPT !.state = "running", !.attempt = attempt, !.run = run]
          /\ runs' = IF job.run # NoRun THEN runs
                     ELSE [runs EXCEPT ![1] = [state |-> "running", outcome |-> "none",
                                               rev |-> auth.rev]]
          /\ consumer' = [consumer EXCEPT ![c] =
                 [pc |-> "reading", attempt |-> attempt, run |-> run]]
    /\ queued' = queued - 1
    /\ UNCHANGED <<mail, owner, decision, question, proposal, needs, review, action,
                   canonical, legacy, offset, errored, marking, faults>>

Completed(w, run, outcome) ==
    IF w.runs[run].state # "running" THEN w
    ELSE [w EXCEPT !.runs[run].state = "completed", !.runs[run].outcome = outcome]

MoveFromOpen(w, state) == IF w.canonical = "open" THEN MoveTo(w, state) ELSE w

\* failAdapter(): the mail could not be read.  It asks nothing of the job.
ReadFails(c) ==
    /\ consumer[c].pc = "reading"
    /\ Become(MoveFromOpen(
           Completed([Rows EXCEPT !.job.state = "failed", !.legacy = "failed", !.errored = TRUE],
                     consumer[c].run, "failed"), "attention_required"))
    /\ Throw(c)
    /\ UNCHANGED <<mail, owner, faults>>

\* excludeRecoveryMail(): the product's own recovery mail is never evaluated.
Exclude(c) ==
    /\ consumer[c].pc = "reading"
    /\ mail = "recovery"
    /\ LET excluded == MoveFromOpen(
               Completed([Rows EXCEPT !.job.state = "succeeded", !.legacy = "handled",
                                      !.errored = FALSE], consumer[c].run, "no_action"),
               "resolved")
       IN IF job.state = "running" /\ job.run = consumer[c].run
            THEN Commit(excluded)
            ELSE UNCHANGED records
    /\ Leave(c)
    /\ UNCHANGED <<mail, owner, queue, faults>>

Read(c) ==
    /\ consumer[c].pc = "reading"
    /\ mail = "ordinary"
    /\ consumer' = [consumer EXCEPT ![c].pc = "deciding"]
    /\ UNCHANGED <<mail, owner, records, queue, faults>>

\* Owner inputs, retention or recall unavailable: deferMemory(), which throws
\* when the job is no longer this run's.
DeferMemory(c) ==
    /\ consumer[c].pc = "deciding"
    /\ faults < MaxFaults
    /\ faults' = faults + 1
    /\ IF job.state = "running" /\ job.run = consumer[c].run
         THEN /\ Become([Rows EXCEPT !.job.state = "pending", !.job.marked = FALSE])
              /\ Leave(c)
              /\ UNCHANGED queue
         ELSE Throw(c) /\ UNCHANGED records
    /\ UNCHANGED <<mail, owner>>

-----------------------------------------------------------------------------
(* TriageService.triage() and persistOutcome() *)

Outcomes == {[kind |-> k, plan |-> NoPlan] : k \in DecisionKinds \ {"actionable"}}
            \cup {[kind |-> "actionable", plan |-> s] : s \in Shapes}

JobOf(kind) ==
    CASE kind = "question" -> "suspended" [] kind = "failed" -> "failed" [] OTHER -> "succeeded"

ActivityOf(kind) ==
    CASE kind = "question" -> "waiting_question" [] kind = "failed" -> "failed"
      [] kind = "actionable" -> "new" [] OTHER -> "handled"

\* materializeDecisionInTransaction(): once, and only for a run that ended with requests.
Materialize(w, a) ==
    LET made == w.decision[a]
        Model(k) == <<a, k, "model">>
    IN IF \/ w.runs[made.run].outcome # "actionable"
          \/ \E p \in Proposals : p[1] = a /\ w.proposal[p] # "none"
       THEN w
       ELSE Aggregate([w EXCEPT
           !.proposal = [p \in Proposals |->
               IF p[1] = a /\ p[2] \in made.plan.actions /\ p[3] = "model"
               THEN IF p[2] \in made.plan.unsure THEN "waiting_review" ELSE "ready"
               ELSE w.proposal[p]],
           !.needs = @ \cup {<<Model(d[1]), Model(d[2])>> : d \in made.plan.needs}])

\* The stored decision of the attempt decides, whoever stored it.
Persisted(a, stored) ==
    LET decided == Completed([Rows EXCEPT
            !.decision[a] = stored,
            !.question[a] = IF stored.kind = "question" /\ @ = "none" THEN "open" ELSE @,
            !.legacy = ActivityOf(stored.kind),
            !.job.state = JobOf(stored.kind),
            !.job.attempt = IF @ < a THEN a ELSE @], stored.run, stored.kind)
    IN CASE stored.kind = "question" -> MoveFromOpen(decided, "waiting_for_answer")
         [] stored.kind = "failed" -> MoveFromOpen(decided, "attention_required")
         [] stored.kind = "no_action" -> MoveFromOpen(decided, "resolved")
         [] stored.kind = "actionable" -> Materialize(decided, a)

\* Mutant of StoredFor: the last answer of the model replaces the stored one.
StoredLast(a, run, outcome) == [kind |-> outcome.kind, run |-> run, plan |-> outcome.plan]

StoredFor(a, run, outcome) ==
    IF decision[a].kind # "none" THEN decision[a]
    ELSE [kind |-> outcome.kind, run |-> run, plan |-> outcome.plan]

\* A first decision needs the job to be this run's; a replay of another run's is read only.
Persist(c, outcome) ==
    /\ consumer[c].pc = "deciding"
    /\ LET a == consumer[c].attempt
           stored == StoredFor(a, consumer[c].run, outcome)
       IN \/ /\ job.run = stored.run
             /\ Commit(Persisted(a, stored))
             /\ Leave(c)
             /\ UNCHANGED queue
          \/ /\ job.run # stored.run
             /\ decision[a].kind # "none"
             /\ Leave(c)
             /\ UNCHANGED <<records, queue>>
          \/ /\ \/ job.run # stored.run /\ decision[a].kind = "none"
                \/ job.run = stored.run /\ ~Lawful(Persisted(a, stored))
             /\ Throw(c)
             /\ UNCHANGED records
    /\ UNCHANGED <<mail, owner, faults>>

-----------------------------------------------------------------------------
(* Owner operations; each comes with the current version *)

\* answerQuestion(): the job is pending again, under the run and mark it has.
Answer(a) ==
    /\ "web" \in Resumptions
    /\ question[a] = "open"
    /\ Become([Rows EXCEPT !.question[a] = "answered", !.legacy = "new", !.offset = @ - 1,
                           !.job.state = "pending"])
    /\ UNCHANGED <<mail, owner, queue, consumer, faults>>

\* claimQuestion(): the answer continues under a run of its own; after a crash
\* the workflow engine resumes it again.
NextRun == Cardinality({r \in RunIds : runs[r].state # "none"}) + 1

ResumeQuestion(c, a) ==
    /\ "workflow" \in Resumptions
    /\ consumer[c].pc = "idle"
    /\ a + 1 \in Attempts
    /\ \/ /\ question[a] = "open" /\ auth.live
          /\ \E r \in RunIds : runs[r].state = "none"
          /\ LET answered == [Rows EXCEPT
                     !.question[a] = "answered", !.legacy = "new",
                     !.runs[NextRun] = [state |-> "running", outcome |-> "none", rev |-> auth.rev],
                     !.job.state = "running", !.job.run = NextRun]
                 open == IF canonical = "waiting_for_answer" THEN MoveTo(answered, "open")
                         ELSE answered
             IN /\ Become(open)
                /\ consumer' = [consumer EXCEPT ![c] =
                       [pc |-> "deciding", attempt |-> a + 1, run |-> NextRun]]
                /\ UNCHANGED faults
       \/ /\ faults < MaxFaults /\ faults' = faults + 1
          /\ question[a] = "answered" /\ job.run # NoRun
          /\ consumer' = [consumer EXCEPT ![c] =
                 [pc |-> "deciding", attempt |-> a + 1, run |-> job.run]]
          /\ UNCHANGED records
    /\ UNCHANGED <<mail, owner, queue>>

\* AgentProposalStore.review(): what rests on the reviewed proposal follows it.
Review(p, verdict) ==
    /\ proposal[p] = "waiting_review"
    /\ verdict # "reject" => Authority(p)
    /\ LET successor == <<p[1], p[2], "owner">>
           inherited == {<<successor, d[2]>> : d \in {e \in needs : e[1] = p}}
           repointed == {IF d[2] = p THEN <<d[1], successor>> ELSE d : d \in needs \cup inherited}
           reviewed == [Rows EXCEPT !.review[p] = verdict]
           after ==
               CASE verdict = "approve" -> [reviewed EXCEPT !.proposal[p] = "ready"]
                 [] verdict = "correct" ->
                        [reviewed EXCEPT !.proposal[p] = "superseded",
                                         !.proposal[successor] = "ready", !.needs = repointed]
                 [] verdict = "reject" ->
                        Block([reviewed EXCEPT !.proposal[p] = "rejected"],
                              Dependents(reviewed, {p}))
       IN Commit(Aggregate(after))
    /\ UNCHANGED <<mail, owner, queue, consumer, faults>>

\* retryAction(): a failed action sends the whole message to a new attempt.
RetryAction(p) ==
    /\ action[p] = "failed"
    /\ \A a \in Attempts : question[a] # "open"
    /\ job.attempt + 1 \in Attempts
    /\ Become([Rows EXCEPT !.legacy = "new", !.offset = @ - 1, !.job.state = "pending",
                           !.job.attempt = @ + 1, !.job.marked = FALSE])
    /\ UNCHANGED <<mail, owner, queue, consumer, faults>>

\* The owner is offered the retry of a failed item that had no proposals ...
Retryable ==
    /\ canonical = "attention_required"
    /\ errored
    /\ \A p \in Proposals : proposal[p] = "none"
    /\ job.state \notin {"pending", "running", "suspended"}

\* ... requestRetry() compares the version it showed with the other table's too.
RequestRetry ==
    /\ Retryable
    /\ offset = 0
    /\ job.attempt + 1 \in Attempts
    /\ Become([Rows EXCEPT !.legacy = "new", !.offset = @ - 1, !.job.state = "pending",
                           !.job.attempt = @ + 1, !.job.marked = FALSE])
    /\ UNCHANGED <<mail, owner, queue, consumer, faults>>

Acknowledge ==
    /\ canonical = "resolved"
    /\ ~Unfinished(Rows)
    /\ Become([Rows EXCEPT !.canonical = "acknowledged", !.legacy = "acknowledged"])
    /\ UNCHANGED <<mail, owner, queue, consumer, faults>>

\* setAutonomy().
SetAutonomy ==
    /\ changes < MaxChanges
    /\ changes' = changes + 1
    /\ paused' = ~paused
    /\ UNCHANGED <<mail, auth, records, queue, consumer, faults>>

\* A new revision of the assignment, the grant or the safety ceiling.
ReviseAuthority ==
    /\ changes < MaxChanges
    /\ changes' = changes + 1
    /\ \E live \in BOOLEAN : auth' = [rev |-> auth.rev + 1, live |-> live]
    /\ UNCHANGED <<mail, paused, records, queue, consumer, faults>>

-----------------------------------------------------------------------------
(* The policy worker *)

\* Mutant of Verified: a dependency that is only authorised will do.
VerifiedOrWorking(p) ==
    \A d \in needs : d[1] = p => action[d[2]] \in {"working", "verified"}

Verified(p) == \A d \in needs : d[1] = p => action[d[2]] = "verified"

\* authorizeReadyProposal(): without authority, or over a draft the owner has
\* changed since, the proposal is blocked.
AuthorizeReady(p) ==
    /\ proposal[p] = "ready"
    /\ Verified(p)
    /\ ~paused
    /\ \E current \in BOOLEAN :
          LET after == IF Authority(p) /\ current
                       THEN [Rows EXCEPT !.proposal[p] = "authorized", !.action[p] = "working"]
                       ELSE [Rows EXCEPT !.proposal[p] = "blocked"]
          IN Commit(Aggregate(after))
    /\ UNCHANGED <<mail, owner, queue, consumer, faults>>

\* PolicyExecutor settles the action and aggregates in the same transaction.
Settle(p) ==
    /\ action[p] = "working"
    /\ \E result \in {"verified", "failed"} :
          LET after == Aggregate([Rows EXCEPT !.action[p] = result])
          IN Commit(after)
    /\ UNCHANGED <<mail, owner, queue, consumer, faults>>

Evaluate(c) ==
    \/ ReadFails(c) \/ Exclude(c) \/ Read(c)
    \/ \E outcome \in Outcomes : Persist(c, outcome)

Next ==
    \/ Dispatch \/ MarkDispatched \/ LoseMark
    \/ \E c \in Consumers :
          \/ Redeliver(c) \/ ClaimNothing(c) \/ Claim(c) \/ Evaluate(c) \/ DeferMemory(c)
          \/ \E a \in Attempts : ResumeQuestion(c, a)
    \/ \E a \in Attempts : Answer(a)
    \/ \E p \in Proposals :
          \/ \E verdict \in Verdicts : Review(p, verdict)
          \/ RetryAction(p) \/ AuthorizeReady(p) \/ Settle(p)
    \/ RequestRetry \/ Acknowledge \/ SetAutonomy \/ ReviseAuthority

Spec == Init /\ [][Next]_vars

(* The worker dispatches and consumes without end; nothing makes the owner *)
(* answer or review, and no property here needs an action to be executed.  *)
FairSpec ==
    /\ Spec
    /\ WF_vars(Dispatch) /\ WF_vars(MarkDispatched)
    /\ \A c \in Consumers : WF_vars(ClaimNothing(c) \/ Claim(c) \/ Evaluate(c))

-----------------------------------------------------------------------------
(* Properties *)

RowTypes ==
    [job : Jobs, runs : [RunIds -> RunRows],
     decision : [Attempts -> [kind : DecisionKinds, run : RunIds, plan : Shapes \cup {NoPlan}]
                             \cup {Undecided}],
     question : [Attempts -> QuestionStates], proposal : [Proposals -> ProposalStates],
     needs : SUBSET (Proposals \X Proposals), review : [Proposals -> Verdicts \cup {"none"}],
     action : [Proposals -> ActionRows], canonical : CanonicalStates, legacy : LegacyStates,
     offset : Int, errored : BOOLEAN]

\* The types of the rows, and the handlers' locals: who evaluates has a run.
TypeOK ==
    /\ mail \in {"ordinary", "recovery"}
    /\ auth \in [rev : Nat, live : BOOLEAN]
    /\ paused \in BOOLEAN
    /\ Rows \in RowTypes
    /\ queued \in 0..MaxQueued
    /\ marking \in BOOLEAN
    /\ consumer \in [Consumers -> [pc : {"reading", "deciding"}, attempt : Attempts, run : RunIds]
                                  \cup {Idle}]
    /\ faults \in 0..MaxFaults
    /\ changes \in 0..MaxChanges

\* The queue may deliver an attempt twice and the model may answer differently
\* each time: the first stored decision of an attempt, its question and its
\* proposals stand, and a late handler cannot put other ones in their place.
DecisionsStay ==
    \A a \in Attempts : decision[a].kind # "none" =>
        /\ decision'[a] = decision[a]
        /\ question[a] # "none" => question'[a] # "none"
        /\ \A k \in Keys : (proposal[<<a, k, "model">>] = "none"
                                /\ \E j \in Keys : proposal[<<a, j, "model">>] # "none")
                           => proposal'[<<a, k, "model">>] = "none"
FirstDecisionStands == [][DecisionsStay]_vars

\* An action is only ever authorised over work that is verified and stays so,
\* also when the owner replaced the proposal it depended on by a correction;
\* and an unsure proposal only after the owner approved it.
AuthorisedRestsOnVerified ==
    /\ \A d \in needs : action[d[1]] # "none" => action[d[2]] = "verified"
    /\ \A p \in Proposals : action[p] # "none" /\ p[2] \in decision[p[1]].plan.unsure =>
          \/ review[p] = "approve"
          \/ p[3] = "owner" /\ review[<<p[1], p[2], "model">>] = "correct"

\* Nothing waits for the owner or for its turn over work that can no longer
\* happen: the dependents of what was rejected, blocked or failed are blocked
\* by the transaction that decided it.  Nothing aggregates an acknowledged
\* activity any more, which a late answer of the model may still give plans.
GivenUp(p) == proposal[p] \in {"rejected", "blocked"} \/ action[p] = "failed"
NothingWaitsOnFailure ==
    canonical # "acknowledged" =>
        \A d \in needs : GivenUp(d[2]) => proposal[d[1]] \notin {"waiting_review", "ready"}

\* Dependencies hold in both directions: nothing is authorised before what it
\* needs is verified, and nothing waits for what was given up.
DependenciesHold == AuthorisedRestsOnVerified /\ NothingWaitsOnFailure

\* The plans of an activity, with the types of what they are kept in.
PlansHold == TypeOK /\ DependenciesHold

\* A job claimed from the queue does not stay running while its authority
\* stands: it ends, is deferred or is delivered again.  (In an activity that
\* needs attention the trigger refuses, for ever, a decision the owner would
\* have to review; a later run is the workflow engine's to resume.)
Underway ==
    job.state = "running" /\ job.run = 1 /\ auth.live /\ canonical # "attention_required"
RunningConcludes == Underway ~> ~Underway

\* What the application tells the owner: an answer resumes the work.
AnswerResumesWork ==
    \A a \in Attempts : question[a] = "answered" ~> job.state = "running"

\* What the application tells the owner: a failed item that is not already
\* retrying can be retried.
FailedCanBeRetried == Retryable => offset = 0
=============================================================================

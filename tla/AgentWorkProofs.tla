-------------------------- MODULE AgentWorkProofs --------------------------
(***************************************************************************)
(* What AgentWork promises of decisions and plans, for any consumers, keys, *)
(* plans and bounds: the types of its rows, that the first decision of an  *)
(* attempt stands, and that nothing is authorised before what it rests on  *)
(* is verified, nor waits for what was given up.                           *)
(*                                                                         *)
(* A transaction is a function of the activity's rows taken as one value,  *)
(* so the invariant is stated of such a value (PlanSound) and each         *)
(* transaction is a lemma about the value it commits.                      *)
(***************************************************************************)
EXTENDS AgentWork, FiniteSetTheorems, TLAPS

Twin(p) == <<p[1], p[2], "model">>

\* What an authorised action rests on is verified.
RestsOnVerified(w) ==
    \A d \in w.needs : w.action[d[1]] # "none" => w.action[d[2]] = "verified"

\* What a proposal has come to tells who decided over it.
DecidedOver(w, p) ==
    /\ w.action[p] # "none" => w.proposal[p] = "authorized"
    /\ w.proposal[p] = "waiting_review" => p[3] = "model"
    /\ w.proposal[p] # "none" => w.decision[p[1]].kind # "none"
    /\ p[3] = "owner" /\ w.proposal[p] # "none" =>
          w.proposal[Twin(p)] = "superseded" /\ w.review[Twin(p)] = "correct"
    /\ /\ p[3] = "model" /\ w.proposal[p] \in {"ready", "authorized"}
       /\ p[2] \in w.decision[p[1]].plan.unsure
       => w.review[p] = "approve"
Decided(w) == \A p \in Proposals : DecidedOver(w, p)

\* Nothing waits over what was given up.
NothingWaits(w) ==
    \A d \in w.needs :
        w.proposal[d[2]] \in {"rejected", "blocked"} \/ w.action[d[2]] = "failed" =>
            w.proposal[d[1]] \notin {"waiting_review", "ready"}

PlanSound(w) ==
    /\ RestsOnVerified(w)
    /\ Decided(w)
    /\ w.canonical # "acknowledged" => NothingWaits(w)

Sound == PlanSound(Rows)
-----------------------------------------------------------------------------
(* Rows as one value. *)

LEMMA RunIdsInhabited == 1 \in RunIds /\ NoRun \notin RunIds
BY BoundsAssumption DEF RunIds, NoRun

\* What Become writes is what Rows reads next.
LEMMA RowsBecome ==
    ASSUME NEW w \in RowTypes, Become(w)
    PROVE  Rows' = w
BY DEF Rows, Become, RowTypes

LEMMA RowsStay == ASSUME UNCHANGED records PROVE Rows' = Rows
BY DEF Rows, records

\* What aggregation and the state of the activity leave alone.
SameWork(v, w) ==
    /\ v.job = w.job /\ v.runs = w.runs /\ v.decision = w.decision /\ v.question = w.question
    /\ v.needs = w.needs /\ v.review = w.review /\ v.action = w.action

LEMMA Moving ==
    ASSUME NEW w \in RowTypes, NEW state \in CanonicalStates
    PROVE  LET v == MoveTo(w, state) IN
           /\ v \in RowTypes /\ SameWork(v, w) /\ v.proposal = w.proposal
           /\ v.canonical = state /\ v.legacy = w.legacy
<1>1. CASE w.canonical = state
  BY <1>1 DEF MoveTo, SameWork
<1>2. CASE w.canonical # state
  <2>1. MoveTo(w, state) = [w EXCEPT !.canonical = state, !.offset = w.offset + 1]
    BY <1>2 DEF MoveTo
  <2>2. w.offset + 1 \in Int
    BY DEF RowTypes
  <2> QED BY <2>1, <2>2 DEF RowTypes, SameWork
<1> QED BY <1>1, <1>2

LEMMA MovingFromOpen ==
    ASSUME NEW w \in RowTypes, NEW state \in CanonicalStates \ {"acknowledged"}
    PROVE  LET v == MoveFromOpen(w, state) IN
           /\ v \in RowTypes /\ SameWork(v, w) /\ v.proposal = w.proposal
           /\ v.canonical = "acknowledged" <=> w.canonical = "acknowledged"
<1>1. CASE w.canonical = "open"
  BY <1>1, Moving DEF MoveFromOpen, CanonicalStates
<1>2. CASE w.canonical # "open"
  BY <1>2 DEF MoveFromOpen, SameWork
<1> QED BY <1>1, <1>2

LEMMA Completing ==
    ASSUME NEW w \in RowTypes, NEW run \in RunIds, NEW outcome \in DecisionKinds
    PROVE  LET v == Completed(w, run, outcome) IN
           /\ v \in RowTypes
           /\ v.job = w.job /\ v.decision = w.decision /\ v.question = w.question
           /\ v.needs = w.needs /\ v.review = w.review /\ v.action = w.action
           /\ v.proposal = w.proposal /\ v.canonical = w.canonical
<1>1. CASE w.runs[run].state # "running"
  BY <1>1 DEF Completed
<1>2. CASE w.runs[run].state = "running"
  <2> DEFINE ended == [w.runs EXCEPT ![run].state = "completed", ![run].outcome = outcome]
  <2>1. Completed(w, run, outcome) = [w EXCEPT !.runs = ended]
    BY <1>2 DEF Completed, RowTypes
  <2>2. ended \in [RunIds -> RunRows]
    BY DEF RowTypes, RunRows, DecisionKinds
  <2> HIDE DEF ended
  <2> QED BY <2>1, <2>2 DEF RowTypes
<1> QED BY <1>1, <1>2

-----------------------------------------------------------------------------
(* What rests on what was given up. *)

LEMMA DependentsClosed ==
    ASSUME NEW w \in RowTypes, NEW roots, NEW d \in w.needs,
           d[2] \in roots \cup Dependents(w, roots)
    PROVE  d[1] \in Dependents(w, roots)
<1> DEFINE resting == {e[1] : e \in w.needs}
           Closed(S) == \A e \in w.needs : e[2] \in roots \cup S => e[1] \in S
<1>1. d[1] \in resting
  OBVIOUS
<1>2. ASSUME NEW S \in SUBSET resting, Closed(S) PROVE d[1] \in S
  <2>1. d[2] \in roots \cup S
    BY <1>2 DEF Dependents
  <2> QED BY <1>2, <2>1
<1> QED BY <1>1, <1>2 DEF Dependents

LEMMA Blocking ==
    ASSUME NEW w \in RowTypes, NEW blocked
    PROVE  LET v == Block(w, blocked) IN
           /\ v \in RowTypes /\ SameWork(v, w) /\ v.canonical = w.canonical
           /\ \A p \in Proposals :
                 v.proposal[p] = IF p \in blocked /\ w.proposal[p] \in {"ready", "waiting_review"}
                                 THEN "blocked" ELSE w.proposal[p]
BY DEF Block, RowTypes, SameWork, ProposalStates

\* What is given up takes with it all that rests on it.
LEMMA BlockingClears ==
    ASSUME NEW w \in RowTypes, NEW roots,
           \A p \in Proposals :
               w.proposal[p] \in {"rejected", "blocked"} \/ w.action[p] = "failed" => p \in roots
    PROVE  NothingWaits(Block(w, Dependents(w, roots)))
<1> DEFINE v == Block(w, Dependents(w, roots))
<1>1. /\ v.needs = w.needs /\ v.action = w.action
      /\ \A p \in Proposals :
            v.proposal[p] = IF p \in Dependents(w, roots)
                                   /\ w.proposal[p] \in {"ready", "waiting_review"}
                            THEN "blocked" ELSE w.proposal[p]
  BY Blocking DEF SameWork
<1> HIDE DEF v
<1> SUFFICES ASSUME NEW d \in v.needs,
                    v.proposal[d[2]] \in {"rejected", "blocked"} \/ v.action[d[2]] = "failed"
             PROVE  v.proposal[d[1]] \notin {"waiting_review", "ready"}
  BY DEF NothingWaits, v
<1>2. d \in w.needs /\ d[1] \in Proposals /\ d[2] \in Proposals
  BY <1>1 DEF RowTypes
<1>3. d[2] \in roots \cup Dependents(w, roots)
  BY <1>1, <1>2
<1>4. d[1] \in Dependents(w, roots)
  BY <1>2, <1>3, DependentsClosed
<1> QED BY <1>1, <1>2, <1>4

\* What an aggregation does to the rows, and what it leaves as it was.
Aggregated(v, w) ==
    /\ v \in RowTypes /\ SameWork(v, w)
    /\ \A p \in Proposals :
          \/ v.proposal[p] = w.proposal[p]
          \/ v.proposal[p] = "blocked" /\ w.proposal[p] \in {"ready", "waiting_review"}
    /\ v.canonical # "acknowledged" => NothingWaits(v)

LEMMA StatesTyped ==
    ASSUME NEW w
    PROVE  /\ StateOf(w) \in CanonicalStates \ {"acknowledged"}
           /\ LegacyOf(StateOf(w)) \in LegacyStates
BY DEF StateOf, LegacyOf, CanonicalStates, LegacyStates

LEMMA Aggregating == ASSUME NEW w \in RowTypes PROVE Aggregated(Aggregate(w), w)
<1>1. CASE w.canonical = "acknowledged"
  BY <1>1 DEF Aggregate, Aggregated, SameWork
<1>2. CASE w.canonical # "acknowledged"
  <2> DEFINE failed == {p \in Proposals : w.proposal[p] \in {"rejected", "blocked"}
                                          \/ w.action[p] = "failed"}
             blocked == Block(w, Dependents(w, failed))
             moved == MoveTo(blocked, StateOf(blocked))
             told == LegacyOf(StateOf(blocked))
             v == IF moved.legacy = told THEN moved
                  ELSE [moved EXCEPT !.legacy = told, !.offset = moved.offset - 1]
  <2>1. /\ blocked \in RowTypes /\ SameWork(blocked, w)
        /\ \A p \in Proposals :
              blocked.proposal[p] =
                  IF p \in Dependents(w, failed) /\ w.proposal[p] \in {"ready", "waiting_review"}
                  THEN "blocked" ELSE w.proposal[p]
    BY Blocking
  <2>2. NothingWaits(blocked)
    BY BlockingClears
  <2>3. /\ StateOf(blocked) \in CanonicalStates \ {"acknowledged"} /\ told \in LegacyStates
    BY StatesTyped
  <2>4. Aggregate(w) = v
    BY <1>2 DEF Aggregate
  <2> HIDE DEF blocked, told
  <2>5. /\ moved \in RowTypes /\ SameWork(moved, blocked) /\ moved.proposal = blocked.proposal
    BY <2>1, <2>3, Moving
  <2> HIDE DEF moved
  <2>6. v \in RowTypes /\ SameWork(v, moved) /\ v.proposal = moved.proposal
    <3>1. moved.offset - 1 \in Int
      BY <2>5 DEF RowTypes
    <3>2. CASE moved.legacy = told
      BY <2>5, <3>2 DEF SameWork
    <3>3. CASE moved.legacy # told
      <4>1. v = [moved EXCEPT !.legacy = told, !.offset = moved.offset - 1]
        BY <3>3
      <4> HIDE DEF v
      <4> QED BY <2>3, <2>5, <3>1, <4>1 DEF RowTypes, SameWork
    <3> QED BY <3>2, <3>3
  <2> HIDE DEF v
  <2>7. SameWork(v, w)
    BY <2>1, <2>5, <2>6 DEF SameWork
  <2>8. NothingWaits(v)
    BY <2>2, <2>5, <2>6 DEF NothingWaits, SameWork
  <2>9. \A p \in Proposals :
            \/ v.proposal[p] = w.proposal[p]
            \/ v.proposal[p] = "blocked" /\ w.proposal[p] \in {"ready", "waiting_review"}
    BY <2>1, <2>5, <2>6
  <2> QED BY <2>4, <2>6, <2>7, <2>8, <2>9 DEF Aggregated
<1> QED BY <1>1, <1>2

\* What waits may be blocked without harm to what was decided.
LEMMA WaitingMayBeBlocked ==
    ASSUME NEW v, NEW w, SameWork(v, w), RestsOnVerified(w), Decided(w),
           \A p \in Proposals :
               \/ v.proposal[p] = w.proposal[p]
               \/ v.proposal[p] = "blocked" /\ w.proposal[p] \in {"ready", "waiting_review"}
    PROVE  RestsOnVerified(v) /\ Decided(v)
<1>1. RestsOnVerified(v)
  BY DEF RestsOnVerified, SameWork
<1>2. ASSUME NEW p \in Proposals PROVE DecidedOver(v, p)
  <2>1. Twin(p) \in Proposals
    BY DEF Proposals, Twin
  <2>2. v.action = w.action /\ v.decision = w.decision /\ v.review = w.review
    BY DEF SameWork
  <2> QED BY <2>1, <2>2 DEF Decided, DecidedOver
<1> QED BY <1>1, <1>2 DEF Decided

\* An aggregation keeps what the plans rest on and clears what waits in vain.
LEMMA AggregatingKeeps ==
    ASSUME NEW w \in RowTypes, RestsOnVerified(w), Decided(w)
    PROVE  PlanSound(Aggregate(w))
BY Aggregating, WaitingMayBeBlocked, Zenon DEF Aggregated, PlanSound

-----------------------------------------------------------------------------
(* Transactions that leave the plans alone. *)

\* What was decided stays: the decision of an attempt, its question, its proposals.
Kept(v, w) ==
    /\ \A p \in Proposals : w.proposal[p] # "none" => v.proposal[p] # "none"
    /\ \A a \in Attempts : w.decision[a].kind # "none" =>
          /\ v.decision[a] = w.decision[a]
          /\ w.question[a] # "none" => v.question[a] # "none"
          /\ \A k \in Keys : (w.proposal[<<a, k, "model">>] = "none"
                                  /\ \E j \in Keys : w.proposal[<<a, j, "model">>] # "none")
                             => v.proposal[<<a, k, "model">>] = "none"

\* A transaction takes sound rows to sound rows that keep what was decided.
Follows(v, w) == v \in RowTypes /\ Kept(v, w) /\ (PlanSound(w) => PlanSound(v))

SamePlans(v, w) ==
    /\ v.decision = w.decision /\ v.needs = w.needs /\ v.review = w.review
    /\ v.action = w.action /\ v.proposal = w.proposal
    /\ \A a \in Attempts : w.question[a] # "none" => v.question[a] # "none"
    /\ v.canonical # "acknowledged" => w.canonical # "acknowledged"

LEMMA SamePlansFollow ==
    ASSUME NEW v \in RowTypes, NEW w, SamePlans(v, w) PROVE Follows(v, w)
<1>1. Kept(v, w)
  BY DEF Kept, SamePlans
<1>2. PlanSound(w) => PlanSound(v)
  BY DEF PlanSound, RestsOnVerified, Decided, DecidedOver, NothingWaits, SamePlans
<1> QED BY <1>1, <1>2 DEF Follows

LEMMA SameWorkSamePlans ==
    ASSUME NEW v, NEW w, SameWork(v, w), v.proposal = w.proposal,
           v.canonical # "acknowledged" => w.canonical # "acknowledged"
    PROVE  SamePlans(v, w)
BY DEF SameWork, SamePlans

LEMMA SamePlansTransitive ==
    ASSUME NEW u, NEW v, NEW w, SamePlans(u, v), SamePlans(v, w) PROVE SamePlans(u, w)
BY DEF SamePlans

LEMMA CompletedSamePlans ==
    ASSUME NEW w \in RowTypes, NEW run \in RunIds, NEW outcome \in DecisionKinds
    PROVE  Completed(w, run, outcome) \in RowTypes /\ SamePlans(Completed(w, run, outcome), w)
BY Completing DEF SamePlans

LEMMA MovedSamePlans ==
    ASSUME NEW w \in RowTypes, NEW state \in CanonicalStates \ {"acknowledged"}
    PROVE  MoveFromOpen(w, state) \in RowTypes /\ SamePlans(MoveFromOpen(w, state), w)
BY MovingFromOpen, SameWorkSamePlans

\* A run ends, and an activity that was open moves on.
LEMMA EndingFollows ==
    ASSUME NEW w, NEW written \in RowTypes, SamePlans(written, w), NEW run \in RunIds,
           NEW outcome \in DecisionKinds, NEW state \in CanonicalStates \ {"acknowledged"}
    PROVE  Follows(MoveFromOpen(Completed(written, run, outcome), state), w)
<1> DEFINE completed == Completed(written, run, outcome)
           after == MoveFromOpen(completed, state)
<1>1. completed \in RowTypes /\ SamePlans(completed, written)
  BY CompletedSamePlans
<1> HIDE DEF completed
<1>2. after \in RowTypes /\ SamePlans(after, completed)
  BY <1>1, MovedSamePlans
<1> HIDE DEF after
<1>3. SamePlans(after, w)
  BY <1>1, <1>2, SamePlansTransitive
<1>4. Follows(after, w)
  BY <1>2, <1>3, SamePlansFollow
<1> QED BY <1>4 DEF after, completed

-----------------------------------------------------------------------------
(* A decision is stored and its plan made into proposals. *)

LEMMA FollowsTransitive ==
    ASSUME NEW u, NEW v, NEW w, Follows(u, v), Follows(v, w) PROVE Follows(u, w)
<1>1. ASSUME NEW a \in Attempts, w.decision[a].kind # "none"
      PROVE  /\ u.decision[a] = w.decision[a]
             /\ w.question[a] # "none" => u.question[a] # "none"
             /\ \A k \in Keys : (w.proposal[<<a, k, "model">>] = "none"
                                     /\ \E j \in Keys : w.proposal[<<a, j, "model">>] # "none")
                                => u.proposal[<<a, k, "model">>] = "none"
  <2>1. \A j \in Keys : <<a, j, "model">> \in Proposals
    BY DEF Proposals
  <2>2. v.decision[a] = w.decision[a] /\ u.decision[a] = v.decision[a]
    BY <1>1 DEF Follows, Kept
  <2>3. w.question[a] # "none" => u.question[a] # "none"
    BY <1>1, <2>2 DEF Follows, Kept
  <2>4. ASSUME NEW k \in Keys, w.proposal[<<a, k, "model">>] = "none",
               NEW j \in Keys, w.proposal[<<a, j, "model">>] # "none"
        PROVE  u.proposal[<<a, k, "model">>] = "none"
    <3>1. v.proposal[<<a, k, "model">>] = "none" /\ v.proposal[<<a, j, "model">>] # "none"
      BY <1>1, <2>1, <2>4 DEF Follows, Kept
    <3> QED BY <1>1, <2>2, <3>1 DEF Follows, Kept
  <2> QED BY <2>2, <2>3, <2>4
<1>2. \A p \in Proposals : w.proposal[p] # "none" => u.proposal[p] # "none"
  BY DEF Follows, Kept
<1> QED BY <1>1, <1>2 DEF Follows, Kept

\* A transaction that aggregates at its end.
LEMMA AggregatingFollows ==
    ASSUME NEW v \in RowTypes, NEW w, Kept(v, w),
           PlanSound(w) => RestsOnVerified(v) /\ Decided(v)
    PROVE  Follows(Aggregate(v), w)
<1> DEFINE u == Aggregate(v)
<1>1. Aggregated(u, v)
  BY Aggregating
<1>2. PlanSound(w) => PlanSound(u)
  BY AggregatingKeeps
<1> HIDE DEF u
<1>3. Kept(u, w)
  <2>1. \A a \in Attempts, k \in Keys : <<a, k, "model">> \in Proposals
    BY DEF Proposals
  <2>2. \A p \in Proposals : u.proposal[p] = "none" <=> v.proposal[p] = "none"
    BY <1>1 DEF Aggregated
  <2>3. u.decision = v.decision /\ u.question = v.question
    BY <1>1 DEF Aggregated, SameWork
  <2> QED BY <2>1, <2>2, <2>3 DEF Kept
<1> QED BY <1>1, <1>2, <1>3 DEF Follows, Aggregated, u

Stored == [kind : DecisionKinds, run : RunIds, plan : Shapes \cup {NoPlan}]

LEMMA PlanTyped ==
    ASSUME NEW plan \in Shapes \cup {NoPlan}
    PROVE  plan.needs \in SUBSET (Keys \X Keys)
BY PlansAssumption DEF NoPlan

LEMMA MaterializingFollows ==
    ASSUME NEW w \in RowTypes, NEW a \in Attempts, w.decision[a] \in Stored
    PROVE  Follows(Materialize(w, a), w)
<1> DEFINE made == w.decision[a]
           Model(k) == <<a, k, "model">>
           proposed == [p \in Proposals |->
               IF p[1] = a /\ p[2] \in made.plan.actions /\ p[3] = "model"
               THEN IF p[2] \in made.plan.unsure THEN "waiting_review" ELSE "ready"
               ELSE w.proposal[p]]
           added == {<<Model(d[1]), Model(d[2])>> : d \in made.plan.needs}
           v == [w EXCEPT !.proposal = proposed, !.needs = w.needs \cup added]
<1>1. CASE \/ w.runs[made.run].outcome # "actionable"
           \/ \E p \in Proposals : p[1] = a /\ w.proposal[p] # "none"
  <2>1. Materialize(w, a) = w
    BY <1>1 DEF Materialize
  <2> QED BY <2>1, SamePlansFollow DEF SamePlans
<1>2. CASE /\ w.runs[made.run].outcome = "actionable"
           /\ \A p \in Proposals : p[1] = a => w.proposal[p] = "none"
  <2>1. Materialize(w, a) = Aggregate(v)
    BY <1>2 DEF Materialize
  <2>2. proposed \in [Proposals -> ProposalStates]
    BY DEF RowTypes, ProposalStates
  <2>3. \A d \in added : d \in Proposals \X Proposals /\ d[1][1] = a /\ d[2][1] = a
    BY PlanTyped DEF Stored, Proposals
  <2>4. \A p \in Proposals : w.proposal[p] # "none" => proposed[p] = w.proposal[p]
    BY <1>2
  <2>5. \A p \in Proposals : p[1] # a => proposed[p] = w.proposal[p]
    OBVIOUS
  <2>6. \A p \in Proposals : p[1] = a /\ proposed[p] # "none" =>
            /\ p[3] = "model" /\ proposed[p] \in {"waiting_review", "ready"}
            /\ p[2] \in made.plan.unsure => proposed[p] = "waiting_review"
    BY <1>2
  <2>7. made.kind # "none"
    BY DEF Stored, DecisionKinds
  <2> HIDE DEF proposed, added
  <2>8. v \in RowTypes
    BY <2>2, <2>3 DEF RowTypes
  <2>9. /\ v.decision = w.decision /\ v.question = w.question /\ v.action = w.action
        /\ v.review = w.review /\ v.proposal = proposed /\ v.needs = w.needs \cup added
    BY DEF RowTypes
  <2> HIDE DEF v, made
  <2>10. Kept(v, w)
    <3>1. \A b \in Attempts, k \in Keys :
              <<b, k, "model">> \in Proposals /\ <<b, k, "model">>[1] = b
      BY DEF Proposals
    <3> QED BY <1>2, <2>4, <2>5, <2>9, <3>1 DEF Kept
  <2>11. ASSUME PlanSound(w) PROVE RestsOnVerified(v)
    <3>1. \A p \in Proposals : p[1] = a => w.action[p] = "none"
      BY <1>2, <2>11 DEF PlanSound, Decided, DecidedOver
    <3>2. \A d \in added : w.action[d[1]] = "none"
      BY <2>3, <3>1
    <3> QED BY <2>9, <2>11, <3>2 DEF PlanSound, RestsOnVerified
  <2>12. ASSUME PlanSound(w), NEW p \in Proposals PROVE DecidedOver(v, p)
    <3>1. Twin(p) \in Proposals /\ Twin(p)[1] = p[1] /\ Twin(p)[3] = "model"
      BY DEF Proposals, Twin
    <3>2. DecidedOver(w, p)
      BY <2>12 DEF PlanSound, Decided
    <3>3. CASE p[1] = a
      BY <1>2, <2>6, <2>7, <2>9, <3>2, <3>3 DEF DecidedOver, made
    <3>4. CASE p[1] # a
      BY <2>5, <2>9, <3>1, <3>2, <3>4 DEF DecidedOver
    <3> QED BY <3>3, <3>4
  <2> QED BY <2>1, <2>8, <2>10, <2>11, <2>12, AggregatingFollows DEF Decided
<1> QED BY <1>1, <1>2

\* The stored decision is written with its question.
LEMMA WritingFollows ==
    ASSUME NEW w \in RowTypes, NEW a \in Attempts, NEW stored \in Stored, NEW v \in RowTypes,
           w.decision[a].kind # "none" => stored = w.decision[a],
           v.decision[a] = stored, \A b \in Attempts \ {a} : v.decision[b] = w.decision[b],
           \A b \in Attempts : w.question[b] # "none" => v.question[b] # "none",
           v.needs = w.needs, v.proposal = w.proposal, v.action = w.action, v.review = w.review,
           v.canonical = w.canonical
    PROVE  Follows(v, w) /\ v.decision[a] = stored
<1>1. \A b \in Attempts : w.decision[b].kind # "none" => v.decision[b] = w.decision[b]
  OBVIOUS
<1>2. Kept(v, w)
  BY <1>1 DEF Kept
<1>3. ASSUME PlanSound(w) PROVE PlanSound(v)
  <2>1. ASSUME NEW p \in Proposals PROVE DecidedOver(v, p)
    <3>1. DecidedOver(w, p) /\ p[1] \in Attempts
      BY <1>3 DEF PlanSound, Decided, Proposals
    <3>2. w.proposal[p] # "none" => v.decision[p[1]] = w.decision[p[1]]
      BY <1>1, <3>1 DEF DecidedOver
    <3> QED BY <3>1, <3>2 DEF DecidedOver
  <2> QED BY <1>3, <2>1 DEF PlanSound, RestsOnVerified, Decided, NothingWaits
<1> QED BY <1>1, <1>2, <1>3 DEF Follows

LEMMA PersistingFollows ==
    ASSUME Rows \in RowTypes, NEW a \in Attempts, NEW stored \in Stored,
           decision[a].kind # "none" => stored = decision[a]
    PROVE  Follows(Persisted(a, stored), Rows)
<1> DEFINE asked == IF stored.kind = "question" /\ question[a] = "none" THEN "open"
                    ELSE question[a]
           tried == IF job.attempt < a THEN a ELSE job.attempt
           written == [Rows EXCEPT !.decision[a] = stored, !.question[a] = asked,
                                   !.legacy = ActivityOf(stored.kind),
                                   !.job.state = JobOf(stored.kind), !.job.attempt = tried]
           decided == Completed(written, stored.run, stored.kind)
           after == Persisted(a, stored)
<1>1. stored.kind \in DecisionKinds /\ stored.run \in RunIds
  BY DEF Stored
<1>2. /\ ActivityOf(stored.kind) \in LegacyStates
      /\ JobOf(stored.kind) \in {"suspended", "failed", "succeeded"}
  BY <1>1 DEF ActivityOf, JobOf, LegacyStates, DecisionKinds
<1>3. /\ Rows.decision = decision /\ Rows.question = question /\ Rows.job = job
      /\ question \in [Attempts -> QuestionStates] /\ job \in Jobs
  BY DEF RowTypes, Rows
<1>4. asked \in QuestionStates /\ (question[a] # "none" => asked # "none")
  BY <1>3 DEF QuestionStates
<1>5. tried \in 0..MaxAttempts
  BY <1>3 DEF Jobs, Attempts
<1> HIDE DEF asked, tried
<1>6. Follows(written, Rows) /\ written.decision[a] = stored
  <2> DEFINE decisions == [decision EXCEPT ![a] = stored]
             questions == [question EXCEPT ![a] = asked]
             ended == [job EXCEPT !.state = JobOf(stored.kind), !.attempt = tried]
  <2>1. written = [Rows EXCEPT !.decision = decisions, !.question = questions, !.job = ended,
                               !.legacy = ActivityOf(stored.kind)]
    BY <1>3 DEF RowTypes
  <2>2. /\ decisions \in [Attempts -> Stored \cup {Undecided}]
        /\ questions \in [Attempts -> QuestionStates]
    BY <1>3, <1>4 DEF RowTypes, Stored
  <2>3. ended \in Jobs
    BY <1>2, <1>3, <1>5 DEF Jobs
  <2>4. /\ \A b \in Attempts : question[b] # "none" => questions[b] # "none"
        /\ decisions[a] = stored /\ \A b \in Attempts \ {a} : decisions[b] = decision[b]
    BY <1>3, <1>4 DEF RowTypes
  <2> HIDE DEF decisions, questions, ended, written
  <2>5. /\ written.decision = decisions /\ written.question = questions
        /\ written.needs = Rows.needs /\ written.proposal = Rows.proposal
        /\ written.action = Rows.action /\ written.review = Rows.review
        /\ written.canonical = Rows.canonical
    BY <2>1 DEF RowTypes
  <2>6. written \in RowTypes
    BY <1>2, <2>1, <2>2, <2>3 DEF RowTypes, Stored
  <2> QED BY <1>3, <2>4, <2>5, <2>6, WritingFollows
<1>7. decided \in RowTypes /\ SamePlans(decided, written)
  BY <1>1, <1>6, CompletedSamePlans DEF Follows
<1>8. \/ after = MoveFromOpen(decided, "waiting_for_answer")
      \/ after = MoveFromOpen(decided, "attention_required")
      \/ after = MoveFromOpen(decided, "resolved")
      \/ after = Materialize(decided, a)
  BY <1>1, <1>3 DEF Persisted, DecisionKinds, asked, tried
<1> HIDE DEF written, decided, after
<1>9. Follows(decided, written) /\ decided.decision[a] = stored
  BY <1>6, <1>7, SamePlansFollow DEF SamePlans
<1>10. Follows(after, decided)
  <2>1. ASSUME NEW state \in {"waiting_for_answer", "attention_required", "resolved"}
        PROVE  Follows(MoveFromOpen(decided, state), decided)
    BY <1>7, MovedSamePlans, SamePlansFollow DEF CanonicalStates
  <2>2. Follows(Materialize(decided, a), decided)
    BY <1>7, <1>9, MaterializingFollows
  <2> QED BY <1>8, <2>1, <2>2
<1>11. Follows(after, Rows)
  BY <1>6, <1>9, <1>10, FollowsTransitive
<1> QED BY <1>11 DEF after

-----------------------------------------------------------------------------
(* The owner reviews a proposal. *)

LEMMA TwinTyped ==
    ASSUME NEW p \in Proposals
    PROVE  /\ Twin(p) \in Proposals /\ Twin(p)[1] = p[1]
           /\ p[3] \in {"model", "owner"} /\ (p[3] = "model" => Twin(p) = p)
BY DEF Proposals, Twin

\* A transaction over one proposal that keeps the decisions, and whose proposal was there.
LEMMA OneProposalKept ==
    ASSUME NEW v, NEW w, NEW p \in Proposals, NEW q \in Proposals, q[3] = "owner" \/ q = p,
           v.decision = w.decision, v.question = w.question,
           w.proposal[p] # "none", v.proposal[p] # "none", v.proposal[q] # "none",
           \A o \in Proposals \ {p, q} : v.proposal[o] = w.proposal[o]
    PROVE  Kept(v, w)
<1>1. \A a \in Attempts, k \in Keys :
          LET o == <<a, k, "model">> IN o \in Proposals /\ o[3] = "model"
  BY DEF Proposals
<1>2. \A o \in Proposals : o[3] = "model" /\ w.proposal[o] = "none" => v.proposal[o] = "none"
  <2> SUFFICES ASSUME NEW o \in Proposals, o[3] = "model", w.proposal[o] = "none"
               PROVE  v.proposal[o] = "none"
    OBVIOUS
  <2>1. o # p /\ o # q
    OBVIOUS
  <2> QED BY <2>1
<1>3. \A o \in Proposals : w.proposal[o] # "none" => v.proposal[o] # "none"
  OBVIOUS
<1> QED BY <1>1, <1>2, <1>3 DEF Kept

LEMMA ApprovingFollows ==
    ASSUME NEW w \in RowTypes, NEW p \in Proposals, w.proposal[p] = "waiting_review"
    PROVE  Follows(Aggregate([[w EXCEPT !.review[p] = "approve"] EXCEPT !.proposal[p] = "ready"]), w)
<1> DEFINE reviews == [w.review EXCEPT ![p] = "approve"]
           proposals == [w.proposal EXCEPT ![p] = "ready"]
           v == [w EXCEPT !.review = reviews, !.proposal = proposals]
<1>1. v = [[w EXCEPT !.review[p] = "approve"] EXCEPT !.proposal[p] = "ready"]
  BY DEF RowTypes
<1>2. /\ reviews \in [Proposals -> Verdicts \cup {"none"}] /\ reviews[p] = "approve"
      /\ proposals \in [Proposals -> ProposalStates] /\ proposals[p] = "ready"
      /\ \A o \in Proposals \ {p} : reviews[o] = w.review[o] /\ proposals[o] = w.proposal[o]
  BY DEF RowTypes, Verdicts, ProposalStates
<1> HIDE DEF reviews, proposals
<1>3. /\ v \in RowTypes
      /\ v.decision = w.decision /\ v.question = w.question /\ v.needs = w.needs
      /\ v.action = w.action /\ v.review = reviews /\ v.proposal = proposals
  BY <1>2 DEF RowTypes
<1> HIDE DEF v
<1>4. Kept(v, w)
  <2>1. w.proposal[p] # "none" /\ v.proposal[p] # "none"
    BY <1>2, <1>3
  <2>2. \A o \in Proposals \ {p, p} : v.proposal[o] = w.proposal[o]
    BY <1>2, <1>3
  <2> QED BY <1>3, <2>1, <2>2, OneProposalKept
<1>5. ASSUME PlanSound(w) PROVE RestsOnVerified(v) /\ Decided(v)
  <2>1. DecidedOver(w, p)
    BY <1>5 DEF PlanSound, Decided
  <2>2. ASSUME NEW o \in Proposals PROVE DecidedOver(v, o)
    <3>1. DecidedOver(w, o)
      BY <1>5 DEF PlanSound, Decided
    <3>2. CASE o = p
      BY <1>2, <1>3, <2>1, <3>2 DEF DecidedOver
    <3>3. CASE o # p
      <4>1. o[3] = "owner" /\ w.proposal[o] # "none" => Twin(o) # p
        BY <3>1 DEF DecidedOver
      <4> QED BY <1>2, <1>3, <3>1, <3>3, <4>1, TwinTyped DEF DecidedOver
    <3> QED BY <3>2, <3>3
  <2> QED BY <1>3, <1>5, <2>2 DEF PlanSound, RestsOnVerified, Decided
<1>6. Follows(Aggregate(v), w)
  BY <1>3, <1>4, <1>5, AggregatingFollows
<1> QED BY <1>1, <1>6

\* What rests on a proposal that waits for its review has no action.
LEMMA WaitingHasNoAction ==
    ASSUME NEW w \in RowTypes, PlanSound(w), NEW p \in Proposals,
           w.proposal[p] \in {"waiting_review", "ready"}
    PROVE  /\ w.action[p] = "none"
           /\ \A d \in w.needs : d[2] = p => w.action[d[1]] = "none"
<1>1. w.action[p] = "none"
  BY DEF PlanSound, Decided, DecidedOver
<1> QED BY <1>1 DEF PlanSound, RestsOnVerified

LEMMA RejectingFollows ==
    ASSUME NEW w \in RowTypes, NEW p \in Proposals, w.proposal[p] = "waiting_review"
    PROVE  LET reviewed == [w EXCEPT !.review[p] = "reject"] IN
           Follows(Aggregate(Block([reviewed EXCEPT !.proposal[p] = "rejected"],
                                   Dependents(reviewed, {p}))), w)
<1> DEFINE reviews == [w.review EXCEPT ![p] = "reject"]
           proposals == [w.proposal EXCEPT ![p] = "rejected"]
           reviewed == [w EXCEPT !.review[p] = "reject"]
           v == [w EXCEPT !.review = reviews, !.proposal = proposals]
           blocked == Block(v, Dependents(reviewed, {p}))
<1>1. v = [reviewed EXCEPT !.proposal[p] = "rejected"]
  BY DEF RowTypes
<1>2. /\ reviews \in [Proposals -> Verdicts \cup {"none"}]
      /\ proposals \in [Proposals -> ProposalStates] /\ proposals[p] = "rejected"
      /\ \A o \in Proposals \ {p} : reviews[o] = w.review[o] /\ proposals[o] = w.proposal[o]
  BY DEF RowTypes, Verdicts, ProposalStates
<1> HIDE DEF reviews, proposals, reviewed
<1>3. /\ v \in RowTypes
      /\ v.decision = w.decision /\ v.question = w.question /\ v.needs = w.needs
      /\ v.action = w.action /\ v.review = reviews /\ v.proposal = proposals
  BY <1>2 DEF RowTypes
<1> HIDE DEF v
<1>4. Kept(v, w)
  <2>1. w.proposal[p] # "none" /\ v.proposal[p] # "none"
    BY <1>2, <1>3
  <2>2. \A o \in Proposals \ {p, p} : v.proposal[o] = w.proposal[o]
    BY <1>2, <1>3
  <2> QED BY <1>3, <2>1, <2>2, OneProposalKept
<1>5. ASSUME PlanSound(w) PROVE RestsOnVerified(v) /\ Decided(v)
  <2>1. DecidedOver(w, p)
    BY <1>5 DEF PlanSound, Decided
  <2>2. ASSUME NEW o \in Proposals PROVE DecidedOver(v, o)
    <3>1. DecidedOver(w, o)
      BY <1>5 DEF PlanSound, Decided
    <3>2. CASE o = p
      BY <1>2, <1>3, <2>1, <3>2 DEF DecidedOver
    <3>3. CASE o # p
      <4>1. o[3] = "owner" /\ w.proposal[o] # "none" => Twin(o) # p
        BY <3>1 DEF DecidedOver
      <4> QED BY <1>2, <1>3, <3>1, <3>3, <4>1, TwinTyped DEF DecidedOver
    <3> QED BY <3>2, <3>3
  <2> QED BY <1>3, <1>5, <2>2 DEF PlanSound, RestsOnVerified, Decided
<1>6. /\ blocked \in RowTypes /\ SameWork(blocked, v)
      /\ \A o \in Proposals :
            \/ blocked.proposal[o] = v.proposal[o]
            \/ blocked.proposal[o] = "blocked" /\ v.proposal[o] \in {"ready", "waiting_review"}
  BY <1>3, Blocking
<1> HIDE DEF blocked
<1>7. PlanSound(w) => RestsOnVerified(blocked) /\ Decided(blocked)
  BY <1>5, <1>6, WaitingMayBeBlocked
<1>8. Kept(blocked, w)
  <2>1. \A a \in Attempts, k \in Keys : <<a, k, "model">> \in Proposals
    BY DEF Proposals
  <2>2. \A o \in Proposals : blocked.proposal[o] = "none" <=> v.proposal[o] = "none"
    BY <1>6
  <2>3. blocked.decision = v.decision /\ blocked.question = v.question
    BY <1>6 DEF SameWork
  <2> QED BY <1>4, <2>1, <2>2, <2>3 DEF Kept
<1>9. Follows(Aggregate(blocked), w)
  BY <1>6, <1>7, <1>8, AggregatingFollows
<1> QED BY <1>1, <1>9 DEF blocked, reviewed

\* The correction takes the place of the proposal, on both sides of its dependencies.
LEMMA CorrectingFollows ==
    ASSUME NEW w \in RowTypes, NEW p \in Proposals, w.proposal[p] = "waiting_review",
           NEW edges \in SUBSET (Proposals \X Proposals),
           \A d \in edges :
               \/ d \in w.needs
               \/ d[1] = <<p[1], p[2], "owner">>
               \/ \E e \in w.needs : e[2] = p /\ d[1] = e[1]
    PROVE  Follows(Aggregate([[w EXCEPT !.review[p] = "correct"] EXCEPT
               !.proposal[p] = "superseded", !.proposal[<<p[1], p[2], "owner">>] = "ready",
               !.needs = edges]), w)
<1> DEFINE q == <<p[1], p[2], "owner">>
           reviews == [w.review EXCEPT ![p] = "correct"]
           proposals == [w.proposal EXCEPT ![p] = "superseded", ![q] = "ready"]
           v == [w EXCEPT !.review = reviews, !.proposal = proposals, !.needs = edges]
<1>1. v = [[w EXCEPT !.review[p] = "correct"] EXCEPT
               !.proposal[p] = "superseded", !.proposal[<<p[1], p[2], "owner">>] = "ready",
               !.needs = edges]
  BY DEF RowTypes
<1>2. q \in Proposals /\ q[1] = p[1] /\ q[3] = "owner"
  BY DEF Proposals
<1>3. /\ reviews \in [Proposals -> Verdicts \cup {"none"}] /\ reviews[p] = "correct"
      /\ \A o \in Proposals \ {p} : reviews[o] = w.review[o]
  BY DEF RowTypes, Verdicts
<1>4. /\ proposals \in [Proposals -> ProposalStates] /\ proposals[q] = "ready"
      /\ q # p => proposals[p] = "superseded"
      /\ \A o \in Proposals \ {p, q} : proposals[o] = w.proposal[o]
  BY <1>2 DEF RowTypes, ProposalStates
<1> HIDE DEF reviews, proposals
<1>5. /\ v \in RowTypes
      /\ v.decision = w.decision /\ v.question = w.question /\ v.needs = edges
      /\ v.action = w.action /\ v.review = reviews /\ v.proposal = proposals
  BY <1>3, <1>4 DEF RowTypes
<1> HIDE DEF v
<1>6. Kept(v, w)
  <2>1. w.proposal[p] # "none" /\ v.proposal[p] # "none" /\ v.proposal[q] # "none"
    BY <1>4, <1>5
  <2>2. \A o \in Proposals \ {p, q} : v.proposal[o] = w.proposal[o]
    BY <1>4, <1>5
  <2> HIDE DEF q
  <2> QED BY <1>2, <1>5, <2>1, <2>2, OneProposalKept
<1>7. ASSUME PlanSound(w) PROVE RestsOnVerified(v) /\ Decided(v)
  <2>1. DecidedOver(w, p) /\ DecidedOver(w, q)
    BY <1>2, <1>7 DEF PlanSound, Decided
  <2>2. p[3] = "model" /\ Twin(p) = p /\ q # p
    BY <1>2, <2>1, TwinTyped DEF DecidedOver
  <2>3. Twin(q) = p
    BY <2>2 DEF Twin, Proposals
  <2>4. w.proposal[q] = "none" /\ w.action[q] = "none"
    BY <1>2, <2>1, <2>3 DEF DecidedOver
  <2>5. RestsOnVerified(v)
    <3> SUFFICES ASSUME NEW d \in edges, w.action[d[1]] # "none"
                 PROVE  w.action[d[2]] = "verified"
      BY <1>5 DEF RestsOnVerified
    <3>1. d \in w.needs
      BY <1>7, <2>4, WaitingHasNoAction
    <3> QED BY <1>7, <3>1 DEF PlanSound, RestsOnVerified
  <2>6. ASSUME NEW o \in Proposals PROVE DecidedOver(v, o)
    <3>1. DecidedOver(w, o)
      BY <1>7 DEF PlanSound, Decided
    <3>2. CASE o = p
      BY <1>3, <1>4, <1>5, <2>1, <2>2, <3>2 DEF DecidedOver
    <3>3. CASE o = q
      BY <1>2, <1>3, <1>4, <1>5, <2>1, <2>2, <2>3, <2>4, <3>3 DEF DecidedOver
    <3>4. CASE o # p /\ o # q
      <4>1. Twin(o) \in Proposals /\ Twin(o) # q
        BY <1>2 DEF Twin, Proposals
      <4>2. o[3] = "owner" /\ w.proposal[o] # "none" => Twin(o) # p
        BY <3>1 DEF DecidedOver
      <4> HIDE DEF q
      <4> QED BY <1>3, <1>4, <1>5, <3>1, <3>4, <4>1, <4>2 DEF DecidedOver
    <3> QED BY <3>2, <3>3, <3>4
  <2> QED BY <2>5, <2>6 DEF Decided
<1>8. Follows(Aggregate(v), w)
  BY <1>5, <1>6, <1>7, AggregatingFollows
<1> QED BY <1>1, <1>8

-----------------------------------------------------------------------------
(* A proposal is authorised, or refused, and its action settled. *)

LEMMA AuthorisingFollows ==
    ASSUME NEW w \in RowTypes, NEW p \in Proposals, w.proposal[p] = "ready",
           \A d \in w.needs : d[1] = p => w.action[d[2]] = "verified"
    PROVE  Follows(Aggregate([w EXCEPT !.proposal[p] = "authorized", !.action[p] = "working"]), w)
<1> DEFINE proposals == [w.proposal EXCEPT ![p] = "authorized"]
           actions == [w.action EXCEPT ![p] = "working"]
           v == [w EXCEPT !.proposal = proposals, !.action = actions]
<1>1. v = [w EXCEPT !.proposal[p] = "authorized", !.action[p] = "working"]
  BY DEF RowTypes
<1>2. /\ proposals \in [Proposals -> ProposalStates] /\ proposals[p] = "authorized"
      /\ actions \in [Proposals -> ActionRows] /\ actions[p] = "working"
      /\ \A o \in Proposals \ {p} : proposals[o] = w.proposal[o] /\ actions[o] = w.action[o]
  BY DEF RowTypes, ProposalStates, ActionRows
<1> HIDE DEF proposals, actions
<1>3. /\ v \in RowTypes
      /\ v.decision = w.decision /\ v.question = w.question /\ v.needs = w.needs
      /\ v.review = w.review /\ v.action = actions /\ v.proposal = proposals
  BY <1>2 DEF RowTypes
<1> HIDE DEF v
<1>4. Kept(v, w)
  <2>1. w.proposal[p] # "none" /\ v.proposal[p] # "none"
    BY <1>2, <1>3
  <2>2. \A o \in Proposals \ {p, p} : v.proposal[o] = w.proposal[o]
    BY <1>2, <1>3
  <2> QED BY <1>3, <2>1, <2>2, OneProposalKept
<1>5. ASSUME PlanSound(w) PROVE RestsOnVerified(v) /\ Decided(v)
  <2>1. w.action[p] = "none" /\ \A d \in w.needs : d[2] = p => w.action[d[1]] = "none"
    BY <1>5, WaitingHasNoAction
  <2>2. \A d \in w.needs : d[1] = p => d[2] # p
    BY <2>1
  <2>3. RestsOnVerified(v)
    <3> SUFFICES ASSUME NEW d \in w.needs, actions[d[1]] # "none"
                 PROVE  actions[d[2]] = "verified"
      BY <1>3 DEF RestsOnVerified
    <3>1. d[1] \in Proposals /\ d[2] \in Proposals
      BY DEF RowTypes
    <3>2. CASE d[1] = p
      BY <1>2, <2>2, <3>1, <3>2
    <3>3. CASE d[1] # p
      <4>1. w.action[d[1]] # "none"
        BY <1>2, <3>1, <3>3
      <4>2. w.action[d[2]] = "verified" /\ d[2] # p
        BY <1>5, <2>1, <4>1 DEF PlanSound, RestsOnVerified
      <4> QED BY <1>2, <3>1, <4>2
    <3> QED BY <3>2, <3>3
  <2>4. ASSUME NEW o \in Proposals PROVE DecidedOver(v, o)
    <3>1. DecidedOver(w, o) /\ (o[3] = "owner" /\ w.proposal[o] # "none" => Twin(o) # p)
      BY <1>5 DEF PlanSound, Decided, DecidedOver
    <3>2. CASE o = p
      BY <1>2, <1>3, <3>1, <3>2, TwinTyped DEF DecidedOver
    <3>3. CASE o # p
      BY <1>2, <1>3, <3>1, <3>3, TwinTyped DEF DecidedOver
    <3> QED BY <3>2, <3>3
  <2> QED BY <2>3, <2>4 DEF Decided
<1>6. Follows(Aggregate(v), w)
  BY <1>3, <1>4, <1>5, AggregatingFollows
<1> QED BY <1>1, <1>6

LEMMA RefusingFollows ==
    ASSUME NEW w \in RowTypes, NEW p \in Proposals, w.proposal[p] = "ready"
    PROVE  Follows(Aggregate([w EXCEPT !.proposal[p] = "blocked"]), w)
<1> DEFINE proposals == [w.proposal EXCEPT ![p] = "blocked"]
           v == [w EXCEPT !.proposal = proposals]
<1>1. v = [w EXCEPT !.proposal[p] = "blocked"]
  BY DEF RowTypes
<1>2. /\ proposals \in [Proposals -> ProposalStates] /\ proposals[p] = "blocked"
      /\ \A o \in Proposals \ {p} : proposals[o] = w.proposal[o]
  BY DEF RowTypes, ProposalStates
<1> HIDE DEF proposals
<1>3. /\ v \in RowTypes /\ SameWork(v, w) /\ v.proposal = proposals
  BY <1>2 DEF RowTypes, SameWork
<1> HIDE DEF v
<1>4. Kept(v, w)
  <2>1. w.proposal[p] # "none" /\ v.proposal[p] # "none"
    BY <1>2, <1>3
  <2>2. \A o \in Proposals \ {p, p} : v.proposal[o] = w.proposal[o]
    BY <1>2, <1>3
  <2> QED BY <1>3, <2>1, <2>2, OneProposalKept DEF SameWork
<1>5. \A o \in Proposals :
          \/ v.proposal[o] = w.proposal[o]
          \/ v.proposal[o] = "blocked" /\ w.proposal[o] \in {"ready", "waiting_review"}
  BY <1>2, <1>3
<1>6. ASSUME PlanSound(w) PROVE RestsOnVerified(v) /\ Decided(v)
  BY <1>3, <1>5, <1>6, WaitingMayBeBlocked DEF PlanSound
<1>7. Follows(Aggregate(v), w)
  BY <1>3, <1>4, <1>6, AggregatingFollows
<1> QED BY <1>1, <1>7

LEMMA SettlingFollows ==
    ASSUME NEW w \in RowTypes, NEW p \in Proposals, w.action[p] = "working",
           NEW result \in {"verified", "failed"}
    PROVE  Follows(Aggregate([w EXCEPT !.action[p] = result]), w)
<1> DEFINE actions == [w.action EXCEPT ![p] = result]
           v == [w EXCEPT !.action = actions]
<1>1. v = [w EXCEPT !.action[p] = result]
  BY DEF RowTypes
<1>2. /\ actions \in [Proposals -> ActionRows] /\ actions[p] = result
      /\ \A o \in Proposals \ {p} : actions[o] = w.action[o]
  BY DEF RowTypes, ActionRows
<1> HIDE DEF actions
<1>3. /\ v \in RowTypes
      /\ v.decision = w.decision /\ v.question = w.question /\ v.needs = w.needs
      /\ v.review = w.review /\ v.action = actions /\ v.proposal = w.proposal
  BY <1>2 DEF RowTypes
<1> HIDE DEF v
<1>4. Kept(v, w)
  BY <1>3 DEF Kept
<1>5. ASSUME PlanSound(w) PROVE RestsOnVerified(v) /\ Decided(v)
  <2>1. RestsOnVerified(v)
    <3> SUFFICES ASSUME NEW d \in w.needs, actions[d[1]] # "none"
                 PROVE  actions[d[2]] = "verified"
      BY <1>3 DEF RestsOnVerified
    <3>1. d[1] \in Proposals /\ d[2] \in Proposals
      BY DEF RowTypes
    <3>2. w.action[d[1]] # "none"
      BY <1>2, <3>1
    <3>3. w.action[d[2]] = "verified"
      BY <1>5, <3>2 DEF PlanSound, RestsOnVerified
    <3> QED BY <1>2, <3>1, <3>3
  <2>2. ASSUME NEW o \in Proposals PROVE DecidedOver(v, o)
    BY <1>2, <1>3, <1>5 DEF PlanSound, Decided, DecidedOver
  <2> QED BY <2>1, <2>2 DEF Decided
<1>6. Follows(Aggregate(v), w)
  BY <1>3, <1>4, <1>5, AggregatingFollows
<1> QED BY <1>1, <1>6

-----------------------------------------------------------------------------
(* The steps: what they do to the rows, and around them. *)

\* TypeOK without the rows.
Around ==
    /\ mail \in {"ordinary", "recovery"}
    /\ auth \in [rev : Nat, live : BOOLEAN]
    /\ paused \in BOOLEAN
    /\ queued \in 0..MaxQueued
    /\ marking \in BOOLEAN
    /\ consumer \in [Consumers -> [pc : {"reading", "deciding"}, attempt : Attempts, run : RunIds]
                                  \cup {Idle}]
    /\ faults \in 0..MaxFaults
    /\ changes \in 0..MaxChanges

Steps == Around' /\ Follows(Rows', Rows)

LEMMA TypesSplit == TypeOK <=> Around /\ Rows \in RowTypes
BY DEF TypeOK, Around

LEMMA BecomeFollows ==
    ASSUME NEW v, Become(v), Follows(v, Rows) PROVE Follows(Rows', Rows)
BY RowsBecome DEF Follows

LEMMA CommitFollows ==
    ASSUME NEW v, Commit(v), Follows(v, Rows) PROVE Follows(Rows', Rows)
BY BecomeFollows DEF Commit

LEMMA UnchangedFollows ==
    ASSUME TypeOK, UNCHANGED records PROVE Follows(Rows', Rows)
<1>1. SamePlans(Rows, Rows)
  BY DEF SamePlans
<1> QED BY <1>1, RowsStay, SamePlansFollow, TypesSplit

\* Rows that are the same but for what no plan reads.
LEMMA RowsFollow ==
    ASSUME Rows' \in RowTypes, decision' = decision, needs' = needs, review' = review,
           action' = action, proposal' = proposal,
           \A a \in Attempts : question[a] # "none" => question'[a] # "none",
           canonical' # "acknowledged" => canonical # "acknowledged"
    PROVE  Follows(Rows', Rows)
<1>1. SamePlans(Rows', Rows)
  BY DEF SamePlans, Rows
<1> QED BY <1>1, SamePlansFollow

\* The fields of the rows.
LEMMA RowsTyped ==
    Rows \in RowTypes <=>
        /\ job \in Jobs /\ runs \in [RunIds -> RunRows]
        /\ decision \in [Attempts -> Stored \cup {Undecided}]
        /\ question \in [Attempts -> QuestionStates]
        /\ proposal \in [Proposals -> ProposalStates]
        /\ needs \in SUBSET (Proposals \X Proposals)
        /\ review \in [Proposals -> Verdicts \cup {"none"}]
        /\ action \in [Proposals -> ActionRows]
        /\ canonical \in CanonicalStates /\ legacy \in LegacyStates
        /\ offset \in Int /\ errored \in BOOLEAN
BY DEF Rows, RowTypes, Stored

LEMMA LeavingTyped ==
    ASSUME Around, NEW c \in Consumers, Leave(c)
    PROVE  consumer' \in [Consumers -> [pc : {"reading", "deciding"}, attempt : Attempts,
                                        run : RunIds] \cup {Idle}]
BY DEF Around, Leave

LEMMA ThrowingTyped ==
    ASSUME Around, NEW c \in Consumers, Throw(c), UNCHANGED <<mail, owner, faults>>
    PROVE  Around'
<1>1. queued' \in 0..MaxQueued
  BY BoundsAssumption DEF Around, Throw
<1> QED BY <1>1, LeavingTyped DEF Around, Throw, owner

LEMMA AtWork ==
    ASSUME Around, NEW c \in Consumers, consumer[c].pc # "idle"
    PROVE  consumer[c].attempt \in Attempts /\ consumer[c].run \in RunIds
BY DEF Around, Idle

LEMMA QueueSteps ==
    ASSUME TypeOK, Dispatch \/ MarkDispatched \/ LoseMark
    PROVE  Steps
<1> USE BoundsAssumption
<1>1. Around /\ Rows \in RowTypes
  BY TypesSplit
<1>2. CASE Dispatch
  <2>1. Around'
    BY <1>1, <1>2 DEF Dispatch, Around, owner
  <2> QED BY <1>2, <2>1, UnchangedFollows DEF Dispatch, Steps
<1>3. CASE MarkDispatched
  <2>1. Around'
    BY <1>1, <1>3 DEF MarkDispatched, Around, owner
  <2>2. job' \in Jobs
    BY <1>1, <1>3, RowsTyped DEF MarkDispatched, Jobs
  <2>3. Rows' \in RowTypes
    BY <1>1, <1>3, <2>2, RowsTyped DEF MarkDispatched, Rows, RowTypes
  <2> QED BY <1>3, <2>1, <2>3, RowsFollow DEF MarkDispatched, Steps
<1>4. CASE LoseMark
  <2>1. Around'
    <3>1. faults' \in 0..MaxFaults
      BY <1>1, <1>4 DEF LoseMark, Around
    <3> QED BY <1>1, <1>4, <3>1 DEF LoseMark, Around, owner
  <2> QED BY <1>4, <2>1, UnchangedFollows DEF LoseMark, Steps
<1> QED BY <1>2, <1>3, <1>4

LEMMA ClaimSteps ==
    ASSUME TypeOK, NEW c \in Consumers, Redeliver(c) \/ ClaimNothing(c) \/ Claim(c)
    PROVE  Steps
<1> USE BoundsAssumption
<1>1. Around /\ Rows \in RowTypes
  BY TypesSplit
<1>2. CASE Redeliver(c)
  <2>1. Around'
    <3>1. queued' \in 0..MaxQueued /\ faults' \in 0..MaxFaults
      BY <1>1, <1>2 DEF Redeliver, Around
    <3>2. consumer' \in [Consumers -> [pc : {"reading", "deciding"}, attempt : Attempts,
                                       run : RunIds] \cup {Idle}]
      BY <1>1, <1>2, LeavingTyped DEF Redeliver, Around
    <3> QED BY <1>1, <1>2, <3>1, <3>2 DEF Redeliver, Around, owner
  <2> QED BY <1>2, <2>1, UnchangedFollows DEF Redeliver, Steps
<1>3. CASE ClaimNothing(c)
  <2>1. Around'
    BY <1>1, <1>3 DEF ClaimNothing, Around, owner
  <2> QED BY <1>3, <2>1, UnchangedFollows DEF ClaimNothing, Steps
<1>4. CASE Claim(c)
  <2> DEFINE run == IF job.run = NoRun THEN 1 ELSE job.run
             attempt == IF job.state = "pending" THEN job.attempt + 1 ELSE job.attempt
  <2>1. attempt \in Attempts /\ run \in RunIds
    BY <1>1, <1>4, RowsTyped, RunIdsInhabited DEF Claim, Jobs
  <2>2. job' = [job EXCEPT !.state = "running", !.attempt = attempt, !.run = run]
    BY <1>4 DEF Claim
  <2>3. /\ consumer' = [consumer EXCEPT ![c] = [pc |-> "reading", attempt |-> attempt, run |-> run]]
        /\ queued' = queued - 1 /\ queued > 0
        /\ UNCHANGED <<mail, owner, marking, faults>>
    BY <1>4 DEF Claim
  <2>4. runs' \in [RunIds -> RunRows]
    <3>1. [state |-> "running", outcome |-> "none", rev |-> auth.rev] \in RunRows
      BY <1>1 DEF Around, RunRows
    <3> QED BY <1>1, <1>4, <3>1, RowsTyped, RunIdsInhabited DEF Claim
  <2> HIDE DEF run, attempt
  <2>5. job' \in Jobs
    <3>1. attempt \in 0..MaxAttempts
      BY <2>1 DEF Attempts
    <3>2. job \in Jobs
      BY <1>1, RowsTyped
    <3> QED BY <2>1, <2>2, <3>1, <3>2 DEF Jobs
  <2>6. Around'
    <3>1. [pc |-> "reading", attempt |-> attempt, run |-> run]
            \in [pc : {"reading", "deciding"}, attempt : Attempts, run : RunIds]
      BY <2>1
    <3>2. consumer' \in [Consumers -> [pc : {"reading", "deciding"}, attempt : Attempts,
                                       run : RunIds] \cup {Idle}]
      BY <1>1, <2>3, <3>1 DEF Around
    <3>3. queued' \in 0..MaxQueued
      BY <1>1, <2>3 DEF Around
    <3> QED BY <1>1, <2>3, <3>2, <3>3 DEF Around, owner
  <2>7. Rows' \in RowTypes
    BY <1>1, <1>4, <2>4, <2>5, RowsTyped DEF Claim, Rows, RowTypes
  <2> QED BY <1>4, <2>6, <2>7, RowsFollow DEF Claim, Steps
<1> QED BY <1>2, <1>3, <1>4

LEMMA ReadingSteps ==
    ASSUME TypeOK, NEW c \in Consumers, ReadFails(c) \/ Exclude(c) \/ Read(c)
    PROVE  Steps
<1> USE BoundsAssumption
<1>1. Around /\ Rows \in RowTypes
  BY TypesSplit
<1>2. CASE ReadFails(c)
  <2>1. Around'
    BY <1>1, <1>2, ThrowingTyped DEF ReadFails
  <2>2. consumer[c].run \in RunIds
    BY <1>1, <1>2, AtWork DEF ReadFails
  <2> DEFINE ended == [job EXCEPT !.state = "failed"]
             written == [Rows EXCEPT !.job.state = "failed", !.legacy = "failed",
                                     !.errored = TRUE]
             v == MoveFromOpen(Completed(written, consumer[c].run, "failed"), "attention_required")
  <2>3. Follows(v, Rows)
    <3>1. written = [Rows EXCEPT !.job = ended, !.legacy = "failed", !.errored = TRUE]
      BY DEF Rows
    <3>2. ended \in Jobs
      BY <1>1, RowsTyped DEF Jobs
    <3> HIDE DEF ended, written
    <3>3. written \in RowTypes /\ SamePlans(written, Rows)
      BY <1>1, <3>1, <3>2 DEF RowTypes, LegacyStates, SamePlans
    <3> QED BY <2>2, <3>3, EndingFollows DEF DecisionKinds, CanonicalStates
  <2>4. Become(v)
    BY <1>2 DEF ReadFails
  <2> HIDE DEF v
  <2> QED BY <2>1, <2>3, <2>4, BecomeFollows DEF Steps
<1>3. CASE Exclude(c)
  <2>1. Around'
    BY <1>1, <1>3, LeavingTyped DEF Exclude, Around, owner, queue
  <2>2. consumer[c].run \in RunIds
    BY <1>1, <1>3, AtWork DEF Exclude
  <2> DEFINE ended == [job EXCEPT !.state = "succeeded"]
             written == [Rows EXCEPT !.job.state = "succeeded", !.legacy = "handled",
                                     !.errored = FALSE]
             v == MoveFromOpen(Completed(written, consumer[c].run, "no_action"), "resolved")
  <2>3. Follows(v, Rows)
    <3>1. written = [Rows EXCEPT !.job = ended, !.legacy = "handled", !.errored = FALSE]
      BY DEF Rows
    <3>2. ended \in Jobs
      BY <1>1, RowsTyped DEF Jobs
    <3> HIDE DEF ended, written
    <3>3. written \in RowTypes /\ SamePlans(written, Rows)
      BY <1>1, <3>1, <3>2 DEF RowTypes, LegacyStates, SamePlans
    <3> QED BY <2>2, <3>3, EndingFollows DEF DecisionKinds, CanonicalStates
  <2>4. Commit(v) \/ UNCHANGED records
    BY <1>3 DEF Exclude
  <2> HIDE DEF v
  <2> QED BY <2>1, <2>3, <2>4, CommitFollows, UnchangedFollows DEF Steps
<1>4. CASE Read(c)
  <2>1. [consumer[c] EXCEPT !.pc = "deciding"]
            \in [pc : {"reading", "deciding"}, attempt : Attempts, run : RunIds]
    BY <1>1, <1>4 DEF Read, Around, Idle
  <2>2. consumer' = [consumer EXCEPT ![c] = [consumer[c] EXCEPT !.pc = "deciding"]]
    BY <1>4 DEF Read
  <2>3. Around'
    BY <1>1, <1>4, <2>1, <2>2 DEF Read, Around, owner, queue
  <2> QED BY <1>4, <2>3, UnchangedFollows DEF Read, Steps
<1> QED BY <1>2, <1>3, <1>4

LEMMA DeferSteps ==
    ASSUME TypeOK, NEW c \in Consumers, DeferMemory(c)
    PROVE  Steps
<1>1. Around /\ Rows \in RowTypes
  BY TypesSplit
<1>2. Leave(c) /\ queued' \in 0..MaxQueued /\ marking' = marking
  BY <1>1, BoundsAssumption DEF DeferMemory, Throw, queue, Around
<1>3. faults' \in 0..MaxFaults
  BY <1>1, BoundsAssumption DEF DeferMemory, Around
<1>4. Around'
  BY <1>1, <1>2, <1>3, LeavingTyped DEF DeferMemory, Around, owner
<1>5. CASE UNCHANGED records
  BY <1>4, <1>5, UnchangedFollows DEF Steps
<1>6. CASE Become([Rows EXCEPT !.job.state = "pending", !.job.marked = FALSE])
  <2> DEFINE waiting == [job EXCEPT !.state = "pending", !.marked = FALSE]
  <2>1. waiting \in Jobs
    BY <1>1, RowsTyped DEF Jobs
  <2>2. /\ job' = waiting
        /\ UNCHANGED <<runs, decision, question, proposal, needs, review, action, canonical,
                       legacy, offset, errored>>
    BY <1>6 DEF Become, Rows
  <2> HIDE DEF waiting
  <2>3. Rows' \in RowTypes
    BY <1>1, <2>1, <2>2, RowsTyped DEF Rows, RowTypes
  <2> QED BY <1>4, <2>2, <2>3, RowsFollow DEF Steps
<1> QED BY <1>5, <1>6 DEF DeferMemory

LEMMA PersistSteps ==
    ASSUME TypeOK, NEW c \in Consumers, NEW outcome \in Outcomes, Persist(c, outcome)
    PROVE  Steps
<1> DEFINE a == consumer[c].attempt
           stored == StoredFor(a, consumer[c].run, outcome)
<1>1. Around /\ Rows \in RowTypes
  BY TypesSplit
<1>2. a \in Attempts /\ consumer[c].run \in RunIds
  BY <1>1, AtWork DEF Persist
<1>3. outcome \in [kind : DecisionKinds, plan : Shapes \cup {NoPlan}]
  BY DEF Outcomes, DecisionKinds
<1>4. decision[a] \in Stored \cup {Undecided}
  BY <1>1, <1>2, RowsTyped
<1>5. /\ stored \in Stored
      /\ decision[a].kind # "none" => stored = decision[a]
  BY <1>2, <1>3, <1>4 DEF StoredFor, Stored, Undecided
<1>6. Around'
  <2>1. CASE Throw(c)
    BY <1>1, <2>1, ThrowingTyped DEF Persist
  <2>2. CASE Leave(c) /\ UNCHANGED queue
    BY <1>1, <2>2, LeavingTyped DEF Persist, Around, owner, queue
  <2> QED BY <2>1, <2>2 DEF Persist
<1>7. UNCHANGED records \/ Commit(Persisted(a, stored))
  BY DEF Persist
<1>8. Follows(Persisted(a, stored), Rows)
  BY <1>1, <1>2, <1>5, PersistingFollows
<1> HIDE DEF a, stored
<1> QED BY <1>6, <1>7, <1>8, CommitFollows, UnchangedFollows DEF Steps

\* The steps that leave everything around the rows as it is.
LEMMA AroundKept ==
    ASSUME Around, UNCHANGED <<mail, owner, queue, consumer, faults>> PROVE Around'
BY DEF Around, owner, queue

LEMMA AnswerSteps ==
    ASSUME TypeOK, NEW a \in Attempts, Answer(a) PROVE Steps
<1> DEFINE questions == [question EXCEPT ![a] = "answered"]
           pending == [job EXCEPT !.state = "pending"]
<1>1. Around /\ Rows \in RowTypes
  BY TypesSplit
<1>2. Around'
  BY <1>1, AroundKept DEF Answer
<1>3. /\ question' = questions /\ legacy' = "new" /\ offset' = offset - 1 /\ job' = pending
      /\ UNCHANGED <<runs, decision, proposal, needs, review, action, canonical, errored>>
  BY DEF Answer, Become, Rows
<1>4. questions \in [Attempts -> QuestionStates] /\ pending \in Jobs
  BY <1>1, RowsTyped DEF QuestionStates, Jobs
<1>5. \A b \in Attempts : question[b] # "none" => questions[b] # "none"
  BY <1>1, RowsTyped
<1> HIDE DEF questions, pending
<1>6. Rows' \in RowTypes
  BY <1>1, <1>3, <1>4, RowsTyped DEF Rows, RowTypes, LegacyStates
<1> QED BY <1>2, <1>3, <1>5, <1>6, RowsFollow DEF Steps

\* A run that was not created yet is the next one.
LEMMA NextRunTyped ==
    ASSUME NEW r \in RunIds, runs[r].state = "none" PROVE NextRun \in RunIds
<1> DEFINE created == {s \in RunIds : runs[s].state # "none"}
<1>1. IsFiniteSet(RunIds) /\ Cardinality(RunIds) = MaxRuns
  BY BoundsAssumption, FS_Interval DEF RunIds
<1>2. created \subseteq RunIds /\ created # RunIds
  OBVIOUS
<1> HIDE DEF created
<1>3. /\ IsFiniteSet(created) /\ Cardinality(created) <= Cardinality(RunIds)
      /\ Cardinality(created) # Cardinality(RunIds)
  BY <1>1, <1>2, FS_Subset
<1>4. Cardinality(created) \in Nat
  BY <1>3, FS_CardinalityType
<1>5. NextRun = Cardinality(created) + 1
  BY DEF NextRun, created
<1> QED BY <1>1, <1>3, <1>4, <1>5, BoundsAssumption DEF RunIds

LEMMA ResumeSteps ==
    ASSUME TypeOK, NEW c \in Consumers, NEW a \in Attempts, ResumeQuestion(c, a)
    PROVE  Steps
<1> USE BoundsAssumption
<1>1. Around /\ Rows \in RowTypes
  BY TypesSplit
<1>2. a + 1 \in Attempts /\ UNCHANGED <<mail, owner, queue>>
  BY DEF ResumeQuestion
<1>3. ASSUME NEW run \in RunIds, faults' \in 0..MaxFaults,
             consumer' = [consumer EXCEPT ![c] =
                 [pc |-> "deciding", attempt |-> a + 1, run |-> run]]
      PROVE  Around'
  <2>1. [pc |-> "deciding", attempt |-> a + 1, run |-> run]
            \in [pc : {"reading", "deciding"}, attempt : Attempts, run : RunIds]
    BY <1>2
  <2>2. consumer' \in [Consumers -> [pc : {"reading", "deciding"}, attempt : Attempts,
                                     run : RunIds] \cup {Idle}]
    BY <1>1, <1>3, <2>1 DEF Around
  <2> QED BY <1>1, <1>2, <1>3, <2>2 DEF Around, owner, queue
<1>4. CASE question[a] = "open"
  <2> DEFINE started == [state |-> "running", outcome |-> "none", rev |-> auth.rev]
             resumed == [runs EXCEPT ![NextRun] = started]
             continued == [job EXCEPT !.state = "running", !.run = NextRun]
             questions == [question EXCEPT ![a] = "answered"]
             answered == [Rows EXCEPT
                     !.question[a] = "answered", !.legacy = "new",
                     !.runs[NextRun] = [state |-> "running", outcome |-> "none", rev |-> auth.rev],
                     !.job.state = "running", !.job.run = NextRun]
             opened == IF canonical = "waiting_for_answer" THEN MoveTo(answered, "open")
                       ELSE answered
  <2>1. /\ Become(opened)
        /\ consumer' = [consumer EXCEPT ![c] =
               [pc |-> "deciding", attempt |-> a + 1, run |-> NextRun]]
        /\ faults' = faults
        /\ \E r \in RunIds : runs[r].state = "none"
    BY <1>4 DEF ResumeQuestion
  <2>2. NextRun \in RunIds
    BY <2>1, NextRunTyped
  <2>3. answered = [Rows EXCEPT !.question = questions, !.legacy = "new", !.runs = resumed,
                               !.job = continued]
    <3>1. Rows.question = question /\ Rows.runs = runs /\ Rows.job = job
      BY DEF Rows
    <3>2. Rows \in RowTypes
      BY <1>1
    <3> QED BY <3>1, <3>2 DEF RowTypes
  <2>4. started \in RunRows
    BY <1>1 DEF Around, RunRows
  <2>5. resumed \in [RunIds -> RunRows]
    <3> HIDE DEF started
    <3> QED BY <1>1, <2>2, <2>4, RowsTyped
  <2>6. continued \in Jobs /\ questions \in [Attempts -> QuestionStates]
    BY <1>1, <2>2, RowsTyped DEF Jobs, QuestionStates
  <2>7. \A b \in Attempts : question[b] # "none" => questions[b] # "none"
    BY <1>1, RowsTyped
  <2>8. Rows.question = question
    BY DEF Rows
  <2> HIDE DEF resumed, continued, questions, answered
  <2>9. answered \in RowTypes /\ SamePlans(answered, Rows)
    BY <1>1, <2>3, <2>5, <2>6, <2>7, <2>8 DEF RowTypes, LegacyStates, SamePlans
  <2>10. opened \in RowTypes /\ SamePlans(opened, answered)
    <3>1. CASE canonical = "waiting_for_answer"
      <4>1. answered.canonical = canonical
        BY <1>1, <2>3 DEF RowTypes, Rows
      <4> QED BY <2>9, <3>1, <4>1, Moving, SameWorkSamePlans DEF CanonicalStates
    <3>2. CASE canonical # "waiting_for_answer"
      BY <2>9, <3>2 DEF SamePlans
    <3> QED BY <3>1, <3>2
  <2> HIDE DEF opened
  <2>11. Follows(opened, Rows)
    BY <2>9, <2>10, SamePlansTransitive, SamePlansFollow
  <2>12. faults' \in 0..MaxFaults
    BY <1>1, <2>1 DEF Around
  <2> QED BY <1>3, <2>1, <2>2, <2>11, <2>12, BecomeFollows DEF Steps
<1>5. CASE question[a] # "open"
  <2>1. /\ UNCHANGED records /\ job.run # NoRun /\ faults < MaxFaults /\ faults' = faults + 1
        /\ consumer' = [consumer EXCEPT ![c] =
               [pc |-> "deciding", attempt |-> a + 1, run |-> job.run]]
    BY <1>5 DEF ResumeQuestion
  <2>2. job.run \in RunIds
    BY <1>1, <2>1, RowsTyped DEF Jobs
  <2>3. faults' \in 0..MaxFaults
    BY <1>1, <2>1 DEF Around
  <2> QED BY <1>3, <2>1, <2>2, <2>3, UnchangedFollows DEF Steps
<1> QED BY <1>4, <1>5

LEMMA ReviewSteps ==
    ASSUME TypeOK, NEW p \in Proposals, NEW verdict \in Verdicts, Review(p, verdict)
    PROVE  Steps
<1> DEFINE successor == <<p[1], p[2], "owner">>
           inherited == {<<successor, d[2]>> : d \in {e \in needs : e[1] = p}}
           edges == {IF d[2] = p THEN <<d[1], successor>> ELSE d : d \in needs \cup inherited}
           reviewed == [Rows EXCEPT !.review[p] = verdict]
           approved == [reviewed EXCEPT !.proposal[p] = "ready"]
           corrected == [reviewed EXCEPT !.proposal[p] = "superseded",
                                         !.proposal[successor] = "ready", !.needs = edges]
           rejected == Block([reviewed EXCEPT !.proposal[p] = "rejected"],
                             Dependents(reviewed, {p}))
<1>1. Around /\ Rows \in RowTypes
  BY TypesSplit
<1>2. Around'
  BY <1>1, AroundKept DEF Review
<1>3. Rows.proposal[p] = "waiting_review" /\ Rows.needs = needs
  BY DEF Review, Rows
<1>4. CASE verdict = "approve"
  <2>1. Commit(Aggregate(approved))
    BY <1>4 DEF Review
  <2>2. Follows(Aggregate(approved), Rows)
    BY <1>1, <1>3, <1>4, ApprovingFollows
  <2> QED BY <1>2, <2>1, <2>2, CommitFollows DEF Steps
<1>5. CASE verdict = "correct"
  <2>1. Commit(Aggregate(corrected))
    BY <1>5 DEF Review
  <2>2. successor \in Proposals
    BY DEF Proposals
  <2>3. needs \in SUBSET (Proposals \X Proposals)
    BY <1>1, RowsTyped
  <2>4. inherited \in SUBSET (Proposals \X Proposals)
    BY <2>2, <2>3
  <2>5. ASSUME NEW f \in edges
        PROVE  /\ f \in Proposals \X Proposals
               /\ \/ f \in needs
                  \/ f[1] = successor
                  \/ \E e \in needs : e[2] = p /\ f[1] = e[1]
    <3>1. PICK d \in needs \cup inherited : f = IF d[2] = p THEN <<d[1], successor>> ELSE d
      OBVIOUS
    <3>2. d[1] \in Proposals /\ d \in Proposals \X Proposals
      BY <2>3, <2>4
    <3>3. d \in inherited => d[1] = successor
      OBVIOUS
    <3> HIDE DEF successor, inherited, edges
    <3>4. CASE d[2] = p
      <4>1. f = <<d[1], successor>>
        BY <3>1, <3>4
      <4> QED BY <2>2, <3>1, <3>2, <3>3, <3>4, <4>1
    <3>5. CASE d[2] # p
      BY <3>1, <3>2, <3>3, <3>5
    <3> QED BY <3>4, <3>5
  <2>6. edges \in SUBSET (Proposals \X Proposals)
    BY <2>5
  <2>7. Follows(Aggregate(corrected), Rows)
    <3> HIDE DEF edges
    <3> QED BY <1>1, <1>3, <1>5, <2>5, <2>6, CorrectingFollows
  <2> QED BY <1>2, <2>1, <2>7, CommitFollows DEF Steps
<1>6. CASE verdict = "reject"
  <2>1. Commit(Aggregate(rejected))
    BY <1>6 DEF Review
  <2>2. Follows(Aggregate(rejected), Rows)
    BY <1>1, <1>3, <1>6, RejectingFollows
  <2> QED BY <1>2, <2>1, <2>2, CommitFollows DEF Steps
<1> QED BY <1>4, <1>5, <1>6 DEF Verdicts

LEMMA PolicySteps ==
    ASSUME TypeOK, NEW p \in Proposals, AuthorizeReady(p) \/ Settle(p) PROVE Steps
<1> DEFINE authorised == [Rows EXCEPT !.proposal[p] = "authorized", !.action[p] = "working"]
           refused == [Rows EXCEPT !.proposal[p] = "blocked"]
<1>1. Around /\ Rows \in RowTypes
  BY TypesSplit
<1>2. /\ Rows.proposal = proposal /\ Rows.action = action /\ Rows.needs = needs
  BY DEF Rows
<1>3. CASE AuthorizeReady(p)
  <2>1. Around'
    BY <1>1, <1>3, AroundKept DEF AuthorizeReady
  <2>2. Commit(Aggregate(authorised)) \/ Commit(Aggregate(refused))
    BY <1>3 DEF AuthorizeReady
  <2>3. Follows(Aggregate(authorised), Rows)
    BY <1>1, <1>2, <1>3, AuthorisingFollows DEF AuthorizeReady, Verified
  <2>4. Follows(Aggregate(refused), Rows)
    BY <1>1, <1>2, <1>3, RefusingFollows DEF AuthorizeReady
  <2> QED BY <2>1, <2>2, <2>3, <2>4, CommitFollows DEF Steps
<1>4. CASE Settle(p)
  <2>1. Around'
    BY <1>1, <1>4, AroundKept DEF Settle
  <2>2. PICK result \in {"verified", "failed"} :
            Commit(Aggregate([Rows EXCEPT !.action[p] = result]))
    BY <1>4 DEF Settle
  <2>3. Follows(Aggregate([Rows EXCEPT !.action[p] = result]), Rows)
    BY <1>1, <1>2, <1>4, SettlingFollows DEF Settle
  <2> QED BY <2>1, <2>2, <2>3, CommitFollows DEF Steps
<1> QED BY <1>3, <1>4

LEMMA OwnerSteps ==
    ASSUME TypeOK,
           (\E p \in Proposals : RetryAction(p)) \/ RequestRetry \/ Acknowledge
    PROVE  Steps
<1> USE BoundsAssumption
<1>1. Around /\ Rows \in RowTypes
  BY TypesSplit
<1>2. Around'
  BY <1>1, AroundKept DEF RetryAction, RequestRetry, Acknowledge
<1>3. CASE (\E p \in Proposals : RetryAction(p)) \/ RequestRetry
  <2> DEFINE retried == [job EXCEPT !.state = "pending", !.attempt = job.attempt + 1,
                                    !.marked = FALSE]
  <2>1. /\ Become([Rows EXCEPT !.legacy = "new", !.offset = @ - 1, !.job.state = "pending",
                               !.job.attempt = @ + 1, !.job.marked = FALSE])
        /\ job.attempt + 1 \in Attempts
    BY <1>3 DEF RetryAction, RequestRetry
  <2>2. /\ job' = retried /\ legacy' = "new" /\ offset' = offset - 1
        /\ UNCHANGED <<runs, decision, question, proposal, needs, review, action, canonical,
                       errored>>
    BY <2>1 DEF Become, Rows
  <2>3. job \in Jobs /\ job.attempt + 1 \in 0..MaxAttempts
    BY <1>1, <2>1, RowsTyped DEF Attempts
  <2>4. retried \in Jobs
    BY <2>3 DEF Jobs
  <2> HIDE DEF retried
  <2>5. Rows' \in RowTypes
    BY <1>1, <2>2, <2>4, RowsTyped DEF Rows, RowTypes, LegacyStates
  <2> QED BY <1>2, <2>2, <2>5, RowsFollow DEF Steps
<1>4. CASE Acknowledge
  <2>1. /\ canonical' = "acknowledged" /\ legacy' = "acknowledged"
        /\ UNCHANGED <<job, runs, decision, question, proposal, needs, review, action, offset,
                       errored>>
    BY <1>4 DEF Acknowledge, Become, Rows
  <2>2. Rows' \in RowTypes
    BY <1>1, <2>1, RowsTyped DEF Rows, RowTypes, LegacyStates, CanonicalStates
  <2> QED BY <1>2, <2>1, <2>2, RowsFollow DEF Steps
<1> QED BY <1>3, <1>4

LEMMA AuthoritySteps ==
    ASSUME TypeOK, SetAutonomy \/ ReviseAuthority PROVE Steps
<1>1. Around /\ changes' \in 0..MaxChanges
  BY TypesSplit, BoundsAssumption DEF Around, SetAutonomy, ReviseAuthority
<1>2. Around'
  <2>1. CASE SetAutonomy
    BY <1>1, <2>1 DEF Around, SetAutonomy, queue
  <2>2. CASE ReviseAuthority
    BY <1>1, <2>2 DEF Around, ReviseAuthority, queue
  <2> QED BY <2>1, <2>2
<1> QED BY <1>2, UnchangedFollows DEF SetAutonomy, ReviseAuthority, Steps

\* Every step is typed, keeps what was decided, and takes sound plans to sound plans.
LEMMA NextSteps == ASSUME TypeOK, [Next]_vars PROVE Steps
<1>1. CASE Next
  BY <1>1, QueueSteps, ClaimSteps, ReadingSteps, DeferSteps, PersistSteps, AnswerSteps,
     ResumeSteps, ReviewSteps, PolicySteps, OwnerSteps, AuthoritySteps DEF Next, Evaluate
<1>2. CASE UNCHANGED vars
  <2>1. Around'
    BY <1>2, TypesSplit, AroundKept DEF vars
  <2> QED BY <1>2, <2>1, UnchangedFollows DEF vars, Steps
<1> QED BY <1>1, <1>2

LEMMA InitSound == Init => TypeOK /\ Sound
<1> USE BoundsAssumption
<1> SUFFICES ASSUME Init PROVE TypeOK /\ Sound
  OBVIOUS
<1>1. Around
  <2>1. 0 \in 0..MaxQueued /\ 0 \in 0..MaxFaults /\ 0 \in 0..MaxChanges
    OBVIOUS
  <2>2. /\ mail \in {"ordinary", "recovery"} /\ paused \in BOOLEAN /\ marking \in BOOLEAN
        /\ auth \in [rev : Nat, live : BOOLEAN]
    BY DEF Init
  <2>3. consumer \in [Consumers -> [pc : {"reading", "deciding"}, attempt : Attempts,
                                    run : RunIds] \cup {Idle}]
    BY DEF Init
  <2> QED BY <2>1, <2>2, <2>3 DEF Init, Around
<1>2. Rows \in RowTypes
  <2>1. job \in Jobs
    BY DEF Init, Jobs
  <2>2. runs \in [RunIds -> RunRows]
    BY DEF Init, RunRows
  <2>3. decision \in [Attempts -> Stored \cup {Undecided}]
    BY DEF Init
  <2>4. /\ question \in [Attempts -> QuestionStates]
        /\ proposal \in [Proposals -> ProposalStates]
        /\ review \in [Proposals -> Verdicts \cup {"none"}]
        /\ action \in [Proposals -> ActionRows]
    BY DEF Init, QuestionStates, ProposalStates, ActionRows
  <2>5. /\ needs \in SUBSET (Proposals \X Proposals)
        /\ canonical \in CanonicalStates /\ legacy \in LegacyStates /\ offset \in Int
    BY DEF Init, CanonicalStates, LegacyStates
  <2>6. errored \in BOOLEAN
    BY DEF Init
  <2> QED BY <2>1, <2>2, <2>3, <2>4, <2>5, <2>6, RowsTyped
<1>3. PlanSound(Rows)
  BY DEF Init, Rows, PlanSound, RestsOnVerified, Decided, DecidedOver, NothingWaits
<1> QED BY <1>1, <1>2, <1>3, TypesSplit DEF Sound

-----------------------------------------------------------------------------
(* The theorems. *)

\* The rows of an activity and the handlers' locals keep their types: no
\* handler works on an attempt or under a run that does not exist.
THEOREM TypeCorrect == Spec => []TypeOK
<1>1. TypeOK /\ [Next]_vars => TypeOK'
  BY NextSteps, TypesSplit DEF Steps, Follows, TypeOK, Around
<1> QED BY <1>1, InitSound, PTL DEF Spec

\* The inductive invariant of the plans.
THEOREM PlansSound == Spec => []Sound
<1>1. TypeOK /\ Sound /\ [Next]_vars => Sound'
  BY NextSteps DEF Steps, Follows, Sound, Rows
<1> QED BY <1>1, InitSound, TypeCorrect, PTL DEF Spec

LEMMA SoundPlansHold == TypeOK /\ Sound => PlansHold
<1> SUFFICES ASSUME TypeOK, Sound PROVE AuthorisedRestsOnVerified /\ NothingWaitsOnFailure
  BY DEF PlansHold, DependenciesHold
<1>1. PlanSound(Rows)
  BY DEF Sound
<1>2. \A d \in needs : action[d[1]] # "none" => action[d[2]] = "verified"
  BY <1>1 DEF PlanSound, RestsOnVerified, Rows
<1>3. ASSUME NEW p \in Proposals, action[p] # "none", p[2] \in decision[p[1]].plan.unsure
      PROVE  \/ review[p] = "approve"
             \/ p[3] = "owner" /\ review[<<p[1], p[2], "model">>] = "correct"
  <2>1. DecidedOver(Rows, p)
    BY <1>1 DEF PlanSound, Decided
  <2> QED BY <1>3, <2>1, TwinTyped DEF DecidedOver, Rows, Twin
<1>4. NothingWaitsOnFailure
  BY <1>1 DEF PlanSound, NothingWaits, NothingWaitsOnFailure, GivenUp, Rows
<1> QED BY <1>2, <1>3, <1>4 DEF AuthorisedRestsOnVerified

\* An action is authorised only over verified work, an unsure one only after
\* the owner reviewed it, and nothing waits over what was given up.
THEOREM PlansAlwaysHold == Spec => []PlansHold
BY TypeCorrect, PlansSound, SoundPlansHold, PTL

\* Whichever handlers answer for an attempt, and however often, what was first
\* decided of it stands.
THEOREM DecisionsKept == Spec => FirstDecisionStands
<1>1. TypeOK /\ [Next]_vars => DecisionsStay \/ UNCHANGED vars
  <2> SUFFICES ASSUME TypeOK, [Next]_vars PROVE DecisionsStay
    OBVIOUS
  <2>1. Kept(Rows', Rows)
    BY NextSteps DEF Steps, Follows
  <2> QED BY <2>1 DEF Kept, Rows, DecisionsStay
<1> QED BY <1>1, TypeCorrect, PTL DEF Spec, FirstDecisionStands

=============================================================================

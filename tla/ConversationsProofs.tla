------------------------ MODULE ConversationsProofs ------------------------
(***************************************************************************)
(* What Conversations promises of a reply, for any messages, mailboxes and *)
(* handlers: it comes from the claim that holds the turn, once, and nothing *)
(* reopens the turn or replaces it; and the types of all rows, among them  *)
(* that the clock is read once for each message.                           *)
(***************************************************************************)
EXTENDS Conversations, FiniteSetTheorems, WellFoundedInduction, TLAPS

-----------------------------------------------------------------------------
(* The smallest and the largest of some natural numbers. *)

LEMMA LeastNatural ==
    ASSUME NEW T \in SUBSET Nat, T # {}
    PROVE  \E m \in T : \A k \in T : m <= k
<1> DEFINE R == {ss \in Nat \X Nat : ss[1] < ss[2]}
<1>1. IsWellFoundedOn(R, Nat)
  BY NatLessThanWellFounded DEF OpToRel
<1>2. PICK m \in T : \A k \in T : <<k, m>> \notin R
  <2> HIDE DEF R
  <2> QED BY <1>1, WFMin
<1>3. \A k \in T : ~ (k < m)
  BY <1>2
<1>4. \A k \in T : m <= k
  BY <1>3
<1> QED BY <1>4

LEMMA LargestNatural ==
    ASSUME NEW n \in Nat, NEW T \in SUBSET (0..n), T # {}
    PROVE  \E m \in T : \A k \in T : k <= m
<1> DEFINE S == {n - k : k \in T}
<1>1. S \in SUBSET Nat /\ S # {}
  <2>1. \A k \in T : n - k \in Nat
    OBVIOUS
  <2> QED BY <2>1
<1>2. PICK l \in S : \A s \in S : l <= s
  <2> HIDE DEF S
  <2> QED BY <1>1, LeastNatural
<1>3. PICK m \in T : l = n - m
  OBVIOUS
<1>4. \A k \in T : n - m <= n - k
  BY <1>2, <1>3
<1>5. \A k \in T : k <= m
  BY <1>4
<1> QED BY <1>5

-----------------------------------------------------------------------------
(* The inductive invariant. *)

\* A message that is being posted is not there yet, and one that is not there has no turn.
Posted ==
    \A r \in Requests :
        /\ posting[r] # NotPosting => created[r] = 0 /\ posting[r].at # 0
        /\ created[r] = 0 => turn[r] = NoTurn

\* Each message reads the clock once.
Begun == {r \in Requests : posting[r] # NotPosting \/ created[r] # 0}
ClockCounts == clock = Cardinality(Begun)

\* A reply is published with the end of its turn, and failures end one in time.
Published ==
    \A r \in Requests :
        /\ reply[r] # NoOne => turn[r].state = "completed"
        /\ turn[r].state # "failed" => turn[r].failures < Budget

Inv == TypeOK /\ Posted /\ ClockCounts /\ Published

LEMMA BegunFinite ==
    /\ IsFiniteSet(Begun) /\ Cardinality(Begun) \in Nat
    /\ Cardinality(Requests) \in Nat /\ Cardinality(Begun) <= Cardinality(Requests)
<1>1. Begun \in SUBSET Requests
  BY DEF Begun
<1> QED BY <1>1, SetsAssumption, FS_Subset, FS_CardinalityType

LEMMA InitInv == Init => Inv
<1> SUFFICES ASSUME Init PROVE Inv
  OBVIOUS
<1>1. 0 \in Times
  BY BegunFinite DEF Times
<1>2. MessagesTyped
  BY <1>1, SetsAssumption DEF Init, MessagesTyped, NotPosting
<1>3. TurnsTyped
  BY LimitsAssumption DEF Init, TurnsTyped, Turns, NoTurn
<1>4. MemoryTyped
  <2>1. ready \in [Mailboxes -> BOOLEAN]
    BY DEF Init
  <2> QED BY <1>1, <2>1 DEF Init, MemoryTyped, Events
<1>5. ClaimsTyped
  BY <1>1, SetsAssumption DEF Init, ClaimsTyped, Idle
<1>6. faults \in 0..MaxFaults
  BY LimitsAssumption DEF Init
<1>7. Posted /\ Published
  BY LimitsAssumption DEF Init, Posted, Published, NoTurn
<1>8. ClockCounts
  <2>1. Begun = {}
    BY DEF Init, Begun
  <2> QED BY <2>1, FS_EmptySet DEF Init, ClockCounts
<1> QED BY <1>2, <1>3, <1>4, <1>5, <1>6, <1>7, <1>8 DEF Inv, TypeOK

-----------------------------------------------------------------------------
(* What a step leaves alone. *)

LEMMA MessagesKept ==
    ASSUME MessagesTyped, ClockCounts, UNCHANGED <<scope, posting, created, clock>>,
           reply' \in [Requests -> Consumers \cup {NoOne}]
    PROVE  MessagesTyped' /\ ClockCounts'
BY DEF MessagesTyped, ClockCounts, Begun

LEMMA TurnsKept ==
    ASSUME TurnsTyped, UNCHANGED turn PROVE TurnsTyped'
BY DEF TurnsTyped

LEMMA MemoryKept == ASSUME MemoryTyped, UNCHANGED memory PROVE MemoryTyped'
BY DEF MemoryTyped, memory

LEMMA ClaimsKept == ASSUME ClaimsTyped, UNCHANGED consumer PROVE ClaimsTyped'
BY DEF ClaimsTyped

LEMMA PostedKept ==
    ASSUME Posted, Published, UNCHANGED <<posting, created, turn, reply>>
    PROVE  Posted' /\ Published'
BY DEF Posted, Published

LEMMA LeavingTyped ==
    ASSUME ClaimsTyped, NEW c \in Consumers, Leave(c) PROVE ClaimsTyped'
<1>1. Idle \in [stage : {"idle", "memory", "model"}, turn : Requests, cutoff : Times]
  BY SetsAssumption, BegunFinite DEF Idle, Times
<1> QED BY <1>1 DEF ClaimsTyped, Leave

LEMMA Faulted ==
    ASSUME faults \in 0..MaxFaults, UNCHANGED faults \/ (faults < MaxFaults /\ faults' = faults + 1)
    PROVE  faults' \in 0..MaxFaults
BY LimitsAssumption

\* A turn that is there moves on, without another reply.
LEMMA OneTurn ==
    ASSUME Inv, NEW r \in Requests, NEW t \in Turns, turn' = [turn EXCEPT ![r] = t],
           UNCHANGED <<posting, created, reply>>, created[r] # 0,
           reply[r] # NoOne => t.state = "completed",
           t.state # "failed" => t.failures < Budget,
           t.expired => t.state = "running", turn[r].state # "completed"
    PROVE  TurnsTyped' /\ Posted' /\ Published' /\ RepliesAreHeld
<1>1. \A s \in Requests : turn'[s] = IF s = r THEN t ELSE turn[s]
  BY DEF Inv, TypeOK, TurnsTyped
<1>2. TurnsTyped'
  BY <1>1 DEF Inv, TypeOK, TurnsTyped
<1>3. Posted'
  BY <1>1 DEF Inv, Posted
<1>4. Published'
  BY <1>1 DEF Inv, Published
<1>5. RepliesAreHeld
  BY <1>1 DEF RepliesAreHeld
<1> QED BY <1>2, <1>3, <1>4, <1>5

-----------------------------------------------------------------------------
(* The steps. *)

Steps == Inv' /\ RepliesAreHeld

LEMMA NoReply ==
    ASSUME Inv, UNCHANGED <<turn, reply>> PROVE RepliesAreHeld
BY DEF RepliesAreHeld

LEMMA RepliesTyped == Inv => reply \in [Requests -> Consumers \cup {NoOne}]
BY DEF Inv, TypeOK, MessagesTyped

LEMMA PostBeginSteps ==
    ASSUME Inv, NEW r \in Requests, PostBegin(r) PROVE Steps
<1> DEFINE to == {m \in Mailboxes : IF scope[r] = Global THEN ready[m] ELSE m = scope[r]}
<1>1. /\ posting[r] = NotPosting /\ created[r] = 0 /\ clock' = clock + 1
      /\ posting' = [posting EXCEPT ![r] = [at |-> clock + 1, to |-> to]]
      /\ UNCHANGED <<scope, created, reply, memory, turn, consumer, faults>>
  BY DEF PostBegin
<1>2. to \in SUBSET Mailboxes
  OBVIOUS
<1> HIDE DEF to
<1>3. clock \in Nat /\ posting \in [Requests -> [at : Times, to : SUBSET Mailboxes]]
  BY BegunFinite DEF Inv, TypeOK, MessagesTyped, Times
<1>4. r \notin Begun /\ Begun' = Begun \cup {r}
  <2>1. [at |-> clock + 1, to |-> to] # NotPosting
    BY <1>3 DEF NotPosting
  <2>2. \A s \in Requests : posting'[s] # NotPosting <=> s = r \/ posting[s] # NotPosting
    BY <1>1, <1>3, <2>1
  <2> QED BY <1>1, <2>2 DEF Begun
<1>5. ClockCounts'
  <2>1. Cardinality(Begun') = Cardinality(Begun) + 1
    BY <1>4, BegunFinite, FS_AddElement
  <2> QED BY <1>1, <2>1 DEF Inv, ClockCounts
<1>6. clock + 1 \in Times
  <2>1. Begun' \in SUBSET Requests
    BY DEF Begun
  <2>2. Cardinality(Begun') <= Cardinality(Requests)
    BY <2>1, SetsAssumption, FS_Subset
  <2> QED BY <1>1, <1>3, <1>5, <2>2, BegunFinite DEF ClockCounts, Times
<1>7. MessagesTyped'
  BY <1>1, <1>2, <1>3, <1>6 DEF Inv, TypeOK, MessagesTyped
<1>8. Posted'
  BY <1>1, <1>3 DEF Inv, Posted
<1>9. Published'
  BY <1>1 DEF Inv, Published
<1> QED BY <1>1, <1>5, <1>7, <1>8, <1>9, TurnsKept, MemoryKept, ClaimsKept, NoReply
        DEF Inv, TypeOK, Steps

LEMMA EnqueuedTyped ==
    ASSUME NEW events \in [Mailboxes -> [Requests -> Events]], NEW m \in Mailboxes, NEW rs
    PROVE  Enqueued(events, m, rs) \in [Mailboxes -> [Requests -> Events]]
BY DEF Enqueued, Events

LEMMA PostCommitSteps ==
    ASSUME Inv, NEW r \in Requests, PostCommit(r) PROVE Steps
<1>1. /\ posting[r] # NotPosting
      /\ created' = [created EXCEPT ![r] = posting[r].at]
      /\ turn' = [turn EXCEPT ![r].state = "pending"]
      /\ posting' = [posting EXCEPT ![r] = NotPosting]
      /\ UNCHANGED <<scope, clock, reply, watermark, ready, consumer, faults>>
  BY DEF PostCommit
<1>2. /\ posting \in [Requests -> [at : Times, to : SUBSET Mailboxes]]
      /\ created \in [Requests -> Times] /\ turn \in [Requests -> Turns]
  BY DEF Inv, TypeOK, MessagesTyped, TurnsTyped
<1>3. created[r] = 0 /\ posting[r].at # 0 /\ turn[r] = NoTurn /\ posting[r].at \in Times
  BY <1>1, <1>2 DEF Inv, Posted
<1>4. NotPosting \in [at : Times, to : SUBSET Mailboxes]
  BY BegunFinite DEF NotPosting, Times
<1>5. Begun' = Begun
  BY <1>1, <1>2, <1>3 DEF Begun
<1>6. ClockCounts'
  BY <1>1, <1>5 DEF Inv, ClockCounts
<1>7. MessagesTyped'
  BY <1>1, <1>2, <1>3, <1>4 DEF Inv, TypeOK, MessagesTyped
<1> DEFINE t == [turn[r] EXCEPT !.state = "pending"]
<1>8. /\ t \in Turns /\ t.state = "pending" /\ t.failures = 0 /\ ~t.expired
      /\ turn' = [turn EXCEPT ![r] = t]
  <2>1. turn[r] \in Turns
    BY <1>2
  <2>2. t \in Turns
    BY <2>1 DEF Turns
  <2>3. t.state = "pending" /\ t.failures = 0 /\ t.expired = FALSE
    BY <1>3 DEF NoTurn
  <2> QED BY <1>1, <2>2, <2>3
<1>9. reply[r] = NoOne /\ turn[r].state # "completed"
  BY <1>3 DEF Inv, Published, NoTurn
<1> HIDE DEF t
<1>10. \A s \in Requests :
           /\ turn'[s] = (IF s = r THEN t ELSE turn[s])
           /\ created'[s] = (IF s = r THEN posting[r].at ELSE created[s])
           /\ posting'[s] = (IF s = r THEN NotPosting ELSE posting[s])
  BY <1>1, <1>2, <1>8
<1>11. TurnsTyped'
  BY <1>2, <1>8, <1>10 DEF Inv, TypeOK, TurnsTyped
<1>12. Posted'
  BY <1>3, <1>10 DEF Inv, Posted
<1>13. Published'
  <2>1. \A s \in Requests : reply'[s] = reply[s]
    BY <1>1
  <2>2. 0 < Budget
    BY LimitsAssumption
  <2>3. ASSUME NEW s \in Requests
        PROVE  /\ reply'[s] # NoOne => turn'[s].state = "completed"
               /\ turn'[s].state # "failed" => turn'[s].failures < Budget
    <3>1. CASE s = r
      BY <1>8, <1>9, <1>10, <2>1, <2>2, <3>1
    <3>2. CASE s # r
      BY <1>10, <2>1, <3>2 DEF Inv, Published
    <3> QED BY <3>1, <3>2
  <2> QED BY <2>3 DEF Published
<1>14. MemoryTyped'
  <2>1. event' = [m \in Mailboxes |->
            IF m \in posting[r].to THEN Enqueued(event, m, {r})[m] ELSE event[m]]
    BY DEF PostCommit
  <2>2. event \in [Mailboxes -> [Requests -> Events]]
    BY DEF Inv, TypeOK, MemoryTyped
  <2>3. \A m \in Mailboxes : Enqueued(event, m, {r})[m] \in [Requests -> Events]
    BY <2>2, EnqueuedTyped
  <2>4. event' \in [Mailboxes -> [Requests -> Events]]
    BY <2>1, <2>2, <2>3
  <2> QED BY <1>1, <2>4 DEF Inv, TypeOK, MemoryTyped
<1>15. RepliesAreHeld
  BY <1>1, <1>9, <1>10 DEF RepliesAreHeld
<1> QED BY <1>1, <1>6, <1>7, <1>11, <1>12, <1>13, <1>14, <1>15, ClaimsKept
        DEF Inv, TypeOK, Steps

\* A step over one turn, around which only the handler and the faults move.
LEMMA TurnSteps ==
    ASSUME Inv, NEW r \in Requests, NEW t \in Turns, turn' = [turn EXCEPT ![r] = t],
           UNCHANGED <<history, memory>>, turn[r].state \notin {"none", "completed"},
           t.state # "completed",
           t.state # "failed" => t.failures < Budget,
           t.expired => t.state = "running",
           ClaimsTyped', faults' \in 0..MaxFaults
    PROVE  Steps
<1>1. created[r] # 0 /\ reply[r] = NoOne
  BY DEF Inv, Posted, Published, NoTurn
<1>2. TurnsTyped' /\ Posted' /\ Published' /\ RepliesAreHeld
  BY <1>1, OneTurn DEF history
<1>3. MessagesTyped' /\ ClockCounts'
  BY MessagesKept, RepliesTyped DEF Inv, TypeOK, history
<1> QED BY <1>2, <1>3, MemoryKept DEF Inv, TypeOK, Steps

-----------------------------------------------------------------------------
(* The handlers. *)

LEMMA RetrySteps == ASSUME Inv, NEW r \in Requests, Retry(r) PROVE Steps
<1> DEFINE t == [turn[r] EXCEPT !.state = "pending", !.failures = 0]
<1>1. turn[r] \in Turns /\ turn[r].state = "failed" /\ ~turn[r].expired
  BY DEF Inv, TypeOK, TurnsTyped, Retry
<1>2. t \in Turns /\ t.state = "pending" /\ t.failures = 0 /\ ~t.expired
  <2>1. 0 \in 0..Budget
    BY LimitsAssumption
  <2>2. t \in Turns /\ t.state = "pending" /\ t.failures = 0
    BY <1>1, <2>1 DEF Turns
  <2>3. t.expired = turn[r].expired
    BY <1>1 DEF Turns
  <2> QED BY <1>1, <2>2, <2>3
<1>3. turn' = [turn EXCEPT ![r] = t]
  BY DEF Retry, Inv, TypeOK, TurnsTyped
<1>4. 0 < Budget
  BY LimitsAssumption
<1>5. ClaimsTyped' /\ faults' \in 0..MaxFaults
  BY ClaimsKept, Faulted DEF Retry, Inv, TypeOK
<1>6. UNCHANGED <<history, memory>>
  BY DEF Retry
<1> HIDE DEF t
<1> QED BY <1>1, <1>2, <1>3, <1>4, <1>5, <1>6, TurnSteps

LEMMA ClaimSteps ==
    ASSUME Inv, NEW c \in Consumers, NEW r \in Requests, Claim(c, r) PROVE Steps
<1> DEFINE t == [turn[r] EXCEPT !.state = "running", !.holder = c, !.expired = FALSE]
<1>1. turn[r] \in Turns /\ turn[r].state \in {"pending", "running"}
  BY DEF Inv, TypeOK, TurnsTyped, Claim, Ready
<1>2. t \in Turns /\ t.state = "running" /\ t.failures = turn[r].failures /\ ~t.expired
  BY <1>1 DEF Turns
<1>3. turn' = [turn EXCEPT ![r] = t]
  BY DEF Claim, Inv, TypeOK, TurnsTyped
<1>4. turn[r].failures < Budget
  BY <1>1 DEF Inv, Published
<1>5. ClaimsTyped'
  BY DEF Claim, Inv, TypeOK, MessagesTyped, ClaimsTyped
<1>6. UNCHANGED <<history, memory>> /\ faults' \in 0..MaxFaults
  BY DEF Claim, Inv, TypeOK
<1> HIDE DEF t
<1> QED BY <1>1, <1>2, <1>3, <1>4, <1>5, <1>6, TurnSteps

\* A handler that leaves takes nothing with it.
LEMMA LeavingSteps ==
    ASSUME Inv, NEW c \in Consumers, LoseLease(c) \/ Crash(c) PROVE Steps
<1>1. UNCHANGED <<history, memory, turn>> /\ Leave(c)
  BY DEF LoseLease, Crash
<1>2. faults' \in 0..MaxFaults
  BY Faulted DEF LoseLease, Crash, Inv, TypeOK
<1>3. UNCHANGED <<scope, posting, created, clock, reply>>
  BY <1>1 DEF history
<1>4. MessagesTyped' /\ ClockCounts'
  BY <1>3, MessagesKept, RepliesTyped DEF Inv, TypeOK
<1>5. TurnsTyped' /\ MemoryTyped' /\ ClaimsTyped'
  BY <1>1, TurnsKept, MemoryKept, LeavingTyped DEF Inv, TypeOK
<1>6. Posted' /\ Published' /\ RepliesAreHeld
  BY <1>1, <1>3, PostedKept, NoReply DEF Inv
<1> QED BY <1>2, <1>4, <1>5, <1>6 DEF Inv, TypeOK, Steps

LEMMA ExpireSteps ==
    ASSUME Inv, NEW r \in Requests, Expire(r) \/ ExpireSlow(r) PROVE Steps
<1> DEFINE t == [turn[r] EXCEPT !.expired = TRUE]
<1>1. turn[r] \in Turns /\ turn[r].state = "running"
  BY DEF Inv, TypeOK, TurnsTyped, Expire, ExpireSlow
<1>2. t \in Turns /\ t.state = "running" /\ t.failures = turn[r].failures
  BY <1>1 DEF Turns
<1>3. turn' = [turn EXCEPT ![r] = t]
  BY DEF Expire, ExpireSlow, Inv, TypeOK, TurnsTyped
<1>4. turn[r].failures < Budget
  BY <1>1 DEF Inv, Published
<1>5. ClaimsTyped' /\ faults' \in 0..MaxFaults
  BY ClaimsKept, Faulted DEF Expire, ExpireSlow, Inv, TypeOK
<1>6. UNCHANGED <<history, memory>>
  BY DEF Expire, ExpireSlow
<1> HIDE DEF t
<1> QED BY <1>1, <1>2, <1>3, <1>4, <1>5, <1>6, TurnSteps

\* The turn a handler holds.
LEMMA HeldTurn ==
    ASSUME Inv, NEW c \in Consumers, Holds(c)
    PROVE  LET r == consumer[c].turn
           IN /\ r \in Requests /\ turn[r] \in Turns
              /\ turn[r].state = "running" /\ turn[r].holder = c /\ ~turn[r].expired
              /\ turn[r].failures < Budget
BY DEF Inv, TypeOK, ClaimsTyped, TurnsTyped, Holds, Published

LEMMA FailTurnSteps ==
    ASSUME Inv, NEW c \in Consumers, NEW kind, Holds(c), FailTurn(c, kind),
           UNCHANGED <<history, memory>>, faults' \in 0..MaxFaults
    PROVE  Steps
<1> DEFINE r == consumer[c].turn
           counted == kind # "memory"
           again == ~counted \/ (kind = "temporary" /\ turn[r].failures < Budget - 1)
           t == [state |-> IF again THEN "pending" ELSE "failed",
                 failures |-> IF counted THEN turn[r].failures + 1 ELSE turn[r].failures,
                 holder |-> NoOne, expired |-> FALSE]
<1>1. r \in Requests /\ turn[r] \in Turns /\ turn[r].state = "running"
      /\ turn[r].failures < Budget
  BY HeldTurn
<1>2. turn[r].failures \in 0..Budget /\ Budget \in Nat
  BY <1>1, LimitsAssumption DEF Turns
<1>3. turn' = [turn EXCEPT ![r] = t]
  BY <1>1 DEF FailTurn, Inv, TypeOK, TurnsTyped
<1>4. t \in Turns
  <2>1. (IF counted THEN turn[r].failures + 1 ELSE turn[r].failures) \in 0..Budget
    BY <1>1, <1>2
  <2> QED BY <2>1 DEF Turns
<1>5. t.state \in {"pending", "failed"} /\ ~t.expired
  OBVIOUS
<1>6. t.state # "failed" => t.failures < Budget
  BY <1>1, <1>2
<1>7. ClaimsTyped'
  BY LeavingTyped DEF FailTurn, Inv, TypeOK
<1> HIDE DEF t, r
<1> QED BY <1>1, <1>3, <1>4, <1>5, <1>6, <1>7, TurnSteps

LEMMA PrepareSteps == ASSUME Inv, NEW c \in Consumers, Prepare(c) PROVE Steps
<1>1. /\ Holds(c) /\ UNCHANGED <<history, memory>>
      /\ \/ /\ consumer' = [consumer EXCEPT ![c].stage = "model"]
            /\ UNCHANGED <<turn, faults>>
         \/ /\ FailTurn(c, "memory")
            /\ UNCHANGED faults \/ (faults < MaxFaults /\ faults' = faults + 1)
  BY DEF Prepare
<1>2. CASE FailTurn(c, "memory")
           /\ (UNCHANGED faults \/ (faults < MaxFaults /\ faults' = faults + 1))
  <2>1. faults' \in 0..MaxFaults
    BY <1>2, Faulted DEF Inv, TypeOK
  <2> QED BY <1>1, <1>2, <2>1, FailTurnSteps
<1>3. CASE consumer' = [consumer EXCEPT ![c].stage = "model"] /\ UNCHANGED <<turn, faults>>
  <2>1. ClaimsTyped'
    BY <1>3 DEF Inv, TypeOK, ClaimsTyped
  <2>2. UNCHANGED <<scope, posting, created, clock, reply>>
    BY <1>1 DEF history
  <2>3. MessagesTyped' /\ ClockCounts'
    BY <2>2, MessagesKept, RepliesTyped DEF Inv, TypeOK
  <2>4. TurnsTyped' /\ MemoryTyped' /\ faults' \in 0..MaxFaults
    BY <1>1, <1>3, TurnsKept, MemoryKept DEF Inv, TypeOK
  <2>5. Posted' /\ Published' /\ RepliesAreHeld
    BY <1>3, <2>2, PostedKept, NoReply DEF Inv
  <2> QED BY <2>1, <2>3, <2>4, <2>5 DEF Inv, TypeOK, Steps
<1> QED BY <1>1, <1>2, <1>3

LEMMA FailSteps == ASSUME Inv, NEW c \in Consumers, Fail(c) PROVE Steps
<1>1. PICK kind \in {"temporary", "permanent"} : FailTurn(c, kind)
  BY DEF Fail
<1>2. Holds(c) /\ UNCHANGED <<history, memory>> /\ faults' \in 0..MaxFaults
  BY DEF Fail, Inv, TypeOK
<1> QED BY <1>1, <1>2, FailTurnSteps

LEMMA CompleteSteps == ASSUME Inv, NEW c \in Consumers, Complete(c) PROVE Steps
<1> DEFINE r == consumer[c].turn
           t == [turn[r] EXCEPT !.state = "completed", !.holder = NoOne]
<1>1. /\ r \in Requests /\ turn[r] \in Turns
      /\ turn[r].state = "running" /\ turn[r].holder = c /\ ~turn[r].expired
      /\ turn[r].failures < Budget
  BY HeldTurn DEF Complete
<1>2. t \in Turns /\ t.state = "completed" /\ t.failures = turn[r].failures /\ ~t.expired
  BY <1>1 DEF Turns
<1>3. turn' = [turn EXCEPT ![r] = t]
  BY <1>1 DEF Complete, Inv, TypeOK, TurnsTyped
<1>4. /\ reply' = [reply EXCEPT ![r] = c]
      /\ UNCHANGED <<scope, posting, created, clock, memory, faults>>
  BY DEF Complete
<1>5. ClaimsTyped'
  BY LeavingTyped DEF Complete, Inv, TypeOK
<1> HIDE DEF r, t
<1>6. \A s \in Requests : /\ turn'[s] = (IF s = r THEN t ELSE turn[s])
                         /\ reply'[s] = (IF s = r THEN c ELSE reply[s])
  BY <1>3, <1>4, RepliesTyped DEF Inv, TypeOK, TurnsTyped
<1>7. reply' \in [Requests -> Consumers \cup {NoOne}]
  BY <1>4, RepliesTyped
<1>8. MessagesTyped' /\ ClockCounts'
  BY <1>4, <1>7, MessagesKept DEF Inv, TypeOK
<1>9. TurnsTyped'
  BY <1>2, <1>3, <1>6 DEF Inv, TypeOK, TurnsTyped
<1>10. created[r] # 0 /\ reply[r] = NoOne
  BY <1>1 DEF Inv, Posted, Published, NoTurn
<1>11. Posted'
  BY <1>4, <1>6, <1>10 DEF Inv, Posted
<1>12. Published'
  BY <1>1, <1>2, <1>6 DEF Inv, Published
<1>13. RepliesAreHeld
  BY <1>1, <1>2, <1>6, <1>10 DEF RepliesAreHeld, Inv, Published
<1> QED BY <1>4, <1>5, <1>8, <1>9, <1>11, <1>12, <1>13, MemoryKept DEF Inv, TypeOK, Steps

-----------------------------------------------------------------------------
(* The memory of the mailboxes. *)

\* A step over the memory alone.
LEMMA MemorySteps ==
    ASSUME Inv, UNCHANGED <<history, turn, consumer>>, MemoryTyped', faults' \in 0..MaxFaults
    PROVE  Steps
<1>1. UNCHANGED <<scope, posting, created, clock, reply>>
  BY DEF history
<1>2. MessagesTyped' /\ ClockCounts'
  BY <1>1, MessagesKept, RepliesTyped DEF Inv, TypeOK
<1>3. TurnsTyped' /\ ClaimsTyped'
  BY TurnsKept, ClaimsKept DEF Inv, TypeOK
<1>4. Posted' /\ Published' /\ RepliesAreHeld
  BY <1>1, PostedKept, NoReply DEF Inv
<1> QED BY <1>2, <1>3, <1>4 DEF Inv, TypeOK, Steps

\* The oldest page is never empty and has a newest message, the next watermark.
LEMMA PageHasLast ==
    ASSUME Inv, NEW m \in Mailboxes, BackfillDue(m) # {}
    PROVE  LET page == {r \in BackfillDue(m) :
                      Cardinality({s \in BackfillDue(m) : created[s] < created[r]}) < Page}
               last == CHOOSE t \in {created[r] : r \in page} : \A r \in page : created[r] <= t
           IN  last \in Times
<1> DEFINE D == BackfillDue(m)
           page == {r \in D : Cardinality({s \in D : created[s] < created[r]}) < Page}
           last == CHOOSE t \in {created[r] : r \in page} : \A r \in page : created[r] <= t
<1>1. D \subseteq Requests /\ D # {}
  BY DEF BackfillDue, Later, Missing, Committed
<1>2. Cardinality(Requests) \in Nat /\ created \in [Requests -> Times]
  BY BegunFinite DEF Inv, TypeOK, MessagesTyped
<1> HIDE DEF D
<1>3. {created[r] : r \in D} \in SUBSET Nat /\ {created[r] : r \in D} # {}
  BY <1>1, <1>2 DEF Times
<1>4. PICK first \in D : \A r \in D : created[first] <= created[r]
  <2>1. PICK t \in {created[r] : r \in D} : \A k \in {created[r] : r \in D} : t <= k
    BY <1>3, LeastNatural
  <2> QED BY <2>1
<1>5. first \in page
  <2>1. \A s \in D : ~ (created[s] < created[first])
    BY <1>1, <1>2, <1>4 DEF Times
  <2>2. {s \in D : created[s] < created[first]} = {}
    BY <2>1
  <2>3. Cardinality({s \in D : created[s] < created[first]}) = 0
    BY <2>2, FS_EmptySet
  <2> QED BY <2>3, LimitsAssumption
<1>6. {created[r] : r \in page} \in SUBSET (0..Cardinality(Requests))
      /\ {created[r] : r \in page} # {}
  BY <1>1, <1>2, <1>5 DEF Times
<1>7. \E t \in {created[r] : r \in page} : \A k \in {created[r] : r \in page} : k <= t
  <2> DEFINE S == {created[r] : r \in page}
  <2>1. S \in SUBSET (0..Cardinality(Requests)) /\ S # {}
    BY <1>6
  <2> HIDE DEF S
  <2>2. \E t \in S : \A k \in S : k <= t
    BY <1>2, <2>1, LargestNatural
  <2> QED BY <2>2 DEF S
<1>8. \E t \in {created[r] : r \in page} : \A r \in page : created[r] <= t
  BY <1>7
<1>9. last \in {created[r] : r \in page}
  BY <1>8
<1>10. last \in Times
  BY <1>6, <1>9 DEF Times
<1> QED BY <1>10 DEF D

LEMMA BackfillSteps == ASSUME Inv, NEW m \in Mailboxes, Backfill(m) PROVE Steps
<1> DEFINE page == {r \in BackfillDue(m) :
                      Cardinality({s \in BackfillDue(m) : created[s] < created[r]}) < Page}
           last == CHOOSE t \in {created[r] : r \in page} : \A r \in page : created[r] <= t
<1>1. /\ BackfillDue(m) # {}
      /\ event' = Enqueued(event, m, page)
      /\ watermark' = [watermark EXCEPT ![m] = IF last > @ THEN last ELSE @]
      /\ UNCHANGED <<history, ready, turn, consumer, faults>>
  BY DEF Backfill
<1>2. last \in Times
  BY <1>1, PageHasLast
<1> HIDE DEF last, page
<1>3. event' \in [Mailboxes -> [Requests -> Events]]
  BY <1>1, EnqueuedTyped DEF Inv, TypeOK, MemoryTyped
<1>4. watermark' \in [Mailboxes -> Times]
  BY <1>1, <1>2 DEF Inv, TypeOK, MemoryTyped
<1>5. ready' \in [Mailboxes -> BOOLEAN]
  BY <1>1 DEF Inv, TypeOK, MemoryTyped
<1> QED BY <1>1, <1>3, <1>4, <1>5, MemorySteps DEF Inv, TypeOK, MemoryTyped

LEMMA DeliverSteps ==
    ASSUME Inv, NEW m \in Mailboxes, NEW r \in Requests, Deliver(m, r) PROVE Steps
<1> DEFINE row == [event[m] EXCEPT ![r] = "completed"]
<1>1. event \in [Mailboxes -> [Requests -> Events]]
  BY DEF Inv, TypeOK, MemoryTyped
<1>2. row \in [Requests -> Events]
  BY <1>1 DEF Events
<1>3. event' = [event EXCEPT ![m] = row]
  BY <1>1 DEF Deliver
<1> HIDE DEF row
<1>4. event' \in [Mailboxes -> [Requests -> Events]]
  BY <1>1, <1>2, <1>3
<1>5. MemoryTyped'
  BY <1>4 DEF Deliver, Inv, TypeOK, MemoryTyped
<1> QED BY <1>5, MemorySteps DEF Deliver, Inv, TypeOK

LEMMA ConnectSteps == ASSUME Inv, NEW m \in Mailboxes, Connect(m) PROVE Steps
<1>1. ready' \in [Mailboxes -> BOOLEAN]
  BY DEF Connect, Inv, TypeOK, MemoryTyped
<1>2. MemoryTyped'
  BY <1>1 DEF Connect, Inv, TypeOK, MemoryTyped
<1> QED BY <1>2, MemorySteps DEF Connect, Inv, TypeOK

LEMMA DeleteMemorySteps == ASSUME Inv, NEW m \in Mailboxes, DeleteMemory(m) PROVE Steps
<1> DEFINE row == [r \in Requests |->
                      IF event[m][r] = "pending" THEN "cancelled" ELSE event[m][r]]
<1>1. event \in [Mailboxes -> [Requests -> Events]]
  BY DEF Inv, TypeOK, MemoryTyped
<1>2. row \in [Requests -> Events]
  BY <1>1 DEF Events
<1>3. event' = [event EXCEPT ![m] = row]
  BY DEF DeleteMemory
<1> HIDE DEF row
<1>4. event' \in [Mailboxes -> [Requests -> Events]]
  BY <1>1, <1>2, <1>3
<1>5. ready' \in [Mailboxes -> BOOLEAN]
  BY DEF DeleteMemory, Inv, TypeOK, MemoryTyped
<1>6. MemoryTyped'
  BY <1>4, <1>5 DEF DeleteMemory, Inv, TypeOK, MemoryTyped
<1>7. faults' \in 0..MaxFaults
  BY Faulted DEF DeleteMemory, Inv, TypeOK
<1> QED BY <1>6, <1>7, MemorySteps DEF DeleteMemory

-----------------------------------------------------------------------------
(* Every step, and the theorems. *)

LEMMA NextSteps == ASSUME Inv, [Next]_vars PROVE Inv' /\ (RepliesAreHeld \/ UNCHANGED vars)
<1>1. ASSUME NEW r \in Requests,
             PostBegin(r) \/ PostCommit(r) \/ Retry(r) \/ Expire(r) \/ ExpireSlow(r)
      PROVE  Steps
  BY <1>1, PostBeginSteps, PostCommitSteps, RetrySteps, ExpireSteps
<1>2. ASSUME NEW c \in Consumers,
             Respond(c) \/ Crash(c) \/ \E r \in Requests : Claim(c, r)
      PROVE  Steps
  BY <1>2, LeavingSteps, PrepareSteps, FailSteps, CompleteSteps, ClaimSteps DEF Respond
<1>3. ASSUME NEW m \in Mailboxes,
             Backfill(m) \/ Connect(m) \/ DeleteMemory(m) \/ \E r \in Requests : Deliver(m, r)
      PROVE  Steps
  BY <1>3, BackfillSteps, ConnectSteps, DeleteMemorySteps, DeliverSteps
<1>4. ASSUME UNCHANGED vars PROVE Inv'
  <2>1. UNCHANGED <<history, memory, turn, consumer, faults>>
    BY <1>4 DEF vars
  <2> QED BY <2>1, MemorySteps, MemoryKept DEF Inv, TypeOK, Steps
<1> QED BY <1>1, <1>2, <1>3, <1>4 DEF Next, Steps

\* The rows, the claims and the clock keep their types, and a message that is
\* not committed has no turn, a turn that has not failed has failures left and
\* one with a reply is at its end: for any messages, mailboxes and handlers.
THEOREM InvHolds == Spec => []Inv
<1>1. Inv /\ [Next]_vars => Inv'
  BY NextSteps
<1> QED BY InitInv, <1>1, PTL DEF Spec

\* A reply is published by the claim that holds its turn, once, and nothing
\* reopens the turn or replaces the reply, whatever crashes, runs out or is
\* claimed again, and with as many handlers as run.
THEOREM RepliesHeld == Spec => RepliesStand
<1>1. Inv /\ Inv' /\ [Next]_vars => [RepliesAreHeld /\ TypeOK']_vars
  BY NextSteps DEF Inv
<1> QED BY <1>1, InvHolds, PTL DEF Spec, RepliesStand

=============================================================================

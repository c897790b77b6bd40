----------------------------- MODULE HostProofs -----------------------------
(***************************************************************************)
(* Theorems about NotificationDelivery for any number of devices, jobs and *)
(* attempts: the history of attempts stands, and a notification is called  *)
(* delivered, failed or suppressed only when that became of its devices.   *)
(* And what HostServices promises of the worker that delivers them, of its *)
(* passes of retention, of the memory and the model and of what these are  *)
(* told, and of the web process, for any rows, requests, sessions, calls,  *)
(* statements and mails; each has an invariant of its own.                 *)
(***************************************************************************)
EXTENDS NotificationDelivery, HostServices, FiniteSetTheorems, SequenceTheorems, TLAPS

-----------------------------------------------------------------------------
(* Numbers *)

LEMMA LeastOf ==
    ASSUME NEW T \in SUBSET Nat, T # {}
    PROVE  \E m \in T : \A k \in T : m <= k
<1> DEFINE R == {ss \in Nat \X Nat : ss[1] < ss[2]}
<1>1. IsWellFoundedOn(R, Nat)
  BY NatLessThanWellFounded DEF OpToRel
<1>2. PICK m \in T : \A k \in T : <<k, m>> \notin R
  <2> HIDE DEF R
  <2> QED BY <1>1, WFMin
<1>3. \A k \in T : ~ (k < m)
  BY <1>2
<1>4. \A k \in T : m <= k
  BY <1>3
<1> QED BY <1>4

LEMMA LargestOf ==
    ASSUME NEW n \in Nat, NEW T \in SUBSET (1..n), T # {}
    PROVE  \E m \in T : \A k \in T : k <= m
<1> DEFINE S == {n - k : k \in T}
<1>1. S \in SUBSET Nat /\ S # {}
  <2>1. \A k \in T : n - k \in Nat
    OBVIOUS
  <2> QED BY <2>1
<1>2. PICK l \in S : \A s \in S : l <= s
  <2> HIDE DEF S
  <2> QED BY <1>1, LeastOf
<1>3. PICK m \in T : l = n - m
  OBVIOUS
<1>4. \A k \in T : n - m <= n - k
  BY <1>2, <1>3
<1>5. \A k \in T : k <= m
  BY <1>4
<1> QED BY <1>5

-----------------------------------------------------------------------------
(* Notifications *)

(* Where a job stands: one that sends holds an attempt that is on record,   *)
(* and the devices are frozen before any is claimed.                        *)
PositionOf(w) ==
    /\ pc[w] \in {"send", "disable"} => device[w] \in Devices
    /\ pc[w] = "send" => number[w] \in 1..Len(attempts[device[w]])
    /\ pc[w] \in {"list", "claim", "send", "disable"} => initialized
Position == \A w \in Workers : PositionOf(w)

(* A notification that is settled leaves nothing to be done to its targets, *)
(* so that no job that is still on its way changes what they became.        *)
SettledIsQuiet ==
    state \in Settled =>
        /\ initialized
        /\ \A d \in Devices : ~Claimed(d) /\ target[d] # "pending"

-----------------------------------------------------------------------------
(* Steps, and what the operators on attempts and targets return. *)

LEMMA StepCases ==
    ASSUME [Next]_vars
    PROVE  \/ \E w \in Workers : Take(w) \/ InitializeTargets(w) \/ ListEnabled(w)
                                 \/ DisableSubscription(w) \/ Finalize(w) \/ Crash(w)
           \/ \E w \in Workers, d \in Devices : ClaimDelivery(w, d)
           \/ \E w \in Workers, answer \in Answers : FinishDelivery(w, answer)
           \/ \E d \in Devices : LeaseExpires(d) \/ ChangeSubscription(d)
           \/ Recover
           \/ UNCHANGED vars
BY DEF Next, Deliver

\* Expiring the claim of a device keeps the number of its attempts, and changes
\* none but an open one.
LEMMA ExpiredAttempts ==
    ASSUME AttemptsTyped, NEW d \in Devices
    PROVE  /\ attempts[d] \in Seq(Outcomes)
           /\ Len(attempts[d]) \in Nat
           /\ DOMAIN attempts[d] = 1..Len(attempts[d])
           /\ Expired(d) \in Seq(Outcomes)
           /\ Len(Expired(d)) = Len(attempts[d])
           /\ DOMAIN Expired(d) = 1..Len(attempts[d])
           /\ \A k \in 1..Len(attempts[d]) :
                 Expired(d)[k] = IF attempts[d][k] = "pending" /\ lapsed[d]
                                 THEN "retryable" ELSE attempts[d][k]
<1> DEFINE n == Len(attempts[d])
<1>1. attempts[d] \in Seq(Outcomes) /\ n \in Nat /\ DOMAIN attempts[d] = 1..n
  BY LenProperties DEF AttemptsTyped
<1>2. \A k \in 1..n : attempts[d][k] \in Outcomes
  BY <1>1, ElementOfSeq
<1>3. Expired(d) \in [1..n -> Outcomes]
  BY <1>1, <1>2 DEF Expired, Outcomes
<1>4. Expired(d) \in Seq(Outcomes)
  BY <1>1, <1>3, SeqDef
<1>5. Len(Expired(d)) = n /\ DOMAIN Expired(d) = 1..n
  BY <1>1, <1>3, <1>4, LenProperties
<1> QED BY <1>1, <1>4, <1>5 DEF Expired

\* Counting the targets of the devices.
LEMMA CountsTyped ==
    ASSUME NEW t
    PROVE  /\ CountsOf(t) \in [delivered : 0..Cardinality(Devices),
                               failed : 0..Cardinality(Devices),
                               pending : 0..Cardinality(Devices)]
           /\ CountsOf(t).delivered > 0 <=> \E d \in Devices : t[d] = "delivered"
           /\ CountsOf(t).failed > 0 <=> \E d \in Devices : t[d] = "failed"
           /\ CountsOf(t).pending > 0 <=> \E d \in Devices : t[d] = "pending"
<1>1. ASSUME NEW s
      PROVE  /\ Cardinality({d \in Devices : t[d] = s}) \in 0..Cardinality(Devices)
             /\ Cardinality({d \in Devices : t[d] = s}) > 0 <=> \E d \in Devices : t[d] = s
  <2> DEFINE S == {d \in Devices : t[d] = s}
  <2>1. IsFiniteSet(S) /\ Cardinality(S) <= Cardinality(Devices)
    BY DeliveryAssumption, FS_Subset
  <2>2. Cardinality(S) \in Nat /\ Cardinality(Devices) \in Nat
    BY <2>1, DeliveryAssumption, FS_CardinalityType
  <2>3. Cardinality(S) = 0 <=> S = {}
    BY <2>1, FS_EmptySet
  <2> HIDE DEF S
  <2>4. Cardinality(S) \in 0..Cardinality(Devices) /\ (Cardinality(S) > 0 <=> S # {})
    BY <2>1, <2>2, <2>3
  <2> QED BY <2>4 DEF S
<1>2. /\ Cardinality({d \in Devices : t[d] = "delivered"}) \in 0..Cardinality(Devices)
      /\ Cardinality({d \in Devices : t[d] = "failed"}) \in 0..Cardinality(Devices)
      /\ Cardinality({d \in Devices : t[d] = "pending"}) \in 0..Cardinality(Devices)
  BY <1>1
<1> QED BY <1>1, <1>2 DEF CountsOf

-----------------------------------------------------------------------------
(* Types. *)

LEMMA InitTyped == Init => TypeOK /\ Position
<1> SUFFICES ASSUME Init PROVE TypeOK /\ Position
  OBVIOUS
<1> USE DeliveryAssumption DEF Init
<1>1. AttemptsTyped
  <2>1. \A d \in Devices : attempts[d] = <<>>
    OBVIOUS
  <2>2. <<>> \in Seq(Outcomes) /\ Len(<<>>) = 0
    OBVIOUS
  <2>3. attempts \in [Devices -> Seq(Outcomes)]
    BY <2>2
  <2> QED BY <2>1, <2>2, <2>3 DEF AttemptsTyped
<1>2. RecordsTyped
  <2>1. 0 \in 0..Cardinality(Devices)
    BY FS_CardinalityType
  <2>2. lapsed \in [Devices -> BOOLEAN] /\ enabled \in [Devices -> BOOLEAN]
    BY Zenon
  <2>3. initialized \in BOOLEAN /\ queued \in BOOLEAN
    BY Zenon
  <2> QED BY <2>1, <2>2, <2>3 DEF RecordsTyped
<1>3. LocalsTyped /\ BoundsTyped /\ Position
  BY DEF LocalsTyped, BoundsTyped, Position, PositionOf
<1> QED BY <1>1, <1>2, <1>3 DEF TypeOK

\* The attempts of one device are replaced by others of the same kind.
LEMMA AttemptsReplaced ==
    ASSUME AttemptsTyped, NEW d \in Devices, NEW s \in Seq(Outcomes), Len(s) <= MaxAttempts,
           \A k \in 1..Len(s) - 1 : s[k] = "retryable",
           attempts' = [attempts EXCEPT ![d] = s]
    PROVE  /\ AttemptsTyped'
           /\ attempts'[d] = s
           /\ \A e \in Devices : e # d => attempts'[e] = attempts[e]
<1>1. attempts'[d] = s /\ \A e \in Devices : e # d => attempts'[e] = attempts[e]
  BY DEF AttemptsTyped
<1>2. attempts' \in [Devices -> Seq(Outcomes)]
  BY DEF AttemptsTyped
<1>3. ASSUME NEW e \in Devices
      PROVE  /\ Len(attempts'[e]) <= MaxAttempts
             /\ \A k \in 1..Len(attempts'[e]) - 1 : attempts'[e][k] = "retryable"
  <2>1. CASE e = d
    BY <1>1, <2>1
  <2>2. CASE e # d
    BY <1>1, <2>2 DEF AttemptsTyped
  <2> QED BY <2>1, <2>2
<1> QED BY <1>1, <1>2, <1>3 DEF AttemptsTyped

\* A job whose own locals stay keeps its place while others add to the attempts.
LEMMA PositionKept ==
    ASSUME AttemptsTyped, AttemptsTyped', NEW w \in Workers, PositionOf(w),
           pc'[w] = pc[w], device'[w] = device[w], number'[w] = number[w],
           initialized => initialized',
           \A d \in Devices : Len(attempts[d]) <= Len(attempts'[d])
    PROVE  PositionOf(w)'
<1>1. \A d \in Devices : Len(attempts'[d]) \in Nat /\ Len(attempts[d]) \in Nat
  BY LenProperties DEF AttemptsTyped
<1> QED BY <1>1 DEF PositionOf

LEMMA StepTyped == TypeOK /\ Position /\ [Next]_vars => TypeOK' /\ Position'
<1> SUFFICES ASSUME TypeOK, Position, [Next]_vars PROVE TypeOK' /\ Position'
  OBVIOUS
<1> USE DeliveryAssumption
<1>t. AttemptsTyped /\ RecordsTyped /\ LocalsTyped /\ BoundsTyped
  BY DEF TypeOK
<1>1. ASSUME NEW w \in Workers, Take(w) PROVE TypeOK' /\ Position'
  <2>1. AttemptsTyped' /\ BoundsTyped'
    BY <1>t, <1>1 DEF Take, AttemptsTyped, BoundsTyped, records, bounds
  <2>2. RecordsTyped'
    BY <1>t, <1>1 DEF Take, RecordsTyped, records
  <2>3. LocalsTyped' /\ Position'
    BY <1>t, <1>1 DEF Take, Goto, LocalsTyped, Position, PositionOf, records
  <2> QED BY <2>1, <2>2, <2>3 DEF TypeOK
<1>2. ASSUME NEW w \in Workers, InitializeTargets(w) PROVE TypeOK' /\ Position'
  <2>1. AttemptsTyped' /\ BoundsTyped'
    BY <1>t, <1>2 DEF InitializeTargets, AttemptsTyped, BoundsTyped, bounds
  <2>2. RecordsTyped'
    <3>1. CASE initialized
      BY <1>t, <1>2, <3>1 DEF InitializeTargets, RecordsTyped
    <3>2. CASE ~initialized
      <4>1. target' \in [Devices -> {"none", "pending", "delivered", "failed", "suppressed"}]
        BY <1>2, <3>2 DEF InitializeTargets
      <4>2. CountsOf(target').pending \in 0..Cardinality(Devices)
        BY CountsTyped
      <4>3. counts' \in [delivered : 0..Cardinality(Devices), failed : 0..Cardinality(Devices),
                         pending : 0..Cardinality(Devices)]
        BY <1>t, <1>2, <3>2, <4>2 DEF InitializeTargets, RecordsTyped
      <4>4. initialized' \in BOOLEAN
        BY <1>2, <3>2 DEF InitializeTargets
      <4> QED BY <1>t, <1>2, <4>1, <4>3, <4>4 DEF InitializeTargets, RecordsTyped
    <3> QED BY <3>1, <3>2
  <2>3. LocalsTyped' /\ Position'
    BY <1>t, <1>2 DEF InitializeTargets, Goto, LocalsTyped, Position, PositionOf
  <2> QED BY <2>1, <2>2, <2>3 DEF TypeOK
<1>3. ASSUME NEW w \in Workers, ListEnabled(w) PROVE TypeOK' /\ Position'
  <2>1. AttemptsTyped' /\ BoundsTyped' /\ RecordsTyped'
    BY <1>t, <1>3 DEF ListEnabled, AttemptsTyped, BoundsTyped, RecordsTyped, records, bounds
  <2>2. LocalsTyped' /\ Position'
    BY <1>t, <1>3 DEF ListEnabled, Goto, LocalsTyped, Position, PositionOf, records
  <2> QED BY <2>1, <2>2 DEF TypeOK
<1>4. ASSUME NEW w \in Workers, NEW d \in Devices, ClaimDelivery(w, d)
      PROVE  TypeOK' /\ Position'
  <2>1. RecordsTyped' /\ BoundsTyped'
    <3>1. lapsed' \in [Devices -> BOOLEAN]
      <4>1. CASE Live(d)
        BY <1>t, <1>4, <4>1 DEF ClaimDelivery, RecordsTyped
      <4>2. CASE ~Live(d)
        BY <1>t, <1>4, <4>2 DEF ClaimDelivery, RecordsTyped
      <4> QED BY <4>1, <4>2
    <3>2. state' \in {state, "delivering"}
      BY <1>4 DEF ClaimDelivery
    <3> QED BY <1>t, <1>4, <3>1, <3>2 DEF ClaimDelivery, RecordsTyped, BoundsTyped, bounds
  <2>2. CASE Claimable(d)
    <3> DEFINE more == Append(Expired(d), "pending")
    <3>1. /\ more \in Seq(Outcomes) /\ Len(more) = Len(attempts[d]) + 1
          /\ \A k \in 1..Len(attempts[d]) : more[k] = Expired(d)[k]
      BY <1>t, ExpiredAttempts, AppendProperties DEF Outcomes
    <3>2. /\ Len(attempts[d]) \in Nat /\ Len(attempts[d]) < MaxAttempts
          /\ \A k \in 1..Len(attempts[d]) : Expired(d)[k] = "retryable"
      BY <1>t, <2>2, ExpiredAttempts DEF Claimable
    <3>3. /\ attempts' = [attempts EXCEPT ![d] = more]
          /\ pc' = [pc EXCEPT ![w] = "send"] /\ device' = [device EXCEPT ![w] = d]
          /\ number' = [number EXCEPT ![w] = Len(attempts[d]) + 1]
          /\ todo' = [todo EXCEPT ![w] = @ \ {d}] /\ initialized' = initialized
      BY <1>4, <2>2 DEF ClaimDelivery, Goto
    <3> HIDE DEF more
    <3>4. AttemptsTyped'
      <4>1. Len(more) <= MaxAttempts /\ \A k \in 1..Len(more) - 1 : more[k] = "retryable"
        BY <3>1, <3>2
      <4> QED BY <1>t, <3>1, <3>3, <4>1, AttemptsReplaced
    <3>5. LocalsTyped'
      <4>1. Len(attempts[d]) + 1 \in 0..MaxAttempts
        BY <3>2
      <4>2. number' \in [Workers -> 0..MaxAttempts]
        BY <1>t, <3>3, <4>1 DEF LocalsTyped
      <4> QED BY <1>t, <3>3, <4>2 DEF LocalsTyped
    <3>6. ASSUME NEW v \in Workers PROVE PositionOf(v)'
      <4>1. CASE v = w
        <5>1. pc'[v] = "send" /\ device'[v] = d /\ number'[v] = Len(attempts[d]) + 1
          BY <1>t, <3>3, <4>1 DEF LocalsTyped
        <5>2. Len(attempts'[d]) = Len(attempts[d]) + 1
          BY <1>t, <3>1, <3>3 DEF AttemptsTyped
        <5>3. initialized'
          BY <1>4, <3>3, <4>1 DEF ClaimDelivery, Position, PositionOf
        <5> QED BY <3>2, <5>1, <5>2, <5>3 DEF PositionOf
      <4>2. CASE v # w
        <5>1. pc'[v] = pc[v] /\ device'[v] = device[v] /\ number'[v] = number[v]
          BY <1>t, <3>3, <4>2 DEF LocalsTyped
        <5>2. \A e \in Devices : Len(attempts[e]) <= Len(attempts'[e])
          <6>1. \A e \in Devices : Len(attempts[e]) \in Nat
            BY <1>t, LenProperties DEF AttemptsTyped
          <6> QED BY <1>t, <3>1, <3>3, <6>1 DEF AttemptsTyped
        <5> QED BY <1>t, <3>3, <3>4, <5>1, <5>2, PositionKept DEF Position
      <4> QED BY <4>1, <4>2
    <3> QED BY <2>1, <3>4, <3>5, <3>6 DEF TypeOK, Position
  <2>3. CASE ~Claimable(d)
    <3>1. attempts' = [attempts EXCEPT ![d] = Expired(d)]
      BY <1>4, <2>3 DEF ClaimDelivery
    <3>2. AttemptsTyped' /\ \A e \in Devices : Len(attempts'[e]) = Len(attempts[e])
      BY <1>t, <3>1, ExpiredAttempts DEF AttemptsTyped
    <3>3. LocalsTyped'
      BY <1>t, <1>4, <2>3 DEF ClaimDelivery, LocalsTyped
    <3>4. Position'
      <4>1. \A e \in Devices : Len(attempts[e]) <= Len(attempts'[e])
        BY <1>t, <3>2, LenProperties DEF AttemptsTyped
      <4> QED BY <1>t, <1>4, <2>3, <3>2, <4>1, PositionKept DEF ClaimDelivery, Position
    <3> QED BY <2>1, <3>2, <3>3, <3>4 DEF TypeOK
  <2> QED BY <2>2, <2>3
<1>5. ASSUME NEW w \in Workers, NEW answer \in Answers, FinishDelivery(w, answer)
      PROVE  TypeOK' /\ Position'
  <2> DEFINE d == device[w]
  <2>1. d \in Devices /\ number[w] \in 1..Len(attempts[d])
    BY <1>5 DEF FinishDelivery, Position, PositionOf
  <2>2. Outcome(w, answer) \in Outcomes
    BY DEF Outcome, Outcomes
  <2>3. AttemptsTyped' /\ \A e \in Devices : Len(attempts'[e]) = Len(attempts[e])
    <3>1. CASE attempts[d][number[w]] = "pending" /\ ~lapsed[d]
      <4> DEFINE done == [attempts[d] EXCEPT ![number[w]] = Outcome(w, answer)]
      <4>1. attempts' = [attempts EXCEPT ![d] = done]
        BY <1>5, <3>1 DEF FinishDelivery
      <4>2. /\ done \in Seq(Outcomes) /\ Len(done) = Len(attempts[d]) /\ Len(attempts[d]) \in Nat
            /\ \A k \in 1..Len(attempts[d]) : k # number[w] => done[k] = attempts[d][k]
        BY <1>t, <2>1, <2>2, ExceptSeq, ExpiredAttempts
      <4>3. number[w] = Len(attempts[d])
        BY <1>t, <2>1, <3>1, <4>2 DEF AttemptsTyped
      <4> HIDE DEF done, d
      <4>4. Len(done) <= MaxAttempts /\ \A k \in 1..Len(done) - 1 : done[k] = "retryable"
        BY <1>t, <2>1, <4>2, <4>3 DEF AttemptsTyped
      <4> QED BY <1>t, <2>1, <4>1, <4>2, <4>4, AttemptsReplaced
    <3>2. CASE ~(attempts[d][number[w]] = "pending" /\ ~lapsed[d])
      BY <1>t, <1>5, <3>2 DEF FinishDelivery, AttemptsTyped
    <3> QED BY <3>1, <3>2
  <2>4. RecordsTyped' /\ BoundsTyped'
    <3>1. target' \in [Devices -> {"none", "pending", "delivered", "failed", "suppressed"}]
      BY <1>t, <1>5 DEF FinishDelivery, RecordsTyped
    <3> QED BY <1>t, <1>5, <3>1 DEF FinishDelivery, RecordsTyped, BoundsTyped, bounds
  <2>5. PICK label \in {"disable", "claim"} : Proceed(w, label)
    BY <1>5 DEF FinishDelivery
  <2>6. LocalsTyped'
    <3>1. 0 \in 0..MaxAttempts
      OBVIOUS
    <3> QED BY <1>t, <1>5, <2>5, <3>1 DEF FinishDelivery, Proceed, Goto, LocalsTyped
  <2>7. ASSUME NEW v \in Workers PROVE PositionOf(v)'
    <3>1. initialized' = initialized /\ PositionOf(v) /\ pc[w] = "send"
      BY <1>5 DEF FinishDelivery, Position
    <3>2. CASE v = w
      BY <1>t, <2>1, <2>5, <3>1, <3>2 DEF Proceed, Goto, LocalsTyped, PositionOf
    <3>3. CASE v # w
      <4>1. pc'[v] = pc[v] /\ device'[v] = device[v] /\ number'[v] = number[v]
        BY <1>t, <2>5, <3>3 DEF Proceed, Goto, LocalsTyped
      <4>2. \A e \in Devices : Len(attempts[e]) <= Len(attempts'[e])
        BY <1>t, <2>3, LenProperties DEF AttemptsTyped
      <4> QED BY <1>t, <2>3, <3>1, <4>1, <4>2, PositionKept
    <3> QED BY <3>2, <3>3
  <2> QED BY <2>3, <2>4, <2>6, <2>7 DEF TypeOK, Position
<1>6. ASSUME NEW w \in Workers, DisableSubscription(w) PROVE TypeOK' /\ Position'
  <2>1. AttemptsTyped' /\ BoundsTyped' /\ RecordsTyped'
    BY <1>t, <1>6 DEF DisableSubscription, AttemptsTyped, BoundsTyped, RecordsTyped, records, bounds
  <2>2. 0 \in 0..MaxAttempts
    OBVIOUS
  <2>3. LocalsTyped' /\ Position'
    BY <1>t, <1>6, <2>2
    DEF DisableSubscription, Proceed, Goto, LocalsTyped, Position, PositionOf, records
  <2> QED BY <2>1, <2>3 DEF TypeOK
<1>7. ASSUME NEW w \in Workers, Finalize(w) PROVE TypeOK' /\ Position'
  <2>1. AttemptsTyped' /\ \A e \in Devices : Len(attempts'[e]) = Len(attempts[e])
    BY <1>t, <1>7, ExpiredAttempts DEF Finalize, AttemptsTyped
  <2>2. RecordsTyped' /\ BoundsTyped'
    <3>1. target' \in [Devices -> {"none", "pending", "delivered", "failed", "suppressed"}]
      BY <1>t, <1>7 DEF Finalize, RecordsTyped, ExhaustedTarget, SuppressedTarget
    <3>2. lapsed' \in [Devices -> BOOLEAN]
      BY <1>7 DEF Finalize
    <3>3. state' \in {"pending", "delivering"} \cup Settled
      BY <1>7 DEF Finalize, Aggregate, Settled
    <3>4. counts' \in [delivered : 0..Cardinality(Devices), failed : 0..Cardinality(Devices),
                       pending : 0..Cardinality(Devices)]
      BY <1>7, CountsTyped DEF Finalize
    <3> QED BY <1>t, <1>7, <3>1, <3>2, <3>3, <3>4 DEF Finalize, RecordsTyped, BoundsTyped, bounds
  <2>3. 0 \in 0..MaxAttempts
    OBVIOUS
  <2>4. LocalsTyped' /\ Position'
    BY <1>t, <1>7, <2>1, <2>3 DEF Finalize, Leave, Goto, LocalsTyped, Position, PositionOf
  <2> QED BY <2>1, <2>2, <2>4 DEF TypeOK
<1>8. ASSUME NEW w \in Workers, Crash(w) PROVE TypeOK' /\ Position'
  <2>1. AttemptsTyped' /\ RecordsTyped'
    BY <1>t, <1>8 DEF Crash, AttemptsTyped, RecordsTyped, records
  <2>2. BoundsTyped' /\ 0 \in 0..MaxAttempts
    BY <1>t, <1>8 DEF Crash, BoundsTyped
  <2>3. LocalsTyped' /\ Position'
    BY <1>t, <1>8, <2>2 DEF Crash, Leave, Goto, LocalsTyped, Position, PositionOf, records
  <2> QED BY <2>1, <2>2, <2>3 DEF TypeOK
<1>9. ASSUME NEW d \in Devices, LeaseExpires(d) \/ ChangeSubscription(d)
      PROVE  TypeOK' /\ Position'
  <2>1. AttemptsTyped' /\ BoundsTyped' /\ LocalsTyped' /\ Position'
    BY <1>t, <1>9 DEF LeaseExpires, ChangeSubscription, AttemptsTyped, BoundsTyped, LocalsTyped,
       Position, PositionOf, records, locals, bounds
  <2>2. RecordsTyped'
    BY <1>t, <1>9 DEF LeaseExpires, ChangeSubscription, RecordsTyped, records
  <2> QED BY <2>1, <2>2 DEF TypeOK
<1>10. ASSUME Recover \/ UNCHANGED vars PROVE TypeOK' /\ Position'
  BY <1>t, <1>10 DEF Recover, vars, TypeOK, AttemptsTyped, BoundsTyped, LocalsTyped, RecordsTyped,
     Position, PositionOf, records, locals, bounds
<1> QED BY <1>1, <1>2, <1>3, <1>4, <1>5, <1>6, <1>7, <1>8, <1>9, <1>10, StepCases

\* Variables keep their types, an attempt is open only if it is the last of its
\* device, and a job sends under an attempt that is on record.
THEOREM TypeCorrect == Spec => [](TypeOK /\ Position)
<1>1. TypeOK /\ Position /\ UNCHANGED vars => TypeOK' /\ Position'
  BY StepTyped
<1> QED BY InitTyped, StepTyped, PTL DEF Spec

-----------------------------------------------------------------------------
(* What became of the targets. *)

LEMMA StepQuiet ==
    TypeOK /\ Position /\ SettledIsQuiet /\ StateTellsTargets /\ [Next]_vars
        => SettledIsQuiet' /\ StateTellsTargets'
<1> SUFFICES ASSUME TypeOK, Position, SettledIsQuiet, StateTellsTargets, [Next]_vars
             PROVE  SettledIsQuiet' /\ StateTellsTargets'
  OBVIOUS
<1>t. AttemptsTyped /\ RecordsTyped /\ LocalsTyped
  BY DEF TypeOK
\* Steps that leave the targets, their counts and their attempts.
<1>k. ASSUME UNCHANGED <<initialized, state, counts, target, attempts>>
      PROVE  SettledIsQuiet' /\ StateTellsTargets'
  BY <1>k DEF SettledIsQuiet, StateTellsTargets, Claimed, CountsOf
<1>1. ASSUME NEW w \in Workers, Take(w) \/ ListEnabled(w) \/ DisableSubscription(w) \/ Crash(w)
      PROVE  SettledIsQuiet' /\ StateTellsTargets'
  BY <1>1, <1>k DEF Take, ListEnabled, DisableSubscription, Crash, records
<1>2. ASSUME NEW w \in Workers, InitializeTargets(w)
      PROVE  SettledIsQuiet' /\ StateTellsTargets'
  <2>1. CASE initialized
    BY <1>2, <1>k, <2>1 DEF InitializeTargets
  <2>2. CASE ~initialized
    BY <1>2, <2>2 DEF InitializeTargets, SettledIsQuiet, StateTellsTargets
  <2> QED BY <2>1, <2>2
<1>3. ASSUME NEW w \in Workers, NEW d \in Devices, ClaimDelivery(w, d)
      PROVE  SettledIsQuiet' /\ StateTellsTargets'
  <2>1. CASE Claimable(d)
    BY <1>3, <2>1 DEF ClaimDelivery, SettledIsQuiet, StateTellsTargets, Settled
  <2>2. CASE ~Claimable(d)
    <3>1. UNCHANGED <<initialized, state, counts, target>> 
          /\ attempts' = [attempts EXCEPT ![d] = Expired(d)]
      BY <1>3, <2>2 DEF ClaimDelivery
    <3>2. ASSUME NEW e \in Devices, ~Claimed(e) PROVE ~Claimed(e)'
      BY <1>t, <3>1, <3>2, ExpiredAttempts DEF Claimed, AttemptsTyped
    <3> QED BY <3>1, <3>2 DEF SettledIsQuiet, StateTellsTargets, CountsOf
  <2> QED BY <2>1, <2>2
<1>4. ASSUME NEW w \in Workers, NEW answer \in Answers, FinishDelivery(w, answer)
      PROVE  SettledIsQuiet' /\ StateTellsTargets'
  <2>1. device[w] \in Devices /\ number[w] \in DOMAIN attempts[device[w]]
    BY <1>t, <1>4, ExpiredAttempts DEF FinishDelivery, Position, PositionOf
  <2>2. CASE attempts[device[w]][number[w]] = "pending"
    <3>1. state \notin Settled /\ state' = state
      BY <1>4, <2>1, <2>2 DEF FinishDelivery, SettledIsQuiet, Claimed
    <3> QED BY <3>1 DEF SettledIsQuiet, StateTellsTargets
  <2>3. CASE attempts[device[w]][number[w]] # "pending"
    BY <1>4, <1>k, <2>3 DEF FinishDelivery
  <2> QED BY <2>2, <2>3
<1>5. ASSUME NEW w \in Workers, Finalize(w) PROVE SettledIsQuiet' /\ StateTellsTargets'
  <2>1. /\ counts' = CountsOf(target') /\ state' = Aggregate(counts')
        /\ attempts' = [d \in Devices |-> Expired(d)]
        /\ initialized' = initialized /\ initialized
    BY <1>5 DEF Finalize, Position, PositionOf
  <2>2. target' \in [Devices -> {"none", "pending", "delivered", "failed", "suppressed"}]
    BY <1>t, <1>5 DEF Finalize, RecordsTyped, ExhaustedTarget, SuppressedTarget
  <2>3. /\ CountsOf(target').delivered \in Nat /\ CountsOf(target').failed \in Nat
        /\ CountsOf(target').pending \in Nat
    BY CountsTyped
  <2>4. /\ CountsOf(target').delivered > 0 <=> \E d \in Devices : target'[d] = "delivered"
        /\ CountsOf(target').failed > 0 <=> \E d \in Devices : target'[d] = "failed"
        /\ CountsOf(target').pending > 0 <=> \E d \in Devices : target'[d] = "pending"
    BY CountsTyped
  <2>5. ASSUME state' \in Settled
        PROVE  (\A d \in Devices : ~Live(d)) /\ ~(CountsOf(target').pending > 0)
    BY <2>1, <2>5 DEF Aggregate, Settled
  <2>6. SettledIsQuiet'
    <3> SUFFICES ASSUME state' \in Settled, NEW d \in Devices
                 PROVE  ~Claimed(d)' /\ target'[d] # "pending"
      BY <2>1 DEF SettledIsQuiet
    <3>1. target'[d] # "pending" /\ ~Live(d)
      BY <2>4, <2>5
    <3>2. \A k \in 1..Len(attempts[d]) : Expired(d)[k] # "pending"
      BY <1>t, <3>1, ExpiredAttempts DEF Live, Claimed
    <3> QED BY <1>t, <2>1, <3>1, <3>2, ExpiredAttempts DEF Claimed
  <2>7. StateTellsTargets'
    <3> DEFINE became == {target'[d] : d \in {e \in Devices : target'[e] # "none"}}
    <3>1. CASE state' = "delivered"
      <4>1. CountsOf(target').delivered > 0 /\ ~(CountsOf(target').failed > 0)
            /\ ~(CountsOf(target').pending > 0)
        BY <2>1, <3>1 DEF Aggregate
      <4>2. "delivered" \in became /\ became \subseteq {"delivered", "suppressed"}
        BY <2>2, <2>4, <4>1
      <4> QED BY <2>1, <3>1, <4>2 DEF StateTellsTargets
    <3>2. CASE state' = "failed"
      <4>1. CountsOf(target').failed > 0 /\ ~(CountsOf(target').pending > 0)
        BY <2>1, <3>2 DEF Aggregate
      <4>2. "failed" \in became /\ "pending" \notin became
        BY <2>2, <2>4, <4>1
      <4> QED BY <2>1, <3>2, <4>2 DEF StateTellsTargets
    <3>3. CASE state' = "suppressed"
      <4>1. /\ ~(CountsOf(target').delivered > 0) /\ ~(CountsOf(target').failed > 0)
            /\ ~(CountsOf(target').pending > 0)
        BY <2>1, <3>3 DEF Aggregate
      <4>2. became \subseteq {"suppressed"}
        BY <2>2, <2>4, <4>1
      <4> QED BY <2>1, <3>3, <4>2 DEF StateTellsTargets
    <3>4. CASE state' \notin Settled
      BY <3>4 DEF StateTellsTargets
    <3> QED BY <3>1, <3>2, <3>3, <3>4 DEF Settled
  <2> QED BY <2>6, <2>7
<1>6. ASSUME \/ \E d \in Devices : LeaseExpires(d) \/ ChangeSubscription(d)
             \/ Recover \/ UNCHANGED vars
      PROVE  SettledIsQuiet' /\ StateTellsTargets'
  BY <1>6, <1>k DEF LeaseExpires, ChangeSubscription, Recover, vars, records
<1> QED BY <1>1, <1>2, <1>3, <1>4, <1>5, <1>6, StepCases

\* A notification is called delivered, failed or suppressed only when that is
\* what became of all its devices, with counts that say so, whoever claims,
\* loses and claims again.
THEOREM NotificationsTrue == Spec => []NotificationsAreSound
<1>1. Init => SettledIsQuiet /\ StateTellsTargets
  BY DEF Init, SettledIsQuiet, StateTellsTargets, Settled
<1>2. [](TypeOK /\ Position) /\ Init /\ [][Next]_vars => [](SettledIsQuiet /\ StateTellsTargets)
  BY <1>1, StepQuiet, PTL
<1>3. TypeOK /\ StateTellsTargets => NotificationsAreSound
  BY DEF NotificationsAreSound
<1> QED BY <1>2, <1>3, TypeCorrect, PTL DEF Spec

-----------------------------------------------------------------------------
(* History. *)

\* What one step may do to the attempts of a device, given what was told of it.
AttemptsStand ==
    /\ \A d \in Devices : \A k \in DOMAIN attempts[d] :
          /\ k \in DOMAIN attempts'[d]
          /\ attempts[d][k] # "pending" => attempts'[d][k] = attempts[d][k]
    /\ \A d \in Devices : target[d] \in {"delivered", "suppressed"} =>
          Len(attempts'[d]) = Len(attempts[d])

LEMMA StepStands == TypeOK /\ Position /\ [Next]_vars => AttemptsStand
<1> SUFFICES ASSUME TypeOK, Position, [Next]_vars PROVE AttemptsStand
  OBVIOUS
<1>t. AttemptsTyped /\ RecordsTyped /\ LocalsTyped
  BY DEF TypeOK
<1>1. ASSUME NEW w \in Workers, NEW d \in Devices, ClaimDelivery(w, d) PROVE AttemptsStand
  <2>1. CASE Claimable(d)
    <3> DEFINE more == Append(Expired(d), "pending")
    <3>1. attempts' = [attempts EXCEPT ![d] = more] /\ target[d] = "pending"
      BY <1>1, <2>1 DEF ClaimDelivery, Claimable
    <3>2. /\ more \in Seq(Outcomes) /\ Len(more) = Len(attempts[d]) + 1
          /\ \A k \in 1..Len(attempts[d]) : more[k] = Expired(d)[k]
      BY <1>t, ExpiredAttempts, AppendProperties DEF Outcomes
    <3>3. DOMAIN more = 1..(Len(attempts[d]) + 1)
      BY <3>2, LenProperties
    <3> HIDE DEF more
    <3>4. \A e \in Devices : attempts'[e] = IF e = d THEN more ELSE attempts[e]
      BY <1>t, <3>1 DEF AttemptsTyped
    <3> QED BY <1>t, <3>1, <3>2, <3>3, <3>4, ExpiredAttempts DEF AttemptsStand
  <2>2. CASE ~Claimable(d)
    <3>1. \A e \in Devices : attempts'[e] = IF e = d THEN Expired(d) ELSE attempts[e]
      BY <1>t, <1>1, <2>2 DEF ClaimDelivery, AttemptsTyped
    <3> QED BY <1>t, <3>1, ExpiredAttempts DEF AttemptsStand
  <2> QED BY <2>1, <2>2
<1>2. ASSUME NEW w \in Workers, NEW answer \in Answers, FinishDelivery(w, answer)
      PROVE  AttemptsStand
  <2> DEFINE d == device[w]
             done == [attempts[d] EXCEPT ![number[w]] = Outcome(w, answer)]
  <2>1. d \in Devices /\ number[w] \in 1..Len(attempts[d])
    BY <1>2 DEF FinishDelivery, Position, PositionOf
  <2>2. CASE attempts[d][number[w]] = "pending" /\ ~lapsed[d]
    <3>1. Outcome(w, answer) \in Outcomes
      BY DEF Outcome, Outcomes
    <3>2. /\ done \in Seq(Outcomes) /\ Len(done) = Len(attempts[d])
          /\ \A k \in 1..Len(attempts[d]) : k # number[w] => done[k] = attempts[d][k]
      BY <1>t, <2>1, <3>1, ExceptSeq, ExpiredAttempts
    <3>3. DOMAIN done = 1..Len(attempts[d])
      BY <3>2, LenProperties
    <3>4. attempts' = [attempts EXCEPT ![d] = done]
      BY <1>2, <2>2 DEF FinishDelivery
    <3> HIDE DEF done, d
    <3>5. \A e \in Devices : attempts'[e] = IF e = d THEN done ELSE attempts[e]
      BY <1>t, <2>1, <3>4 DEF AttemptsTyped
    <3> QED BY <1>t, <2>2, <3>2, <3>3, <3>5, ExpiredAttempts DEF AttemptsStand
  <2>3. CASE ~(attempts[d][number[w]] = "pending" /\ ~lapsed[d])
    BY <1>2, <2>3 DEF FinishDelivery, AttemptsStand
  <2> QED BY <2>2, <2>3
<1>3. ASSUME NEW w \in Workers, Finalize(w) PROVE AttemptsStand
  BY <1>t, <1>3, ExpiredAttempts DEF Finalize, AttemptsStand
<1>4. ASSUME UNCHANGED attempts PROVE AttemptsStand
  BY <1>4 DEF AttemptsStand
<1>5. ASSUME \/ \E w \in Workers : Take(w) \/ InitializeTargets(w) \/ ListEnabled(w)
                                  \/ DisableSubscription(w) \/ Crash(w)
             \/ \E d \in Devices : LeaseExpires(d) \/ ChangeSubscription(d)
             \/ Recover \/ UNCHANGED vars
      PROVE  UNCHANGED attempts
  BY <1>5 DEF Take, InitializeTargets, ListEnabled, DisableSubscription, Crash, LeaseExpires,
     ChangeSubscription, Recover, vars, records
<1> QED BY <1>1, <1>2, <1>3, <1>4, <1>5, StepCases

\* What was attempted stays on record, and a device that was told is not told
\* again: a worker whose claim has expired neither finishes the attempt that
\* replaced it nor rewrites its own.
THEOREM AttemptsKept == Spec => HistoryStands
<1>1. TypeOK /\ Position /\ [Next]_vars =>
          [\A d \in Devices : \A k \in DOMAIN attempts[d] :
              /\ k \in DOMAIN attempts'[d]
              /\ attempts[d][k] # "pending" => attempts'[d][k] = attempts[d][k]]_attempts
  BY StepStands DEF AttemptsStand
<1>2. TypeOK /\ Position /\ [Next]_vars =>
          [\A d \in Devices : target[d] \in {"delivered", "suppressed"} =>
              Len(attempts'[d]) = Len(attempts[d])]_attempts
  BY StepStands DEF AttemptsStand
<1> QED BY <1>1, <1>2, TypeCorrect, PTL
        DEF Spec, HistoryStands, AttemptsAreHistory, DeliveredIsNotRetried

Started == {"recover", "database", "hypermail", "policy", "serving"}
Looped == Started \ {"recover"}

\* A scheduler is reported to work from the moment the loops run until one of
\* them ends; the queue as long as it has the handlers, of a process that is
\* not draining; and handlers run on an open database.
WorkerInv ==
    /\ Worker!TypeOK
    /\ "scheduler" \in status => startup \in Looped /\ \A l \in Worker!Schedulers : loop[l] = "running"
    /\ "queue" \in status /\ startup \in Started => consuming
    /\ consuming => startup \in Started
    /\ startup \notin {"down", "drained"} => database = "open"
    /\ handling => startup \in Started \cup {"draining"}

LEMMA WorkerInvSuffices == WorkerInv => ReadinessIsTrue
  BY DEF WorkerInv, ReadinessIsTrue, Worker!ReadyMeansServing, Worker!DatabaseOutlivesHandlers,
     Worker!Ready, Worker!Reported, Worker!Dependencies, Started, Looped

LEMMA WorkerInitInv == Worker!Init => WorkerInv
<1> SUFFICES ASSUME Worker!Init PROVE WorkerInv
  OBVIOUS
<1>1. outages \in 0..MaxOutages /\ boots \in 0..MaxBoots
  BY HostAssumption DEF Worker!Init
<1>2. working \subseteq Worker!Dependencies /\ status \subseteq Worker!Reported
  BY Zenon DEF Worker!Init
<1>3. loop \in [Worker!Schedulers -> {"off", "running", "ended"}]
  BY DEF Worker!Init, Worker!Off
<1> QED BY <1>1, <1>2, <1>3 DEF Worker!Init, WorkerInv, Worker!TypeOK, Started, Looped

\* A pass of a loop ends it, or nothing of the process changes.
LEMMA LoopEndsInv == ASSUME WorkerInv, NEW l \in Worker!Schedulers, Worker!LoopEnds(l) PROVE WorkerInv'
  BY DEF WorkerInv, Worker!TypeOK, Worker!LoopEnds, Worker!Observe, Worker!Schedulers, Started, Looped

LEMMA GoneInv == ASSUME WorkerInv, NEW c \in {0, 1}, Worker!Gone(c) PROVE WorkerInv'
  BY DEF WorkerInv, Worker!TypeOK, Worker!Gone, Worker!Off, Worker!Schedulers, Started, Looped

LEMMA ProbesInv == ASSUME WorkerInv, Worker!Probes PROVE WorkerInv'
<1>1. ASSUME NEW d \in {"database", "hypermail"}, NEW next \in {"hypermail", "policy"},
             Worker!ProbeAt(d, next)
      PROVE  WorkerInv'
  BY <1>1 DEF WorkerInv, Worker!TypeOK, Worker!ProbeAt, Worker!Observe, Worker!Reported,
     Worker!Dependencies, Started, Looped
<1>2. CASE Worker!ProbePolicy
  BY <1>2 DEF WorkerInv, Worker!TypeOK, Worker!ProbePolicy, Worker!Observe, Worker!Reported,
     Worker!Dependencies, Started, Looped
<1> QED BY <1>1, <1>2 DEF Worker!Probes

LEMMA StartingInv == ASSUME WorkerInv, Worker!Starting PROVE WorkerInv'
<1> USE HostAssumption DEF WorkerInv, Worker!TypeOK, Started, Looped
<1>1. CASE Worker!Boot
  <2>1. boots' \in 0..MaxBoots
    BY <1>1 DEF Worker!Boot
  <2> QED BY <1>1, <2>1 DEF Worker!Boot
<1>2. CASE Worker!Gate
  <2>1. CASE "hindsight" \in working
    BY <1>2, <2>1 DEF Worker!Gate, Worker!Observe, Worker!Reported, Worker!Dependencies
  <2>2. CASE "hindsight" \notin working
    BY <1>2, <2>2 DEF Worker!Gate, Worker!Observe, Worker!Reported, Worker!Dependencies
  <2> QED BY <2>1, <2>2
<1>3. CASE Worker!StartQueue
  <2>1. consuming' \in BOOLEAN /\ (consuming' <=> "database" \in working)
    <3>1. consuming' = ("database" \in working)
      BY <1>3 DEF Worker!StartQueue
    <3> HIDE DEF WorkerInv, Worker!TypeOK
    <3>2. ("database" \in working) \in BOOLEAN
      OBVIOUS
    <3>3. consuming' \in BOOLEAN
      BY <3>1, <3>2, Zenon
    <3>4. consuming' => "database" \in working
      BY <3>1, Zenon
    <3>5. "database" \in working => consuming'
      BY <3>1, Zenon
    <3> QED BY <3>3, <3>4, <3>5
  <2>2. "queue" \in status' <=> "database" \in working
    BY <1>3 DEF Worker!StartQueue, Worker!Observe
  <2>3. status' \subseteq Worker!Reported /\ "scheduler" \notin status'
    BY <1>3 DEF Worker!StartQueue, Worker!Observe, Worker!Reported
  <2> QED BY <1>3, <2>1, <2>2, <2>3 DEF Worker!StartQueue
<1>4. CASE Worker!StartLoops
  BY <1>4 DEF Worker!StartLoops, Worker!Observe, Worker!Reported, Worker!Dependencies
<1> HIDE DEF WorkerInv
<1>5. CASE Worker!Probes
  BY <1>5, ProbesInv
<1> QED BY <1>1, <1>2, <1>3, <1>4, <1>5 DEF Worker!Starting

LEMMA WorkerNextInv == WorkerInv /\ [Worker!Next]_(Worker!vars) => WorkerInv'
<1> SUFFICES ASSUME WorkerInv, [Worker!Next]_(Worker!vars) PROVE WorkerInv'
  OBVIOUS
<1>1. CASE Worker!Starting
  BY <1>1, StartingInv
<1>2. CASE Worker!Stopping
  <2>1. CASE Worker!Drained
    BY <2>1 DEF WorkerInv, Worker!TypeOK, Worker!Drained, Worker!HandlersDone, Started, Looped
  <2>2. CASE Worker!Exit \/ Worker!TimeIsUp
    BY <2>2, GoneInv DEF Worker!Exit, Worker!TimeIsUp
  <2> QED BY <1>2, <2>1, <2>2 DEF Worker!Stopping
<1>3. CASE Worker!Signal
  BY <1>3 DEF WorkerInv, Worker!TypeOK, Worker!Signal, Worker!Off, Worker!Observe, Worker!Schedulers,
     Started, Looped
<1>4. CASE Worker!Killed
  BY <1>4, GoneInv DEF Worker!Killed
<1>5. CASE \E l \in Worker!Schedulers : Worker!LoopEnds(l)
  BY <1>5, LoopEndsInv
<1>6. CASE Worker!ProbeHindsight
  BY <1>6 DEF WorkerInv, Worker!TypeOK, Worker!ProbeHindsight, Worker!Observe, Worker!Reported,
     Worker!Dependencies, Started, Looped
<1>7. CASE Worker!HandlerBegins \/ Worker!HandlerEnds
  <2> USE DEF WorkerInv, Worker!TypeOK, Started, Looped
  <2>1. CASE Worker!HandlerBegins
    BY <2>1 DEF Worker!HandlerBegins
  <2>2. CASE Worker!HandlerEnds
    BY <2>2 DEF Worker!HandlerEnds
  <2> HIDE DEF WorkerInv
  <2> QED BY <1>7, <2>1, <2>2
<1>8. CASE Worker!WorldChanges \/ Worker!WorldRecovers
  BY <1>8, HostAssumption DEF WorkerInv, Worker!TypeOK, Worker!WorldChanges, Worker!WorldRecovers,
     Worker!process, Started, Looped
<1>9. CASE UNCHANGED Worker!vars
  BY <1>9 DEF WorkerInv, Worker!TypeOK, Worker!vars, Worker!process, Started, Looped
<1> QED BY <1>1, <1>2, <1>3, <1>4, <1>5, <1>6, <1>7, <1>8, <1>9 DEF Worker!Next

\* A worker that reports itself ready has its handlers at the queue and all of
\* its loops running, and no handler outlives the database, for any number of
\* outages and starts.
THEOREM ReadinessStaysTrue == Worker!Spec => []ReadinessIsTrue
<1>1. WorkerInv /\ [Worker!Next]_(Worker!vars) => WorkerInv'
  BY WorkerNextInv
<1> QED BY <1>1, WorkerInvSuffices, WorkerInitInv, PTL DEF Worker!Spec

-----------------------------------------------------------------------------
(* Retention *)

\* What is swept was allowed to be; a task can only come due when it is over,
\* and what is swept of one that was reported complete is redacted.
SweepsInv ==
    /\ Sweeps!TypeOK /\ Sweeps!SweepsAreSound
    /\ \A t \in TaskRows : content[t] # "live" => report[t].state \in {"completed", "verified"}

LEMMA FamiliesAreRows ==
    \A t \in DOMAIN Family : t \in DueRows /\ Family[t] \in DueRows /\ Sweep[t] # "bodies"
  BY HostAssumption DEF HostAssumption

LEMMA SweepsInitInv == Sweeps!Init => SweepsInv
<1> SUFFICES ASSUME Sweeps!Init PROVE SweepsInv
  OBVIOUS
<1>1. Sweeps!NoReport \in [state : {"none", "awaiting", "completed", "verified"},
                           result : {"none", "no_action", "actions", "redacted"}]
  BY DEF Sweeps!NoReport
<1>2. Sweeps!TypeOK
  BY <1>1, HostAssumption DEF Sweeps!Init, Sweeps!TypeOK
<1>3. \A r \in DueRows : content[r] = "live"
  BY DEF Sweeps!Init
<1>4. SentRows \subseteq DueRows /\ TaskRows \subseteq DueRows
  BY HostAssumption
<1>5. Sweeps!SweepsAreSound
  BY <1>3, <1>4, FamiliesAreRows DEF Sweeps!SweepsAreSound, Sweeps!Swept
<1> QED BY <1>2, <1>3, <1>4, <1>5 DEF SweepsInv

\* What the scheduler of a worker does leaves the rows alone.
LEMMA SchedulerInv ==
    ASSUME SweepsInv, UNCHANGED Sweeps!table, Sweeps!TypeOK'
    PROVE  SweepsInv'
  BY DEF SweepsInv, Sweeps!SweepsAreSound, Sweeps!Swept, Sweeps!table

LEMMA AgesInv == ASSUME SweepsInv, NEW r \in DueRows, Sweeps!Ages(r) PROVE SweepsInv'
<1> USE DEF SweepsInv
<1>1. /\ content[r] = "live" /\ content' = [content EXCEPT ![r] = "due"]
      /\ r \in TaskRows => report[r].state \in {"completed", "verified"}
      /\ UNCHANGED <<submitted, report, holder, overdue, sweeper, statements, setbacks, returns>>
  BY DEF Sweeps!Ages, Sweeps!lease, Sweeps!workers, Sweeps!bounds
<1>2. \A x \in DueRows : content'[x] = IF x = r THEN "due" ELSE content[x]
  BY <1>1 DEF Sweeps!TypeOK
<1>3. Sweeps!TypeOK'
  BY <1>1 DEF Sweeps!TypeOK
<1>4. SentRows \subseteq DueRows /\ TaskRows \subseteq DueRows
  BY HostAssumption
<1>5. Sweeps!SweepsAreSound'
  BY <1>1, <1>2, <1>4, FamiliesAreRows DEF Sweeps!SweepsAreSound, Sweeps!Swept
<1>6. \A t \in TaskRows : content'[t] # "live" => report'[t].state \in {"completed", "verified"}
  BY <1>1, <1>2, <1>4
<1> QED BY <1>3, <1>5, <1>6

\* A body is no token, so no family is left without one that it had.
LEMMA CachedAgainInv == ASSUME SweepsInv, NEW r \in DueRows, Sweeps!CachedAgain(r) PROVE SweepsInv'
<1> USE DEF SweepsInv
<1>1. /\ Sweep[r] = "bodies" /\ content' = [content EXCEPT ![r] = "live"]
      /\ returns < MaxReturns /\ returns' = returns + 1
      /\ UNCHANGED <<submitted, report, holder, overdue, sweeper, statements, setbacks>>
  BY DEF Sweeps!CachedAgain, Sweeps!lease, Sweeps!workers
<1>2. \A x \in DueRows : content'[x] = IF x = r THEN "live" ELSE content[x]
  BY <1>1 DEF Sweeps!TypeOK
<1>3. Sweeps!TypeOK'
  BY <1>1, HostAssumption DEF Sweeps!TypeOK
<1>4. SentRows \subseteq DueRows /\ TaskRows \subseteq DueRows
  BY HostAssumption
<1>5. Sweeps!SweepsAreSound'
  BY <1>1, <1>2, <1>4, FamiliesAreRows DEF Sweeps!SweepsAreSound, Sweeps!Swept
<1>6. \A t \in TaskRows : content'[t] # "live" => report'[t].state \in {"completed", "verified"}
  BY <1>1, <1>2, <1>4
<1> QED BY <1>3, <1>5, <1>6

LEMMA SubmittedInv == ASSUME SweepsInv, NEW r \in DueRows, Sweeps!Submitted(r) PROVE SweepsInv'
  BY DEF SweepsInv, Sweeps!Submitted, Sweeps!TypeOK, Sweeps!SweepsAreSound, Sweeps!Swept,
     Sweeps!lease, Sweeps!workers, Sweeps!bounds

\* A report is answered once, and of a task that is not yet over.
LEMMA SweepsReportInv ==
    ASSUME SweepsInv, NEW r \in DueRows, Sweeps!Reported(r) \/ Sweeps!Verified(r)
    PROVE  SweepsInv'
<1> USE DEF SweepsInv
<1> DEFINE States == {"none", "awaiting", "completed", "verified"}
           Results == {"none", "no_action", "actions", "redacted"}
<1>1. PICK answer \in [state : States, result : Results] :
          /\ r \in TaskRows /\ report' = [report EXCEPT ![r] = answer]
          /\ answer.state \in {"awaiting", "completed", "verified"}
          /\ report[r].state \in {"none", "awaiting"}
          /\ content[r] = "live" \/ answer.state = "verified"
          /\ UNCHANGED <<content, submitted, holder, overdue, sweeper, statements, setbacks, returns>>
  <2> USE DEF Sweeps!lease, Sweeps!workers, Sweeps!bounds
  <2>1. r \in TaskRows /\ report[r] \in [state : States, result : Results]
    BY DEF Sweeps!Reported, Sweeps!Verified, Sweeps!TypeOK
  <2>2. content[r] \in {"live", "due", "swept"}
    BY DEF Sweeps!TypeOK
  <2>3. CASE Sweeps!Reported(r)
    <3>1. report[r].state = "none" /\ content[r] = "live"
      BY <2>1, <2>3 DEF Sweeps!Reported, Sweeps!NoReport
    <3>2. PICK answer \in {[state |-> "completed", result |-> "no_action"],
                           [state |-> "awaiting", result |-> "actions"]} :
              report' = [report EXCEPT ![r] = answer]
      BY <2>3 DEF Sweeps!Reported
    <3>3. answer \in [state : States, result : Results] /\ answer.state \in {"awaiting", "completed"}
      OBVIOUS
    <3> QED BY <2>1, <2>3, <3>1, <3>2, <3>3 DEF Sweeps!Reported
  <2>4. CASE Sweeps!Verified(r)
    <3> DEFINE answer == [report[r] EXCEPT !.state = "verified"]
    <3>1. answer \in [state : States, result : Results] /\ answer.state = "verified"
      BY <2>1
    <3>2. report' = [report EXCEPT ![r] = answer] /\ report[r].state = "awaiting"
      BY <2>4 DEF Sweeps!Verified
    <3> HIDE DEF answer
    <3> QED BY <2>1, <2>4, <3>1, <3>2 DEF Sweeps!Verified
  <2> QED BY <2>3, <2>4
<1>2. \A x \in TaskRows : report'[x] = IF x = r THEN answer ELSE report[x]
  BY <1>1 DEF Sweeps!TypeOK
<1>3. Sweeps!TypeOK'
  BY <1>1 DEF Sweeps!TypeOK
<1>4. \A t \in TaskRows : content'[t] # "live" => report'[t].state \in {"completed", "verified"}
  BY <1>1, <1>2
<1>5. Sweeps!SweepsAreSound'
  BY <1>1, <1>2 DEF Sweeps!SweepsAreSound, Sweeps!Swept
<1> QED BY <1>3, <1>4, <1>5

\* A statement passes over what is kept: who is swept was due and not kept.
LEMMA RunInv ==
    ASSUME SweepsInv, NEW w \in SweepWorkers, NEW k \in Sweeps!Statements, Sweeps!Run(w, k)
    PROVE  SweepsInv'
<1> USE DEF SweepsInv
<1>1. PICK batch \in Sweeps!Batches(k) :
          /\ content' = [r \in DueRows |-> IF r \in batch THEN "swept" ELSE content[r]]
          /\ report' = Sweeps!Redacted(batch)
  BY DEF Sweeps!Run
<1>2. /\ statements' = [statements EXCEPT ![w] = @ \ {k}]
      /\ UNCHANGED <<submitted, holder, overdue, sweeper, setbacks, returns>>
  BY DEF Sweeps!Run, Sweeps!lease, Sweeps!bounds
<1>3. \A r \in batch : r \in DueRows /\ content[r] = "due" /\ ~Sweeps!Kept(r)
  BY DEF Sweeps!Batches, Sweeps!Waits, Sweeps!Due
<1> HIDE DEF Sweeps!Batches
<1>4. \A r \in DueRows : content'[r] = IF r \in batch THEN "swept" ELSE content[r]
  BY <1>1
<1>5. \A t \in TaskRows :
          /\ report'[t].state = report[t].state
          /\ t \in batch /\ report[t].state = "completed" => report'[t].result = "redacted"
          /\ t \notin batch => report'[t] = report[t]
          /\ report'[t] \in [state : {"none", "awaiting", "completed", "verified"},
                             result : {"none", "no_action", "actions", "redacted"}]
  BY <1>1 DEF Sweeps!Redacted, Sweeps!TypeOK
<1>6. Sweeps!TypeOK'
  <2>1. content' \in [DueRows -> {"live", "due", "swept"}]
    BY <1>1 DEF Sweeps!TypeOK
  <2>2. report' \in [TaskRows -> [state : {"none", "awaiting", "completed", "verified"},
                                  result : {"none", "no_action", "actions", "redacted"}]]
    BY <1>1, <1>5 DEF Sweeps!Redacted
  <2>3. statements' \in [SweepWorkers -> SUBSET Sweeps!Statements]
    BY <1>2 DEF Sweeps!TypeOK
  <2> QED BY <1>2, <2>1, <2>2, <2>3 DEF Sweeps!TypeOK
<1>7. SentRows \subseteq DueRows /\ TaskRows \subseteq DueRows /\ Families \subseteq DueRows
  BY HostAssumption
<1>8. \A r \in SentRows : content'[r] = "swept" => r \in submitted'
  BY <1>2, <1>3, <1>4, <1>7 DEF Sweeps!Kept, Sweeps!SweepsAreSound, Sweeps!Swept
<1>9. \A t \in DOMAIN Family : content'[Family[t]] = "swept" => content'[t] = "swept"
  <2> TAKE t \in DOMAIN Family
  <2>1. Family[t] \in Families /\ Family[t] \in DueRows /\ t \in DueRows
    BY HostAssumption
  <2>2. content[Family[t]] = "swept" => content[t] = "swept"
    BY DEF Sweeps!SweepsAreSound, Sweeps!Swept
  <2>3. Family[t] \in batch => content[t] = "swept"
    BY <1>3, <2>1 DEF Sweeps!Kept, Sweeps!Swept
  <2> QED BY <1>4, <2>1, <2>2, <2>3
<1>10. \A t \in TaskRows : content'[t] = "swept" /\ report'[t].state = "completed"
                              => report'[t].result = "redacted"
  BY <1>4, <1>5, <1>7 DEF Sweeps!SweepsAreSound, Sweeps!Swept
<1>11. \A t \in TaskRows : content'[t] # "live" => report'[t].state \in {"completed", "verified"}
  BY <1>3, <1>4, <1>5, <1>7
<1> QED BY <1>6, <1>8, <1>9, <1>10, <1>11 DEF Sweeps!SweepsAreSound, Sweeps!Swept

LEMMA WorkerSweepsInv ==
    ASSUME SweepsInv, NEW w \in SweepWorkers,
           Sweeps!Tick(w) \/ Sweeps!Sleep(w) \/ Sweeps!Dies(w) \/ Sweeps!Restart(w)
    PROVE  SweepsInv'
<1>1. UNCHANGED Sweeps!table
  BY DEF Sweeps!Tick, Sweeps!Sleep, Sweeps!Dies, Sweeps!Restart
<1>2. Sweeps!TypeOK'
  <2> USE DEF SweepsInv, Sweeps!TypeOK, Sweeps!table, Sweeps!lease, Sweeps!workers, Sweeps!bounds
  <2>1. CASE Sweeps!Tick(w)
    BY <2>1 DEF Sweeps!Tick
  <2>2. CASE Sweeps!Sleep(w)
    BY <2>2 DEF Sweeps!Sleep
  <2>3. CASE Sweeps!Dies(w)
    BY <2>3, HostAssumption DEF Sweeps!Dies, Sweeps!Trouble
  <2>4. CASE Sweeps!Restart(w)
    BY <2>4 DEF Sweeps!Restart
  <2> QED BY <2>1, <2>2, <2>3, <2>4
<1> QED BY <1>1, <1>2, SchedulerInv

LEMMA SweepsNextInv == SweepsInv /\ [Sweeps!Next]_(Sweeps!vars) => SweepsInv'
<1> SUFFICES ASSUME SweepsInv, [Sweeps!Next]_(Sweeps!vars) PROVE SweepsInv'
  OBVIOUS
<1>1. ASSUME NEW r \in DueRows,
             Sweeps!Ages(r) \/ Sweeps!CachedAgain(r) \/ Sweeps!Submitted(r) \/ Sweeps!Reported(r)
                \/ Sweeps!Verified(r)
      PROVE  SweepsInv'
  BY <1>1, AgesInv, CachedAgainInv, SubmittedInv, SweepsReportInv
<1>2. ASSUME NEW w \in SweepWorkers,
             Sweeps!Tick(w) \/ Sweeps!Sleep(w) \/ Sweeps!Dies(w) \/ Sweeps!Restart(w)
      PROVE  SweepsInv'
  BY <1>2, WorkerSweepsInv
<1>3. ASSUME NEW w \in SweepWorkers, NEW k \in Sweeps!Statements, Sweeps!Run(w, k) PROVE SweepsInv'
  BY <1>3, RunInv
<1>4. ASSUME NEW w \in SweepWorkers, NEW k \in Sweeps!Statements, Sweeps!Fails(w, k)
      PROVE  SweepsInv'
  <2>1. UNCHANGED Sweeps!table
    BY <1>4 DEF Sweeps!Fails
  <2>2. Sweeps!TypeOK'
    BY <1>4, HostAssumption DEF Sweeps!Fails, Sweeps!Trouble, SweepsInv, Sweeps!TypeOK, Sweeps!table,
       Sweeps!lease
  <2> QED BY <2>1, <2>2, SchedulerInv
<1>5. CASE Sweeps!LeaseExpires
  <2>1. UNCHANGED Sweeps!table
    BY <1>5 DEF Sweeps!LeaseExpires
  <2>2. Sweeps!TypeOK'
    BY <1>5 DEF Sweeps!LeaseExpires, SweepsInv, Sweeps!TypeOK, Sweeps!table, Sweeps!workers,
       Sweeps!bounds
  <2> QED BY <2>1, <2>2, SchedulerInv
<1>6. CASE UNCHANGED Sweeps!vars
  <2>1. UNCHANGED Sweeps!table
    BY <1>6 DEF Sweeps!vars
  <2>2. Sweeps!TypeOK'
    BY <1>6 DEF Sweeps!vars, SweepsInv, Sweeps!TypeOK, Sweeps!table, Sweeps!lease, Sweeps!workers,
       Sweeps!bounds
  <2> QED BY <2>1, <2>2, SchedulerInv
<1> QED BY <1>1, <1>2, <1>3, <1>4, <1>5, <1>6 DEF Sweeps!Next

\* However passes overlap, die and run again, an unresolved submission keeps
\* its payload, a token its family, and what a replayed report says is redacted
\* with its task, for any rows, statements and workers.
THEOREM SweepsStaySound == Sweeps!Spec => []SweepsAreSound
<1>1. SweepsInv => SweepsAreSound
  BY DEF SweepsInv, SweepsAreSound
<1>2. SweepsInv /\ [Sweeps!Next]_(Sweeps!vars) => SweepsInv'
  BY SweepsNextInv
<1> QED BY <1>1, <1>2, SweepsInitInv, PTL DEF Sweeps!Spec

LEMMA MailboxesCount == \A S : Mailboxes!Cardinality(S) = Cardinality(S)
  BY DEF Mailboxes!Cardinality, Cardinality

RequestStages == Mailboxes!Over \cup {"leased", "found", "inserting"}
UnderWay(u) == {r \in MailboxRequests : Owner[r] = u /\ asked[r] \notin Mailboxes!Over}

MailboxesTyped ==
    /\ remote \in [Mailboxes!Owners -> [Mailboxes!Providers -> {"absent", "pending", "ready"}]]
    /\ leases \in [Mailboxes!Owners -> Nat]
    /\ asked \in [MailboxRequests -> RequestStages]
    /\ account \in [Mailboxes!Owners -> Mailboxes!Providers \cup {"none"}]
    /\ mailboxState \in [Mailboxes!Owners -> {"none", "ready", "disabled"}]
    /\ edge \subseteq Mailboxes!Owners
    /\ default \in [Mailboxes!Owners -> Managers \cup {"unset"}]
    /\ managed \in [Mailboxes!Owners -> Managers \cup {"none"}]
    /\ asks \in 0..MaxAsks /\ revised \in 0..MaxRevised

Connected(u) ==
    account[u] # "none" =>
        /\ u \in edge /\ managed[u] # "none" /\ remote[u][account[u]] = "ready"

\* Who is about to project an account has found it ready at the provider.
MailboxesInv ==
    /\ MailboxesTyped
    /\ \A u \in Mailboxes!Owners : Connected(u) /\ leases[u] = Cardinality(UnderWay(u))
    /\ \A r \in MailboxRequests :
          /\ asked[r] = "ready" => account[Owner[r]] = Named[r]
          /\ asked[r] \in {"found", "inserting"} => remote[Owner[r]][Named[r]] = "ready"

LEMMA OwnersOfRequests ==
    \A r \in MailboxRequests : /\ Owner[r] \in Mailboxes!Owners /\ Named[r] \in Mailboxes!Providers
                               /\ Named[r] # "none"
  BY HostAssumption DEF Mailboxes!Owners, Mailboxes!Providers

LEMMA MailboxesInvSuffices == MailboxesInv => Mailboxes!TypeOK /\ Mailboxes!ReadyIsConnected
<1> SUFFICES ASSUME MailboxesInv PROVE Mailboxes!TypeOK /\ Mailboxes!ReadyIsConnected
  OBVIOUS
<1>1. Mailboxes!TypeOK
  BY DEF MailboxesInv, MailboxesTyped, Mailboxes!TypeOK, RequestStages
<1>2. Mailboxes!ReadyIsConnected
  BY MailboxesCount DEF MailboxesInv, Mailboxes!ReadyIsConnected, Connected, UnderWay
<1> QED BY <1>1, <1>2

LEMMA MailboxesInitInv == Mailboxes!Init => MailboxesInv
<1> SUFFICES ASSUME Mailboxes!Init PROVE MailboxesInv
  OBVIOUS
<1> USE DEF Mailboxes!Init
<1>1. MailboxesTyped
  BY HostAssumption DEF MailboxesTyped, RequestStages, Mailboxes!Over
<1>2. \A u \in Mailboxes!Owners : UnderWay(u) = {}
  BY DEF UnderWay, Mailboxes!Over
<1>3. \A u \in Mailboxes!Owners : Connected(u) /\ leases[u] = Cardinality(UnderWay(u))
  BY <1>2, FS_EmptySet DEF Connected
<1> QED BY <1>1, <1>3 DEF MailboxesInv

\* The lease of a request is counted as long as it is under way.
Counts(r, s) ==
    leases' = IF asked[r] \in Mailboxes!Over /\ s \notin Mailboxes!Over
              THEN [leases EXCEPT ![Owner[r]] = leases[Owner[r]] + 1]
              ELSE IF asked[r] \notin Mailboxes!Over /\ s \in Mailboxes!Over
                   THEN [leases EXCEPT ![Owner[r]] = leases[Owner[r]] - 1]
                   ELSE leases

LEMMA LeasesCounted ==
    ASSUME MailboxesInv, NEW r \in MailboxRequests, NEW s \in RequestStages,
           asked' = [asked EXCEPT ![r] = s], Counts(r, s)
    PROVE  /\ asked' \in [MailboxRequests -> RequestStages]
           /\ leases' \in [Mailboxes!Owners -> Nat]
           /\ \A u \in Mailboxes!Owners : leases'[u] = Cardinality(UnderWay(u)')
<1> USE DEF MailboxesInv, MailboxesTyped
<1>1. asked' \in [MailboxRequests -> RequestStages]
  OBVIOUS
<1>2. Owner[r] \in Mailboxes!Owners
  BY OwnersOfRequests
<1>3. \A u \in Mailboxes!Owners : /\ IsFiniteSet(UnderWay(u)) /\ leases[u] = Cardinality(UnderWay(u))
                                  /\ leases[u] \in Nat
  BY HostAssumption, FS_Subset DEF UnderWay
<1>4. \A x \in MailboxRequests : asked'[x] = IF x = r THEN s ELSE asked[x]
  OBVIOUS
<1>5. \A u \in Mailboxes!Owners : u # Owner[r] => UnderWay(u)' = UnderWay(u)
  BY <1>4 DEF UnderWay
<1>6. CASE asked[r] \in Mailboxes!Over /\ s \notin Mailboxes!Over
  <2>1. UnderWay(Owner[r])' = UnderWay(Owner[r]) \cup {r} /\ r \notin UnderWay(Owner[r])
    BY <1>4, <1>6 DEF UnderWay
  <2>2. Cardinality(UnderWay(Owner[r])') = leases[Owner[r]] + 1
    <3>1. Cardinality(UnderWay(Owner[r]) \cup {r}) = Cardinality(UnderWay(Owner[r])) + 1
      BY <1>2, <1>3, <2>1, FS_AddElement
    <3> QED BY <1>2, <1>3, <2>1, <3>1
  <2>3. leases' = [leases EXCEPT ![Owner[r]] = leases[Owner[r]] + 1]
    BY <1>6 DEF Counts
  <2> QED BY <1>1, <1>2, <1>3, <1>5, <2>2, <2>3
<1>7. CASE asked[r] \notin Mailboxes!Over /\ s \in Mailboxes!Over
  <2>1. UnderWay(Owner[r])' = UnderWay(Owner[r]) \ {r} /\ r \in UnderWay(Owner[r])
    BY <1>4, <1>7 DEF UnderWay
  <2>2. /\ Cardinality(UnderWay(Owner[r])') = leases[Owner[r]] - 1
        /\ Cardinality(UnderWay(Owner[r])') \in Nat
    BY <1>2, <1>3, <2>1, FS_RemoveElement, FS_CardinalityType, FS_Subset
  <2>3. leases' = [leases EXCEPT ![Owner[r]] = leases[Owner[r]] - 1]
    BY <1>7 DEF Counts
  <2> QED BY <1>1, <1>2, <1>3, <1>5, <2>2, <2>3
<1>8. CASE (asked[r] \in Mailboxes!Over) <=> (s \in Mailboxes!Over)
  <2>1. UnderWay(Owner[r])' = UnderWay(Owner[r])
    BY <1>4, <1>8 DEF UnderWay
  <2>2. leases' = leases
    BY <1>8 DEF Counts
  <2> QED BY <1>1, <1>3, <1>5, <2>1, <2>2
<1> QED BY <1>6, <1>7, <1>8

\* A step of a request that does not project an account.
LEMMA QuietStep ==
    ASSUME MailboxesInv, NEW r \in MailboxRequests, NEW s \in RequestStages \ {"ready"},
           asked' = [asked EXCEPT ![r] = s], Counts(r, s), UNCHANGED Mailboxes!tables,
           remote' \in {remote, [remote EXCEPT ![Owner[r]][Named[r]] = "ready"]}
              \/ /\ remote[Owner[r]][Named[r]] # "ready"
                 /\ remote' = [remote EXCEPT ![Owner[r]][Named[r]] = "pending"],
           asks' \in 0..MaxAsks, UNCHANGED revised,
           s \in {"found", "inserting"} => remote'[Owner[r]][Named[r]] = "ready"
    PROVE  MailboxesInv' /\ Mailboxes!ConnectedStays
<1> USE DEF MailboxesInv
<1>1. /\ asked' \in [MailboxRequests -> RequestStages] /\ leases' \in [Mailboxes!Owners -> Nat]
      /\ \A u \in Mailboxes!Owners : leases'[u] = Cardinality(UnderWay(u)')
  BY LeasesCounted
<1>2. UNCHANGED <<account, mailboxState, edge, default, managed>>
  BY DEF Mailboxes!tables
<1>3. /\ remote' \in [Mailboxes!Owners -> [Mailboxes!Providers -> {"absent", "pending", "ready"}]]
      /\ \A u \in Mailboxes!Owners, p \in Mailboxes!Providers :
            remote[u][p] = "ready" => remote'[u][p] = "ready"
  <2> DEFINE u == Owner[r]
             p == Named[r]
             States == {"absent", "pending", "ready"}
  <2>1. u \in Mailboxes!Owners /\ p \in Mailboxes!Providers
    BY OwnersOfRequests
  <2>2. remote \in [Mailboxes!Owners -> [Mailboxes!Providers -> States]]
    BY DEF MailboxesTyped
  <2>3. ASSUME NEW v \in States, remote' = [remote EXCEPT ![u][p] = v], remote[u][p] = "ready" => v = "ready"
        PROVE  /\ remote' \in [Mailboxes!Owners -> [Mailboxes!Providers -> States]]
               /\ \A x \in Mailboxes!Owners, y \in Mailboxes!Providers :
                     remote[x][y] = "ready" => remote'[x][y] = "ready"
    <3> HIDE DEF u, p, States
    <3>1. remote' = [remote EXCEPT ![u] = [remote[u] EXCEPT ![p] = v]]
      BY <2>3
    <3>2. [remote[u] EXCEPT ![p] = v] \in [Mailboxes!Providers -> States]
      BY <2>1, <2>2
    <3>3. \A y \in Mailboxes!Providers :
              [remote[u] EXCEPT ![p] = v][y] = IF y = p THEN v ELSE remote[u][y]
      BY <2>1, <2>2
    <3> QED BY <2>1, <2>2, <2>3, <3>1, <3>2, <3>3
  <2>4. CASE UNCHANGED remote
    BY <2>2, <2>4
  <2> QED BY <2>3, <2>4
<1>4. MailboxesTyped'
  BY <1>1, <1>2, <1>3 DEF MailboxesTyped
<1>5. \A u \in Mailboxes!Owners : Connected(u)'
  BY <1>2, <1>3 DEF MailboxesTyped, Connected
<1>6. \A x \in MailboxRequests : asked'[x] = IF x = r THEN s ELSE asked[x]
  BY DEF MailboxesTyped
<1>7. \A x \in MailboxRequests :
          /\ asked'[x] = "ready" => account'[Owner[x]] = Named[x]
          /\ asked'[x] \in {"found", "inserting"} => remote'[Owner[x]][Named[x]] = "ready"
  BY <1>2, <1>3, <1>6, OwnersOfRequests
<1>8. Mailboxes!ConnectedStays
  BY <1>2 DEF Mailboxes!ConnectedStays
<1> QED BY <1>1, <1>4, <1>5, <1>7, <1>8

\* Over and under way exclude each other.
LEMMA StagesApart ==
    /\ {"idle", "ready", "pending", "expired", "error", "unavailable"} = Mailboxes!Over
    /\ {"leased", "found", "inserting"} \cap Mailboxes!Over = {}
  BY DEF Mailboxes!Over

LEMMA AnswerCounts ==
    ASSUME MailboxesInv, NEW r \in MailboxRequests, asked[r] \in {"leased", "found", "inserting"},
           NEW s \in Mailboxes!Over, Mailboxes!Answer(r, s)
    PROVE  s \in RequestStages /\ asked' = [asked EXCEPT ![r] = s] /\ Counts(r, s)
  BY StagesApart DEF Mailboxes!Answer, Mailboxes!Goes, Counts, RequestStages

LEMMA GoesCounts ==
    ASSUME NEW r \in MailboxRequests, NEW s \in {"found", "inserting"},
           asked[r] \in {"leased", "found", "inserting"}, Mailboxes!Goes(r, s), UNCHANGED leases
    PROVE  s \in RequestStages /\ asked' = [asked EXCEPT ![r] = s] /\ Counts(r, s)
  BY StagesApart DEF Mailboxes!Goes, Counts, RequestStages

LEMMA LeaseStands ==
    ASSUME MailboxesInv, NEW r \in MailboxRequests, Mailboxes!Lease(r)
    PROVE  MailboxesInv' /\ Mailboxes!ConnectedStays
<1>1. /\ asked[r] \in Mailboxes!Over /\ UNCHANGED <<remote, revised>> /\ UNCHANGED Mailboxes!tables
      /\ asks' \in 0..MaxAsks
  BY HostAssumption DEF Mailboxes!Lease, MailboxesInv, MailboxesTyped
<1>2. CASE leases' = [leases EXCEPT ![Owner[r]] = @ + 1] /\ Mailboxes!Goes(r, "leased")
  <2>1. /\ "leased" \in RequestStages \ {"ready"} /\ asked' = [asked EXCEPT ![r] = "leased"]
        /\ Counts(r, "leased")
    BY <1>1, <1>2, StagesApart DEF Mailboxes!Goes, Counts, RequestStages
  <2> QED BY <1>1, <2>1, QuietStep
<1>3. CASE Mailboxes!Goes(r, "unavailable") /\ UNCHANGED leases
  <2>1. /\ "unavailable" \in RequestStages \ {"ready"} /\ asked' = [asked EXCEPT ![r] = "unavailable"]
        /\ Counts(r, "unavailable")
    BY <1>1, <1>3, StagesApart DEF Mailboxes!Goes, Counts, RequestStages
  <2> QED BY <1>1, <2>1, QuietStep
<1> QED BY <1>2, <1>3 DEF Mailboxes!Lease

LEMMA StartStands ==
    ASSUME MailboxesInv, NEW r \in MailboxRequests, Mailboxes!Start(r) \/ Mailboxes!Complete(r)
    PROVE  MailboxesInv' /\ Mailboxes!ConnectedStays
<1>1. /\ asked[r] = "leased" /\ UNCHANGED revised /\ UNCHANGED Mailboxes!tables
      /\ asks' \in 0..MaxAsks
  BY DEF Mailboxes!Start, Mailboxes!Complete, MailboxesInv, MailboxesTyped
<1>2. CASE /\ remote' = [remote EXCEPT ![Owner[r]][Named[r]] = "ready"]
           /\ Mailboxes!Goes(r, "found") /\ UNCHANGED leases
  <2>1. "found" \in RequestStages /\ asked' = [asked EXCEPT ![r] = "found"] /\ Counts(r, "found")
    BY <1>1, <1>2, GoesCounts
  <2>2. remote'[Owner[r]][Named[r]] = "ready"
    BY <1>2, OwnersOfRequests DEF MailboxesInv, MailboxesTyped
  <2>3. "found" \in RequestStages \ {"ready"}
    BY <2>1
  <2> QED BY <1>1, <1>2, <2>1, <2>2, <2>3, QuietStep
<1>3. ASSUME NEW s \in {"pending", "expired", "error"}, Mailboxes!Answer(r, s),
             \/ UNCHANGED remote
             \/ /\ remote[Owner[r]][Named[r]] # "ready"
                /\ remote' = [remote EXCEPT ![Owner[r]][Named[r]] = "pending"]
      PROVE  MailboxesInv' /\ Mailboxes!ConnectedStays
  <2>1. s \in Mailboxes!Over
    BY StagesApart
  <2>2. s \in RequestStages /\ asked' = [asked EXCEPT ![r] = s] /\ Counts(r, s)
    BY <1>1, <1>3, <2>1, AnswerCounts
  <2>3. s \in RequestStages \ {"ready"} /\ s \notin {"found", "inserting"}
    BY <2>2
  <2> QED BY <1>1, <1>3, <2>2, <2>3, QuietStep
<1> QED BY <1>2, <1>3 DEF Mailboxes!Start, Mailboxes!Complete

LEMMA ProviderFailsStands ==
    ASSUME MailboxesInv, NEW r \in MailboxRequests,
           Mailboxes!ProviderFails(r) \/ Mailboxes!RollsBack(r)
    PROVE  MailboxesInv' /\ Mailboxes!ConnectedStays
<1>1. /\ asked[r] \in {"leased", "found", "inserting"} /\ Mailboxes!Answer(r, "unavailable")
      /\ UNCHANGED revised /\ UNCHANGED Mailboxes!tables /\ asks' \in 0..MaxAsks
      /\ remote' \in {remote, [remote EXCEPT ![Owner[r]][Named[r]] = "ready"]}
  BY DEF Mailboxes!ProviderFails, Mailboxes!RollsBack, MailboxesInv, MailboxesTyped
<1>2. /\ "unavailable" \in RequestStages /\ asked' = [asked EXCEPT ![r] = "unavailable"]
      /\ Counts(r, "unavailable")
  BY <1>1, StagesApart, AnswerCounts
<1>3. "unavailable" \in RequestStages \ {"ready"}
  BY <1>2
<1> QED BY <1>1, <1>2, <1>3, QuietStep

LEMMA LookStands ==
    ASSUME MailboxesInv, NEW r \in MailboxRequests, Mailboxes!Look(r)
    PROVE  MailboxesInv' /\ Mailboxes!ConnectedStays
<1>1. /\ asked[r] = "found" /\ Mailboxes!Goes(r, "inserting") /\ UNCHANGED leases
      /\ UNCHANGED revised /\ UNCHANGED Mailboxes!tables /\ asks' \in 0..MaxAsks /\ UNCHANGED remote
  BY DEF Mailboxes!Look, Mailboxes!hypermail, MailboxesInv, MailboxesTyped
<1>2. /\ "inserting" \in RequestStages /\ asked' = [asked EXCEPT ![r] = "inserting"]
      /\ Counts(r, "inserting")
  BY <1>1, GoesCounts
<1>3. "inserting" \in RequestStages \ {"ready"} /\ remote'[Owner[r]][Named[r]] = "ready"
  BY <1>1, <1>2 DEF MailboxesInv
<1> QED BY <1>1, <1>2, <1>3, QuietStep

\* The projection finds no account, or one of the same provider, whose manager
\* stays.
LEMMA ReadyStands ==
    ASSUME MailboxesInv, NEW r \in MailboxRequests, asked[r] \in {"found", "inserting"},
           account[Owner[r]] \in {"none", Named[r]}, Mailboxes!Ready(r),
           UNCHANGED <<remote, asks, revised>>
    PROVE  MailboxesInv' /\ Mailboxes!ConnectedStays
<1> USE DEF MailboxesInv
<1> DEFINE u == Owner[r]
<1>1. u \in Mailboxes!Owners /\ Named[r] \in Mailboxes!Providers /\ Named[r] # "none"
  BY OwnersOfRequests
<1>2. CASE default[u] = "unset"
  <2>1. Mailboxes!Answer(r, "unavailable") /\ UNCHANGED Mailboxes!tables
    BY <1>2 DEF Mailboxes!Ready
  <2>2. /\ "unavailable" \in RequestStages /\ asked' = [asked EXCEPT ![r] = "unavailable"]
        /\ Counts(r, "unavailable")
    BY <2>1, StagesApart, AnswerCounts
  <2>3. "unavailable" \in RequestStages \ {"ready"} /\ asks' \in 0..MaxAsks
    BY <2>2 DEF MailboxesTyped
  <2> QED BY <2>1, <2>2, <2>3, QuietStep
<1>3. CASE default[u] # "unset"
  <2> DEFINE m == IF managed[u] = "none" THEN default[u] ELSE managed[u]
  <2>1. /\ account' = [account EXCEPT ![u] = Named[r]]
        /\ mailboxState' = [mailboxState EXCEPT ![u] = "ready"]
        /\ edge' = edge \cup {u}
        /\ managed' = [managed EXCEPT ![u] = m]
        /\ Mailboxes!Answer(r, "ready") /\ UNCHANGED default
    BY <1>3 DEF Mailboxes!Ready
  <2>2. "ready" \in RequestStages /\ asked' = [asked EXCEPT ![r] = "ready"] /\ Counts(r, "ready")
    BY <2>1, StagesApart, AnswerCounts
  <2>3. /\ asked' \in [MailboxRequests -> RequestStages] /\ leases' \in [Mailboxes!Owners -> Nat]
        /\ \A x \in Mailboxes!Owners : leases'[x] = Cardinality(UnderWay(x)')
    BY <2>2, LeasesCounted
  <2>4. m \in Managers /\ m # "none" /\ (managed[u] # "none" => m = managed[u])
    BY <1>1, <1>3, HostAssumption DEF MailboxesTyped
  <2> HIDE DEF m
  <2>5. MailboxesTyped'
    BY <1>1, <2>1, <2>3, <2>4 DEF MailboxesTyped
  <2>6. \A x \in Mailboxes!Owners :
            /\ account'[x] = IF x = u THEN Named[r] ELSE account[x]
            /\ managed'[x] = IF x = u THEN m ELSE managed[x]
            /\ x \in edge' <=> x = u \/ x \in edge
    BY <2>1 DEF MailboxesTyped
  <2> HIDE DEF u
  <2>7. remote[u][Named[r]] = "ready"
    BY DEF u
  <2>8. \A x \in Mailboxes!Owners : Connected(x)'
    BY <2>4, <2>6, <2>7 DEF Connected
  <2>9. account[u] \in {"none", Named[r]} /\ (account[u] # "none" => managed[u] # "none")
    BY <1>1 DEF u, Connected
  <2>10. Mailboxes!ConnectedStays
    BY <2>4, <2>6, <2>9 DEF Mailboxes!ConnectedStays
  <2>11. \A x \in MailboxRequests : asked'[x] = IF x = r THEN "ready" ELSE asked[x]
    BY <2>2 DEF MailboxesTyped
  <2>12. ASSUME NEW x \in MailboxRequests
         PROVE  /\ asked'[x] = "ready" => account'[Owner[x]] = Named[x]
                /\ asked'[x] \in {"found", "inserting"} => remote'[Owner[x]][Named[x]] = "ready"
    <3>1. CASE x = r
      BY <1>1, <2>6, <2>11, <3>1 DEF u
    <3>2. CASE x # r
      <4>1. asked[x] = "ready" => account[Owner[x]] = Named[x] /\ Named[x] # "none"
        BY OwnersOfRequests
      <4>2. account'[Owner[x]] = account[Owner[x]] \/ account[Owner[x]] = "none"
        BY <2>6, <2>9, OwnersOfRequests
      <4> QED BY <2>11, <3>2, <4>1, <4>2
    <3> QED BY <3>1, <3>2
  <2> QED BY <2>3, <2>5, <2>8, <2>10, <2>12
<1> QED BY <1>2, <1>3

LEMMA ProjectStands ==
    ASSUME MailboxesInv, NEW r \in MailboxRequests, Mailboxes!Readd(r) \/ Mailboxes!Insert(r)
    PROVE  MailboxesInv' /\ Mailboxes!ConnectedStays
<1>1. asked[r] \in {"found", "inserting"} /\ UNCHANGED <<remote, asks, revised>>
  BY DEF Mailboxes!Readd, Mailboxes!Insert
<1>2. CASE account[Owner[r]] \in {"none", Named[r]} /\ Mailboxes!Ready(r)
  BY <1>1, <1>2, ReadyStands
<1>3. CASE Mailboxes!Answer(r, "unavailable") /\ UNCHANGED Mailboxes!tables
  <2>1. /\ "unavailable" \in RequestStages /\ asked' = [asked EXCEPT ![r] = "unavailable"]
        /\ Counts(r, "unavailable")
    BY <1>1, <1>3, StagesApart, AnswerCounts
  <2>2. "unavailable" \in RequestStages \ {"ready"} /\ asks' \in 0..MaxAsks
    BY <1>1, <2>1 DEF MailboxesInv, MailboxesTyped
  <2> QED BY <1>1, <1>3, <2>1, <2>2, QuietStep
<1> QED BY <1>2, <1>3 DEF Mailboxes!Readd, Mailboxes!Insert, Mailboxes!Taken

\* What the owner and the operator do, and the death of the process.
LEMMA ChangeStands ==
    ASSUME MailboxesInv,
           \/ \E u \in Mailboxes!Owners :
                 Mailboxes!Disable(u) \/ \E m \in Managers : Mailboxes!ChooseDefault(u, m)
           \/ Mailboxes!Crash
    PROVE  MailboxesInv' /\ Mailboxes!ConnectedStays
<1> USE DEF MailboxesInv
<1>1. revised' \in 0..MaxRevised
  BY HostAssumption DEF Mailboxes!Disable, Mailboxes!ChooseDefault, Mailboxes!Crash, Mailboxes!Change,
     MailboxesTyped
<1>2. ASSUME NEW u \in Mailboxes!Owners,
             Mailboxes!Disable(u) \/ \E m \in Managers : Mailboxes!ChooseDefault(u, m)
      PROVE  MailboxesInv' /\ Mailboxes!ConnectedStays
  <2>1. /\ UNCHANGED <<remote, leases, asked, account, edge, managed, asks>>
        /\ mailboxState' \in [Mailboxes!Owners -> {"none", "ready", "disabled"}]
        /\ default' \in [Mailboxes!Owners -> Managers \cup {"unset"}]
    <3>1. CASE Mailboxes!Disable(u)
      BY <3>1 DEF Mailboxes!Disable, Mailboxes!hypermail, MailboxesTyped
    <3>2. ASSUME NEW m \in Managers, Mailboxes!ChooseDefault(u, m)
          PROVE  /\ UNCHANGED <<remote, leases, asked, account, mailboxState, edge, managed, asks>>
                 /\ default' \in [Mailboxes!Owners -> Managers \cup {"unset"}]
      BY <3>2 DEF Mailboxes!ChooseDefault, Mailboxes!hypermail, MailboxesTyped
    <3> QED BY <1>2, <3>1, <3>2 DEF MailboxesTyped
  <2>2. MailboxesTyped'
    BY <1>1, <2>1 DEF MailboxesTyped
  <2>3. \A x \in Mailboxes!Owners : Connected(x)' /\ leases'[x] = Cardinality(UnderWay(x)')
    BY <2>1 DEF Connected, UnderWay
  <2> QED BY <2>1, <2>2, <2>3 DEF Mailboxes!ConnectedStays
<1>3. CASE Mailboxes!Crash
  <2>1. /\ leases' = [u \in Mailboxes!Owners |-> 0]
        /\ asked' = [r \in MailboxRequests |-> IF asked[r] \in Mailboxes!Over THEN asked[r]
                                               ELSE "unavailable"]
        /\ UNCHANGED <<remote, account, mailboxState, edge, default, managed, asks>>
    BY <1>3 DEF Mailboxes!Crash, Mailboxes!tables
  <2>2. \A r \in MailboxRequests : /\ asked'[r] \in RequestStages /\ asked'[r] \in Mailboxes!Over
                                   /\ asked'[r] \in {asked[r], "unavailable"}
    BY <2>1, StagesApart DEF MailboxesTyped, RequestStages
  <2>3. MailboxesTyped'
    BY <1>1, <2>1, <2>2 DEF MailboxesTyped
  <2>4. \A u \in Mailboxes!Owners : UnderWay(u)' = {}
    BY <2>2 DEF UnderWay
  <2>5. \A u \in Mailboxes!Owners : Connected(u)' /\ leases'[u] = Cardinality(UnderWay(u)')
    BY <2>1, <2>4, FS_EmptySet DEF Connected
  <2> QED BY <2>1, <2>2, <2>3, <2>5 DEF Mailboxes!ConnectedStays
<1> QED BY <1>2, <1>3

LEMMA MailboxesNextStands ==
    MailboxesInv /\ [Mailboxes!Next]_(Mailboxes!vars) => MailboxesInv' /\ Mailboxes!ConnectedStays
<1> SUFFICES ASSUME MailboxesInv, [Mailboxes!Next]_(Mailboxes!vars)
             PROVE  MailboxesInv' /\ Mailboxes!ConnectedStays
  OBVIOUS
<1>1. ASSUME NEW r \in MailboxRequests,
             \/ Mailboxes!Lease(r) \/ Mailboxes!Start(r) \/ Mailboxes!Complete(r)
             \/ Mailboxes!ProviderFails(r) \/ Mailboxes!Project(r) \/ Mailboxes!RollsBack(r)
      PROVE  MailboxesInv' /\ Mailboxes!ConnectedStays
  BY <1>1, LeaseStands, StartStands, ProviderFailsStands, LookStands, ProjectStands
     DEF Mailboxes!Project
<1>2. CASE \/ \E u \in Mailboxes!Owners :
                 Mailboxes!Disable(u) \/ \E m \in Managers : Mailboxes!ChooseDefault(u, m)
           \/ Mailboxes!Crash
  BY <1>2, ChangeStands
<1>3. CASE UNCHANGED Mailboxes!vars
  <2> USE <1>3 DEF MailboxesInv, Mailboxes!vars, Mailboxes!hypermail, Mailboxes!tables
  <2>1. MailboxesTyped'
    BY DEF MailboxesTyped
  <2>2. \A u \in Mailboxes!Owners : Connected(u)' /\ leases'[u] = Cardinality(UnderWay(u)')
    BY DEF Connected, UnderWay
  <2> QED BY <2>1, <2>2 DEF Mailboxes!ConnectedStays
<1> QED BY <1>1, <1>2, <1>3 DEF Mailboxes!Next

\* A mailbox that was connected keeps its provider and its manager, who was told
\* so has it, and every request under way holds its lease, for any owners,
\* providers and requests, however they race.
THEOREM MailboxesKeepStanding == Mailboxes!Spec => MailboxesStand
<1> DEFINE Stands == /\ Mailboxes!ConnectedStays
                     /\ Mailboxes!TypeOK' /\ Mailboxes!ReadyIsConnected'
<1>1. MailboxesInv /\ [Mailboxes!Next]_(Mailboxes!vars) => MailboxesInv'
  BY MailboxesNextStands
<1>2. MailboxesInv' => Mailboxes!TypeOK' /\ Mailboxes!ReadyIsConnected'
  BY MailboxesInvSuffices, PTL
<1>3. MailboxesInv /\ [Mailboxes!Next]_(Mailboxes!vars) => [Stands]_mailboxes
  BY <1>1, <1>2, MailboxesNextStands
<1> QED BY <1>1, <1>3, MailboxesInitInv, PTL DEF Mailboxes!Spec, MailboxesStand

Download == [stage : Attachments!Stages, client : {"there", "gone"},
             lease : BOOLEAN, heard : BOOLEAN, sent : BOOLEAN]

\* A download that is under way belongs to the process that is up: it has its
\* lease from the moment it fetches, and what it sends is there until it is cleaned.
Delivers(d, f) ==
    /\ d.lease <=> d.stage \in {"fetching", "checking", "opening", "sending", "cleaning", "releasing"}
    /\ d.sent => d.stage \in {"sending", "cleaning", "releasing", "over"}
    /\ d.sent /\ d.stage \in {"releasing", "over"} => f # "kept"
    /\ d.stage = "sending" => d.sent
    /\ d.stage \in {"checking", "opening", "sending"} => f = "kept"

DownloadsInv ==
    /\ Attachments!TypeOK
    /\ \A d \in Downloads : /\ Delivers(download[d], file[d])
                            /\ ~up => download[d].stage \in {"idle", "over"}

LEMMA DownloadsInvSuffices == DownloadsInv => Attachments!TypeOK /\ Attachments!GivenBack
  BY DEF DownloadsInv, Delivers, Attachments!GivenBack, Attachments!At

LEMMA DownloadsInitInv == Attachments!Init => DownloadsInv
  BY HostAssumption DEF Attachments!Init, DownloadsInv, Delivers, Attachments!TypeOK, Attachments!Stages

\* A step of one download, of a process that is up.
LEMMA DownloadStep ==
    ASSUME DownloadsInv, NEW d \in Downloads, NEW next \in Download,
           NEW f \in {"none", "kept", "stuck", "removed"},
           download' = [download EXCEPT ![d] = next], file' = [file EXCEPT ![d] = f],
           Delivers(next, f), up \/ next.stage = "over", UNCHANGED <<up, deaths>>
    PROVE  DownloadsInv'
<1> USE DEF DownloadsInv
<1>1. Attachments!TypeOK'
  BY DEF Attachments!TypeOK, Download
<1>2. \A x \in Downloads : /\ download'[x] = IF x = d THEN next ELSE download[x]
                           /\ file'[x] = IF x = d THEN f ELSE file[x]
  BY DEF Attachments!TypeOK
<1> QED BY <1>1, <1>2

\* Who is neither idle nor over is served by a process that is up.
LEMMA Served ==
    ASSUME DownloadsInv, NEW d \in Downloads
    PROVE  /\ download[d] \in Download /\ file[d] \in {"none", "kept", "stuck", "removed"}
           /\ Delivers(download[d], file[d])
           /\ download[d].stage \notin {"idle", "over"} => up
           /\ download[d].stage = "idle" => ~download[d].lease /\ ~download[d].sent
  BY DEF DownloadsInv, Download, Attachments!TypeOK, Delivers

\* A step that only moves a download to a stage.
LEMMA MoveStep ==
    ASSUME DownloadsInv, NEW d \in Downloads, NEW s \in Attachments!Stages,
           NEW f \in {"none", "kept", "stuck", "removed"},
           Attachments!Move(d, s), file' = [file EXCEPT ![d] = f], up, UNCHANGED <<up, deaths>>,
           Delivers([download[d] EXCEPT !.stage = s], f)
    PROVE  DownloadsInv'
<1>1. [download[d] EXCEPT !.stage = s] \in Download
  BY Served DEF Download
<1>2. download' = [download EXCEPT ![d] = [download[d] EXCEPT !.stage = s]]
  BY DEF Attachments!Move, Attachments!Become
<1> QED BY <1>1, <1>2, DownloadStep
LEMMA StaysStep ==
    ASSUME DownloadsInv, NEW d \in Downloads, NEW s \in Attachments!Stages,
           Attachments!Move(d, s), UNCHANGED file, up, UNCHANGED <<up, deaths>>,
           Delivers([download[d] EXCEPT !.stage = s], file[d])
    PROVE  DownloadsInv'
<1>1. file' = [file EXCEPT ![d] = file[d]] /\ file[d] \in {"none", "kept", "stuck", "removed"}
  BY DEF DownloadsInv, Attachments!TypeOK
<1> QED BY <1>1, MoveStep

\* What a download is when its stage is another.
LEMMA Staged ==
    ASSUME DownloadsInv, NEW d \in Downloads, NEW s \in Attachments!Stages
    PROVE  LET next == [download[d] EXCEPT !.stage = s]
           IN /\ next.stage = s /\ next.lease = download[d].lease /\ next.sent = download[d].sent
              /\ next.client = download[d].client /\ next.heard = download[d].heard
  BY Served DEF Download

LEMMA ServeInv == ASSUME DownloadsInv, NEW d \in Downloads, Attachments!Serve(d) PROVE DownloadsInv'
<1> DEFINE f == file[d]
<1>1. download[d] \in Download /\ Delivers(download[d], f)
  BY Served
<1>2. {"asked", "fetching", "checking", "opening", "sending", "cleaning", "releasing", "over"}
        \subseteq Attachments!Stages
  BY DEF Attachments!Stages
<1> DEFINE To(s) == [download[d] EXCEPT !.stage = s]
<1>3. \A s \in Attachments!Stages : To(s).stage = s /\ To(s).lease = download[d].lease
                                  /\ To(s).sent = download[d].sent
  BY Staged
<1>4. CASE Attachments!Lease(d)
  <2>1. download[d].stage = "asked" /\ up /\ UNCHANGED <<up, file, deaths>>
    BY <1>4, Served DEF Attachments!Lease, Attachments!At
  <2>2. CASE Attachments!Move(d, "over")
    <3>1. Delivers(To("over"), f)
      BY <1>1, <1>2, <1>3, <2>1 DEF Delivers
    <3> QED BY <1>2, <2>1, <2>2, <3>1, StaysStep
  <2>3. CASE Attachments!Become(d, [download[d] EXCEPT !.stage = "fetching", !.lease = TRUE])
    <3> DEFINE next == [download[d] EXCEPT !.stage = "fetching", !.lease = TRUE]
    <3>1. next \in Download /\ next.stage = "fetching" /\ next.lease /\ next.sent = download[d].sent
      BY <1>1, <1>2 DEF Download
    <3>2. Delivers(next, f)
      BY <1>1, <2>1, <3>1 DEF Delivers
    <3>3. file' = [file EXCEPT ![d] = f] /\ f \in {"none", "kept", "stuck", "removed"}
      BY <2>1, Served DEF DownloadsInv, Attachments!TypeOK
    <3>4. download' = [download EXCEPT ![d] = next]
      BY <2>3 DEF Attachments!Become
    <3> HIDE DEF next, f
    <3> QED BY <2>1, <3>1, <3>2, <3>3, <3>4, DownloadStep
  <2> QED BY <1>4, <2>2, <2>3 DEF Attachments!Lease
<1>5. CASE Attachments!Fetch(d)
  <2>1. download[d].stage = "fetching" /\ up /\ UNCHANGED <<up, deaths>>
    BY <1>5, Served DEF Attachments!Fetch, Attachments!At
  <2>2. \A k \in {"none", "kept", "stuck", "removed"} : Delivers(To("releasing"), k)
    BY <1>1, <1>2, <1>3, <2>1 DEF Delivers
  <2>3. Delivers(To("checking"), "kept")
    BY <1>1, <1>2, <1>3, <2>1 DEF Delivers
  <2> HIDE DEF To
  <2>4. CASE Attachments!Move(d, "releasing") /\ UNCHANGED file
    BY <1>2, <2>1, <2>2, <2>4, Served, StaysStep DEF To
  <2>5. CASE Attachments!Move(d, "releasing") /\ file' = [file EXCEPT ![d] = "kept"]
    BY <1>2, <2>1, <2>2, <2>5, MoveStep DEF To
  <2>6. CASE Attachments!Move(d, "checking") /\ file' = [file EXCEPT ![d] = "kept"]
    BY <1>2, <2>1, <2>3, <2>6, MoveStep DEF To
  <2> QED BY <1>5, <2>4, <2>5, <2>6 DEF Attachments!Fetch
<1>6. CASE Attachments!Check(d)
  <2>1. download[d].stage = "checking" /\ up /\ UNCHANGED <<up, file, deaths>>
    BY <1>6, Served DEF Attachments!Check, Attachments!At
  <2>2. PICK s \in {"releasing", "opening"} : Attachments!Move(d, s)
    BY <1>6 DEF Attachments!Check
  <2>3. s \in Attachments!Stages /\ Delivers(To(s), f)
    BY <1>1, <1>2, <1>3, <2>1, <2>2 DEF Delivers
  <2> QED BY <2>1, <2>2, <2>3, StaysStep
<1>7. CASE Attachments!Open(d)
  <2>1. download[d].stage = "opening" /\ up /\ UNCHANGED <<up, deaths>>
    BY <1>7, Served DEF Attachments!Open, Attachments!At
  <2>2. \A k \in {"none", "kept", "stuck", "removed"} : Delivers(To("releasing"), k)
    BY <1>1, <1>2, <1>3, <2>1 DEF Delivers
  <2> HIDE DEF To
  <2>3. CASE Attachments!Move(d, "releasing") /\ UNCHANGED file
    BY <1>2, <2>1, <2>2, <2>3, Served, StaysStep DEF To
  <2>4. CASE Attachments!Move(d, "releasing") /\ file' = [file EXCEPT ![d] = "removed"]
    BY <1>2, <2>1, <2>2, <2>4, MoveStep DEF To
  <2> DEFINE next == [download[d] EXCEPT !.stage = "sending", !.sent = TRUE,
                                         !.heard = (download[d].client = "there")]
  <2>5. CASE Attachments!Become(d, next) /\ UNCHANGED file
    <3>1. next \in Download /\ next.stage = "sending" /\ next.sent /\ next.lease = download[d].lease
      <4> DEFINE opened == [download[d] EXCEPT !.stage = "sending", !.sent = TRUE]
      <4>1. opened \in Download /\ opened.stage = "sending" /\ opened.sent
              /\ opened.lease = download[d].lease
        BY <1>1, <1>2 DEF Download
      <4>2. next = [opened EXCEPT !.heard = (download[d].client = "there")]
        OBVIOUS
      <4>3. (download[d].client = "there") \in BOOLEAN
        OBVIOUS
      <4> HIDE DEF opened, next
      <4> QED BY <4>1, <4>2, <4>3 DEF Download
    <3>2. Delivers(next, f)
      BY <1>1, <2>1, <3>1 DEF Delivers
    <3>3. file' = [file EXCEPT ![d] = f] /\ f \in {"none", "kept", "stuck", "removed"}
      BY <2>5, Served DEF DownloadsInv, Attachments!TypeOK
    <3>4. download' = [download EXCEPT ![d] = next]
      BY <2>5 DEF Attachments!Become
    <3> HIDE DEF next, f
    <3> QED BY <2>1, <3>1, <3>2, <3>3, <3>4, DownloadStep
  <2> QED BY <1>7, <2>3, <2>4, <2>5 DEF Attachments!Open
<1>8. CASE Attachments!Finish(d)
  <2>1. /\ download[d].stage = "sending" /\ up /\ UNCHANGED <<up, file, deaths>>
        /\ Attachments!Move(d, "cleaning")
    BY <1>8, Served DEF Attachments!Finish, Attachments!At
  <2>2. Delivers(To("cleaning"), f)
    BY <1>1, <1>2, <1>3, <2>1 DEF Delivers
  <2> QED BY <1>2, <2>1, <2>2, StaysStep
<1>9. CASE Attachments!Clean(d)
  <2>1. /\ download[d].stage = "cleaning" /\ up /\ UNCHANGED <<up, deaths>>
        /\ Attachments!Move(d, "releasing")
    BY <1>9, Served DEF Attachments!Clean, Attachments!At
  <2>2. PICK k \in {"removed", "stuck"} : file' = [file EXCEPT ![d] = k]
    BY <1>9 DEF Attachments!Clean
  <2>3. Delivers(To("releasing"), k)
    BY <1>1, <1>2, <1>3, <2>1, <2>2 DEF Delivers
  <2> QED BY <1>2, <2>1, <2>2, <2>3, MoveStep
<1>10. CASE Attachments!Release(d)
  <2>1. download[d].stage = "releasing" /\ up /\ UNCHANGED <<up, file, deaths>>
    BY <1>10, Served DEF Attachments!Release, Attachments!At
  <2> DEFINE next == [download[d] EXCEPT !.stage = "over", !.lease = FALSE]
  <2>2. next \in Download /\ next.stage = "over" /\ ~next.lease /\ next.sent = download[d].sent
    BY <1>1, <1>2 DEF Download
  <2>3. Delivers(next, f)
    BY <1>1, <2>1, <2>2 DEF Delivers
  <2>4. file' = [file EXCEPT ![d] = f] /\ f \in {"none", "kept", "stuck", "removed"}
    BY <2>1, Served DEF DownloadsInv, Attachments!TypeOK
  <2>5. download' = [download EXCEPT ![d] = next]
    BY <1>10 DEF Attachments!Release, Attachments!Become
  <2> HIDE DEF next, f
  <2> QED BY <2>1, <2>2, <2>3, <2>4, <2>5, DownloadStep
<1> QED BY <1>4, <1>5, <1>6, <1>7, <1>8, <1>9, <1>10 DEF Attachments!Serve

LEMMA AskInv == ASSUME DownloadsInv, NEW d \in Downloads, Attachments!Ask(d) PROVE DownloadsInv'
<1>1. /\ download[d] \in Download /\ Delivers(download[d], file[d])
      /\ download[d].stage = "idle" /\ ~download[d].lease /\ ~download[d].sent
      /\ up /\ UNCHANGED <<up, file, deaths>>
  BY Served DEF Attachments!Ask, Attachments!At
<1>2. PICK s \in {"over", "asked"} : Attachments!Move(d, s)
  BY DEF Attachments!Ask
<1>3. s \in Attachments!Stages
  BY <1>2 DEF Attachments!Stages
<1>4. Delivers([download[d] EXCEPT !.stage = s], file[d])
  BY <1>1, <1>2, <1>3, Staged DEF Delivers
<1> QED BY <1>1, <1>2, <1>3, <1>4, StaysStep

\* The client leaves: what listens for it goes on to clean up.
LEMMA DisconnectInv ==
    ASSUME DownloadsInv, NEW d \in Downloads, Attachments!Disconnect(d) PROVE DownloadsInv'
<1> DEFINE s == IF download[d].stage = "sending" THEN "cleaning" ELSE download[d].stage
           left == [download[d] EXCEPT !.client = "gone"]
           next == [left EXCEPT !.stage = s]
<1>1. /\ download[d] \in Download /\ Delivers(download[d], file[d]) /\ up
      /\ UNCHANGED <<up, file, deaths>> /\ download[d].stage \notin {"idle", "over"}
  BY Served DEF Attachments!Disconnect, Attachments!Pending
<1>2. download' = [download EXCEPT ![d] = next]
  <2>1. download' = [download EXCEPT ![d] = [download[d] EXCEPT
                         !.client = "gone", !.stage = IF @ = "sending" THEN "cleaning" ELSE @]]
    BY DEF Attachments!Disconnect, Attachments!Become
  <2>2. [download[d] EXCEPT !.client = "gone", !.stage = IF @ = "sending" THEN "cleaning" ELSE @]
           = next
    BY <1>1 DEF Download
  <2> QED BY <2>1, <2>2
<1>3. left \in Download /\ left.stage = download[d].stage /\ left.lease = download[d].lease
        /\ left.sent = download[d].sent
  BY <1>1 DEF Download
<1>4. s \in Attachments!Stages
  BY <1>1 DEF Download, Attachments!Stages
<1> HIDE DEF left, s
<1>5. next \in Download /\ next.stage = s /\ next.lease = download[d].lease /\ next.sent = download[d].sent
  BY <1>3, <1>4 DEF Download
<1>6. Delivers(next, file[d])
  BY <1>1, <1>5 DEF Delivers, s
<1>7. file' = [file EXCEPT ![d] = file[d]] /\ file[d] \in {"none", "kept", "stuck", "removed"}
  BY <1>1, Served DEF DownloadsInv, Attachments!TypeOK
<1> HIDE DEF next
<1> QED BY <1>1, <1>2, <1>5, <1>6, <1>7, DownloadStep

\* A process that dies takes its downloads with it, and its successor finds
\* none of them.
LEMMA DieInvD == ASSUME DownloadsInv, Attachments!Die PROVE DownloadsInv'
<1> USE DEF DownloadsInv
<1>1. deaths' \in 0..MaxDeaths /\ up' = FALSE /\ UNCHANGED file
  <2>1. deaths \in 0..MaxDeaths /\ deaths < MaxDeaths /\ deaths' = deaths + 1
    BY DEF Attachments!Die, Attachments!TypeOK
  <2>2. up' = FALSE /\ UNCHANGED file
    BY DEF Attachments!Die
  <2> QED BY <2>1, <2>2, HostAssumption
<1>2. ASSUME NEW d \in Downloads
      PROVE  /\ download'[d] \in Download /\ Delivers(download'[d], file'[d])
             /\ download'[d].stage \in {"idle", "over"}
  <2>1. download[d] \in Download /\ Delivers(download[d], file[d])
    BY Served
  <2>2. CASE download[d].stage \notin Attachments!Pending
    BY <1>1, <2>1, <2>2 DEF Attachments!Die, Attachments!Pending, Download
  <2>3. CASE download[d].stage \in Attachments!Pending
    <3> DEFINE over == [download[d] EXCEPT !.stage = "over", !.lease = FALSE, !.sent = FALSE]
    <3>1. download'[d] = over
      BY <2>3 DEF Attachments!Die
    <3>2. over \in Download /\ over.stage = "over" /\ ~over.lease /\ ~over.sent
      <4> DEFINE ended == [download[d] EXCEPT !.stage = "over", !.lease = FALSE]
      <4>1. ended \in Download /\ ended.stage = "over" /\ ~ended.lease
        BY <2>1 DEF Download, Attachments!Stages
      <4>2. over = [ended EXCEPT !.sent = FALSE]
        OBVIOUS
      <4> HIDE DEF ended, over
      <4> QED BY <4>1, <4>2 DEF Download
    <3> HIDE DEF over
    <3> QED BY <3>1, <3>2 DEF Delivers
  <2> QED BY <2>2, <2>3
<1>3. Attachments!TypeOK'
  <2>1. download' \in [Downloads -> Download]
    BY <1>2 DEF Attachments!Die
  <2> QED BY <1>1, <2>1 DEF Attachments!TypeOK, Download
<1> QED BY <1>2, <1>3

LEMMA StartInvD == ASSUME DownloadsInv, Attachments!Start PROVE DownloadsInv'
<1> USE DEF DownloadsInv
<1>1. PICK swept \in SUBSET {d \in Downloads : file[d] \in {"kept", "stuck"}} :
          file' = [d \in Downloads |-> IF d \in swept THEN "removed" ELSE file[d]]
  BY DEF Attachments!Start
<1>2. ~up /\ up' = TRUE /\ UNCHANGED <<download, deaths>>
  BY DEF Attachments!Start
<1>3. Attachments!TypeOK'
  BY <1>1, <1>2 DEF Attachments!TypeOK
<1>4. \A d \in Downloads : Delivers(download'[d], file'[d])
  BY <1>1, <1>2 DEF Delivers
<1> QED BY <1>2, <1>3, <1>4

LEMMA DownloadsNextInv == DownloadsInv /\ [Attachments!Next]_(Attachments!vars) => DownloadsInv'
<1> SUFFICES ASSUME DownloadsInv, [Attachments!Next]_(Attachments!vars) PROVE DownloadsInv'
  OBVIOUS
<1>1. CASE UNCHANGED Attachments!vars
  BY <1>1 DEF Attachments!vars, DownloadsInv, Attachments!TypeOK
<1>2. CASE Attachments!Next
  BY <1>2, ServeInv, AskInv, DisconnectInv, DieInvD, StartInvD DEF Attachments!Next
<1> QED BY <1>1, <1>2

LEMMA EndpointCounts == \A S : Endpoint!Cardinality(S) = Cardinality(S)
  BY DEF Endpoint!Cardinality, Cardinality

Asking == [stage : {"new", "reaped", "reading", "connecting", "serving", "done", "refused"},
           session : Initializes \cup {"none"},
           reserved : BOOLEAN, late : BOOLEAN, aborted : BOOLEAN]

\* The request of a session that has an id: it was served, or still is.
Begun(s) == request[s].stage \in {"serving", "done"} /\ ~request[s].reserved

\* A reservation is held for a session that is open, and the other requests are
\* about one of their identity that has an id, or had one.
Placed(r) ==
    /\ request[r].reserved => /\ r \in Initializes /\ request[r].stage \in {"connecting", "serving"}
                              /\ shuttingDown \/ session[r] = "open"
    /\ r \in Initializes /\ request[r].stage \in {"connecting", "serving"} =>
           request[r].session = r
    /\ r \in Initializes /\ request[r].stage = "connecting" => request[r].reserved
    /\ r \notin Initializes /\ request[r].stage \in {"reading", "connecting", "serving"} =>
           /\ request[r].stage # "connecting" /\ request[r].session \in Initializes
           /\ Identity[request[r].session] = Identity[r] /\ Begun(request[r].session)

Reserving == {r \in Endpoint!Requests : request[r].reserved}
Serving == {r \in Endpoint!Requests : request[r].stage = "serving"}

EndpointCounted ==
    /\ pending = Cardinality(Reserving) /\ total = Cardinality(Serving)
    /\ \A s \in Initializes : inflight[s] = Cardinality(Endpoint!On(s))
EndpointBounded ==
    /\ Cardinality(listed) + pending <= MaxListed /\ total <= MaxInflight
    /\ \A s \in Initializes : inflight[s] <= MaxPerSession

EndpointInv ==
    /\ Endpoint!TypeOK
    /\ EndpointCounted /\ EndpointBounded
    /\ \A r \in Endpoint!Requests : Placed(r)
    /\ \A s \in listed : Begun(s)
    /\ Endpoint!NoSessionIsLost /\ Endpoint!ServedByOwnSession

LEMMA EndpointInvSuffices ==
    EndpointInv => /\ Endpoint!TypeOK /\ Endpoint!LimitsHold
                   /\ Endpoint!NoSessionIsLost /\ Endpoint!ServedByOwnSession
  BY EndpointCounts
     DEF EndpointInv, EndpointCounted, EndpointBounded, Endpoint!LimitsHold, Reserving, Serving

LEMMA EndpointFinite ==
    ASSUME NEW S, S \subseteq Endpoint!Requests
    PROVE  IsFiniteSet(S) /\ Cardinality(S) \in Nat
<1>1. IsFiniteSet(Initializes) /\ IsFiniteSet(ToolCalls) /\ IsFiniteSet(Deletes)
  BY HostAssumption
<1>2. IsFiniteSet(Initializes \cup ToolCalls)
  BY <1>1, FS_Union
<1>3. IsFiniteSet(Endpoint!Requests)
  BY <1>1, <1>2, FS_Union DEF Endpoint!Requests
<1> QED BY <1>3, FS_Subset, FS_CardinalityType

\* A set that one element may enter or leave.
LEMMA OneMore ==
    ASSUME NEW S, NEW T, IsFiniteSet(S), NEW x, T = S \cup {x}, x \notin S
    PROVE  Cardinality(T) = Cardinality(S) + 1
  BY FS_AddElement
LEMMA OneLess ==
    ASSUME NEW S, NEW T, IsFiniteSet(S), NEW x, T = S \ {x}, x \in S
    PROVE  Cardinality(T) = Cardinality(S) - 1
  BY FS_RemoveElement

LEMMA EndpointInitInv == Endpoint!Init => EndpointInv
<1> SUFFICES ASSUME Endpoint!Init PROVE EndpointInv
  OBVIOUS
<1> USE DEF Endpoint!Init
<1>1. Endpoint!TypeOK
  BY DEF Endpoint!TypeOK
<1>2. Reserving = {} /\ Serving = {} /\ \A s \in Initializes : Endpoint!On(s) = {}
  BY DEF Reserving, Serving, Endpoint!On
<1>3. EndpointCounted
  BY <1>2, FS_EmptySet DEF EndpointCounted
<1>4. EndpointBounded
  BY FS_EmptySet, HostAssumption DEF EndpointBounded
<1>5. \A r \in Endpoint!Requests : Placed(r)
  BY DEF Placed
<1>6. Endpoint!NoSessionIsLost /\ Endpoint!ServedByOwnSession
  BY DEF Endpoint!NoSessionIsLost, Endpoint!ServedByOwnSession
<1> QED BY <1>1, <1>3, <1>4, <1>5, <1>6 DEF EndpointInv

-----------------------------------------------------------------------------

\* What becomes of the requests in a step of one of them.
Become(r, next, closing) ==
    /\ request' \in [Endpoint!Requests -> Asking]
    /\ \A x \in Endpoint!Requests :
          /\ x = r => /\ request'[x].stage = next.stage /\ request'[x].session = next.session
                      /\ request'[x].reserved = next.reserved /\ request'[x].late = next.late
                      /\ next.aborted => request'[x].aborted
          /\ x # r => /\ request'[x].stage = request[x].stage
                      /\ request'[x].session = request[x].session
                      /\ request'[x].reserved = request[x].reserved
                      /\ request'[x].late = request[x].late
                      /\ request[x].aborted => request'[x].aborted
          /\ Endpoint!Aborts(x, closing) => request'[x].aborted

LEMMA Becoming ==
    ASSUME EndpointInv, NEW r \in Endpoint!Requests, NEW next \in Asking,
           NEW closing, Endpoint!Becomes(r, next, closing)
    PROVE  Become(r, next, closing)
<1>1. \A x \in Endpoint!Requests : request[x] \in Asking
  BY DEF EndpointInv, Endpoint!TypeOK, Asking
<1> DEFINE now(x) == IF x = r THEN next ELSE request[x]
<1>2. \A x \in Endpoint!Requests :
          request'[x] = IF Endpoint!Aborts(x, closing) THEN [now(x) EXCEPT !.aborted = TRUE]
                                                       ELSE now(x)
  BY DEF Endpoint!Becomes
<1>3. \A x \in Endpoint!Requests : now(x) \in Asking
  BY <1>1
<1> HIDE DEF now
<1>4. ASSUME NEW x \in Endpoint!Requests
      PROVE  /\ request'[x] \in Asking
             /\ request'[x].stage = now(x).stage /\ request'[x].session = now(x).session
             /\ request'[x].reserved = now(x).reserved /\ request'[x].late = now(x).late
             /\ now(x).aborted => request'[x].aborted
             /\ Endpoint!Aborts(x, closing) => request'[x].aborted
  <2>1. CASE Endpoint!Aborts(x, closing)
    <3>1. request'[x] = [now(x) EXCEPT !.aborted = TRUE]
      BY <1>2, <2>1
    <3> QED BY <1>3, <3>1 DEF Asking
  <2>2. CASE ~Endpoint!Aborts(x, closing)
    <3>1. request'[x] = now(x)
      BY <1>2, <2>2
    <3> QED BY <1>3, <2>2, <3>1
  <2> QED BY <2>1, <2>2
<1>5. \A x \in Endpoint!Requests : /\ x = r => now(x) = next
                                   /\ x # r => now(x) = request[x]
  BY DEF now
<1>6. request' \in [Endpoint!Requests -> Asking]
  BY <1>4 DEF Endpoint!Becomes
<1> QED BY <1>4, <1>5, <1>6 DEF Become

\* What becomes of the sessions when some are closed.
LEMMA Closing ==
    ASSUME EndpointInv, NEW closing, Endpoint!Close(closing)
    PROVE  /\ session' \in [Initializes -> {"none", "open", "closed"}]
           /\ \A s \in Initializes :
                 session'[s] = IF s \in closing /\ session[s] = "open" THEN "closed" ELSE session[s]
           /\ listed' \subseteq listed
           /\ \A s \in listed : s \in listed' <=> ~(s \in closing /\ session[s] = "open")
<1>1. session \in [Initializes -> {"none", "open", "closed"}] /\ listed \subseteq Initializes
  BY DEF EndpointInv, Endpoint!TypeOK
<1> QED BY <1>1 DEF Endpoint!Close

LEMMA ListedShrinks ==
    ASSUME EndpointInv, listed' \subseteq listed
    PROVE  Cardinality(listed') \in Nat /\ Cardinality(listed') <= Cardinality(listed)
<1>1. listed \subseteq Endpoint!Requests
  BY DEF EndpointInv, Endpoint!TypeOK, Endpoint!Requests
<1> QED BY <1>1, EndpointFinite, FS_Subset

\* A step moves one request and leaves the others, whose signals it may abort.
MovesOn(r) ==
    /\ request' \in [Endpoint!Requests -> Asking]
    /\ \A x \in Endpoint!Requests :
          x # r => /\ request'[x].stage = request[x].stage
                   /\ request'[x].session = request[x].session
                   /\ request'[x].reserved = request[x].reserved

LEMMA ReservingStays ==
    ASSUME NEW r \in Endpoint!Requests, MovesOn(r), request'[r].reserved = request[r].reserved
    PROVE  Reserving' = Reserving
  BY DEF Reserving, MovesOn, Endpoint!Requests

LEMMA ServingStays ==
    ASSUME NEW r \in Endpoint!Requests, MovesOn(r),
           request'[r].stage = "serving" <=> request[r].stage = "serving",
           request[r].stage = "serving" => request'[r].session = request[r].session
    PROVE  /\ Serving' = Serving
           /\ \A s \in Initializes : Endpoint!On(s)' = Endpoint!On(s)
<1>1. \A x \in Endpoint!Requests :
         /\ request'[x].stage = "serving" <=> request[x].stage = "serving"
         /\ request[x].stage = "serving" => request'[x].session = request[x].session
  BY DEF MovesOn
<1>2. Serving' = Serving
  BY <1>1 DEF Serving, Endpoint!Requests
<1>3. \A s \in Initializes : Endpoint!On(s)' = Endpoint!On(s)
  BY <1>1 DEF Endpoint!On, Endpoint!Requests
<1> QED BY <1>2, <1>3

\* The other requests keep their places, if the moving one stays begun and the
\* sessions that they reserved stay open.
LEMMA OthersPlaced ==
    ASSUME EndpointInv, NEW r \in Endpoint!Requests, MovesOn(r), Begun(r) => Begun(r)',
           \A x \in Initializes \ {r} :
               request[x].reserved => shuttingDown' \/ session'[x] = "open"
    PROVE  \A x \in Endpoint!Requests \ {r} : Placed(x)'
<1>1. ASSUME NEW s \in Initializes, Begun(s) PROVE Begun(s)'
  <2>1. s \in Endpoint!Requests
    BY DEF Endpoint!Requests
  <2> QED BY <1>1, <2>1 DEF Begun, MovesOn
<1>2. ASSUME NEW x \in Endpoint!Requests \ {r} PROVE Placed(x)'
  <2>1. Placed(x) /\ x \in Endpoint!Requests /\ x # r
    BY <1>2 DEF EndpointInv
  <2>2. /\ request'[x].stage = request[x].stage /\ request'[x].session = request[x].session
        /\ request'[x].reserved = request[x].reserved
    BY <2>1 DEF MovesOn
  <2>3. x \in Initializes /\ request[x].reserved => shuttingDown' \/ session'[x] = "open"
    BY <2>1
  <2>4. ASSUME x \notin Initializes, request[x].stage \in {"reading", "connecting", "serving"}
        PROVE  /\ request[x].session \in Initializes
               /\ request'[request[x].session].stage \in {"serving", "done"}
               /\ ~request'[request[x].session].reserved
    <3>1. request[x].session \in Initializes /\ Begun(request[x].session)
      BY <2>1, <2>4 DEF Placed
    <3>2. \A s \in Initializes : Begun(s) => Begun(s)'
      BY <1>1
    <3>3. request[x].session \in Endpoint!Requests
      BY <3>1 DEF Endpoint!Requests
    <3>4. request'[request[x].session].stage \in {"serving", "done"}
          /\ ~request'[request[x].session].reserved
      BY <3>1, <3>2 DEF Begun
    <3> QED BY <3>1, <3>4
  <2> QED BY <2>1, <2>2, <2>3, <2>4 DEF Placed, Begun
<1> QED BY <1>2

LEMMA ListedBegun ==
    ASSUME EndpointInv, NEW r \in Endpoint!Requests, MovesOn(r), Begun(r) => Begun(r)'
    PROVE  \A s \in listed : Begun(s)'
<1>1. ASSUME NEW s \in listed PROVE Begun(s)'
  <2>1. Begun(s) /\ s \in Endpoint!Requests
    BY DEF EndpointInv, Endpoint!TypeOK, Endpoint!Requests
  <2> QED BY <2>1 DEF Begun, MovesOn
<1> QED BY <1>1

\* Who was served before on a session stays served on it, with a signal that is
\* aborted if the session is closed now.
LEMMA ServedStays ==
    ASSUME EndpointInv, NEW r \in Endpoint!Requests, NEW next, NEW closing,
           Become(r, next, closing),
           \A s \in Initializes :
               session'[s] = "closed" => session[s] = "closed" \/ (s \in closing /\ session[s] = "open"),
           next.stage = "serving" =>
               \/ /\ request[r].stage = "serving" /\ next.session = request[r].session
                  /\ next.late = request[r].late /\ next.aborted = request[r].aborted
               \/ /\ Identity[next.session] = Identity[r]
                  /\ session'[next.session] = "closed" => next.late
    PROVE  Endpoint!ServedByOwnSession'
<1>1. ASSUME NEW x \in Endpoint!Requests, request[x].stage = "serving",
             request'[x].session = request[x].session,
             request[x].late => request'[x].late, request[x].aborted => request'[x].aborted
      PROVE  /\ Identity[request'[x].session] = Identity[x]
             /\ session'[request'[x].session] = "closed" =>
                    request'[x].aborted \/ request'[x].late
  <2>1. /\ Identity[request[x].session] = Identity[x]
        /\ session[request[x].session] = "closed" => request[x].aborted \/ request[x].late
    BY <1>1 DEF EndpointInv, Endpoint!ServedByOwnSession
  <2>2. request[x].session \in Initializes
    BY <1>1 DEF EndpointInv, Placed
  <2>3. Endpoint!Aborts(x, closing) => request'[x].aborted
    BY DEF Become
  <2> QED BY <1>1, <2>1, <2>2, <2>3 DEF Endpoint!Aborts
<1>2. ASSUME NEW x \in Endpoint!Requests, request'[x].stage = "serving"
      PROVE  /\ Identity[request'[x].session] = Identity[x]
             /\ session'[request'[x].session] = "closed" =>
                    request'[x].aborted \/ request'[x].late
  <2>1. CASE x # r
    <3>1. /\ request[x].stage = "serving" /\ request'[x].session = request[x].session
          /\ request[x].late => request'[x].late /\ (request[x].aborted => request'[x].aborted)
      BY <1>2, <2>1 DEF Become
    <3>2. request[x].aborted => request'[x].aborted
      BY <2>1 DEF Become
    <3>3. request[x].late => request'[x].late
      BY <3>1
    <3> QED BY <1>1, <3>1, <3>2, <3>3
  <2>2. CASE x = r
    <3>1. /\ request'[r].stage = next.stage /\ request'[r].session = next.session
          /\ request'[r].late = next.late /\ (next.aborted => request'[r].aborted)
      BY DEF Become
    <3>2. /\ next.stage = "serving" /\ request'[r].session = next.session
          /\ request'[r].late = next.late
      BY <1>2, <2>2, <3>1
    <3>3. next.aborted => request'[r].aborted
      BY <3>1
    <3>4. CASE /\ request[r].stage = "serving" /\ next.session = request[r].session
               /\ next.late = request[r].late /\ next.aborted = request[r].aborted
      BY <1>1, <2>2, <3>2, <3>3, <3>4
    <3>5. CASE /\ Identity[next.session] = Identity[r]
               /\ session'[next.session] = "closed" => next.late
      BY <2>2, <3>2, <3>5
    <3> QED BY <3>2, <3>4, <3>5
  <2> QED BY <2>1, <2>2
<1> QED BY <1>2 DEF Endpoint!ServedByOwnSession

LEMMA BecomesMoves ==
    ASSUME NEW r, NEW next, NEW closing, Become(r, next, closing)
    PROVE  MovesOn(r)
  BY DEF Become, MovesOn

LEMMA ClosingNone ==
    ASSUME EndpointInv, UNCHANGED <<session, listed>>
    PROVE  Endpoint!Close({})
  BY DEF EndpointInv, Endpoint!TypeOK, Endpoint!Close

-----------------------------------------------------------------------------

\* Steps that neither take a place nor give one back: sessions that have an id
\* may be closed by them.
LEMMA QuietInv ==
    ASSUME EndpointInv, NEW r \in Endpoint!Requests, NEW next \in Asking,
           NEW closing, closing \subseteq listed,
           Endpoint!Becomes(r, next, closing), Endpoint!Close(closing),
           ~request[r].reserved, ~next.reserved,
           request[r].stage \notin {"connecting", "serving", "done"},
           next.stage \notin {"connecting", "serving", "done"},
           r \notin Initializes /\ next.stage = "reading" =>
               /\ next.session \in Initializes
               /\ Identity[next.session] = Identity[r] /\ Begun(next.session),
           UNCHANGED <<aged, pending, inflight, total, shuttingDown>>
    PROVE  EndpointInv'
<1>1. Become(r, next, closing)
  BY Becoming
<1>2. MovesOn(r)
  BY <1>1, BecomesMoves
<1>3. /\ session' \in [Initializes -> {"none", "open", "closed"}]
      /\ \A s \in Initializes :
            session'[s] = IF s \in closing /\ session[s] = "open" THEN "closed" ELSE session[s]
      /\ listed' \subseteq listed
      /\ \A s \in listed : s \in listed' <=> ~(s \in closing /\ session[s] = "open")
  BY Closing
<1>4. /\ request'[r].stage = next.stage /\ request'[r].session = next.session
      /\ request'[r].reserved = next.reserved
  BY <1>1 DEF Become
<1>5. next.reserved = request[r].reserved /\ request[r].reserved = FALSE
  BY DEF EndpointInv, Endpoint!TypeOK, Asking
<1>6. ~Begun(r)
  BY DEF Begun
<1>7. Endpoint!TypeOK'
  <2>1. Endpoint!TypeOK
    BY DEF EndpointInv
  <2> QED BY <1>2, <1>3, <2>1 DEF Endpoint!TypeOK, MovesOn, Asking
<1>8. EndpointCounted'
  <2>1. Reserving' = Reserving
    BY <1>2, <1>4, <1>5, ReservingStays
  <2>2. Serving' = Serving /\ \A s \in Initializes : Endpoint!On(s)' = Endpoint!On(s)
    BY <1>2, <1>4, ServingStays
  <2> QED BY <2>1, <2>2 DEF EndpointInv, EndpointCounted
<1>9. EndpointBounded'
  <2>1. Cardinality(listed') \in Nat /\ Cardinality(listed') <= Cardinality(listed)
    BY <1>3, ListedShrinks
  <2>2. Cardinality(listed) \in Nat
    BY EndpointFinite DEF EndpointInv, Endpoint!TypeOK, Endpoint!Requests
  <2> QED BY <2>1, <2>2, HostAssumption DEF EndpointInv, EndpointBounded, Endpoint!TypeOK
<1>10. \A x \in Endpoint!Requests : Placed(x)'
  <2>1. ASSUME NEW x \in Initializes \ {r}, request[x].reserved
        PROVE  shuttingDown' \/ session'[x] = "open"
    <3>1. ~Begun(x)
      BY <2>1 DEF Begun
    <3>2. x \notin listed
      BY <3>1 DEF EndpointInv
    <3>3. shuttingDown \/ session[x] = "open"
      BY <2>1 DEF EndpointInv, Placed, Endpoint!Requests
    <3> QED BY <1>3, <3>2, <3>3
  <2>2. \A x \in Endpoint!Requests \ {r} : Placed(x)'
    BY <1>2, <1>6, <2>1, OthersPlaced
  <2>3. r \notin Initializes /\ next.stage = "reading" =>
            /\ request'[next.session].stage \in {"serving", "done"}
            /\ ~request'[next.session].reserved
    <3>1. SUFFICES ASSUME r \notin Initializes, next.stage = "reading"
                   PROVE  /\ request'[next.session].stage \in {"serving", "done"}
                          /\ ~request'[next.session].reserved
      OBVIOUS
    <3>2. next.session \in Endpoint!Requests /\ next.session # r /\ Begun(next.session)
      BY <3>1 DEF Endpoint!Requests
    <3> QED BY <1>2, <3>2 DEF MovesOn, Begun
  <2>4. Placed(r)'
    BY <1>4, <2>3 DEF Placed, Begun
  <2> QED BY <2>2, <2>4
<1>11. \A s \in listed' : Begun(s)'
  BY <1>2, <1>3, <1>6, ListedBegun
<1>12. Endpoint!NoSessionIsLost'
  <2>1. SUFFICES ASSUME ~shuttingDown', NEW s \in Initializes
                 PROVE  /\ session'[s] = "open" => s \in listed' \/ request'[s].reserved
                        /\ s \in listed' => session'[s] = "open"
    BY DEF Endpoint!NoSessionIsLost
  <2>2. /\ session[s] = "open" => s \in listed \/ request[s].reserved
        /\ s \in listed => session[s] = "open"
    BY <2>1 DEF EndpointInv, Endpoint!NoSessionIsLost
  <2>3. request'[s].reserved = request[s].reserved
    BY <1>2, <1>4, <1>5 DEF MovesOn, Endpoint!Requests
  <2> QED BY <1>3, <2>2, <2>3
<1>13. Endpoint!ServedByOwnSession'
  BY <1>1, <1>3, ServedStays
<1> QED BY <1>7, <1>8, <1>9, <1>10, <1>11, <1>12, <1>13 DEF EndpointInv

LEMMA ReapInv == \A r \in Endpoint!Requests : EndpointInv /\ Endpoint!Reap(r) => EndpointInv'
<1> SUFFICES ASSUME EndpointInv, NEW r \in Endpoint!Requests, Endpoint!Reap(r)
             PROVE  EndpointInv'
  OBVIOUS
<1> DEFINE next == [request[r] EXCEPT !.stage = "reaped"]
<1>1. request[r] \in Asking
  BY DEF EndpointInv, Endpoint!TypeOK, Asking
<1>2. /\ next \in Asking /\ next.stage = "reaped" /\ next.reserved = request[r].reserved
  BY <1>1 DEF Asking
<1>3. /\ request[r].stage = "new" /\ Endpoint!Close(listed \cap aged)
      /\ Endpoint!Becomes(r, next, listed \cap aged)
      /\ UNCHANGED <<aged, pending, inflight, total, shuttingDown>>
  BY DEF Endpoint!Reap
<1>4. ~request[r].reserved
  BY <1>3 DEF EndpointInv, Placed
<1> HIDE DEF next
<1> QED BY <1>2, <1>3, <1>4, QuietInv

LEMMA LookupInv == \A r \in Endpoint!Requests : EndpointInv /\ Endpoint!Lookup(r) => EndpointInv'
<1> SUFFICES ASSUME EndpointInv, NEW r \in Endpoint!Requests, Endpoint!Lookup(r)
             PROVE  EndpointInv'
  OBVIOUS
<1>1. request[r] \in Asking /\ listed \subseteq Initializes
  BY DEF EndpointInv, Endpoint!TypeOK, Asking
<1>2. /\ request[r].stage = "reaped" /\ UNCHANGED <<session, listed>>
      /\ UNCHANGED <<aged, pending, inflight, total, shuttingDown>>
  BY DEF Endpoint!Lookup
<1>3. Endpoint!Close({})
  BY <1>2, ClosingNone
<1>4. ~request[r].reserved
  BY <1>2 DEF EndpointInv, Placed
<1>5. CASE r \in Initializes /\ Endpoint!Becomes(r, [request[r] EXCEPT !.stage = "reading"], {})
  <2> DEFINE next == [request[r] EXCEPT !.stage = "reading"]
  <2>1. next \in Asking /\ next.stage = "reading" /\ next.reserved = request[r].reserved
    BY <1>1 DEF Asking
  <2>2. Endpoint!Becomes(r, next, {})
    BY <1>5
  <2> HIDE DEF next
  <2> QED BY <1>2, <1>3, <1>4, <1>5, <2>1, <2>2, QuietInv
<1>6. ASSUME NEW s \in listed, Identity[s] = Identity[r],
             Endpoint!Becomes(r, [request[r] EXCEPT !.stage = "reading", !.session = s], {})
      PROVE  EndpointInv'
  <2> DEFINE next == [request[r] EXCEPT !.stage = "reading", !.session = s]
  <2>1. /\ next \in Asking /\ next.stage = "reading" /\ next.reserved = request[r].reserved
        /\ next.session = s
    BY <1>1 DEF Asking
  <2>2. Endpoint!Becomes(r, next, {})
    BY <1>6
  <2>3. Begun(s)
    BY DEF EndpointInv
  <2> HIDE DEF next
  <2> QED BY <1>1, <1>2, <1>3, <1>4, <1>6, <2>1, <2>2, <2>3, QuietInv
<1>7. CASE Endpoint!Becomes(r, [request[r] EXCEPT !.stage = "refused"], {})
  <2> DEFINE next == [request[r] EXCEPT !.stage = "refused"]
  <2>1. next \in Asking /\ next.stage = "refused" /\ next.reserved = request[r].reserved
    BY <1>1 DEF Asking
  <2>2. Endpoint!Becomes(r, next, {})
    BY <1>7
  <2> HIDE DEF next
  <2> QED BY <1>2, <1>3, <1>4, <2>1, <2>2, QuietInv
<1> QED BY <1>5, <1>6, <1>7 DEF Endpoint!Lookup

LEMMA RefusedInv ==
    ASSUME EndpointInv, NEW r \in Endpoint!Requests,
           request[r].stage = "reading", ~request[r].reserved,
           Endpoint!Becomes(r, [request[r] EXCEPT !.stage = "refused", !.reserved = FALSE], {}),
           UNCHANGED <<session, listed, aged, pending, inflight, total, shuttingDown>>
    PROVE  EndpointInv'
<1> DEFINE next == [request[r] EXCEPT !.stage = "refused", !.reserved = FALSE]
<1>1. request[r] \in Asking
  BY DEF EndpointInv, Endpoint!TypeOK, Asking
<1>2. next \in Asking /\ next.stage = "refused" /\ next.reserved = FALSE
  BY <1>1 DEF Asking
<1>3. Endpoint!Becomes(r, next, {})
  OBVIOUS
<1>4. Endpoint!Close({})
  BY ClosingNone
<1> HIDE DEF next
<1> QED BY <1>2, <1>3, <1>4, QuietInv

LEMMA StillReserved ==
    ASSUME EndpointInv, NEW r \in Endpoint!Requests, request[r].stage = "reading"
    PROVE  /\ ~request[r].reserved
           /\ [request[r] EXCEPT !.stage = "refused", !.reserved = FALSE] =
                  [request[r] EXCEPT !.stage = "refused"]
<1>1. request[r] \in Asking
  BY DEF EndpointInv, Endpoint!TypeOK, Asking
<1>2. ~request[r].reserved
  BY DEF EndpointInv, Placed
<1> QED BY <1>1, <1>2 DEF Asking

LEMMA BodyFailsInv ==
    \A r \in Endpoint!Requests : EndpointInv /\ Endpoint!BodyFails(r) => EndpointInv'
<1> SUFFICES ASSUME EndpointInv, NEW r \in Endpoint!Requests, Endpoint!BodyFails(r)
             PROVE  EndpointInv'
  OBVIOUS
<1>1. request[r].stage = "reading"
  BY DEF Endpoint!BodyFails
<1>2. Endpoint!Becomes(r, [request[r] EXCEPT !.stage = "refused", !.reserved = FALSE], {})
  BY <1>1, StillReserved DEF Endpoint!BodyFails
<1> QED BY <1>1, <1>2, StillReserved, RefusedInv DEF Endpoint!BodyFails

LEMMA ReserveInv ==
    \A r \in Endpoint!Requests : EndpointInv /\ Endpoint!Reserve(r) => EndpointInv'
<1> SUFFICES ASSUME EndpointInv, NEW r \in Endpoint!Requests, Endpoint!Reserve(r)
             PROVE  EndpointInv'
  OBVIOUS
<1>1. /\ request[r].stage = "reading" /\ r \in Initializes
      /\ UNCHANGED <<listed, aged, inflight, total, shuttingDown>>
  BY DEF Endpoint!Reserve
<1>2. request[r] \in Asking /\ listed \subseteq Initializes /\ pending \in Nat
      /\ session \in [Initializes -> {"none", "open", "closed"}]
  BY DEF EndpointInv, Endpoint!TypeOK, Asking
<1>3. CASE Endpoint!Full
  <2>1. /\ Endpoint!Becomes(r, [request[r] EXCEPT !.stage = "refused"], {})
        /\ UNCHANGED <<session, pending>>
    BY <1>3 DEF Endpoint!Reserve
  <2>2. Endpoint!Becomes(r, [request[r] EXCEPT !.stage = "refused", !.reserved = FALSE], {})
    BY <1>1, <2>1, StillReserved
  <2> QED BY <1>1, <2>1, <2>2, StillReserved, RefusedInv
<1>4. CASE ~Endpoint!Full
  <2> DEFINE next == [request[r] EXCEPT !.stage = "connecting", !.session = r, !.reserved = TRUE]
  <2>1. /\ Endpoint!Becomes(r, next, {})
        /\ session' = [session EXCEPT ![r] = "open"] /\ pending' = pending + 1
    BY <1>4 DEF Endpoint!Reserve
  <2>2. /\ next \in Asking /\ next.stage = "connecting" /\ next.session = r /\ next.reserved = TRUE
    <3>1. /\ next.stage = "connecting" /\ next.session = r /\ next.reserved = TRUE
      BY <1>2 DEF Asking
    <3>2. next \in Asking
      BY <1>1, <1>2 DEF Asking
    <3> QED BY <3>1, <3>2
  <2> HIDE DEF next
  <2>3. Become(r, next, {})
    BY <2>1, <2>2, Becoming
  <2>4. MovesOn(r)
    BY <2>3, BecomesMoves
  <2>5. /\ request'[r].stage = "connecting" /\ request'[r].session = r
        /\ request'[r].reserved = TRUE
    BY <2>2, <2>3 DEF Become
  <2>6. ~request[r].reserved /\ ~Begun(r)
    BY <1>1, StillReserved DEF Begun
  <2>7. Endpoint!TypeOK'
    BY <1>1, <1>2, <2>1, <2>4 DEF EndpointInv, Endpoint!TypeOK, MovesOn, Asking
  <2>8. EndpointCounted'
    <3>1. Reserving' = Reserving \cup {r} /\ r \notin Reserving
      BY <2>4, <2>5, <2>6 DEF Reserving, MovesOn, Endpoint!Requests
    <3>2. Reserving \subseteq Endpoint!Requests
      BY DEF Reserving
    <3>3. Cardinality(Reserving') = Cardinality(Reserving) + 1
      BY <3>1, <3>2, EndpointFinite, OneMore
    <3>4. Serving' = Serving /\ \A s \in Initializes : Endpoint!On(s)' = Endpoint!On(s)
      BY <1>1, <2>4, <2>5, ServingStays
    <3> QED BY <1>1, <2>1, <3>3, <3>4 DEF EndpointInv, EndpointCounted
  <2>9. EndpointBounded'
    <3>1. ~(Cardinality(listed) + pending >= MaxListed)
      BY <1>4, EndpointCounts DEF Endpoint!Full
    <3>2. Cardinality(listed) \in Nat
      BY <1>2, EndpointFinite DEF Endpoint!Requests
    <3> QED BY <1>1, <1>2, <2>1, <3>1, <3>2, HostAssumption DEF EndpointInv, EndpointBounded
  <2>10. \A x \in Endpoint!Requests : Placed(x)'
    <3>1. \A x \in Initializes \ {r} :
              request[x].reserved => shuttingDown' \/ session'[x] = "open"
      BY <1>1, <1>2, <2>1 DEF EndpointInv, Placed, Endpoint!Requests
    <3>2. \A x \in Endpoint!Requests \ {r} : Placed(x)'
      BY <2>4, <2>6, <3>1, OthersPlaced
    <3>3. session'[r] = "open"
      BY <1>1, <1>2, <2>1
    <3>4. Placed(r)'
      BY <1>1, <2>5, <3>3 DEF Placed
    <3> QED BY <3>2, <3>4
  <2>11. \A s \in listed' : Begun(s)'
    BY <1>1, <2>4, <2>6, ListedBegun
  <2>12. Endpoint!NoSessionIsLost'
    <3>1. \A s \in Initializes : s # r => request'[s].reserved = request[s].reserved
      BY <2>4 DEF MovesOn, Endpoint!Requests
    <3>2. \A s \in Initializes : session'[s] = IF s = r THEN "open" ELSE session[s]
      BY <1>2, <2>1
    <3> QED BY <1>1, <2>5, <3>1, <3>2 DEF EndpointInv, Endpoint!NoSessionIsLost
  <2>13. Endpoint!ServedByOwnSession'
    <3>1. \A s \in Initializes : session'[s] = "closed" => session[s] = "closed"
      BY <1>2, <2>1
    <3>2. next.stage # "serving"
      BY <2>2
    <3> QED BY <2>3, <3>1, <3>2, ServedStays
  <2> QED BY <2>7, <2>8, <2>9, <2>10, <2>11, <2>12, <2>13 DEF EndpointInv
<1> QED BY <1>3, <1>4

LEMMA GiveUpInv ==
    \A r \in Endpoint!Requests :
        EndpointInv /\ (Endpoint!ConnectFails(r) \/ Endpoint!TooMany(r)) => EndpointInv'
<1> SUFFICES ASSUME EndpointInv, NEW r \in Endpoint!Requests,
                    Endpoint!ConnectFails(r) \/ Endpoint!TooMany(r)
             PROVE  EndpointInv'
  OBVIOUS
<1>1. Endpoint!GiveUp(r) /\ (request[r].stage = "connecting" \/ Endpoint!Admitted(r))
  BY DEF Endpoint!ConnectFails, Endpoint!TooMany
<1>2. request[r] \in Asking /\ pending \in Nat /\ Placed(r)
  BY DEF EndpointInv, Endpoint!TypeOK, Asking
<1>3. CASE ~request[r].reserved
  <2>1. request[r].stage = "reading"
    BY <1>1, <1>2, <1>3 DEF Placed, Endpoint!Admitted
  <2>2. /\ Endpoint!Close({}) /\ pending' = pending
        /\ Endpoint!Becomes(r, [request[r] EXCEPT !.stage = "refused", !.reserved = FALSE], {})
        /\ UNCHANGED <<aged, inflight, total, shuttingDown>>
    BY <1>1, <1>3 DEF Endpoint!GiveUp
  <2>3. UNCHANGED <<session, listed>>
    BY <2>2 DEF EndpointInv, Endpoint!TypeOK, Endpoint!Close
  <2> QED BY <1>3, <2>1, <2>2, <2>3, RefusedInv
<1>4. CASE request[r].reserved
  <2> DEFINE next == [request[r] EXCEPT !.stage = "refused", !.reserved = FALSE]
  <2>1. r \in Initializes /\ request[r].stage = "connecting" /\ request[r].session = r
    BY <1>1, <1>2, <1>4 DEF Placed, Endpoint!Admitted
  <2>2. /\ Endpoint!Close({r}) /\ pending' = pending - 1
        /\ Endpoint!Becomes(r, next, {r})
        /\ UNCHANGED <<aged, inflight, total, shuttingDown>>
    BY <1>1, <1>4, <2>1 DEF Endpoint!GiveUp
  <2>3. /\ next \in Asking /\ next.stage = "refused" /\ next.reserved = FALSE
    BY <1>2 DEF Asking
  <2> HIDE DEF next
  <2>4. Become(r, next, {r})
    BY <2>2, <2>3, Becoming
  <2>5. MovesOn(r)
    BY <2>4, BecomesMoves
  <2>6. request'[r].stage = "refused" /\ request'[r].reserved = FALSE
    BY <2>3, <2>4 DEF Become
  <2>7. ~Begun(r) /\ r \notin listed
    BY <1>4 DEF Begun, EndpointInv
  <2>8. /\ session' \in [Initializes -> {"none", "open", "closed"}]
        /\ \A s \in Initializes :
              session'[s] = IF s = r /\ session[s] = "open" THEN "closed" ELSE session[s]
        /\ listed' = listed
    BY <2>2, <2>7, Closing
  <2>9. Cardinality(Reserving') = Cardinality(Reserving) - 1
    <3>1. Reserving' = Reserving \ {r} /\ r \in Reserving
      BY <1>4, <2>5, <2>6 DEF Reserving, MovesOn, Endpoint!Requests
    <3>2. Reserving \subseteq Endpoint!Requests
      BY DEF Reserving
    <3> QED BY <3>1, <3>2, EndpointFinite, OneLess
  <2>10. EndpointCounted'
    <3>1. Serving' = Serving /\ \A s \in Initializes : Endpoint!On(s)' = Endpoint!On(s)
      BY <2>1, <2>5, <2>6, ServingStays
    <3> QED BY <2>2, <2>9, <3>1 DEF EndpointInv, EndpointCounted
  <2>11. Endpoint!TypeOK'
    <3>1. pending' \in Nat
      BY <2>10, EndpointFinite DEF EndpointCounted, Reserving, Endpoint!Requests
    <3> QED BY <2>2, <2>5, <2>8, <3>1 DEF EndpointInv, Endpoint!TypeOK, MovesOn, Asking
  <2>12. EndpointBounded'
    <3>1. Cardinality(listed) \in Nat
      BY EndpointFinite DEF Endpoint!Requests, EndpointInv, Endpoint!TypeOK
    <3> QED BY <1>2, <2>2, <2>8, <3>1, HostAssumption DEF EndpointInv, EndpointBounded
  <2>13. \A x \in Endpoint!Requests : Placed(x)'
    <3>1. \A x \in Initializes \ {r} :
              request[x].reserved => shuttingDown' \/ session'[x] = "open"
      BY <2>2, <2>8 DEF EndpointInv, Placed, Endpoint!Requests
    <3>2. \A x \in Endpoint!Requests \ {r} : Placed(x)'
      BY <2>5, <2>7, <3>1, OthersPlaced
    <3>3. Placed(r)'
      BY <2>6 DEF Placed
    <3> QED BY <3>2, <3>3
  <2>14. \A s \in listed' : Begun(s)'
    BY <2>5, <2>7, <2>8, ListedBegun
  <2>15. Endpoint!NoSessionIsLost'
    <3>1. \A s \in Initializes : s # r => request'[s].reserved = request[s].reserved
      BY <2>5 DEF MovesOn, Endpoint!Requests
    <3> QED BY <2>2, <2>7, <2>8, <3>1 DEF EndpointInv, Endpoint!NoSessionIsLost
  <2>16. Endpoint!ServedByOwnSession'
    <3>1. \A s \in Initializes :
              session'[s] = "closed" => session[s] = "closed" \/ (s \in {r} /\ session[s] = "open")
      BY <2>8
    <3>2. next.stage # "serving"
      BY <2>3
    <3> QED BY <2>4, <3>1, <3>2, ServedStays
  <2> QED BY <2>10, <2>11, <2>12, <2>13, <2>14, <2>15, <2>16 DEF EndpointInv
<1> QED BY <1>3, <1>4

LEMMA ServedInv ==
    \A r \in Endpoint!Requests : EndpointInv /\ Endpoint!Serve(r) => EndpointInv'
<1> SUFFICES ASSUME EndpointInv, NEW r \in Endpoint!Requests, Endpoint!Serve(r)
             PROVE  EndpointInv'
  OBVIOUS
<1>1. /\ request[r] \in Asking /\ Placed(r) /\ total \in Nat
      /\ inflight \in [Initializes -> Nat] /\ aged \subseteq Initializes
      /\ session \in [Initializes -> {"none", "open", "closed"}]
  BY DEF EndpointInv, Endpoint!TypeOK, Asking
<1>2. PICK s \in Initializes : s = request[r].session
  BY <1>1 DEF Endpoint!Serve, Endpoint!Admitted, Placed
<1>3. PICK belated \in BOOLEAN : belated = (session[s] = "closed")
  OBVIOUS
<1>4. belated => session[s] = "closed"
  BY <1>3
<1>5. session[s] = "closed" => belated
  BY <1>3
<1> DEFINE next == [request[r] EXCEPT !.stage = "serving", !.late = belated]
<1>6. /\ Endpoint!Admitted(r) /\ ~Endpoint!Busy(s)
      /\ aged' = aged \ {s} /\ inflight' = [inflight EXCEPT ![s] = inflight[s] + 1]
      /\ total' = total + 1
      /\ UNCHANGED <<session, listed, pending, shuttingDown>>
  BY <1>2 DEF Endpoint!Serve
<1>7. Endpoint!Becomes(r, next, {})
  BY <1>2, <1>3 DEF Endpoint!Serve
<1>8. /\ request[r].stage \notin {"serving", "done"} /\ Identity[s] = Identity[r]
      /\ r \in Initializes => s = r /\ request[r].stage = "connecting"
      /\ r \notin Initializes => Begun(s) /\ ~request[r].reserved
  BY <1>1, <1>2, <1>6 DEF Endpoint!Admitted, Placed
<1>9. /\ next.stage = "serving" /\ next.session = s /\ next.reserved = request[r].reserved
      /\ next.late = belated
  BY <1>1, <1>2 DEF Asking
<1>10. next \in Asking
  BY <1>1 DEF Asking
<1> HIDE DEF next
<1>11. Become(r, next, {})
  BY <1>7, <1>10, Becoming
<1>12. MovesOn(r) /\ ~Begun(r)
  BY <1>8, <1>11, BecomesMoves DEF Begun
<1>13. /\ request'[r].stage = "serving" /\ request'[r].session = s
       /\ request'[r].reserved = request[r].reserved
  BY <1>9, <1>11 DEF Become
<1>14. Endpoint!TypeOK'
  <2>1. aged' \subseteq Initializes /\ inflight' \in [Initializes -> Nat] /\ total' \in Nat
    BY <1>1, <1>6
  <2> QED BY <1>6, <1>12, <2>1 DEF EndpointInv, Endpoint!TypeOK, MovesOn, Asking
<1>15. EndpointCounted'
  <2>1. Reserving' = Reserving
    BY <1>12, <1>13, ReservingStays
  <2>2. Serving' = Serving \cup {r} /\ r \notin Serving
    BY <1>8, <1>12, <1>13 DEF Serving, MovesOn, Endpoint!Requests
  <2>3. Endpoint!On(s)' = Endpoint!On(s) \cup {r} /\ r \notin Endpoint!On(s)
    BY <1>8, <1>12, <1>13 DEF Endpoint!On, MovesOn, Endpoint!Requests
  <2>4. \A t \in Initializes : t # s => Endpoint!On(t)' = Endpoint!On(t)
    BY <1>8, <1>12, <1>13 DEF Endpoint!On, MovesOn, Endpoint!Requests
  <2>5. Cardinality(Serving') = Cardinality(Serving) + 1
    <3>1. IsFiniteSet(Serving)
      BY EndpointFinite DEF Serving
    <3> QED BY <2>2, <3>1, OneMore
  <2>6. Cardinality(Endpoint!On(s)') = Cardinality(Endpoint!On(s)) + 1
    <3>1. IsFiniteSet(Endpoint!On(s))
      BY EndpointFinite DEF Endpoint!On
    <3> QED BY <2>3, <3>1, OneMore
  <2>7. \A t \in Initializes : inflight'[t] = Cardinality(Endpoint!On(t)')
    BY <1>1, <1>6, <2>4, <2>6 DEF EndpointInv, EndpointCounted
  <2> QED BY <1>6, <2>1, <2>5, <2>7 DEF EndpointInv, EndpointCounted
<1>16. EndpointBounded'
  <2>1. ~(inflight[s] >= MaxPerSession) /\ ~(total >= MaxInflight)
    BY <1>6 DEF Endpoint!Busy
  <2>2. total' <= MaxInflight
    BY <1>1, <1>6, <2>1, HostAssumption
  <2>3. \A t \in Initializes : inflight'[t] <= MaxPerSession
    BY <1>1, <1>6, <2>1, HostAssumption DEF EndpointInv, EndpointBounded
  <2> QED BY <1>6, <2>2, <2>3 DEF EndpointInv, EndpointBounded
<1>17. \A x \in Endpoint!Requests : Placed(x)'
  <2>1. \A x \in Initializes \ {r} :
            request[x].reserved => shuttingDown' \/ session'[x] = "open"
    BY <1>6 DEF EndpointInv, Placed, Endpoint!Requests
  <2>2. \A x \in Endpoint!Requests \ {r} : Placed(x)'
    BY <1>12, <2>1, OthersPlaced
  <2>3. r \notin Initializes => request'[s].stage \in {"serving", "done"} /\ ~request'[s].reserved
    BY <1>8, <1>12 DEF Begun, MovesOn, Endpoint!Requests
  <2>4. Placed(r)'
    BY <1>1, <1>6, <1>8, <1>13, <2>3 DEF Placed, Begun
  <2> QED BY <2>2, <2>4
<1>18. \A x \in listed' : Begun(x)'
  BY <1>6, <1>12, ListedBegun
<1>19. Endpoint!NoSessionIsLost'
  <2>1. \A x \in Initializes : request'[x].reserved = request[x].reserved
    BY <1>12, <1>13 DEF MovesOn, Endpoint!Requests
  <2> QED BY <1>6, <2>1 DEF EndpointInv, Endpoint!NoSessionIsLost
<1>20. Endpoint!ServedByOwnSession'
  <2>1. \A x \in Initializes : session'[x] = "closed" => session[x] = "closed"
    BY <1>6
  <2>2. /\ Identity[next.session] = Identity[r]
        /\ session'[next.session] = "closed" => next.late
    BY <1>5, <1>6, <1>8, <1>9
  <2> QED BY <1>11, <2>1, <2>2, ServedStays
<1> QED BY <1>14, <1>15, <1>16, <1>17, <1>18, <1>19, <1>20 DEF EndpointInv

LEMMA EndpointInitializedInv ==
    \A r \in Endpoint!Requests : EndpointInv /\ Endpoint!Initialized(r) => EndpointInv'
<1> SUFFICES ASSUME EndpointInv, NEW r \in Endpoint!Requests, Endpoint!Initialized(r)
             PROVE  EndpointInv'
  OBVIOUS
<1> DEFINE next == [request[r] EXCEPT !.reserved = FALSE]
<1>1. /\ request[r].stage = "serving" /\ request[r].reserved
      /\ listed' = listed \cup {r} /\ aged' = aged \ {r} /\ pending' = pending - 1
      /\ Endpoint!Becomes(r, next, {})
      /\ UNCHANGED <<session, inflight, total, shuttingDown>>
  BY DEF Endpoint!Initialized
<1>2. /\ request[r] \in Asking /\ Placed(r) /\ pending \in Nat
      /\ listed \subseteq Initializes /\ aged \subseteq Initializes
  BY DEF EndpointInv, Endpoint!TypeOK, Asking
<1>3. /\ r \in Initializes /\ request[r].session = r
      /\ shuttingDown \/ session[r] = "open"
  BY <1>1, <1>2 DEF Placed
<1>4. /\ next \in Asking /\ next.stage = "serving" /\ next.session = r /\ next.reserved = FALSE
      /\ next.late = request[r].late /\ next.aborted = request[r].aborted
  BY <1>1, <1>2, <1>3 DEF Asking
<1> HIDE DEF next
<1>5. Become(r, next, {})
  BY <1>1, <1>4, Becoming
<1>6. MovesOn(r) /\ ~Begun(r)
  BY <1>1, <1>5, BecomesMoves DEF Begun
<1>7. request'[r].stage = "serving" /\ request'[r].session = r /\ request'[r].reserved = FALSE
  BY <1>4, <1>5 DEF Become
<1>8. EndpointCounted'
  <2>1. Reserving' = Reserving \ {r} /\ r \in Reserving
    BY <1>1, <1>6, <1>7 DEF Reserving, MovesOn, Endpoint!Requests
  <2>2. Reserving \subseteq Endpoint!Requests
    BY DEF Reserving
  <2>3. Cardinality(Reserving') = Cardinality(Reserving) - 1
    BY <2>1, <2>2, EndpointFinite, OneLess
  <2>4. Serving' = Serving /\ \A s \in Initializes : Endpoint!On(s)' = Endpoint!On(s)
    BY <1>1, <1>3, <1>6, <1>7, ServingStays
  <2> QED BY <1>1, <2>3, <2>4 DEF EndpointInv, EndpointCounted
<1>9. Endpoint!TypeOK'
  <2>1. pending' \in Nat
    BY <1>8, EndpointFinite DEF EndpointCounted, Reserving, Endpoint!Requests
  <2>2. listed' \subseteq Initializes /\ aged' \subseteq Initializes
    BY <1>1, <1>2, <1>3
  <2> QED BY <1>1, <1>6, <2>1, <2>2 DEF EndpointInv, Endpoint!TypeOK, MovesOn, Asking
<1>10. EndpointBounded'
  <2>1. r \notin listed /\ IsFiniteSet(listed) /\ Cardinality(listed) \in Nat
    BY <1>2, <1>6, EndpointFinite DEF EndpointInv, Endpoint!Requests
  <2>2. Cardinality(listed') = Cardinality(listed) + 1
    BY <1>1, <2>1, OneMore
  <2> QED BY <1>1, <1>2, <2>1, <2>2, HostAssumption DEF EndpointInv, EndpointBounded
<1>11. \A x \in Endpoint!Requests : Placed(x)'
  <2>1. \A x \in Initializes \ {r} :
            request[x].reserved => shuttingDown' \/ session'[x] = "open"
    BY <1>1 DEF EndpointInv, Placed, Endpoint!Requests
  <2>2. \A x \in Endpoint!Requests \ {r} : Placed(x)'
    BY <1>6, <2>1, OthersPlaced
  <2>3. Placed(r)'
    BY <1>3, <1>7 DEF Placed
  <2> QED BY <2>2, <2>3
<1>12. \A x \in listed' : Begun(x)'
  <2>1. \A x \in listed : Begun(x)'
    BY <1>6, ListedBegun
  <2>2. Begun(r)'
    BY <1>7 DEF Begun
  <2> QED BY <1>1, <2>1, <2>2
<1>13. Endpoint!NoSessionIsLost'
  <2>1. \A x \in Initializes : x # r => request'[x].reserved = request[x].reserved
    BY <1>6 DEF MovesOn, Endpoint!Requests
  <2> QED BY <1>1, <1>3, <2>1 DEF EndpointInv, Endpoint!NoSessionIsLost
<1>14. Endpoint!ServedByOwnSession'
  <2>1. \A x \in Initializes : session'[x] = "closed" => session[x] = "closed"
    BY <1>1
  <2> QED BY <1>1, <1>3, <1>4, <1>5, <2>1, ServedStays
<1> QED BY <1>8, <1>9, <1>10, <1>11, <1>12, <1>13, <1>14 DEF EndpointInv

LEMMA EndpointFinishInv ==
    \A r \in Endpoint!Requests : EndpointInv /\ Endpoint!Finish(r) => EndpointInv'
<1> SUFFICES ASSUME EndpointInv, NEW r \in Endpoint!Requests, Endpoint!Finish(r)
             PROVE  EndpointInv'
  OBVIOUS
<1>1. /\ request[r] \in Asking /\ Placed(r) /\ total \in Nat /\ pending \in Nat
      /\ inflight \in [Initializes -> Nat] /\ listed \subseteq Initializes
      /\ session \in [Initializes -> {"none", "open", "closed"}]
  BY DEF EndpointInv, Endpoint!TypeOK, Asking
<1>2. request[r].stage = "serving"
  BY DEF Endpoint!Finish
<1>3. PICK s \in Initializes : s = request[r].session
  BY <1>1, <1>2 DEF Placed
<1>4. PICK closing : closing = Endpoint!Closes(r)
  OBVIOUS
<1> DEFINE next == [request[r] EXCEPT !.stage = "done", !.reserved = FALSE]
<1>5. /\ inflight' = [inflight EXCEPT ![s] = inflight[s] - 1] /\ total' = total - 1
      /\ pending' = IF request[r].reserved THEN pending - 1 ELSE pending
      /\ Endpoint!Close(closing) /\ Endpoint!Becomes(r, next, closing)
      /\ UNCHANGED <<aged, shuttingDown>>
  BY <1>3, <1>4 DEF Endpoint!Finish
<1>6. /\ closing \subseteq {s}
      /\ request[r].reserved => closing = {s} /\ s = r
      /\ r \in Initializes => s = r
      /\ r \notin Initializes => Begun(s)
  BY <1>1, <1>2, <1>3, <1>4 DEF Endpoint!Closes, Placed
<1>7. next \in Asking /\ next.stage = "done" /\ next.reserved = FALSE
  BY <1>1 DEF Asking
<1> HIDE DEF next
<1>8. Become(r, next, closing)
  BY <1>5, <1>7, Becoming
<1>9. MovesOn(r)
  BY <1>8, BecomesMoves
<1>10. request'[r].stage = "done" /\ request'[r].reserved = FALSE
  BY <1>7, <1>8 DEF Become
<1>11. Begun(r)'
  BY <1>10 DEF Begun
<1>12. /\ session' \in [Initializes -> {"none", "open", "closed"}]
       /\ \A x \in Initializes :
             session'[x] = IF x \in closing /\ session[x] = "open" THEN "closed" ELSE session[x]
       /\ listed' \subseteq listed
       /\ \A x \in listed : x \in listed' <=> ~(x \in closing /\ session[x] = "open")
  BY <1>5, Closing
<1>13. EndpointCounted'
  <2>1. pending' = Cardinality(Reserving')
    <3>1. CASE request[r].reserved
      <4>1. Reserving' = Reserving \ {r} /\ r \in Reserving
        BY <1>9, <1>10, <3>1 DEF Reserving, MovesOn, Endpoint!Requests
      <4>2. Reserving \subseteq Endpoint!Requests
        BY DEF Reserving
      <4>3. Cardinality(Reserving') = Cardinality(Reserving) - 1
        BY <4>1, <4>2, EndpointFinite, OneLess
      <4> QED BY <1>5, <3>1, <4>3 DEF EndpointInv, EndpointCounted
    <3>2. CASE ~request[r].reserved
      <4>1. request[r].reserved = FALSE
        BY <1>1, <3>2 DEF Asking
      <4>2. Reserving' = Reserving
        BY <1>9, <1>10, <4>1, ReservingStays
      <4> QED BY <1>5, <3>2, <4>2 DEF EndpointInv, EndpointCounted
    <3> QED BY <3>1, <3>2
  <2>2. Serving' = Serving \ {r} /\ r \in Serving
    BY <1>2, <1>9, <1>10 DEF Serving, MovesOn, Endpoint!Requests
  <2>3. Endpoint!On(s)' = Endpoint!On(s) \ {r} /\ r \in Endpoint!On(s)
    BY <1>2, <1>3, <1>9, <1>10 DEF Endpoint!On, MovesOn, Endpoint!Requests
  <2>4. \A t \in Initializes : t # s => Endpoint!On(t)' = Endpoint!On(t)
    BY <1>2, <1>3, <1>9, <1>10 DEF Endpoint!On, MovesOn, Endpoint!Requests
  <2>5. Cardinality(Serving') = Cardinality(Serving) - 1
    <3>1. IsFiniteSet(Serving)
      BY EndpointFinite DEF Serving
    <3> QED BY <2>2, <3>1, OneLess
  <2>6. Cardinality(Endpoint!On(s)') = Cardinality(Endpoint!On(s)) - 1
    <3>1. IsFiniteSet(Endpoint!On(s))
      BY EndpointFinite DEF Endpoint!On
    <3> QED BY <2>3, <3>1, OneLess
  <2>7. \A t \in Initializes : inflight'[t] = Cardinality(Endpoint!On(t)')
    BY <1>1, <1>5, <2>4, <2>6 DEF EndpointInv, EndpointCounted
  <2> QED BY <1>5, <2>1, <2>5, <2>7 DEF EndpointInv, EndpointCounted
<1>14. /\ pending' \in Nat /\ pending' <= pending /\ total' \in Nat /\ total' <= total
       /\ \A t \in Initializes : inflight'[t] \in Nat /\ inflight'[t] <= inflight[t]
  <2>1. pending' \in Nat
    BY <1>13, EndpointFinite DEF EndpointCounted, Reserving, Endpoint!Requests
  <2>2. total' \in Nat
    BY <1>13, EndpointFinite DEF EndpointCounted, Serving, Endpoint!Requests
  <2>3. \A t \in Initializes : inflight'[t] \in Nat
    BY <1>13, EndpointFinite DEF EndpointCounted, Endpoint!On, Endpoint!Requests
  <2>4. pending' <= pending /\ total' <= total
    BY <1>1, <1>5
  <2>5. \A t \in Initializes : inflight'[t] <= inflight[t]
    BY <1>1, <1>5
  <2> QED BY <2>1, <2>2, <2>3, <2>4, <2>5
<1>15. Endpoint!TypeOK'
  <2>1. inflight' \in [Initializes -> Nat]
    BY <1>1, <1>5, <1>14
  <2> QED BY <1>1, <1>5, <1>9, <1>12, <1>14, <2>1 DEF EndpointInv, Endpoint!TypeOK, MovesOn, Asking
<1>16. EndpointBounded'
  <2>1. Cardinality(listed') \in Nat /\ Cardinality(listed') <= Cardinality(listed)
    BY <1>12, ListedShrinks
  <2>2. Cardinality(listed) \in Nat
    BY <1>1, EndpointFinite DEF Endpoint!Requests
  <2>3. /\ Cardinality(listed) + pending <= MaxListed /\ total <= MaxInflight
        /\ \A t \in Initializes : inflight[t] <= MaxPerSession
    BY DEF EndpointInv, EndpointBounded
  <2>4. Cardinality(listed') + pending' <= MaxListed /\ total' <= MaxInflight
    BY <1>1, <1>14, <2>1, <2>2, <2>3, HostAssumption
  <2>5. \A t \in Initializes : inflight'[t] <= MaxPerSession
    BY <1>1, <1>14, <2>3, HostAssumption
  <2> QED BY <2>4, <2>5 DEF EndpointBounded
<1>17. \A x \in Endpoint!Requests : Placed(x)'
  <2>1. ASSUME NEW x \in Initializes \ {r}, request[x].reserved
        PROVE  shuttingDown' \/ session'[x] = "open"
    <3>1. x \notin closing
      BY <1>6, <2>1 DEF Begun
    <3>2. shuttingDown \/ session[x] = "open"
      BY <2>1 DEF EndpointInv, Placed, Endpoint!Requests
    <3> QED BY <1>5, <1>12, <3>1, <3>2
  <2>2. \A x \in Endpoint!Requests \ {r} : Placed(x)'
    BY <1>9, <1>11, <2>1, OthersPlaced
  <2>3. Placed(r)'
    BY <1>10 DEF Placed
  <2> QED BY <2>2, <2>3
<1>18. \A x \in listed' : Begun(x)'
  BY <1>9, <1>11, <1>12, ListedBegun
<1>19. Endpoint!NoSessionIsLost'
  <2>1. SUFFICES ASSUME ~shuttingDown', NEW x \in Initializes
                 PROVE  /\ session'[x] = "open" => x \in listed' \/ request'[x].reserved
                        /\ x \in listed' => session'[x] = "open"
    BY DEF Endpoint!NoSessionIsLost
  <2>2. /\ session[x] = "open" => x \in listed \/ request[x].reserved
        /\ x \in listed => session[x] = "open"
    BY <1>5, <2>1 DEF EndpointInv, Endpoint!NoSessionIsLost
  <2>3. x # r => request'[x].reserved = request[x].reserved
    BY <1>9 DEF MovesOn, Endpoint!Requests
  <2> QED BY <1>6, <1>12, <2>2, <2>3
<1>20. Endpoint!ServedByOwnSession'
  <2>1. \A x \in Initializes :
            session'[x] = "closed" => session[x] = "closed" \/ (x \in closing /\ session[x] = "open")
    BY <1>12
  <2>2. next.stage # "serving"
    BY <1>7
  <2> QED BY <1>8, <2>1, <2>2, ServedStays
<1> QED BY <1>13, <1>15, <1>16, <1>17, <1>18, <1>19, <1>20 DEF EndpointInv

LEMMA TimePassesInv ==
    \A s \in Initializes : EndpointInv /\ Endpoint!TimePasses(s) => EndpointInv'
<1> SUFFICES ASSUME EndpointInv, NEW s \in Initializes, Endpoint!TimePasses(s)
             PROVE  EndpointInv'
  OBVIOUS
<1>1. /\ UNCHANGED <<request, session, listed, pending, inflight, total, shuttingDown>>
      /\ aged' \subseteq Initializes
  BY DEF Endpoint!TimePasses, EndpointInv, Endpoint!TypeOK
<1> QED
  BY <1>1 DEF EndpointInv, Endpoint!TypeOK, EndpointCounted, EndpointBounded, Reserving, Serving,
              Endpoint!On, Endpoint!Requests, Placed, Begun,
              Endpoint!NoSessionIsLost, Endpoint!ServedByOwnSession

LEMMA ShutdownInv == EndpointInv /\ Endpoint!Shutdown => EndpointInv'
<1> SUFFICES ASSUME EndpointInv, Endpoint!Shutdown PROVE EndpointInv'
  OBVIOUS
<1>1. /\ shuttingDown' = TRUE /\ Endpoint!Close(Initializes)
      /\ UNCHANGED <<aged, pending, inflight, total>>
      /\ request' = [r \in Endpoint!Requests |->
                        IF Endpoint!Aborts(r, Initializes)
                        THEN [request[r] EXCEPT !.aborted = TRUE] ELSE request[r]]
  BY DEF Endpoint!Shutdown
<1>2. \A r \in Endpoint!Requests : request[r] \in Asking
  BY DEF EndpointInv, Endpoint!TypeOK, Asking
<1>3. ASSUME NEW r \in Endpoint!Requests
      PROVE  /\ request'[r] \in Asking
             /\ request'[r].stage = request[r].stage /\ request'[r].session = request[r].session
             /\ request'[r].reserved = request[r].reserved /\ request'[r].late = request[r].late
             /\ request[r].aborted => request'[r].aborted
             /\ Endpoint!Aborts(r, Initializes) => request'[r].aborted
  <2>1. CASE Endpoint!Aborts(r, Initializes)
    <3>1. request'[r] = [request[r] EXCEPT !.aborted = TRUE]
      BY <1>1, <2>1
    <3> QED BY <1>2, <3>1 DEF Asking
  <2>2. CASE ~Endpoint!Aborts(r, Initializes)
    <3>1. request'[r] = request[r]
      BY <1>1, <2>2
    <3> QED BY <1>2, <2>2, <3>1
  <2> QED BY <2>1, <2>2
<1>4. /\ session' \in [Initializes -> {"none", "open", "closed"}]
      /\ \A s \in Initializes : session'[s] = IF session[s] = "open" THEN "closed" ELSE session[s]
      /\ listed' \subseteq listed
  BY <1>1, Closing
<1>5. Endpoint!TypeOK'
  <2>1. request' \in [Endpoint!Requests -> Asking]
    BY <1>1, <1>3
  <2> QED BY <1>1, <1>4, <2>1 DEF EndpointInv, Endpoint!TypeOK, Asking
<1>6. EndpointCounted'
  <2>1. Reserving' = Reserving /\ Serving' = Serving
    BY <1>3 DEF Reserving, Serving, Endpoint!Requests
  <2>2. \A s \in Initializes : Endpoint!On(s)' = Endpoint!On(s)
    BY <1>3 DEF Endpoint!On, Endpoint!Requests
  <2> QED BY <1>1, <2>1, <2>2 DEF EndpointInv, EndpointCounted
<1>7. EndpointBounded'
  <2>1. Cardinality(listed') \in Nat /\ Cardinality(listed') <= Cardinality(listed)
    BY <1>4, ListedShrinks
  <2>2. Cardinality(listed) \in Nat
    BY EndpointFinite DEF EndpointInv, Endpoint!TypeOK, Endpoint!Requests
  <2> QED BY <1>1, <2>1, <2>2, HostAssumption DEF EndpointInv, EndpointBounded, Endpoint!TypeOK
<1>8. \A s \in Initializes : Begun(s) => request'[s].stage \in {"serving", "done"}
                                         /\ ~request'[s].reserved
  BY <1>3 DEF Begun, Endpoint!Requests
<1>9. ASSUME NEW r \in Endpoint!Requests PROVE Placed(r)'
  <2>1. Placed(r)
    BY DEF EndpointInv
  <2>2. /\ request'[r].stage = request[r].stage /\ request'[r].session = request[r].session
        /\ request'[r].reserved = request[r].reserved
    BY <1>3
  <2> QED BY <1>1, <1>8, <2>1, <2>2 DEF Placed, Begun
<1>10. \A s \in listed' : Begun(s)'
  BY <1>4, <1>8 DEF EndpointInv, Endpoint!TypeOK, Begun
<1>11. Endpoint!NoSessionIsLost'
  BY <1>1 DEF Endpoint!NoSessionIsLost
<1>12. ASSUME NEW r \in Endpoint!Requests, request'[r].stage = "serving"
       PROVE  /\ Identity[request'[r].session] = Identity[r]
              /\ session'[request'[r].session] = "closed" => request'[r].aborted \/ request'[r].late
  <2>1. /\ request[r].stage = "serving" /\ request'[r].session = request[r].session
        /\ request'[r].late = request[r].late
    BY <1>3, <1>12
  <2>2. /\ request[r].aborted => request'[r].aborted
        /\ Endpoint!Aborts(r, Initializes) => request'[r].aborted
    BY <1>3
  <2>3. /\ Identity[request[r].session] = Identity[r]
        /\ session[request[r].session] = "closed" => request[r].aborted \/ request[r].late
    BY <2>1 DEF EndpointInv, Endpoint!ServedByOwnSession
  <2>4. request[r].session \in Initializes
    BY <2>1 DEF EndpointInv, Placed
  <2> QED BY <1>4, <2>1, <2>2, <2>3, <2>4 DEF Endpoint!Aborts
<1>13. Endpoint!ServedByOwnSession'
  BY <1>12 DEF Endpoint!ServedByOwnSession
<1> QED BY <1>5, <1>6, <1>7, <1>9, <1>10, <1>11, <1>13 DEF EndpointInv

LEMMA EndpointNextInv ==
    EndpointInv /\ [Endpoint!Next]_(Endpoint!vars) => EndpointInv'
<1> SUFFICES ASSUME EndpointInv, [Endpoint!Next]_(Endpoint!vars) PROVE EndpointInv'
  OBVIOUS
<1>1. CASE \E r \in Endpoint!Requests : Endpoint!Step(r)
  BY <1>1, ReapInv, LookupInv, BodyFailsInv, ReserveInv, GiveUpInv, ServedInv, EndpointInitializedInv,
     EndpointFinishInv DEF Endpoint!Step
<1>2. CASE \E s \in Initializes : Endpoint!TimePasses(s)
  BY <1>2, TimePassesInv
<1>3. CASE Endpoint!Shutdown
  BY <1>3, ShutdownInv
<1>4. CASE UNCHANGED Endpoint!vars
  BY <1>4
     DEF Endpoint!vars, EndpointInv, Endpoint!TypeOK, EndpointCounted, EndpointBounded, Reserving,
         Serving, Endpoint!On, Endpoint!Requests, Placed, Begun,
         Endpoint!NoSessionIsLost, Endpoint!ServedByOwnSession
<1> QED BY <1>1, <1>2, <1>3, <1>4 DEF Endpoint!Next

\* Requests to the MCP endpoint and downloads, which share no state.
THEOREM RequestsStaySound == Endpoint!Spec /\ Attachments!Spec => []RequestsAreSound
<1>1. EndpointInv /\ [Endpoint!Next]_(Endpoint!vars) => EndpointInv'
  BY EndpointNextInv
<1>2. DownloadsInv /\ [Attachments!Next]_(Attachments!vars) => DownloadsInv'
  BY DownloadsNextInv
<1>3. EndpointInv /\ DownloadsInv => RequestsAreSound
  BY EndpointInvSuffices, DownloadsInvSuffices DEF RequestsAreSound
<1>4. Endpoint!Spec => []EndpointInv
  BY <1>1, EndpointInitInv, PTL DEF Endpoint!Spec
<1>5. Attachments!Spec => []DownloadsInv
  BY <1>2, DownloadsInitInv, PTL DEF Attachments!Spec
<1> QED BY <1>3, <1>4, <1>5, PTL

-----------------------------------------------------------------------------
(* The client of the memory service *)

Operation == [kind : {"text", "conversion", "file"}, document : MemoryCalls,
              state : {"pending", "completed", "failed"}]
MemoryCall == [stage : {"idle", "done", "failed", "bank", "submit", "wait", "scan"},
               follows : Nat, offset : Nat]

MemoryTyped ==
    /\ profile \in {"absent", "mission", "none"} /\ documents \subseteq MemoryCalls
    /\ operations \in Seq(Operation)
    /\ gate \in [Clients -> BOOLEAN] /\ cached \in [Clients -> BOOLEAN]
    /\ creation \in [Clients -> BOOLEAN]
    /\ call \in [MemoryCalls -> MemoryCall]
    /\ starts \in 0..MaxStarts /\ wrongs \in 0..MaxWrongs

\* A call beyond the bank has found it with its mission, waits for an operation
\* on its own document, and is done when its document is there.
FollowsOwn(row, c, queue, stored, bank) ==
    /\ row.follows <= Len(queue) /\ (row.stage = "idle" => row.follows = 0)
    /\ row.stage \in {"submit", "wait", "scan"} => bank = "mission"
    /\ row.stage = "wait" => row.follows > 0 /\ queue[row.follows].document = c
    /\ row.stage = "done" /\ c \in Files \cup Texts => c \in stored

\* What a completed operation has retained is there.
RetainedOf(op, stored) ==
    op.state = "completed" /\ op.kind # "conversion" => op.document \in stored

MemoryInv ==
    /\ MemoryTyped /\ profile # "none"
    /\ \A p \in Clients : cached[p] => profile = "mission"
    /\ \A i \in 1..Len(operations) : RetainedOf(operations[i], documents)
    /\ \A c \in MemoryCalls : FollowsOwn(call[c], c, operations, documents, profile)

LEMMA MemoryInvSuffices ==
    MemoryInv => Memory!TypeOK /\ Memory!RetainedIsKept /\ Memory!BankHasMission
<1> SUFFICES ASSUME MemoryInv PROVE Memory!TypeOK /\ Memory!RetainedIsKept /\ Memory!BankHasMission
  OBVIOUS
<1> USE DEF MemoryInv, MemoryTyped
<1>1. Len(operations) \in Nat
  BY LenProperties
<1>2. \A c \in MemoryCalls :
         /\ call[c].stage \in Memory!Idle \cup {"bank", "submit", "wait", "scan"}
         /\ call[c].follows \in 0..Len(operations) /\ call[c].offset \in Nat
  BY <1>1 DEF MemoryCall, FollowsOwn, Memory!Idle
<1>3. Memory!TypeOK
  BY <1>2 DEF Memory!TypeOK, Operation
<1>4. Memory!RetainedIsKept
  BY HostAssumption DEF HostAssumption, Memory!RetainedIsKept, FollowsOwn
<1> QED BY <1>3, <1>4 DEF Memory!BankHasMission

LEMMA MemoryInitInv == Memory!Init => MemoryInv
  BY HostAssumption, EmptySeq
     DEF HostAssumption, Memory!Init, Memory!At, MemoryInv, MemoryTyped, MemoryCall, FollowsOwn

LEMMA MemoryFacts ==
    ASSUME MemoryInv
    PROVE  /\ Len(operations) \in Nat /\ DOMAIN operations = 1..Len(operations)
           /\ \A i \in 1..Len(operations) : operations[i] \in Operation
           /\ \A c \in MemoryCalls : call[c] \in MemoryCall /\ Host[c] \in Clients
           /\ \A p \in Clients : /\ gate[p] \in BOOLEAN /\ cached[p] \in BOOLEAN
                                 /\ creation[p] \in BOOLEAN
  BY LenProperties, ElementOfSeq, HostAssumption DEF HostAssumption, MemoryInv, MemoryTyped

LEMMA StoppedHere ==
    \A stage \in {"idle", "done", "failed", "bank", "submit", "wait", "scan"} :
        /\ Memory!At(stage) \in MemoryCall
        /\ Memory!At(stage).stage = stage /\ Memory!At(stage).follows = 0
  BY DEF Memory!At, MemoryCall

LEMMA WrongCounts == ASSUME MemoryInv, Memory!Fault PROVE wrongs' \in 0..MaxWrongs
  BY HostAssumption DEF HostAssumption, Memory!Fault, MemoryInv, MemoryTyped

\* What the flags of a process become.
LEMMA FlagsTyped ==
    ASSUME MemoryInv, NEW p \in Clients, NEW b \in BOOLEAN
    PROVE  /\ [gate EXCEPT ![p] = b] \in [Clients -> BOOLEAN]
           /\ [cached EXCEPT ![p] = b] \in [Clients -> BOOLEAN]
           /\ [creation EXCEPT ![p] = b] \in [Clients -> BOOLEAN]
  BY DEF MemoryInv, MemoryTyped

\* A step of one call that leaves the service as it is.
LEMMA MemoryCallStep ==
    ASSUME MemoryInv, NEW c \in MemoryCalls, NEW next \in MemoryCall,
           call' = [call EXCEPT ![c] = next], FollowsOwn(next, c, operations, documents, profile),
           UNCHANGED <<profile, documents, operations, cached>>,
           gate' \in [Clients -> BOOLEAN], creation' \in [Clients -> BOOLEAN],
           starts' \in 0..MaxStarts, wrongs' \in 0..MaxWrongs
    PROVE  MemoryInv'
<1> USE DEF MemoryInv
<1>1. MemoryTyped'
  BY DEF MemoryTyped
<1>2. \A x \in MemoryCalls : call'[x] = IF x = c THEN next ELSE call[x]
  BY DEF MemoryTyped
<1> QED BY <1>1, <1>2

LEMMA MemoryBeginInv == ASSUME MemoryInv, NEW c \in MemoryCalls, Memory!Begin(c) PROVE MemoryInv'
<1> USE DEF Memory!Begin
<1> DEFINE stage == IF cached[Host[c]] THEN "submit" ELSE "bank"
<1>1. /\ Memory!At(stage) \in MemoryCall
      /\ Memory!At(stage).stage = stage /\ Memory!At(stage).follows = 0
  BY StoppedHere
<1>2. call' = [call EXCEPT ![c] = Memory!At(stage)]
  BY DEF Memory!Become
<1>3. FollowsOwn(Memory!At(stage), c, operations, documents, profile)
  BY <1>1, MemoryFacts DEF FollowsOwn, MemoryInv
<1>4. starts' \in 0..MaxStarts
  BY HostAssumption DEF HostAssumption, MemoryInv, MemoryTyped
<1>5. creation' \in [Clients -> BOOLEAN]
  BY MemoryFacts, FlagsTyped
<1> QED BY <1>1, <1>2, <1>3, <1>4, <1>5, MemoryCallStep DEF Memory!service, MemoryInv, MemoryTyped

\* Those who wait for the bank go on, or fail.
LEMMA MemoryReleaseStep ==
    ASSUME MemoryInv, NEW p \in Clients, NEW stage \in {"submit", "failed"},
           Memory!Release(p, stage), stage = "submit" => profile' = "mission",
           profile' \in {profile, "mission"}, UNCHANGED <<documents, operations, starts>>,
           gate' \in [Clients -> BOOLEAN], creation' \in [Clients -> BOOLEAN],
           cached' \in [Clients -> BOOLEAN],
           \A q \in Clients : cached'[q] => cached[q] \/ profile' = "mission",
           wrongs' \in 0..MaxWrongs
    PROVE  MemoryInv'
<1> USE DEF MemoryInv
<1>1. \A c \in MemoryCalls : call'[c] = Memory!At(stage) \/ call'[c] = call[c]
  BY DEF Memory!Release
<1>2. \A c \in MemoryCalls : call'[c] \in MemoryCall
  BY <1>1, MemoryFacts, StoppedHere
<1>3. call' \in [MemoryCalls -> MemoryCall]
  BY <1>2 DEF Memory!Release
<1>4. MemoryTyped'
  BY <1>3 DEF MemoryTyped
<1>5. ASSUME NEW c \in MemoryCalls PROVE FollowsOwn(call'[c], c, operations, documents, profile')
  <2>1. FollowsOwn(call[c], c, operations, documents, profile')
    BY DEF FollowsOwn
  <2>2. FollowsOwn(Memory!At(stage), c, operations, documents, profile')
    BY StoppedHere, MemoryFacts DEF FollowsOwn
  <2> QED BY <1>1, <2>1, <2>2
<1> QED BY <1>4, <1>5

LEMMA CreationEndsInv ==
    ASSUME MemoryInv, NEW p \in Clients, Memory!Created(p) \/ Memory!CreationFails(p)
    PROVE  MemoryInv'
<1>1. CASE Memory!Created(p)
  <2>1. \A q \in Clients : cached'[q] => cached[q] \/ profile' = "mission"
    BY <1>1 DEF Memory!Created
  <2> QED BY <1>1, <2>1, MemoryReleaseStep, FlagsTyped DEF Memory!Created, MemoryInv, MemoryTyped
<1>2. CASE Memory!CreationFails(p)
  BY <1>2, MemoryReleaseStep, FlagsTyped, WrongCounts DEF Memory!CreationFails, MemoryInv, MemoryTyped
<1> QED BY <1>1, <1>2

\* A step of the service that adds to the operations and keeps what each is about.
LEMMA OperationsStep ==
    ASSUME MemoryInv, operations' \in Seq(Operation),
           Len(operations') >= Len(operations),
           \A i \in 1..Len(operations) : operations'[i].document = operations[i].document,
           documents \subseteq documents', documents' \subseteq MemoryCalls,
           \A i \in 1..Len(operations') : RetainedOf(operations'[i], documents'),
           call' \in [MemoryCalls -> MemoryCall],
           \A c \in MemoryCalls :
              \/ call'[c] = call[c]
              \/ FollowsOwn(call'[c], c, operations', documents', profile),
           profile' = profile, UNCHANGED <<gate, cached, creation, starts>>,
           wrongs' \in 0..MaxWrongs
    PROVE  MemoryInv'
<1> USE DEF MemoryInv
<1>1. MemoryTyped'
  BY DEF MemoryTyped
<1>2. ASSUME NEW c \in MemoryCalls, call'[c] = call[c]
      PROVE  FollowsOwn(call'[c], c, operations', documents', profile)
  <2>1. call[c] \in MemoryCall /\ FollowsOwn(call[c], c, operations, documents, profile)
    BY MemoryFacts
  <2>2. call[c].follows \in Nat /\ Len(operations) \in Nat /\ Len(operations') \in Nat
    BY <2>1, MemoryFacts, LenProperties DEF MemoryCall
  <2> QED BY <1>2, <2>1, <2>2 DEF FollowsOwn
<1> QED BY <1>1, <1>2

LEMMA MemorySubmitInv == ASSUME MemoryInv, NEW c \in MemoryCalls, Memory!Submit(c) PROVE MemoryInv'
<1> DEFINE old == IF c \in Texts THEN Memory!Known(c) ELSE {}
           op == [kind |-> IF c \in Texts THEN "text" ELSE "conversion",
                  document |-> c, state |-> "pending"]
<1>1. profile = "mission" /\ profile' = profile
  BY MemoryFacts DEF Memory!Submit, MemoryInv, FollowsOwn
<1>2. op \in Operation /\ op.document = c /\ op.state = "pending"
  BY DEF Operation
<1>3. /\ documents' = documents /\ UNCHANGED <<gate, cached, creation, starts, wrongs>>
      /\ documents \subseteq MemoryCalls /\ wrongs' \in 0..MaxWrongs
  BY DEF Memory!Submit, MemoryInv, MemoryTyped
<1>4. \A i \in Nat : /\ [Memory!At("wait") EXCEPT !.follows = i] \in MemoryCall
                     /\ [Memory!At("wait") EXCEPT !.follows = i].follows = i
                     /\ [Memory!At("wait") EXCEPT !.follows = i].stage = "wait"
  BY DEF Memory!At, MemoryCall
<1>5. ASSUME NEW i \in 1..Len(operations'), operations' \in Seq(Operation),
             Memory!Become(c, [Memory!At("wait") EXCEPT !.follows = i]),
             operations'[i].document = c
      PROVE  /\ call' \in [MemoryCalls -> MemoryCall]
             /\ \A x \in MemoryCalls : \/ call'[x] = call[x]
                                       \/ FollowsOwn(call'[x], x, operations', documents', profile)
  <2> DEFINE next == [Memory!At("wait") EXCEPT !.follows = i]
  <2>1. i \in Nat /\ Len(operations') \in Nat
    BY <1>5, LenProperties
  <2>2. FollowsOwn(next, c, operations', documents', profile)
    BY <1>1, <1>4, <1>5, <2>1 DEF FollowsOwn
  <2>3. call' = [call EXCEPT ![c] = next]
    BY <1>5 DEF Memory!Become
  <2> HIDE DEF next
  <2>4. next \in MemoryCall
    BY <1>4, <2>1 DEF next
  <2> QED BY <2>2, <2>3, <2>4 DEF MemoryInv, MemoryTyped
<1> HIDE DEF op
<1>6. CASE old = {}
  <2> DEFINE new == Len(operations) + 1
  <2>1. operations' = Append(operations, op) /\ Memory!Become(c, [Memory!At("wait") EXCEPT !.follows = new])
    BY <1>6 DEF Memory!Submit, op
  <2>2. /\ operations' \in Seq(Operation) /\ Len(operations') = new /\ new \in 1..Len(operations')
        /\ operations'[new] = op /\ \A i \in 1..Len(operations) : operations'[i] = operations[i]
        /\ Len(operations') >= Len(operations)
    BY <1>2, <2>1, MemoryFacts, AppendProperties DEF MemoryInv, MemoryTyped
  <2>3. \A i \in 1..Len(operations') : i \in 1..Len(operations) \/ i = new
    BY <2>2, MemoryFacts
  <2>4. \A i \in 1..Len(operations') : RetainedOf(operations'[i], documents')
    BY <1>2, <1>3, <2>2, <2>3 DEF RetainedOf, MemoryInv
  <2>5. /\ call' \in [MemoryCalls -> MemoryCall]
        /\ \A x \in MemoryCalls : \/ call'[x] = call[x]
                                  \/ FollowsOwn(call'[x], x, operations', documents', profile)
    BY <1>2, <1>5, <2>1, <2>2
  <2> QED BY <1>1, <1>3, <2>2, <2>4, <2>5, OperationsStep
<1>7. CASE old # {}
  <2>1. /\ operations' = [i \in DOMAIN operations |-> IF i \in old THEN op ELSE operations[i]]
        /\ \E i \in old : Memory!Become(c, [Memory!At("wait") EXCEPT !.follows = i])
    BY <1>7 DEF Memory!Submit, op
  <2>2. old \subseteq 1..Len(operations) /\ \A i \in old : operations[i].document = c
    BY <1>7, MemoryFacts DEF Memory!Known
  <2> HIDE DEF old
  <2>3. /\ Len(operations') = Len(operations)
        /\ \A i \in 1..Len(operations) : operations'[i] = IF i \in old THEN op ELSE operations[i]
    BY <2>1, MemoryFacts, LenProperties DEF MemoryInv, MemoryTyped
  <2>4. operations' \in Seq(Operation)
    <3>1. operations' \in [1..Len(operations) -> Operation] /\ Len(operations) \in Nat
      BY <1>2, <2>1, MemoryFacts
    <3> QED BY <3>1, SeqDef
  <2>5. \A i \in 1..Len(operations') : RetainedOf(operations'[i], documents')
    BY <1>2, <1>3, <2>3 DEF RetainedOf, MemoryInv
  <2>6. /\ call' \in [MemoryCalls -> MemoryCall]
        /\ \A x \in MemoryCalls : \/ call'[x] = call[x]
                                  \/ FollowsOwn(call'[x], x, operations', documents', profile)
    BY <1>2, <1>5, <2>1, <2>2, <2>3, <2>4
  <2>7. \A i \in 1..Len(operations) : operations'[i].document = operations[i].document
    BY <1>2, <2>2, <2>3
  <2> QED BY <1>1, <1>3, <2>3, <2>4, <2>5, <2>6, <2>7, MemoryFacts, OperationsStep
<1> QED BY <1>6, <1>7

\* A call that follows an operation has its own document, which is there when
\* the operation has retained it.
LEMMA MemoryWaitInv == ASSUME MemoryInv, NEW c \in MemoryCalls, Memory!Wait(c) PROVE MemoryInv'
<1> DEFINE i == call[c].follows
<1>1. /\ call[c] \in MemoryCall /\ call[c].stage = "wait" /\ operations[i].state = "completed"
      /\ FollowsOwn(call[c], c, operations, documents, profile)
  BY MemoryFacts DEF Memory!Wait, MemoryInv
<1>2. i \in 1..Len(operations) /\ operations[i].document = c
  BY <1>1, MemoryFacts DEF FollowsOwn, MemoryCall
<1>3. /\ Memory!Settled(c) \in MemoryCall
      /\ FollowsOwn(Memory!Settled(c), c, operations, documents, profile)
  <2>1. CASE operations[i].kind = "conversion"
    BY <1>1, <2>1 DEF Memory!Settled, MemoryCall, FollowsOwn
  <2>2. CASE operations[i].kind # "conversion"
    <3>1. c \in documents
      BY <1>1, <1>2, <2>2 DEF MemoryInv, RetainedOf
    <3> QED BY <1>1, <2>2, <3>1, StoppedHere, MemoryFacts DEF Memory!Settled, FollowsOwn
  <2> QED BY <2>1, <2>2
<1> QED BY <1>3, MemoryCallStep DEF Memory!Wait, Memory!Become, Memory!service, MemoryInv, MemoryTyped

LEMMA MemoryScanInv == ASSUME MemoryInv, NEW c \in MemoryCalls, Memory!Scan(c) PROVE MemoryInv'
<1>1. /\ call[c] \in MemoryCall /\ call[c].stage = "scan" /\ profile = "mission"
      /\ FollowsOwn(call[c], c, operations, documents, profile)
  BY MemoryFacts DEF Memory!Scan, MemoryInv, FollowsOwn
<1>2. \E next \in MemoryCall : call' = [call EXCEPT ![c] = next]
                               /\ FollowsOwn(next, c, operations, documents, profile)
  <2> DEFINE page == {i \in Memory!Page(call[c].offset) : i > call[c].follows}
  <2>1. CASE Memory!Become(c, [call[c] EXCEPT !.offset = 0])
    <3>1. /\ [call[c] EXCEPT !.offset = 0] \in MemoryCall
          /\ FollowsOwn([call[c] EXCEPT !.offset = 0], c, operations, documents, profile)
      BY <1>1 DEF MemoryCall, FollowsOwn
    <3> QED BY <2>1, <3>1 DEF Memory!Become
  <2>2. ASSUME NEW i \in page,
               Memory!Become(c, IF operations[i].document # c THEN Memory!NextPage(c)
                                ELSE IF operations[i].state = "completed" THEN Memory!At("done")
                                ELSE IF operations[i].state = "failed" THEN Memory!At("failed")
                                ELSE [Memory!At("wait") EXCEPT !.follows = i])
        PROVE  <1>2
    <3>1. i \in 1..Len(operations) /\ operations[i].kind # "conversion"
      BY MemoryFacts DEF Memory!Page, Memory!Retains
    <3>2. CASE operations[i].document # c
      <4>1. /\ Memory!NextPage(c) \in MemoryCall
            /\ FollowsOwn(Memory!NextPage(c), c, operations, documents, profile)
        BY <1>1 DEF MemoryCall, FollowsOwn, Memory!NextPage
      <4> QED BY <2>2, <3>2, <4>1 DEF Memory!Become
    <3>3. CASE operations[i].document = c /\ operations[i].state = "completed"
      <4>1. c \in documents
        BY <3>1, <3>3 DEF MemoryInv, RetainedOf
      <4>2. FollowsOwn(Memory!At("done"), c, operations, documents, profile)
        BY <4>1, StoppedHere, MemoryFacts DEF FollowsOwn
      <4> QED BY <2>2, <3>3, <4>2, StoppedHere DEF Memory!Become
    <3>4. CASE operations[i].document = c /\ operations[i].state = "failed"
      <4>1. FollowsOwn(Memory!At("failed"), c, operations, documents, profile)
        BY StoppedHere, MemoryFacts DEF FollowsOwn
      <4> QED BY <2>2, <3>4, <4>1, StoppedHere DEF Memory!Become
    <3>5. CASE operations[i].document = c /\ operations[i].state \notin {"completed", "failed"}
      <4> DEFINE next == [Memory!At("wait") EXCEPT !.follows = i]
      <4>1. next \in MemoryCall /\ next.stage = "wait" /\ next.follows = i
        BY <3>1 DEF Memory!At, MemoryCall
      <4>2. FollowsOwn(next, c, operations, documents, profile)
        BY <1>1, <3>1, <3>5, <4>1, MemoryFacts DEF FollowsOwn
      <4> QED BY <2>2, <3>5, <4>1, <4>2 DEF Memory!Become
    <3> QED BY <3>2, <3>3, <3>4, <3>5
  <2> QED BY <2>1, <2>2 DEF Memory!Scan
<1>3. gate' \in [Clients -> BOOLEAN]
  <2>1. (gate[Host[c]] /\ call'[c].stage # "failed") \in BOOLEAN
    OBVIOUS
  <2> QED BY <2>1, MemoryFacts, FlagsTyped DEF Memory!Scan
<1> QED BY <1>2, <1>3, MemoryCallStep DEF Memory!Scan, Memory!service, MemoryInv, MemoryTyped

LEMMA CallFailsInv ==
    ASSUME MemoryInv, NEW c \in MemoryCalls,
           Memory!Recall(c) \/ Memory!RequestFails(c) \/ Memory!OperationFailed(c)
    PROVE  MemoryInv'
<1>1. \E s \in {"done", "failed"} : /\ call' = [call EXCEPT ![c] = Memory!At(s)]
                                    /\ FollowsOwn(Memory!At(s), c, operations, documents, profile)
  BY StoppedHere, MemoryFacts
     DEF Memory!Recall, Memory!RequestFails, Memory!OperationFailed, Memory!Become, FollowsOwn
<1>2. gate' \in [Clients -> BOOLEAN]
  BY MemoryFacts, FlagsTyped
     DEF Memory!Recall, Memory!RequestFails, Memory!OperationFailed, Memory!service, MemoryInv, MemoryTyped
<1>3. /\ UNCHANGED <<profile, documents, operations, cached, creation, starts>>
      /\ wrongs' \in 0..MaxWrongs
  BY WrongCounts DEF Memory!Recall, Memory!RequestFails, Memory!OperationFailed, Memory!service,
                     MemoryInv, MemoryTyped
<1> QED BY <1>1, <1>2, <1>3, StoppedHere, MemoryCallStep DEF MemoryInv, MemoryTyped

\* An operation ends, and a conversion queues what retains its document.
LEMMA OperationInv ==
    ASSUME MemoryInv, NEW i \in DOMAIN operations,
           Memory!OperationEnds(i) \/ Memory!OperationAborts(i)
    PROVE  MemoryInv'
<1> DEFINE op == operations[i]
           Ended(s) == [operations EXCEPT ![i].state = s]
<1>1. i \in 1..Len(operations) /\ op \in Operation /\ op.document \in MemoryCalls
  BY MemoryFacts DEF Operation
<1>2. ASSUME NEW s \in {"completed", "failed"}
      PROVE  /\ Ended(s) \in Seq(Operation) /\ Len(Ended(s)) = Len(operations)
             /\ \A j \in 1..Len(operations) :
                   /\ Ended(s)[j].document = operations[j].document
                   /\ Ended(s)[j].kind = operations[j].kind
                   /\ Ended(s)[j].state = IF j = i THEN s ELSE operations[j].state
  <2>1. [op EXCEPT !.state = s] \in Operation
    BY <1>1 DEF Operation
  <2>2. Ended(s) = [operations EXCEPT ![i] = [op EXCEPT !.state = s]]
    OBVIOUS
  <2>3. /\ Ended(s) \in Seq(Operation) /\ Len(Ended(s)) = Len(operations)
        /\ \A j \in 1..Len(operations) :
              Ended(s)[j] = IF j = i THEN [op EXCEPT !.state = s] ELSE operations[j]
    BY <1>1, <2>1, <2>2, ExceptSeq DEF MemoryInv, MemoryTyped
  <2>4. /\ [op EXCEPT !.state = s].document = op.document
        /\ [op EXCEPT !.state = s].kind = op.kind /\ [op EXCEPT !.state = s].state = s
    BY <1>1 DEF Operation
  <2> QED BY <2>3, <2>4
<1> HIDE DEF Ended
<1>3. /\ call' = call /\ UNCHANGED <<profile, gate, cached, creation, starts>>
      /\ wrongs' \in 0..MaxWrongs /\ call' \in [MemoryCalls -> MemoryCall]
  BY WrongCounts DEF Memory!OperationEnds, Memory!OperationAborts, MemoryInv, MemoryTyped
<1>4. CASE Memory!OperationAborts(i)
  <2>1. operations' = Ended("failed") /\ documents' = documents
    BY <1>4 DEF Memory!OperationAborts, Ended
  <2>2. \A j \in 1..Len(operations') : RetainedOf(operations'[j], documents')
    BY <1>2, <2>1 DEF RetainedOf, MemoryInv
  <2> QED BY <1>2, <1>3, <2>1, <2>2, MemoryFacts, OperationsStep DEF MemoryInv, MemoryTyped
<1>5. CASE Memory!OperationEnds(i) /\ op.kind # "conversion"
  <2>1. operations' = Ended("completed") /\ documents' = documents \cup {op.document}
    BY <1>5 DEF Memory!OperationEnds, Ended
  <2>2. \A j \in 1..Len(operations') : RetainedOf(operations'[j], documents')
    BY <1>2, <2>1 DEF RetainedOf, MemoryInv
  <2>3. documents \subseteq documents' /\ documents' \subseteq MemoryCalls
    BY <1>1, <2>1 DEF MemoryInv, MemoryTyped
  <2>4. /\ operations' \in Seq(Operation) /\ Len(operations') >= Len(operations)
        /\ \A j \in 1..Len(operations) : operations'[j].document = operations[j].document
    BY <1>2, <2>1, MemoryFacts
  <2> QED BY <1>3, <2>2, <2>3, <2>4, OperationsStep
<1>6. CASE Memory!OperationEnds(i) /\ op.kind = "conversion"
  <2> DEFINE new == [kind |-> "file", document |-> op.document, state |-> "pending"]
             ended == Ended("completed")
  <2>1. operations' = Append(ended, new) /\ documents' = documents
    BY <1>6 DEF Memory!OperationEnds, Ended
  <2>2. new \in Operation /\ new.state = "pending"
    BY <1>1 DEF Operation
  <2> HIDE DEF new
  <2>3. /\ ended \in Seq(Operation) /\ Len(ended) = Len(operations)
        /\ \A j \in 1..Len(operations) :
              RetainedOf(ended[j], documents) /\ ended[j].document = operations[j].document
    BY <1>2, <1>6 DEF RetainedOf, MemoryInv
  <2> HIDE DEF ended
  <2>4. /\ operations' \in Seq(Operation) /\ Len(operations') = Len(operations) + 1
        /\ \A j \in 1..Len(operations) : operations'[j] = ended[j]
        /\ operations'[Len(operations) + 1] = new
    BY <2>1, <2>2, <2>3, AppendProperties
  <2>5. ASSUME NEW j \in 1..Len(operations') PROVE RetainedOf(operations'[j], documents')
    <3>1. j \in 1..Len(operations) \/ j = Len(operations) + 1
      BY <2>4, MemoryFacts
    <3> QED BY <2>1, <2>2, <2>3, <2>4, <3>1 DEF RetainedOf
  <2> QED BY <1>3, <2>1, <2>3, <2>4, <2>5, MemoryFacts, OperationsStep DEF MemoryInv, MemoryTyped
<1> QED BY <1>4, <1>5, <1>6

LEMMA MemoryStopInv == ASSUME MemoryInv, NEW p \in Clients, Memory!Stop(p) PROVE MemoryInv'
<1> USE DEF MemoryInv
<1>1. \A c \in MemoryCalls : call'[c] = Memory!At("idle") \/ call'[c] = call[c]
  BY DEF Memory!Stop
<1>2. \A c \in MemoryCalls : call'[c] \in MemoryCall
  BY <1>1, MemoryFacts, StoppedHere
<1>3. call' \in [MemoryCalls -> MemoryCall]
  BY <1>2 DEF Memory!Stop
<1>4. MemoryTyped'
  BY <1>3, WrongCounts, FlagsTyped DEF MemoryTyped, Memory!Stop, Memory!service
<1>5. ASSUME NEW c \in MemoryCalls PROVE FollowsOwn(call'[c], c, operations, documents, profile)
  <2>1. FollowsOwn(Memory!At("idle"), c, operations, documents, profile)
    BY StoppedHere, MemoryFacts DEF FollowsOwn
  <2> QED BY <1>1, <2>1
<1>6. \A q \in Clients : cached'[q] => cached[q]
  BY DEF Memory!Stop, MemoryTyped
<1> QED BY <1>4, <1>5, <1>6 DEF Memory!Stop, Memory!service

LEMMA DeleteMailboxInv == ASSUME MemoryInv, Memory!DeleteMailbox PROVE MemoryInv'
<1> USE DEF MemoryInv
<1>1. /\ \A p \in Clients : ~cached[p]
      /\ \A c \in MemoryCalls : call[c].stage = "idle"
  BY MemoryFacts DEF Memory!DeleteMailbox, Memory!Stopped
<1>2. /\ profile' = "absent" /\ documents' = {} /\ operations' = <<>> /\ Len(operations') = 0
      /\ UNCHANGED <<gate, cached, creation, call, starts, wrongs>>
  BY EmptySeq DEF Memory!DeleteMailbox
<1>3. MemoryTyped'
  BY <1>2, EmptySeq DEF MemoryTyped
<1>4. \A c \in MemoryCalls : FollowsOwn(call'[c], c, operations', documents', profile')
  BY <1>1, <1>2 DEF FollowsOwn
<1> QED BY <1>1, <1>2, <1>3, <1>4

LEMMA MemoryNextInv == MemoryInv /\ [Memory!Next]_(Memory!vars) => MemoryInv'
<1> SUFFICES ASSUME MemoryInv, [Memory!Next]_(Memory!vars) PROVE MemoryInv'
  OBVIOUS
<1>1. CASE UNCHANGED Memory!vars
  BY <1>1 DEF Memory!vars, MemoryInv, MemoryTyped
<1>2. ASSUME NEW p \in Clients, Memory!Probe(p) \/ Memory!ProbeFails(p) PROVE MemoryInv'
  <2>1. UNCHANGED <<profile, documents, operations, cached, creation, call, starts>>
    BY <1>2 DEF Memory!Probe, Memory!ProbeFails, Memory!service
  <2>2. gate' \in [Clients -> BOOLEAN] /\ wrongs' \in 0..MaxWrongs
    BY <1>2, FlagsTyped, WrongCounts DEF Memory!Probe, Memory!ProbeFails, MemoryInv, MemoryTyped
  <2> QED BY <2>1, <2>2 DEF MemoryInv, MemoryTyped
<1> QED BY <1>1, <1>2, MemoryBeginInv, CreationEndsInv, MemorySubmitInv, MemoryWaitInv, MemoryScanInv, CallFailsInv,
           OperationInv, MemoryStopInv, DeleteMailboxInv DEF Memory!Next, Memory!Step

\* A retention that answered has its document in the bank, which never lacks its
\* mission, for any clients, calls and faults of the service (hindsight-memory.ts).
THEOREM MemoryTellsTruth ==
    Memory!Spec => [](Memory!TypeOK /\ Memory!RetainedIsKept /\ Memory!BankHasMission)
<1>1. Memory!Init => MemoryInv
  BY MemoryInitInv
<1>2. MemoryInv /\ [Memory!Next]_(Memory!vars) => MemoryInv'
  BY MemoryNextInv
<1>3. MemoryInv => Memory!TypeOK /\ Memory!RetainedIsKept /\ Memory!BankHasMission
  BY MemoryInvSuffices
<1> QED BY <1>1, <1>2, <1>3, PTL DEF Memory!Spec

-----------------------------------------------------------------------------
(* The model provider *)

LEMMA ModelCounts == \A S : Model!Cardinality(S) = Cardinality(S)
  BY DEF Model!Cardinality, Cardinality

Generation == [stage : {"idle", "waiting", "made", "running", "read", "leaving", "done"},
               signal : {"none", "in time", "late"}, aborted : BOOLEAN, over : BOOLEAN,
               grace : BOOLEAN, child : Model!Alive \cup {"none", "fails", "ended"},
               directory : BOOLEAN, result : Model!Results]

\* A call that is cut off while it runs is told so by its flags, and one that is
\* read or beyond has neither a process nor a timer.
WholeCall(now) ==
    /\ now.directory => now.stage \in {"made", "running", "read", "leaving"}
    /\ now.stage \in {"idle", "waiting", "made"} => now.child = "none" /\ ~now.grace
    /\ now.stage \in {"read", "leaving", "done"} => now.child \in {"none", "ended"} /\ ~now.grace
    /\ now.stage \in {"idle", "waiting", "made"} => ~now.over
    /\ now.stage = "running" /\ now.signal = "in time" => now.aborted
    /\ now.stage = "read" => now.signal # "in time" /\ ~now.over
    /\ now.stage \in {"leaving", "done"} /\ (now.signal = "in time" \/ now.over) =>
           now.result # "text"

\* A call that has begun leaves none before it in the line.
BegunCall(stage) == stage \notin {"idle", "waiting"}
InTurn ==
    /\ \A c \in Generations : generation[c].stage # "idle" => \E i \in 1..Len(line) : line[i] = c
    /\ \A i, j \in 1..Len(line) : line[i] = line[j] => i = j
    /\ \A i, j \in 1..Len(line) :
          i < j /\ BegunCall(generation[line[j]].stage) => generation[line[i]].stage = "done"
    /\ \A i \in 1..Len(line) : generation[line[i]].stage # "idle"

ModelInv ==
    /\ line \in Seq(Generations) /\ generation \in [Generations -> Generation]
    /\ \A c \in Generations : WholeCall(generation[c])
    /\ InTurn

LEMMA ModelFacts ==
    ASSUME ModelInv
    PROVE  /\ Len(line) \in Nat
           /\ \A i \in 1..Len(line) : line[i] \in Generations
           /\ \A c \in Generations : generation[c] \in Generation /\ WholeCall(generation[c])
  BY LenProperties, ElementOfSeq DEF ModelInv

\* The process and the directory of a call are of its turn.
LEMMA OneAtATime ==
    ASSUME ModelInv
    PROVE  Cardinality({c \in Generations : \/ generation[c].directory
                                            \/ generation[c].child \in Model!Alive}) <= 1
<1> DEFINE Working == {c \in Generations : \/ generation[c].directory
                                           \/ generation[c].child \in Model!Alive}
<1>1. \A c \in Working : BegunCall(generation[c].stage) /\ generation[c].stage # "done"
  BY ModelFacts DEF WholeCall, BegunCall, Model!Alive, Generation
<1>2. ASSUME NEW c \in Working, NEW d \in Working PROVE c = d
  <2>1. PICK i \in 1..Len(line) : line[i] = c
    BY <1>1 DEF ModelInv, InTurn, BegunCall
  <2>2. PICK j \in 1..Len(line) : line[j] = d
    BY <1>1 DEF ModelInv, InTurn, BegunCall
  <2>3. ~(i < j) /\ ~(j < i)
    BY <1>1, <2>1, <2>2 DEF ModelInv, InTurn
  <2>4. i = j
    BY <2>3, ModelFacts
  <2> QED BY <2>1, <2>2, <2>4
<1>3. Working = {} \/ \E c \in Working : Working = {c}
  BY <1>2
<1> HIDE DEF Working
<1>4. Cardinality(Working) \in {0, 1}
  BY <1>3, FS_EmptySet, FS_Singleton
<1> QED BY <1>4 DEF Working

LEMMA ModelInvSuffices == ModelInv => Model!TypeOK /\ Model!AnswersAreWhole
<1> SUFFICES ASSUME ModelInv PROVE Model!TypeOK /\ Model!AnswersAreWhole
  OBVIOUS
<1>1. Model!TypeOK
  BY DEF ModelInv, Generation, Model!TypeOK
<1>2. \A c \in Generations : generation[c].stage = "done" =>
          /\ ~generation[c].directory /\ ~generation[c].grace
          /\ generation[c].child \in {"none", "ended"}
          /\ (generation[c].signal = "in time" \/ generation[c].over) => generation[c].result # "text"
  BY DEF ModelInv, WholeCall
<1> QED BY <1>1, <1>2, OneAtATime, ModelCounts DEF Model!AnswersAreWhole

LEMMA ModelInitInv == Model!Init => ModelInv
<1> SUFFICES ASSUME Model!Init PROVE ModelInv
  OBVIOUS
<1>1. line \in Seq(Generations) /\ Len(line) = 0
  BY EmptySeq DEF Model!Init
<1>2. generation \in [Generations -> Generation] /\ \A c \in Generations : WholeCall(generation[c])
  BY DEF Model!Init, Generation, WholeCall, Model!Results
<1> QED BY <1>1, <1>2 DEF Model!Init, ModelInv, InTurn

\* A step of a call that has begun and stays so, or is over, when it was its turn.
LEMMA GenerationStep ==
    ASSUME ModelInv, NEW c \in Generations, NEW next \in Generation, WholeCall(next),
           generation' = [generation EXCEPT ![c] = next], line' = line,
           generation[c].stage # "idle" <=> next.stage # "idle",
           generation[c].stage = "done" => next.stage = "done",
           BegunCall(next.stage) =>
              \/ BegunCall(generation[c].stage)
              \/ \A i, j \in 1..Len(line) : i < j /\ line[j] = c => generation[line[i]].stage = "done"
    PROVE  ModelInv'
<1> USE DEF ModelInv
<1>1. \A x \in Generations : generation'[x] = IF x = c THEN next ELSE generation[x]
  OBVIOUS
<1>2. generation' \in [Generations -> Generation] /\ \A x \in Generations : WholeCall(generation'[x])
  BY <1>1
<1>3. ASSUME NEW i \in 1..Len(line), NEW j \in 1..Len(line), i < j, BegunCall(generation'[line[j]].stage)
      PROVE  generation'[line[i]].stage = "done"
  <2>1. line[i] \in Generations /\ line[j] \in Generations
    BY ModelFacts
  <2>2. generation[line[i]].stage = "done"
    BY <1>1, <1>3, <2>1 DEF InTurn
  <2> QED BY <1>1, <2>1, <2>2
<1>4. \A i \in 1..Len(line) : generation'[line[i]].stage # "idle"
  BY <1>1, ModelFacts DEF InTurn
<1>5. \A x \in Generations : generation'[x].stage # "idle" => \E i \in 1..Len(line) : line[i] = x
  BY <1>1 DEF InTurn
<1> QED BY <1>2, <1>3, <1>4, <1>5 DEF InTurn

LEMMA GenerateInv == ASSUME ModelInv, NEW c \in Generations, Model!Generate(c) PROVE ModelInv'
<1> USE DEF ModelInv
<1> DEFINE next == [generation[c] EXCEPT !.stage = "waiting"]
<1>1. /\ generation[c] \in Generation /\ generation[c].stage = "idle" /\ WholeCall(generation[c])
      /\ line' = Append(line, c) /\ generation' = [generation EXCEPT ![c] = next]
  BY ModelFacts DEF Model!Generate, Model!Become
<1>2. next \in Generation /\ WholeCall(next) /\ next.stage = "waiting"
  BY <1>1 DEF Generation, WholeCall
<1>3. \A x \in Generations : generation'[x] = IF x = c THEN next ELSE generation[x]
  BY <1>1
<1>4. /\ line' \in Seq(Generations) /\ Len(line') = Len(line) + 1 /\ line'[Len(line) + 1] = c
      /\ \A i \in 1..Len(line) : line'[i] = line[i]
  BY <1>1, AppendProperties
<1>5. \A i \in 1..Len(line') : i \in 1..Len(line) \/ i = Len(line) + 1
  BY <1>4, ModelFacts
<1>6. \A i \in 1..Len(line) : line[i] # c /\ line[i] \in Generations
  BY <1>1, ModelFacts DEF InTurn
<1> HIDE DEF next
<1>7. \A x \in Generations : generation'[x].stage # "idle" => \E i \in 1..Len(line') : line'[i] = x
  <2> SUFFICES ASSUME NEW x \in Generations, generation'[x].stage # "idle"
               PROVE  \E i \in 1..Len(line') : line'[i] = x
    OBVIOUS
  <2>1. CASE x = c
    BY <1>4, <2>1, ModelFacts
  <2>2. CASE x # c
    <3>1. PICK i \in 1..Len(line) : line[i] = x
      BY <1>3, <2>2 DEF InTurn
    <3> QED BY <1>4, <3>1, ModelFacts
  <2> QED BY <2>1, <2>2
<1>8. \A i, j \in 1..Len(line') : line'[i] = line'[j] => i = j
  BY <1>4, <1>5, <1>6 DEF InTurn
<1>9. ASSUME NEW i \in 1..Len(line'), NEW j \in 1..Len(line'), i < j, BegunCall(generation'[line'[j]].stage)
      PROVE  generation'[line'[i]].stage = "done"
  <2>1. j # Len(line) + 1
    BY <1>2, <1>3, <1>4, <1>9 DEF BegunCall
  <2>2. j \in 1..Len(line) /\ i \in 1..Len(line)
    BY <1>5, <1>9, <2>1, ModelFacts
  <2> QED BY <1>3, <1>4, <1>6, <1>9, <2>2 DEF InTurn
<1>10. \A i \in 1..Len(line') : generation'[line'[i]].stage # "idle"
  BY <1>2, <1>3, <1>4, <1>5, <1>6 DEF InTurn
<1> QED BY <1>2, <1>3, <1>4, <1>7, <1>8, <1>9, <1>10, <1>1 DEF InTurn

\* What is first in the line of those that are not done is in turn.
LEMMA ModelBeginInv == ASSUME ModelInv, NEW i \in 1..Len(line), Model!Begin(i) PROVE ModelInv'
<1> DEFINE c == line[i]
<1>1. /\ c \in Generations /\ generation[c] \in Generation /\ WholeCall(generation[c])
      /\ generation[c].stage = "waiting" /\ line' = line
  BY ModelFacts DEF Model!Begin
<1>2. \A h, j \in 1..Len(line) : h < j /\ line[j] = c => generation[line[h]].stage = "done"
  <2> SUFFICES ASSUME NEW h \in 1..Len(line), h < i PROVE generation[line[h]].stage = "done"
    BY DEF ModelInv, InTurn
  <2>1. i > 1 /\ i - 1 \in 1..Len(line) /\ generation[line[i - 1]].stage = "done"
    BY ModelFacts DEF Model!Begin, Model!Follows
  <2>2. CASE h = i - 1
    BY <2>1, <2>2
  <2>3. CASE h < i - 1
    BY <2>1, <2>3 DEF ModelInv, InTurn, BegunCall
  <2> QED BY <2>2, <2>3, ModelFacts
<1>3. PICK next \in {[generation[c] EXCEPT !.stage = "done", !.result = "error"],
                     [generation[c] EXCEPT !.stage = "made", !.directory = TRUE]} :
         generation' = [generation EXCEPT ![c] = next]
  BY DEF Model!Begin, Model!Refused, Model!Become
<1>4. next \in Generation /\ WholeCall(next) /\ next.stage # "idle"
  <2>1. CASE next = [generation[c] EXCEPT !.stage = "done", !.result = "error"]
    <3>1. /\ next.stage = "done" /\ next.result = "error" /\ next.directory = generation[c].directory
          /\ next.child = generation[c].child /\ next.grace = generation[c].grace
          /\ next \in Generation
      BY <1>1, <2>1 DEF Generation, Model!Results
    <3> QED BY <1>1, <3>1 DEF WholeCall
  <2>2. CASE next = [generation[c] EXCEPT !.stage = "made", !.directory = TRUE]
    BY <1>1, <2>2 DEF Generation, WholeCall
  <2> QED BY <1>3, <2>1, <2>2
<1> QED BY <1>1, <1>2, <1>3, <1>4, GenerationStep

\* How a call leaves what it began.
LEMMA LeaveIsWhole ==
    ASSUME ModelInv, NEW c \in Generations, NEW result \in Model!Results,
           (generation[c].signal = "in time" \/ generation[c].over) => result # "text"
    PROVE  /\ Model!Leave(c, result) \in Generation /\ WholeCall(Model!Leave(c, result))
           /\ Model!Leave(c, result).stage = "leaving"
<1>1. generation[c] \in Generation
  BY ModelFacts
<1> QED BY <1>1 DEF Model!Leave, Generation, WholeCall

\* A step of a call that has begun.
LEMMA RunningStep ==
    ASSUME ModelInv, NEW c \in Generations, NEW next \in Generation, WholeCall(next),
           generation' = [generation EXCEPT ![c] = next], line' = line,
           BegunCall(generation[c].stage), generation[c].stage # "done", next.stage # "idle"
    PROVE  ModelInv'
  BY GenerationStep DEF BegunCall

LEMMA ResultsAre ==
    {"AbortError", "CODEX_CLI_OUTPUT_LIMIT", "CODEX_CLI_EXIT", "error", "text"} \subseteq Model!Results
  BY DEF Model!Results

LEMMA ModelWorkInv == ASSUME ModelInv, NEW c \in Generations, Model!Work(c) PROVE ModelInv'
<1> USE ModelFacts, ResultsAre
<1>1. CASE Model!Spawn(c)
  <2>1. generation[c].stage = "made" /\ line' = line /\ BegunCall(generation[c].stage)
    BY <1>1 DEF Model!Spawn, BegunCall
  <2>2. ASSUME NEW result \in {"AbortError", "error"}, Model!Become(c, Model!Leave(c, result))
        PROVE  ModelInv'
    BY <2>1, <2>2, LeaveIsWhole, RunningStep DEF Model!Become
  <2>3. ASSUME NEW child \in {"runs", "fails"}, generation[c].signal = "none",
               Model!Become(c, [generation[c] EXCEPT !.stage = "running", !.child = child])
        PROVE  ModelInv'
    <3> DEFINE next == [generation[c] EXCEPT !.stage = "running", !.child = child]
    <3>1. next \in Generation /\ WholeCall(next) /\ next.stage = "running"
      BY <2>1, <2>3 DEF Generation, WholeCall, Model!Alive
    <3> QED BY <2>1, <2>3, <3>1, RunningStep DEF Model!Become
  <2> QED BY <1>1, <2>2, <2>3 DEF Model!Spawn
<1>2. CASE Model!ErrorEvent(c)
  <2>1. BegunCall(generation[c].stage) /\ generation[c].stage # "done" /\ line' = line
    BY <1>2 DEF Model!ErrorEvent, WholeCall, BegunCall
  <2> QED BY <1>2, <2>1, LeaveIsWhole, RunningStep DEF Model!ErrorEvent, Model!Become
<1>3. CASE Model!Read(c)
  <2>1. /\ generation[c].stage = "read" /\ BegunCall(generation[c].stage) /\ line' = line
        /\ generation[c].signal # "in time" /\ ~generation[c].over
    BY <1>3 DEF Model!Read, WholeCall, BegunCall
  <2> QED BY <1>3, <2>1, LeaveIsWhole, RunningStep DEF Model!Read, Model!Become
<1>4. CASE Model!Remove(c)
  <2> DEFINE next == [generation[c] EXCEPT !.stage = "done", !.directory = FALSE]
  <2>1. generation[c].stage = "leaving" /\ line' = line /\ BegunCall(generation[c].stage)
    BY <1>4 DEF Model!Remove, BegunCall
  <2>2. next \in Generation /\ WholeCall(next) /\ next.stage = "done"
    BY <2>1 DEF Generation, WholeCall
  <2> QED BY <1>4, <2>1, <2>2, RunningStep DEF Model!Remove, Model!Become
<1> QED BY <1>1, <1>2, <1>3, <1>4 DEF Model!Work

LEMMA ModelAbortInv == ASSUME ModelInv, NEW c \in Generations, Model!Abort(c) PROVE ModelInv'
<1> USE ModelFacts
<1>1. /\ generation[c] \in Generation /\ WholeCall(generation[c]) /\ line' = line
      /\ generation[c].stage \notin {"idle", "done"} /\ generation[c].signal = "none"
  BY DEF Model!Abort
<1>2. CASE generation[c].stage = "running"
  <2> DEFINE now == [generation[c] EXCEPT !.signal = "in time", !.aborted = TRUE]
  <2>1. now \in Generation /\ WholeCall(now) /\ now.stage = "running"
    BY <1>1, <1>2 DEF Generation, WholeCall
  <2>2. generation' = [generation EXCEPT ![c] = Model!Asked(now)]
    BY <1>2 DEF Model!Abort, Model!Become
  <2> HIDE DEF now
  <2>3. Model!Asked(now) \in Generation /\ WholeCall(Model!Asked(now)) /\ Model!Asked(now).stage = "running"
    BY <2>1 DEF Model!Asked, Generation, WholeCall, Model!Alive
  <2> QED BY <1>1, <1>2, <2>2, <2>3, RunningStep DEF BegunCall
<1>3. CASE generation[c].stage # "running"
  <2> DEFINE next == [generation[c] EXCEPT !.signal =
                        IF generation[c].stage \in {"waiting", "made"} THEN "in time" ELSE "late"]
  <2>1. next \in Generation /\ WholeCall(next) /\ next.stage = generation[c].stage
    BY <1>1, <1>3 DEF Generation, WholeCall
  <2>2. generation' = [generation EXCEPT ![c] = next]
    BY <1>3 DEF Model!Abort, Model!Become
  <2> HIDE DEF next
  <2> QED BY <1>1, <2>1, <2>2, GenerationStep
<1> QED BY <1>2, <1>3

LEMMA ProcessInv ==
    ASSUME ModelInv, NEW c \in Generations,
           Model!PrintsTooMuch(c) \/ Model!GraceEnds(c) \/ Model!Close(c)
    PROVE  ModelInv'
<1> USE ModelFacts
<1>1. CASE Model!PrintsTooMuch(c)
  <2> DEFINE now == [generation[c] EXCEPT !.over = TRUE]
  <2>1. generation[c].stage = "running" /\ line' = line
    BY <1>1 DEF Model!PrintsTooMuch, WholeCall, Generation, Model!Alive
  <2>2. now \in Generation /\ WholeCall(now) /\ now.stage = "running"
    BY <2>1 DEF Generation, WholeCall
  <2>3. generation' = [generation EXCEPT ![c] = Model!Asked(now)]
    BY <1>1 DEF Model!PrintsTooMuch, Model!Become
  <2> HIDE DEF now
  <2>4. Model!Asked(now) \in Generation /\ WholeCall(Model!Asked(now)) /\ Model!Asked(now).stage = "running"
    BY <2>2 DEF Model!Asked, Generation, WholeCall, Model!Alive
  <2> QED BY <2>1, <2>3, <2>4, RunningStep DEF BegunCall
<1>2. CASE Model!GraceEnds(c)
  <2> DEFINE next == [generation[c] EXCEPT !.grace = FALSE,
                                           !.child = IF @ \in Model!Alive THEN "killed" ELSE @]
  <2>1. generation[c].stage = "running" /\ line' = line
    BY <1>2 DEF Model!GraceEnds, WholeCall, Generation
  <2>2. next \in Generation /\ WholeCall(next) /\ next.stage = "running"
    BY <2>1 DEF Generation, WholeCall, Model!Alive
  <2> QED BY <1>2, <2>1, <2>2, RunningStep DEF BegunCall, Model!GraceEnds, Model!Become
<1>3. CASE Model!Close(c)
  <2>1. generation[c].stage = "running" /\ line' = line
    BY <1>3 DEF Model!Close, WholeCall, Generation, Model!Alive
  <2>2. ASSUME NEW result \in {"AbortError", "CODEX_CLI_OUTPUT_LIMIT", "CODEX_CLI_EXIT"},
               Model!Become(c, Model!Leave(c, result))
        PROVE  ModelInv'
    BY <2>1, <2>2, LeaveIsWhole, RunningStep, ResultsAre DEF Model!Become, BegunCall
  <2>3. ASSUME ~generation[c].aborted, ~generation[c].over,
               Model!Become(c, [generation[c] EXCEPT !.stage = "read", !.child = "ended", !.grace = FALSE])
        PROVE  ModelInv'
    <3> DEFINE next == [generation[c] EXCEPT !.stage = "read", !.child = "ended", !.grace = FALSE]
    <3>1. next \in Generation /\ WholeCall(next) /\ next.stage = "read"
      BY <2>1, <2>3 DEF Generation, WholeCall
    <3> QED BY <2>1, <2>3, <3>1, RunningStep DEF BegunCall, Model!Become
  <2> QED BY <1>3, <2>2, <2>3 DEF Model!Close
<1> QED BY <1>1, <1>2, <1>3

LEMMA ModelNextInv == ModelInv /\ [Model!Next]_(Model!vars) => ModelInv'
<1> SUFFICES ASSUME ModelInv, [Model!Next]_(Model!vars) PROVE ModelInv'
  OBVIOUS
<1>1. CASE UNCHANGED Model!vars
  BY <1>1 DEF Model!vars, ModelInv, InTurn
<1> QED BY <1>1, GenerateInv, ModelBeginInv, ModelWorkInv, ModelAbortInv, ProcessInv DEF Model!Next

\* The model answers no call that was aborted in time or cut off, with one process
\* and one directory at a time, for any number of calls (codex-cli-model.ts).
THEOREM ModelAnswersWhole ==
    Model!Spec => [](Model!TypeOK /\ Model!AnswersAreWhole)
<1>1. Model!Init => ModelInv
  BY ModelInitInv
<1>2. ModelInv /\ [Model!Next]_(Model!vars) => ModelInv'
  BY ModelNextInv
<1>3. ModelInv => Model!TypeOK /\ Model!AnswersAreWhole
  BY ModelInvSuffices
<1> QED BY <1>1, <1>2, <1>3, PTL DEF Model!Spec

-----------------------------------------------------------------------------
(* The observing of what the owner says *)

LEMMA ObservationCounts == \A S : Observations!Cardinality(S) = Cardinality(S)
  BY DEF Observations!Cardinality, Cardinality

LEMMA ObservationBounds ==
    MaxSources \in Nat /\ PageSize \in Nat /\ MaxLosses \in Nat /\ "nobody" \notin Preparers
  BY HostAssumption

LEMMA StatementsAreNumbered == \A s \in Observations!Sources : s \in Nat
  BY ObservationBounds DEF Observations!Sources

LEMMA EarliestStatement ==
    ASSUME NEW T \in SUBSET Observations!Sources, T # {}
    PROVE  Observations!Min(T) \in T /\ \A t \in T : Observations!Min(T) <= t
<1>1. T \in SUBSET Nat
  BY StatementsAreNumbered
<1>2. \E m \in T : \A t \in T : m <= t
  BY <1>1, LeastOf
<1> QED BY <1>2 DEF Observations!Min

LEMMA LatestStatement ==
    ASSUME NEW T \in SUBSET Observations!Sources, T # {}
    PROVE  Observations!Max(T) \in T /\ \A t \in T : t <= Observations!Max(T)
<1>1. MaxSources \in Nat /\ T \in SUBSET (1..MaxSources)
  BY ObservationBounds DEF Observations!Sources
<1>2. \E m \in T : \A t \in T : t <= m
  BY <1>1, LargestOf
<1> QED BY <1>2 DEF Observations!Max

\* The first of a page are all up to its last, and when they are not as many as a
\* page takes there are no more.
LEMMA PageIsFirst ==
    ASSUME NEW p \in Preparers
    PROVE  LET A == Observations!Accepted(p)
               F == Observations!FirstPage(p)
           IN  /\ A \in SUBSET Observations!Sources /\ F \in SUBSET A
               /\ \A m \in F, s \in A : s <= m => s \in F
               /\ Observations!Cardinality(F) # PageSize => F = A
<1> DEFINE A == Observations!Accepted(p)
           F == Observations!FirstPage(p)
           Before(s) == {t \in A : t < s}
<1>1. /\ A \in SUBSET Observations!Sources /\ F \in SUBSET A
      /\ \A s \in A : s \in F <=> Cardinality(Before(s)) < PageSize
  BY ObservationCounts DEF Observations!Accepted, Observations!Said, Observations!FirstPage
<1> HIDE DEF A, F
<1>2. PageSize \in Nat /\ \A s \in A : s \in Nat
  BY <1>1, ObservationBounds DEF Observations!Sources
<1>3. IsFiniteSet(A)
  <2>1. IsFiniteSet(1..MaxSources)
    BY ObservationBounds, FS_Interval
  <2> QED BY <1>1, <2>1, FS_Subset DEF Observations!Sources
<1>4. \A s : Before(s) \in SUBSET A /\ IsFiniteSet(Before(s)) /\ Cardinality(Before(s)) \in Nat
  BY <1>3, FS_Subset, FS_CardinalityType
<1>5. \A s \in A, t \in A : t \in Before(s) <=> t < s
  OBVIOUS
<1> HIDE DEF Before
<1>6. \A m \in F, s \in A : s <= m => s \in F
  <2> SUFFICES ASSUME NEW m \in F, NEW s \in A, s <= m PROVE s \in F
    OBVIOUS
  <2>1. Before(s) \in SUBSET Before(m)
    BY <1>1, <1>2, <1>4, <1>5
  <2>2. Cardinality(Before(s)) <= Cardinality(Before(m))
    BY <2>1, <1>4, FS_Subset
  <2> QED BY <2>2, <1>1, <1>2, <1>4
<1>7. IsFiniteSet(F) /\ Cardinality(F) \in Nat
  BY <1>1, <1>3, FS_Subset, FS_CardinalityType
<1>8. Cardinality(F) <= PageSize
  <2>1. CASE F = {}
    <3>1. Cardinality(F) = 0
      BY <2>1, FS_EmptySet
    <3> QED BY <3>1, <1>2
  <2>2. CASE F # {}
    <3>1. PICK m \in F : \A t \in F : t <= m
      BY <2>2, <1>1, LatestStatement
    <3>2. F \ {m} \in SUBSET Before(m)
      BY <3>1, <1>1, <1>2, <1>5
    <3>3. Cardinality(F \ {m}) <= Cardinality(Before(m))
      BY <3>2, <1>4, FS_Subset
    <3>4. Cardinality(F \ {m}) = Cardinality(F) - 1
      BY <1>7, FS_RemoveElement
    <3> QED BY <3>3, <3>4, <1>1, <1>2, <1>4, <1>7
  <2> QED BY <2>1, <2>2
<1>9. ASSUME F # A PROVE Cardinality(F) >= PageSize
  <2>1. PICK j \in A \ F : \A k \in A \ F : j <= k
    <3>1. A \ F \in SUBSET Observations!Sources /\ A \ F # {}
      BY <1>1, <1>9
    <3> QED BY <3>1, EarliestStatement
  <2>2. Before(j) \in SUBSET F
    <3>1. ASSUME NEW t \in A, t < j, t \notin F PROVE FALSE
      BY <2>1, <3>1, <1>2
    <3> QED BY <3>1, <1>4, <1>5
  <2>3. Cardinality(Before(j)) <= Cardinality(F)
    BY <2>2, <1>7, FS_Subset
  <2> QED BY <2>3, <1>1, <1>2, <1>4, <1>7
<1> QED BY <1>1, <1>2, <1>6, <1>7, <1>8, <1>9, ObservationCounts DEF A, F

-----------------------------------------------------------------------------

Preparer == [stage : {"idle", "waiting", "deferred", "reading", "appending", "saving", "observing",
                      "done"},
             cutoff : Nat, due : SUBSET Observations!Sources, page : SUBSET Observations!Sources,
             full : BOOLEAN, cursor : Nat, lost : BOOLEAN]

ObservingTypes ==
    /\ source \in [Observations!Sources ->
                      [state : {"unsaid", "open", "said"}, created : Nat, said : Nat]]
    /\ moment \in Nat
    /\ saved \in [Observations!Sources -> {"absent", "new", "old"}]
    /\ observed \in Seq(SUBSET Observations!Sources)
    /\ lock \in Preparers \cup {"nobody"}
    /\ prep \in [Preparers -> Preparer]
    /\ losses = 0

\* Statements are begun in their order, each at a moment before that it is said.
SaidInOrder ==
    /\ \A s \in Observations!Sources :
          /\ source[s].created <= moment /\ source[s].said <= moment
          /\ source[s].state = "said" => source[s].created < source[s].said
    /\ \A s, t \in Observations!Sources : s < t /\ source[t].state # "unsaid" =>
          source[s].state # "unsaid" /\ source[s].created < source[t].created

\* Nothing is saved before what was said before it was begun has been observed.
SavedInOrder ==
    \A s \in Observations!Sources : saved[s] # "absent" =>
        /\ source[s].state = "said"
        /\ \A j \in Observations!Said : source[j].said < source[s].created => saved[j] = "old"

OldWasObserved ==
    \A s \in Observations!Sources :
        saved[s] = "old" <=> \E i \in DOMAIN observed : s \in observed[i]

\* Who holds the lock has observed all before the cursor but what is left of a page.
AtWork(now) == now.stage \in {"reading", "appending", "saving", "observing"}
Caught(now, stored) ==
    /\ ~ now.lost /\ (now.stage = "reading" => now.page = {})
    /\ \A j \in now.page : /\ source[j].state = "said"
                           /\ source[j].created <= now.cutoff /\ j <= now.cursor
    /\ \A j \in now.due : stored[j] = "old" \/ j \in now.page \/ j > now.cursor
    /\ now.stage = "saving" => now.page # {} /\ stored[Observations!Min(now.page)] = "absent"
    /\ now.stage = "observing" => now.page # {} /\ stored[Observations!Min(now.page)] # "absent"
    /\ now.stage # "reading" /\ ~ now.full => \A j \in now.due : j <= now.cursor

Prepares(p) ==
    /\ prep[p].cutoff <= moment
    /\ prep[p].stage \notin {"idle", "done"} =>
           prep[p].due = {s \in Observations!Said : source[s].said <= prep[p].cutoff}
    /\ prep[p].stage \in {"waiting", "deferred"} =>
           prep[p].page = {} /\ prep[p].cursor = 0 /\ ~ prep[p].lost
    /\ prep[p].stage = "done" => \A j \in prep[p].due : saved[j] = "old"
    /\ AtWork(prep[p]) => lock = p /\ Caught(prep[p], saved)

ObservingInv ==
    /\ ObservingTypes /\ SaidInOrder /\ SavedInOrder /\ OldWasObserved
    /\ Observations!CorrectionsComeLater
    /\ \A p \in Preparers : Prepares(p)

LEMMA ObservingTells ==
    ASSUME ObservingInv
    PROVE  /\ Observations!TypeOK /\ Observations!CorrectionsComeLater
           /\ Observations!PreparedIsComplete
<1>1. Observations!TypeOK
  BY DEF ObservingInv, ObservingTypes, Prepares, Observations!TypeOK, Observations!Nobody
<1>2. Observations!PreparedIsComplete
  <2> SUFFICES ASSUME NEW p \in Preparers, Observations!At(p, "done"), NEW j \in prep[p].due
               PROVE  j \in UNION Observations!Range(observed)
    BY DEF Observations!PreparedIsComplete
  <2>1. j \in Observations!Sources /\ saved[j] = "old"
    BY DEF ObservingInv, ObservingTypes, Prepares, Preparer, Observations!At
  <2>2. PICK i \in DOMAIN observed : j \in observed[i]
    BY <2>1 DEF ObservingInv, OldWasObserved
  <2> QED BY <2>2 DEF Observations!Range
<1> QED BY <1>1, <1>2 DEF ObservingInv

LEMMA ObservingInitInv ==
    ASSUME Observations!Init PROVE ObservingInv
<1>1. ObservingTypes
  BY ObservationBounds DEF Observations!Init, ObservingTypes, Preparer, Observations!Outside,
     Observations!Nobody
<1>2. SaidInOrder /\ SavedInOrder /\ OldWasObserved /\ Observations!CorrectionsComeLater
  BY DEF Observations!Init, SaidInOrder, SavedInOrder, OldWasObserved,
     Observations!CorrectionsComeLater
<1>3. \A p \in Preparers : Prepares(p)
  BY DEF Observations!Init, Prepares, Observations!Outside, AtWork
<1> QED BY <1>1, <1>2, <1>3 DEF ObservingInv

(* Steps of the owner *)

LEMMA SayInv ==
    ASSUME ObservingInv, NEW s \in Observations!Sources, Observations!Say(s)
    PROVE  ObservingInv'
<1> USE DEF ObservingInv
<1>1. /\ source[s].state = "unsaid" /\ moment' = moment + 1
      /\ source' = [source EXCEPT ![s] = [state |-> "open", created |-> moment + 1, said |-> 0]]
      /\ \A t \in Observations!Sources : t < s => source[t].state # "unsaid"
      /\ UNCHANGED <<saved, observed, lock, prep, losses>>
  BY ObservationBounds DEF Observations!Say, Observations!Tick, Observations!Sources
<1>2. moment \in Nat /\ \A t \in Observations!Sources :
          t \in Nat /\ source[t] \in [state : {"unsaid", "open", "said"}, created : Nat, said : Nat]
  BY StatementsAreNumbered DEF ObservingTypes
<1>3. /\ \A t \in Observations!Sources : t # s => source'[t] = source[t]
      /\ source'[s] = [state |-> "open", created |-> moment + 1, said |-> 0]
  BY <1>1 DEF ObservingTypes
<1>4. Observations!Said' = Observations!Said
  BY <1>1, <1>3 DEF Observations!Said
<1>5. ObservingTypes'
  BY <1>1, <1>2 DEF ObservingTypes
<1>6. SaidInOrder'
  <2>1. \A t \in Observations!Sources : t > s => source[t].state = "unsaid"
    BY <1>1, <1>2 DEF SaidInOrder
  <2>2. \A t \in Observations!Sources :
            /\ source'[t].created <= moment' /\ source'[t].said <= moment'
            /\ source'[t].state = "said" => source'[t].created < source'[t].said
    BY <1>1, <1>2, <1>3 DEF SaidInOrder
  <2>3. \A r, t \in Observations!Sources : r < t /\ source'[t].state # "unsaid" =>
            source'[r].state # "unsaid" /\ source'[r].created < source'[t].created
    BY <1>1, <1>2, <1>3, <2>1 DEF SaidInOrder
  <2> QED BY <2>2, <2>3 DEF SaidInOrder
<1>7. saved[s] = "absent" /\ s \notin Observations!Said
  BY <1>1 DEF SavedInOrder, ObservingTypes, Observations!Said
<1>8. SavedInOrder'
  BY <1>1, <1>3, <1>4, <1>7 DEF SavedInOrder, Observations!Said
<1>9. OldWasObserved'
  BY <1>1 DEF OldWasObserved
<1>10. Observations!CorrectionsComeLater'
  <2>1. \A i \in DOMAIN observed : s \notin observed[i]
    BY <1>7 DEF OldWasObserved
  <2>2. \A i \in DOMAIN observed : observed[i] \subseteq Observations!Sources
    BY DEF ObservingTypes
  <2> QED BY <1>1, <1>3, <2>1, <2>2 DEF Observations!CorrectionsComeLater
<1>11. ASSUME NEW p \in Preparers PROVE Prepares(p)'
  <2>1. prep[p] \in Preparer /\ Prepares(p)
    BY DEF ObservingTypes
  <2>2. s \notin Observations!Said /\ \A t \in Observations!Said : t # s
    BY <1>7
  <2>3. prep[p].stage \notin {"idle", "done"} =>
            prep[p].due = {t \in Observations!Said : source'[t].said <= prep[p].cutoff}
    BY <2>1, <2>2, <1>3 DEF Prepares, Observations!Said
  <2>4. AtWork(prep[p]) => Caught(prep[p], saved)'
    BY <1>1, <1>3, <2>1 DEF Prepares, Caught, Preparer
  <2>5. prep[p].cutoff <= moment'
    BY <1>1, <1>2, <2>1 DEF Prepares, Preparer
  <2> QED BY <1>1, <1>4, <2>1, <2>3, <2>4, <2>5 DEF Prepares, AtWork
<1> QED BY <1>5, <1>6, <1>8, <1>9, <1>10, <1>11

LEMMA CommitSourceInv ==
    ASSUME ObservingInv, NEW s \in Observations!Sources, Observations!Commit(s)
    PROVE  ObservingInv'
<1> USE DEF ObservingInv
<1>1. /\ source[s].state = "open" /\ moment' = moment + 1
      /\ source' = [source EXCEPT ![s] =
              [state |-> "said", created |-> source[s].created, said |-> moment + 1]]
      /\ UNCHANGED <<saved, observed, lock, prep, losses>>
  BY DEF Observations!Commit, Observations!Tick
<1>2. moment \in Nat /\ \A t \in Observations!Sources :
          t \in Nat /\ source[t] \in [state : {"unsaid", "open", "said"}, created : Nat, said : Nat]
  BY StatementsAreNumbered DEF ObservingTypes
<1>3. /\ \A t \in Observations!Sources : t # s => source'[t] = source[t]
      /\ source'[s].state = "said" /\ source'[s].said = moment + 1
      /\ source'[s].created = source[s].created
  BY <1>1 DEF ObservingTypes
<1>4. s \notin Observations!Said /\ Observations!Said' = Observations!Said \cup {s}
  BY <1>1, <1>3 DEF Observations!Said
<1>5. ObservingTypes'
  BY <1>1, <1>2 DEF ObservingTypes
<1>6. SaidInOrder'
  <2>1. \A t \in Observations!Sources :
            /\ source'[t].created <= moment' /\ source'[t].said <= moment'
            /\ source'[t].state = "said" => source'[t].created < source'[t].said
    BY <1>1, <1>2, <1>3 DEF SaidInOrder
  <2>2. \A r, t \in Observations!Sources : r < t /\ source'[t].state # "unsaid" =>
            source'[r].state # "unsaid" /\ source'[r].created < source'[t].created
    <3>1. \A t \in Observations!Sources :
              /\ source'[t].created = source[t].created
              /\ (source'[t].state = "unsaid") <=> (source[t].state = "unsaid")
      BY <1>1, <1>3
    <3> QED BY <3>1 DEF SaidInOrder
  <2> QED BY <2>1, <2>2 DEF SaidInOrder
<1>7. saved[s] = "absent"
  BY <1>1 DEF SavedInOrder, ObservingTypes
<1>8. SavedInOrder'
  <2> SUFFICES ASSUME NEW t \in Observations!Sources, saved[t] # "absent"
               PROVE  /\ source'[t].state = "said"
                      /\ \A j \in Observations!Said' :
                            source'[j].said < source'[t].created => saved[j] = "old"
    BY <1>1 DEF SavedInOrder, Observations!Sources
  <2>1. t # s /\ source'[t] = source[t] /\ source[t].created <= moment
    BY <1>3, <1>7 DEF SaidInOrder
  <2>2. ~ (source'[s].said < source'[t].created)
    BY <1>2, <1>3, <2>1
  <2> QED BY <1>3, <1>4, <2>1, <2>2 DEF SavedInOrder, Observations!Said
<1>9. OldWasObserved'
  BY <1>1 DEF OldWasObserved
<1>10. Observations!CorrectionsComeLater'
  <2>1. \A i \in DOMAIN observed : s \notin observed[i]
    BY <1>7 DEF OldWasObserved
  <2>2. \A i \in DOMAIN observed : observed[i] \subseteq Observations!Sources
    BY DEF ObservingTypes
  <2>3. \A i \in DOMAIN observed : \A t \in observed[i] : source'[t] = source[t]
    BY <1>3, <2>1, <2>2
  <2>4. observed' = observed
    BY <1>1
  <2> QED BY <2>3, <2>4 DEF Observations!CorrectionsComeLater
<1>11. ASSUME NEW p \in Preparers PROVE Prepares(p)'
  <2>1. prep[p] \in Preparer /\ Prepares(p)
    BY DEF ObservingTypes
  <2>2. ~ (source'[s].said <= prep[p].cutoff) /\ prep[p].cutoff <= moment'
    BY <1>1, <1>2, <1>3, <2>1 DEF Prepares, Preparer
  <2>3. prep[p].stage \notin {"idle", "done"} =>
            prep[p].due = {t \in Observations!Said' : source'[t].said <= prep[p].cutoff}
    BY <2>1, <2>2, <1>3, <1>4 DEF Prepares, Observations!Said
  <2>4. AtWork(prep[p]) => Caught(prep[p], saved)'
    BY <1>1, <1>3, <2>1 DEF Prepares, Caught, Preparer
  <2> QED BY <1>1, <2>1, <2>2, <2>3, <2>4 DEF Prepares, AtWork
<1> QED BY <1>5, <1>6, <1>8, <1>9, <1>10, <1>11

-----------------------------------------------------------------------------
(* Steps of a preparer *)

\* One that only prepares gives no other preparer something to prove.
LEMMA PrepareStep ==
    ASSUME ObservingInv, NEW p \in Preparers, NEW now \in Preparer,
           prep' = [prep EXCEPT ![p] = now], lock' \in Preparers \cup {"nobody"},
           \A q \in Preparers \ {p} : lock = q => lock' = q,
           UNCHANGED <<source, moment, saved, observed, losses>>, Prepares(p)'
    PROVE  ObservingInv'
<1> USE DEF ObservingInv
<1>1. ObservingTypes'
  BY DEF ObservingTypes
<1>2. SaidInOrder' /\ SavedInOrder' /\ OldWasObserved' /\ Observations!CorrectionsComeLater'
  BY DEF SaidInOrder, SavedInOrder, OldWasObserved, Observations!CorrectionsComeLater,
     Observations!Said
<1>3. ASSUME NEW q \in Preparers PROVE Prepares(q)'
  <2>1. CASE q = p
    BY <2>1
  <2>2. CASE q # p
    <3>1. prep'[q] = prep[q] /\ Prepares(q)
      BY <2>2 DEF ObservingTypes
    <3>2. Observations!Said' = Observations!Said
      BY DEF Observations!Said
    <3>3. AtWork(prep[q]) => Caught(prep[q], saved)'
      BY <3>1 DEF Prepares, Caught
    <3> QED BY <2>2, <3>1, <3>2, <3>3 DEF Prepares, AtWork, Caught
  <2> QED BY <2>1, <2>2
<1> QED BY <1>1, <1>2, <1>3

LEMMA PreparerFacts ==
    ASSUME ObservingInv, NEW p \in Preparers
    PROVE  prep[p] \in Preparer /\ Prepares(p) /\ moment \in Nat /\ p # "nobody"
  BY ObservationBounds DEF ObservingInv, ObservingTypes

LEMMA ObservingBeginInv ==
    ASSUME ObservingInv, NEW p \in Preparers, Observations!Begin(p)
    PROVE  ObservingInv'
<1> DEFINE now == [stage |-> "waiting", cutoff |-> moment, due |-> Observations!Said, page |-> {},
                   full |-> FALSE, cursor |-> 0, lost |-> FALSE]
<1>1. prep' = [prep EXCEPT ![p] = now] /\ now \in Preparer
  <2>1. prep' = [prep EXCEPT ![p] = now]
    BY DEF Observations!Begin, Observations!Outside
  <2> QED BY <2>1, PreparerFacts DEF Preparer, Observations!Said
<1>2. UNCHANGED <<source, moment, saved, observed, lock, losses>> /\ prep'[p] = now
  BY <1>1 DEF Observations!Begin, ObservingInv, ObservingTypes
<1>3. Observations!Said = {s \in Observations!Said : source[s].said <= moment}
  BY DEF ObservingInv, SaidInOrder, Observations!Said
<1>4. Observations!Said' = Observations!Said
  BY <1>2 DEF Observations!Said
<1>5. Prepares(p)'
  BY <1>2, <1>3, <1>4, PreparerFacts DEF Prepares, AtWork
<1>6. lock' \in Preparers \cup {"nobody"} /\ \A q \in Preparers \ {p} : lock = q => lock' = q
  BY <1>2 DEF ObservingInv, ObservingTypes
<1> HIDE DEF now
<1> QED BY <1>1, <1>2, <1>5, <1>6, PrepareStep

\* Who fails or finds the session lost is to begin again under the same cutoff.
LEMMA DeferStep ==
    ASSUME ObservingInv, NEW p \in Preparers, prep[p].stage \notin {"idle", "done"},
           NEW stage \in {"waiting", "deferred"},
           prep' = [prep EXCEPT ![p] = [stage |-> stage, cutoff |-> prep[p].cutoff,
               due |-> prep[p].due, page |-> {}, full |-> FALSE, cursor |-> 0, lost |-> FALSE]],
           lock' \in Preparers \cup {"nobody"}, \A q \in Preparers \ {p} : lock = q => lock' = q,
           UNCHANGED <<source, moment, saved, observed, losses>>
    PROVE  ObservingInv'
<1> DEFINE now == [stage |-> stage, cutoff |-> prep[p].cutoff,
               due |-> prep[p].due, page |-> {}, full |-> FALSE, cursor |-> 0, lost |-> FALSE]
<1>1. now \in Preparer /\ prep'[p] = now
  BY PreparerFacts DEF Preparer, ObservingInv, ObservingTypes
<1>2. Observations!Said' = Observations!Said
  BY DEF Observations!Said
<1>3. Prepares(p)'
  BY <1>1, <1>2, PreparerFacts DEF Prepares, AtWork, Preparer
<1> HIDE DEF now
<1> QED BY <1>1, <1>3, PrepareStep DEF now

LEMMA ObservingResumeInv ==
    ASSUME ObservingInv, NEW p \in Preparers, Observations!Resume(p)
    PROVE  ObservingInv'
<1>1. prep[p].stage = "deferred" /\ UNCHANGED <<source, moment, saved, observed, lock, losses>>
  BY DEF Observations!Resume, Observations!At
<1> DEFINE now == [prep[p] EXCEPT !.stage = "waiting"]
<1>2. prep' = [prep EXCEPT ![p] = now] /\ now \in Preparer /\ prep'[p] = now
  BY PreparerFacts DEF Observations!Resume, Observations!Go, Preparer, ObservingInv, ObservingTypes
<1>3. Observations!Said' = Observations!Said
  BY <1>1 DEF Observations!Said
<1>4. Prepares(p)'
  BY <1>1, <1>2, <1>3, PreparerFacts DEF Prepares, AtWork, Preparer
<1>5. lock' \in Preparers \cup {"nobody"} /\ \A q \in Preparers \ {p} : lock = q => lock' = q
  BY <1>1 DEF ObservingInv, ObservingTypes
<1> HIDE DEF now
<1> QED BY <1>1, <1>2, <1>4, <1>5, PrepareStep

\* A step to work, or of who is at work.
LEMMA WorkingStep ==
    ASSUME ObservingInv, NEW p \in Preparers, prep[p].stage \notin {"idle", "done"},
           lock \in {p, "nobody"}, lock' = p,
           NEW now \in Preparer, AtWork(now), now.cutoff = prep[p].cutoff, now.due = prep[p].due,
           prep' = [prep EXCEPT ![p] = now], Caught(now, saved),
           UNCHANGED <<source, moment, saved, observed, losses>>
    PROVE  ObservingInv'
<1>1. prep'[p] = now
  BY DEF ObservingInv, ObservingTypes
<1>2. Observations!Said' = Observations!Said
  BY DEF Observations!Said
<1>3. Caught(now, saved)'
  BY DEF Caught
<1>4. Prepares(p)'
  BY <1>1, <1>2, <1>3, PreparerFacts DEF Prepares, AtWork
<1>5. \A q \in Preparers \ {p} : lock = q => lock' = q
  BY ObservationBounds
<1> QED BY <1>4, <1>5, PrepareStep

LEMMA ObservingLockInv ==
    ASSUME ObservingInv, NEW p \in Preparers, Observations!Lock(p)
    PROVE  ObservingInv'
<1>1. /\ prep[p].stage = "waiting" /\ lock = "nobody" /\ lock' = p
      /\ UNCHANGED <<source, moment, saved, observed, losses>>
  BY DEF Observations!Lock, Observations!At, Observations!Nobody
<1> DEFINE now == [prep[p] EXCEPT !.stage = "reading"]
<1>2. prep' = [prep EXCEPT ![p] = now]
  BY DEF Observations!Lock, Observations!Go, ObservingInv, ObservingTypes
<1>3. /\ now \in Preparer /\ AtWork(now) /\ now.cutoff = prep[p].cutoff /\ now.due = prep[p].due
      /\ now.page = {} /\ now.cursor = 0 /\ ~ now.lost /\ now.stage = "reading"
  BY <1>1, PreparerFacts DEF Preparer, AtWork, Prepares
<1>4. Caught(now, saved)
  <2>1. \A j \in prep[p].due : j \in Nat /\ j > 0
    BY PreparerFacts, ObservationBounds DEF Preparer, Observations!Sources
  <2> HIDE DEF now
  <2> QED BY <1>3, <2>1 DEF Caught
<1> HIDE DEF now
<1> QED BY <1>1, <1>2, <1>3, <1>4, WorkingStep

LEMMA ReadStatementsInv ==
    ASSUME ObservingInv, NEW p \in Preparers, Observations!ReadPage(p)
    PROVE  ObservingInv'
<1> DEFINE A == Observations!Accepted(p)
           F == Observations!FirstPage(p)
           next == IF F = {} THEN prep[p].cursor ELSE Observations!Max(F)
           now == [prep[p] EXCEPT !.page = F, !.full = Observations!Cardinality(F) = PageSize,
                      !.cursor = next, !.stage = "appending"]
<1>1. prep[p].stage = "reading" /\ UNCHANGED <<source, moment, saved, observed, lock, losses>>
  BY DEF Observations!ReadPage, Observations!At
<1>2. prep' = [prep EXCEPT ![p] = now]
  BY PreparerFacts DEF Observations!ReadPage, ObservingInv, ObservingTypes
<1>3. /\ prep[p] \in Preparer /\ Prepares(p) /\ lock = p /\ Caught(prep[p], saved)
      /\ prep[p].page = {} /\ ~ prep[p].lost
  BY <1>1, PreparerFacts DEF Prepares, AtWork, Caught
<1>4. A \in SUBSET Observations!Sources /\ F \in SUBSET A
  BY PageIsFirst
<1>6. /\ \A m \in F, s \in A : s <= m => s \in F
      /\ Observations!Cardinality(F) # PageSize => F = A
  BY PageIsFirst
<1>7. \A s \in Observations!Sources : s \in Nat
  BY ObservationBounds DEF Observations!Sources
<1>8. /\ next \in Nat /\ prep[p].cursor <= next
      /\ \A s \in F : s <= next
      /\ \A s \in A : s <= next => s \in F
  <2>1. \A s \in A : s > prep[p].cursor
    BY DEF Observations!Accepted
  <2>2. CASE F = {}
    BY <2>1, <2>2, <1>3, <1>4, <1>7 DEF Preparer
  <2>3. CASE F # {}
    <3>1. next \in F /\ \A s \in F : s <= next
      <4> HIDE DEF A, F
      <4> QED BY <2>3, <1>4, LatestStatement
    <3> HIDE DEF A, F, next
    <3> QED BY <3>1, <2>1, <1>3, <1>4, <1>6, <1>7 DEF Preparer
  <2> QED BY <2>2, <2>3
<1>9. now \in Preparer /\ AtWork(now) /\ now.cutoff = prep[p].cutoff /\ now.due = prep[p].due
  <2>1. (Observations!Cardinality(F) = PageSize) \in BOOLEAN /\ F \in SUBSET Observations!Sources
    BY <1>4
  <2> HIDE DEF A, F, next
  <2> QED BY <2>1, <1>3, <1>8 DEF Preparer, AtWork
<1>10. \A j \in prep[p].due : j > prep[p].cursor => j \in A
  <2> SUFFICES ASSUME NEW j \in prep[p].due, j > prep[p].cursor PROVE j \in A
    OBVIOUS
  <2>1. j \in Observations!Said /\ source[j].said <= prep[p].cutoff
    BY <1>1, <1>3 DEF Prepares
  <2>2. /\ j \in Observations!Sources /\ source[j].created < source[j].said
        /\ source[j].created \in Nat /\ source[j].said \in Nat /\ prep[p].cutoff \in Nat
    BY <2>1, <1>3 DEF ObservingInv, ObservingTypes, SaidInOrder, Observations!Said, Preparer
  <2>3. source[j].created <= prep[p].cutoff
    BY <2>1, <2>2
  <2> QED BY <2>1, <2>3 DEF Observations!Accepted
<1>11. Caught(now, saved)
  <2>1. /\ now.stage = "appending" /\ now.page = F /\ now.cursor = next /\ now.lost = prep[p].lost
        /\ now.full = (Observations!Cardinality(F) = PageSize)
    BY <1>3 DEF Preparer
  <2>2. \A j \in F : source[j].state = "said" /\ source[j].created <= prep[p].cutoff
    BY <1>4 DEF Observations!Accepted, Observations!Said
  <2>3. \A j \in prep[p].due : j \in Nat /\ (j > prep[p].cursor \/ saved[j] = "old")
    BY <1>3, <1>7 DEF Caught, Preparer
  <2>4. \A j \in prep[p].due : saved[j] = "old" \/ j \in F \/ j > next
    BY <2>3, <1>8, <1>10
  <2>5. Observations!Cardinality(F) # PageSize => \A j \in prep[p].due : j <= next
    <3>1. ASSUME F = A, NEW j \in prep[p].due PROVE j <= next
      <4>1. CASE j > prep[p].cursor
        BY <3>1, <4>1, <1>8, <1>10
      <4>2. CASE ~ (j > prep[p].cursor)
        BY <3>1, <4>2, <2>3, <1>3, <1>8 DEF Preparer
      <4> QED BY <4>1, <4>2
    <3> QED BY <3>1, <1>6
  <2> HIDE DEF A, F, next, now
  <2> QED BY <2>1, <2>2, <2>4, <2>5, <1>3, <1>8, <1>9 DEF Caught
<1> HIDE DEF now
<1> QED BY <1>1, <1>2, <1>3, <1>9, <1>11, WorkingStep

LEMMA AddStatementInv ==
    ASSUME ObservingInv, NEW p \in Preparers, Observations!Add(p)
    PROVE  ObservingInv'
<1> DEFINE stage == IF saved[Observations!Min(prep[p].page)] = "absent" THEN "saving" ELSE "observing"
           now == [prep[p] EXCEPT !.stage = stage]
<1>1. /\ prep[p].stage = "appending" /\ prep[p].page # {}
      /\ UNCHANGED <<source, moment, saved, observed, lock, losses>>
  BY DEF Observations!Add, Observations!At
<1>2. prep' = [prep EXCEPT ![p] = now]
  BY PreparerFacts DEF Observations!Add, Observations!Go, Observations!Current, ObservingInv,
     ObservingTypes
<1>3. prep[p] \in Preparer /\ lock = p /\ Caught(prep[p], saved)
  BY <1>1, PreparerFacts DEF Prepares, AtWork
<1>4. /\ now \in Preparer /\ AtWork(now) /\ now.cutoff = prep[p].cutoff /\ now.due = prep[p].due
      /\ now.page = prep[p].page /\ now.full = prep[p].full /\ now.cursor = prep[p].cursor
      /\ now.lost = prep[p].lost /\ now.stage = stage
  BY <1>3 DEF Preparer, AtWork
<1>5. Caught(now, saved)
  <2> HIDE DEF now
  <2> QED BY <1>1, <1>3, <1>4 DEF Caught
<1> HIDE DEF now
<1> QED BY <1>1, <1>2, <1>3, <1>4, <1>5, WorkingStep

LEMMA NextStatementsInv ==
    ASSUME ObservingInv, NEW p \in Preparers, Observations!NextPage(p)
    PROVE  ObservingInv'
<1> DEFINE now == [prep[p] EXCEPT !.stage = "reading"]
<1>1. /\ prep[p].stage = "appending" /\ prep[p].page = {}
      /\ UNCHANGED <<source, moment, saved, observed, lock, losses>>
  BY DEF Observations!NextPage, Observations!At
<1>2. prep' = [prep EXCEPT ![p] = now]
  BY PreparerFacts DEF Observations!NextPage, Observations!Go, ObservingInv, ObservingTypes
<1>3. prep[p] \in Preparer /\ lock = p /\ Caught(prep[p], saved)
  BY <1>1, PreparerFacts DEF Prepares, AtWork
<1>4. /\ now \in Preparer /\ AtWork(now) /\ now.cutoff = prep[p].cutoff /\ now.due = prep[p].due
      /\ now.page = {} /\ now.cursor = prep[p].cursor
      /\ now.lost = prep[p].lost /\ now.stage = "reading"
  BY <1>1, <1>3 DEF Preparer, AtWork
<1>5. Caught(now, saved)
  <2> HIDE DEF now
  <2> QED BY <1>1, <1>3, <1>4 DEF Caught
<1> HIDE DEF now
<1> QED BY <1>1, <1>2, <1>3, <1>4, <1>5, WorkingStep

LEMMA FreesOwnLock ==
    ASSUME ObservingInv, NEW p \in Preparers, Observations!Unlock(p)
    PROVE  lock' \in Preparers \cup {"nobody"} /\ \A q \in Preparers \ {p} : lock = q => lock' = q
  BY DEF Observations!Unlock, Observations!Nobody, ObservingInv, ObservingTypes

LEMMA ObservingFailInv ==
    ASSUME ObservingInv, NEW p \in Preparers, Observations!Fail(p)
    PROVE  ObservingInv'
<1>1. /\ prep[p].stage \notin {"idle", "done"} /\ Observations!Unlock(p)
      /\ UNCHANGED <<source, moment, saved, observed, losses>>
      /\ prep' = [prep EXCEPT ![p] = [stage |-> "deferred", cutoff |-> prep[p].cutoff,
              due |-> prep[p].due, page |-> {}, full |-> FALSE, cursor |-> 0, lost |-> FALSE]]
  BY DEF Observations!Fail, Observations!Deferred, Observations!Outside
<1> QED BY <1>1, FreesOwnLock, DeferStep

\* Who comes to the end has observed all that was due.
LEMMA ObservingFinishInv ==
    ASSUME ObservingInv, NEW p \in Preparers, Observations!Finish(p)
    PROVE  ObservingInv'
<1>1. /\ prep[p].stage = "appending" /\ prep[p].page = {} /\ ~ prep[p].full
      /\ Observations!Unlock(p)
      /\ UNCHANGED <<source, moment, saved, observed, losses>>
  BY DEF Observations!Finish, Observations!At
<1>2. /\ prep[p] \in Preparer /\ Caught(prep[p], saved) /\ ~ prep[p].lost
  BY <1>1, PreparerFacts DEF Prepares, AtWork, Caught
<1> DEFINE now == [stage |-> "done", cutoff |-> 0, due |-> prep[p].due, page |-> {},
                   full |-> FALSE, cursor |-> 0, lost |-> FALSE]
<1>3. /\ prep' = [prep EXCEPT ![p] = now] /\ now \in Preparer /\ prep'[p] = now
  <2>1. prep' = [prep EXCEPT ![p] = now]
    BY <1>2 DEF Observations!Finish, Observations!Outside
  <2> QED BY <2>1, <1>2 DEF Preparer, ObservingInv, ObservingTypes
<1>4. \A j \in prep[p].due : saved[j] = "old"
  <2>1. \A j \in prep[p].due : j \in Nat /\ prep[p].cursor \in Nat
    BY <1>2, ObservationBounds DEF Preparer, Observations!Sources
  <2> QED BY <1>1, <1>2, <2>1 DEF Caught
<1>5. Prepares(p)'
  BY <1>1, <1>3, <1>4, PreparerFacts DEF Prepares, AtWork
<1> HIDE DEF now
<1> QED BY <1>1, <1>3, <1>5, FreesOwnLock, PrepareStep

(* Steps on the threads *)

LEMMA ThreadStep ==
    ASSUME ObservingInv, NEW p \in Preparers, lock = p, AtWork(prep[p]),
           NEW now \in Preparer, AtWork(now), now.cutoff = prep[p].cutoff, now.due = prep[p].due,
           prep' = [prep EXCEPT ![p] = now], Caught(now, saved'),
           \A s \in Observations!Sources : saved[s] = "old" => saved'[s] = "old",
           UNCHANGED <<source, moment, lock>>
    PROVE  \A q \in Preparers : Prepares(q)'
<1> SUFFICES ASSUME NEW q \in Preparers PROVE Prepares(q)'
  OBVIOUS
<1>1. Observations!Said' = Observations!Said
  BY DEF Observations!Said
<1>2. CASE q = p
  <2>1. prep'[q] = now /\ Prepares(p)
    BY <1>2 DEF ObservingInv, ObservingTypes
  <2>2. Caught(now, saved)'
    BY DEF Caught
  <2> QED BY <1>1, <1>2, <2>1, <2>2 DEF Prepares, AtWork
<1>3. CASE q # p
  <2>1. /\ prep'[q] = prep[q] /\ Prepares(q) /\ ~ AtWork(prep[q]) /\ prep[q] \in Preparer
    BY <1>3 DEF ObservingInv, ObservingTypes, Prepares
  <2>2. prep[q].stage = "done" => \A j \in prep[q].due : saved'[j] = "old"
    BY <2>1 DEF Prepares, Preparer
  <2> QED BY <1>1, <2>1, <2>2 DEF Prepares, AtWork
<1> QED BY <1>2, <1>3


\* Who saves a statement has observed all that was said before it was begun.
LEMMA SaveStatementInv ==
    ASSUME ObservingInv, NEW p \in Preparers, Observations!Save(p)
    PROVE  ObservingInv'
<1> DEFINE c == Observations!Current(p)
           now == [prep[p] EXCEPT !.stage = "observing"]
<1>1. /\ prep[p].stage = "saving" /\ saved' = [saved EXCEPT ![c] = "new"]
      /\ UNCHANGED <<source, moment, observed, lock, losses>>
  BY DEF Observations!Save, Observations!At
<1>2. /\ prep[p] \in Preparer /\ Prepares(p) /\ lock = p /\ Caught(prep[p], saved) /\ p # "nobody"
  BY <1>1, PreparerFacts DEF Prepares, AtWork
<1>3. /\ c \in prep[p].page /\ \A j \in prep[p].page : c <= j
      /\ c \in Observations!Sources /\ saved[c] = "absent"
  BY <1>1, <1>2, EarliestStatement DEF Caught, Preparer, Observations!Current
<1>4. /\ prep' = [prep EXCEPT ![p] = now] /\ now \in Preparer /\ prep'[p] = now
  BY <1>2 DEF Observations!Save, Observations!Go, Preparer, ObservingInv, ObservingTypes
<1>5. /\ now.stage = "observing" /\ now.cutoff = prep[p].cutoff /\ now.due = prep[p].due
      /\ now.page = prep[p].page /\ now.full = prep[p].full /\ now.cursor = prep[p].cursor
      /\ now.lost = prep[p].lost
  BY <1>2 DEF Preparer
<1> HIDE DEF now, c
<1>6. /\ \A s \in Observations!Sources : s # c => saved'[s] = saved[s]
      /\ saved'[c] = "new" /\ \A s \in Observations!Sources : saved'[s] = "old" <=> saved[s] = "old"
  BY <1>1, <1>3 DEF ObservingInv, ObservingTypes
<1>7. Observations!Said' = Observations!Said /\ SaidInOrder'
  BY <1>1 DEF Observations!Said, SaidInOrder, ObservingInv
<1>8. ObservingTypes'
  BY <1>1, <1>3, <1>4 DEF ObservingInv, ObservingTypes
<1>9. \A j \in Observations!Said : source[j].said < source[c].created => saved[j] = "old"
  <2> SUFFICES ASSUME NEW j \in Observations!Said, source[j].said < source[c].created
               PROVE  saved[j] = "old"
    OBVIOUS
  <2>1. /\ j \in Observations!Sources /\ source[j].state = "said" /\ source[c].state = "said"
        /\ source[j] \in [state : {"unsaid", "open", "said"}, created : Nat, said : Nat]
        /\ source[c] \in [state : {"unsaid", "open", "said"}, created : Nat, said : Nat]
        /\ j \in Nat /\ c \in Nat /\ prep[p].cutoff \in Nat /\ prep[p].cursor \in Nat
        /\ source[c].created <= prep[p].cutoff /\ c <= prep[p].cursor
    BY <1>2, <1>3, ObservationBounds
       DEF Observations!Said, ObservingInv, ObservingTypes, Preparer, Caught, Observations!Sources
  <2>2. source[j].created < source[c].created
    BY <2>1 DEF ObservingInv, SaidInOrder
  <2>3. j < c
    <3>1. ~ (c < j) /\ c # j
      BY <1>3, <2>1, <2>2 DEF ObservingInv, SaidInOrder
    <3> QED BY <3>1, <2>1
  <2>4. j \in prep[p].due
    BY <1>1, <1>2, <2>1 DEF Prepares
  <2>5. j \notin prep[p].page
    BY <1>3, <2>1, <2>3
  <2> QED BY <1>2, <2>1, <2>3, <2>4, <2>5 DEF Caught
<1>10. SavedInOrder'
  <2> SUFFICES ASSUME NEW s \in Observations!Sources, saved'[s] # "absent"
               PROVE  /\ source[s].state = "said"
                      /\ \A j \in Observations!Said :
                            source[j].said < source[s].created => saved[j] = "old"
    BY <1>1, <1>6, <1>7 DEF SavedInOrder, Observations!Said
  <2>1. CASE s = c
    BY <2>1, <1>2, <1>3, <1>9 DEF Caught
  <2>2. CASE s # c
    BY <2>2, <1>6 DEF ObservingInv, SavedInOrder
  <2> QED BY <2>1, <2>2
<1>11. OldWasObserved' /\ Observations!CorrectionsComeLater'
  BY <1>1, <1>6 DEF ObservingInv, OldWasObserved, Observations!CorrectionsComeLater
<1>12. Caught(now, saved')
  <2>1. c = Observations!Min(prep[p].page)
    BY DEF c, Observations!Current
  <2> QED BY <1>1, <1>2, <1>3, <1>5, <1>6, <2>1 DEF Caught, Preparer
<1>13. \A q \in Preparers : Prepares(q)'
  BY <1>1, <1>2, <1>4, <1>5, <1>6, <1>12, ThreadStep DEF AtWork
<1> QED BY <1>7, <1>8, <1>10, <1>11, <1>13 DEF ObservingInv

\* What is observed at a time was not before, and nothing said before it was is left out.
LEMMA ObserveInv ==
    ASSUME ObservingInv, NEW p \in Preparers, Observations!Observe(p)
    PROVE  ObservingInv'
<1> DEFINE c == Observations!Current(p)
           fresh == {s \in Observations!Sources : Thread[s] = Thread[c] /\ saved[s] = "new"}
           now == [prep[p] EXCEPT !.stage = "appending", !.page = prep[p].page \ {c}]
<1>1. /\ prep[p].stage = "observing"
      /\ observed' = IF fresh = {} THEN observed ELSE Append(observed, fresh)
      /\ saved' = [s \in Observations!Sources |-> IF s \in fresh THEN "old" ELSE saved[s]]
      /\ UNCHANGED <<source, moment, lock, losses>>
  BY DEF Observations!Observe, Observations!At
<1>2. /\ prep[p] \in Preparer /\ Prepares(p) /\ lock = p /\ Caught(prep[p], saved) /\ p # "nobody"
  BY <1>1, PreparerFacts DEF Prepares, AtWork
<1>3. /\ c \in prep[p].page /\ c \in Observations!Sources /\ saved[c] # "absent"
  BY <1>1, <1>2, EarliestStatement DEF Caught, Preparer, Observations!Current
<1>4. /\ prep' = [prep EXCEPT ![p] = now] /\ now \in Preparer /\ prep'[p] = now
  <2>1. prep' = [prep EXCEPT ![p] = now]
    BY <1>2 DEF Observations!Observe, ObservingInv, ObservingTypes
  <2> QED BY <2>1, <1>2 DEF Preparer, ObservingInv, ObservingTypes
<1>5. /\ now.stage = "appending" /\ now.cutoff = prep[p].cutoff /\ now.due = prep[p].due
      /\ now.page = prep[p].page \ {c} /\ now.full = prep[p].full /\ now.cursor = prep[p].cursor
      /\ now.lost = prep[p].lost
  BY <1>2 DEF Preparer
<1>6. fresh \in SUBSET Observations!Sources /\ \A s \in fresh : saved[s] = "new"
  OBVIOUS
<1>7. saved'[c] = "old"
  BY <1>1, <1>3 DEF ObservingInv, ObservingTypes
<1> HIDE DEF now, c, fresh
<1>8. /\ \A s \in Observations!Sources : saved[s] = "old" => saved'[s] = "old"
      /\ \A s \in Observations!Sources : saved'[s] = "old" <=> saved[s] = "old" \/ s \in fresh
      /\ \A s \in Observations!Sources : saved'[s] # "absent" => saved[s] # "absent"
  BY <1>1, <1>6 DEF ObservingInv, ObservingTypes
<1>9. Observations!Said' = Observations!Said /\ SaidInOrder'
  BY <1>1 DEF Observations!Said, SaidInOrder, ObservingInv
<1>10. ObservingTypes'
  <2>1. observed' \in Seq(SUBSET Observations!Sources)
    BY <1>1, <1>6, AppendProperties DEF ObservingInv, ObservingTypes
  <2>2. saved' \in [Observations!Sources -> {"absent", "new", "old"}]
    BY <1>1 DEF ObservingInv, ObservingTypes
  <2> QED BY <1>1, <1>4, <2>1, <2>2 DEF ObservingInv, ObservingTypes
<1>11. SavedInOrder'
  BY <1>1, <1>8, <1>9 DEF ObservingInv, SavedInOrder, Observations!Said
<1>12. ASSUME fresh = {} PROVE OldWasObserved' /\ Observations!CorrectionsComeLater'
  BY <1>1, <1>8, <1>12 DEF ObservingInv, OldWasObserved, Observations!CorrectionsComeLater
<1>13. ASSUME fresh # {} PROVE OldWasObserved' /\ Observations!CorrectionsComeLater'
  <2>1. /\ DOMAIN observed = 1..Len(observed) /\ Len(observed) \in Nat
        /\ DOMAIN observed' = 1..(Len(observed) + 1)
        /\ \A i \in 1..Len(observed) : observed'[i] = observed[i]
        /\ observed'[Len(observed) + 1] = fresh
    BY <1>1, <1>6, <1>13, AppendProperties, LenProperties DEF ObservingInv, ObservingTypes
  <2>2. \A i \in DOMAIN observed : observed[i] \subseteq Observations!Sources
    BY DEF ObservingInv, ObservingTypes
  <2>3. OldWasObserved'
    <3> SUFFICES ASSUME NEW s \in Observations!Sources
                 PROVE  saved'[s] = "old" <=> \E i \in DOMAIN observed' : s \in observed'[i]
      BY DEF OldWasObserved, Observations!Sources
    <3>1. saved[s] = "old" <=> \E i \in 1..Len(observed) : s \in observed[i]
      BY <2>1 DEF ObservingInv, OldWasObserved
    <3>2. (\E i \in DOMAIN observed' : s \in observed'[i]) <=>
              (\E i \in 1..Len(observed) : s \in observed[i]) \/ s \in fresh
      BY <2>1
    <3> QED BY <1>8, <3>1, <3>2
  <2>4. ASSUME NEW i \in DOMAIN observed', NEW j \in DOMAIN observed', i < j,
               NEW s \in observed'[i], NEW t \in observed'[j]
        PROVE  s # t /\ source[t].said >= source[s].created
    <3>1. i \in 1..Len(observed) /\ s \in observed[i] /\ s \in Observations!Sources
      BY <2>1, <2>2, <2>4
    <3>2. CASE j \in 1..Len(observed)
      BY <2>1, <2>4, <3>1, <3>2 DEF ObservingInv, Observations!CorrectionsComeLater
    <3>3. CASE j = Len(observed) + 1
      <4>1. t \in Observations!Sources /\ saved[t] = "new"
        BY <1>6, <2>1, <2>4, <3>3
      <4>2. saved[s] = "old"
        BY <2>1, <3>1 DEF ObservingInv, OldWasObserved
      <4>3. source[t].state = "said" /\ source[t].said \in Nat /\ source[s].created \in Nat
        BY <3>1, <4>1 DEF ObservingInv, SavedInOrder, ObservingTypes
      <4>4. ~ (source[t].said < source[s].created)
        BY <3>1, <4>1, <4>2, <4>3 DEF ObservingInv, SavedInOrder, Observations!Said
      <4> QED BY <4>1, <4>2, <4>3, <4>4
    <3> QED BY <2>1, <3>2, <3>3
  <2>5. Observations!CorrectionsComeLater'
    BY <1>1, <2>4 DEF Observations!CorrectionsComeLater
  <2> QED BY <2>3, <2>5
<1>14. Caught(now, saved')
  <2>1. \A j \in now.due : saved'[j] = "old" \/ j \in now.page \/ j > now.cursor
    <3> SUFFICES ASSUME NEW j \in prep[p].due
                 PROVE  saved'[j] = "old" \/ j \in now.page \/ j > now.cursor
      BY <1>5
    <3>1. j \in Observations!Sources
      BY <1>2 DEF Preparer
    <3> QED BY <1>2, <1>5, <1>7, <1>8, <3>1 DEF Caught
  <2> QED BY <1>1, <1>2, <1>3, <1>5, <2>1 DEF Caught, Preparer
<1>15. \A q \in Preparers : Prepares(q)'
  BY <1>1, <1>2, <1>4, <1>5, <1>8, <1>14, ThreadStep DEF AtWork
<1> QED BY <1>9, <1>10, <1>11, <1>12, <1>13, <1>15 DEF ObservingInv

\* So it is until a session is lost.
Heard == losses \in Nat /\ (losses = 0 => ObservingInv)

LEMMA ObservingNextInv ==
    ASSUME Heard, [Observations!Next]_(Observations!vars) PROVE Heard'
<1>1. CASE UNCHANGED Observations!vars
  <2>1. UNCHANGED <<source, moment, saved, observed, lock, prep, losses>>
    BY <1>1 DEF Observations!vars
  <2>2. ObservingTypes' = ObservingTypes
    BY <2>1 DEF ObservingTypes
  <2>3. SaidInOrder' = SaidInOrder
    BY <2>1 DEF SaidInOrder
  <2>4. SavedInOrder' = SavedInOrder
    BY <2>1 DEF SavedInOrder, Observations!Said
  <2>5. OldWasObserved' = OldWasObserved
    BY <2>1 DEF OldWasObserved
  <2>6. Observations!CorrectionsComeLater' = Observations!CorrectionsComeLater
    BY <2>1 DEF Observations!CorrectionsComeLater
  <2>7. ASSUME NEW p \in Preparers PROVE Prepares(p)' = Prepares(p)
    BY <2>1 DEF Prepares, AtWork, Caught, Observations!Said
  <2> QED BY <2>1, <2>2, <2>3, <2>4, <2>5, <2>6, <2>7 DEF Heard, ObservingInv
<1>2. ASSUME NEW p \in Preparers, Observations!LoseSession(p) PROVE Heard'
  BY <1>2 DEF Observations!LoseSession, Heard
<1>3. ASSUME losses = 0, NEW s \in Observations!Sources, Observations!Say(s) \/ Observations!Commit(s)
      PROVE  ObservingInv'
  BY <1>3, SayInv, CommitSourceInv DEF Heard
<1>4. ASSUME losses = 0, NEW p \in Preparers,
             \/ Observations!Begin(p) \/ Observations!Resume(p) \/ Observations!Lock(p)
             \/ Observations!ReadPage(p) \/ Observations!Add(p) \/ Observations!Save(p)
             \/ Observations!Observe(p) \/ Observations!NextPage(p) \/ Observations!Finish(p)
             \/ Observations!Fail(p)
      PROVE  ObservingInv'
  BY <1>4, ObservingBeginInv, ObservingResumeInv, ObservingLockInv, ReadStatementsInv, AddStatementInv, SaveStatementInv, ObserveInv, NextStatementsInv,
     ObservingFinishInv, ObservingFailInv DEF Heard
<1>5. ASSUME NEW s \in Observations!Sources, Observations!Say(s) \/ Observations!Commit(s)
      PROVE  Heard'
  <2>1. losses' = losses
    BY <1>5 DEF Observations!Say, Observations!Commit
  <2> QED BY <1>3, <1>5, <2>1 DEF Heard
<1>6. ASSUME NEW p \in Preparers,
             \/ Observations!Begin(p) \/ Observations!Resume(p) \/ Observations!Lock(p)
             \/ Observations!ReadPage(p) \/ Observations!Add(p) \/ Observations!Save(p)
             \/ Observations!Observe(p) \/ Observations!NextPage(p) \/ Observations!Finish(p)
             \/ Observations!Fail(p)
      PROVE  Heard'
  <2>1. losses' = losses
    BY <1>6 DEF Observations!Begin, Observations!Resume, Observations!Lock, Observations!ReadPage,
       Observations!Add, Observations!Save, Observations!Observe, Observations!NextPage,
       Observations!Finish, Observations!Fail
  <2> QED BY <1>4, <1>6, <2>1 DEF Heard
<1> QED BY <1>1, <1>2, <1>5, <1>6 DEF Observations!Next

\* Everything that was said before a model is asked has been observed, corrections
\* after what they correct, while no session that held the lock was lost.
OwnerIsHeard ==
    losses = 0 => /\ Observations!TypeOK /\ Observations!CorrectionsComeLater
                  /\ Observations!PreparedIsComplete

\* What the owner says is observed before a model is asked, corrections after what
\* they correct, for any statements, threads, preparers and sizes of pages, while no
\* session that holds the lock of the owner is lost (mailbox-memory-inputs.ts:42).
THEOREM CorrectionsStand == Observations!Spec => []OwnerIsHeard
<1>1. Observations!Init => Heard
  BY ObservingInitInv DEF Observations!Init, Heard
<1>2. Heard /\ [Observations!Next]_(Observations!vars) => Heard'
  BY ObservingNextInv
<1>3. Heard => OwnerIsHeard
  BY ObservingTells DEF Heard, OwnerIsHeard
<1> QED BY <1>1, <1>2, <1>3, PTL DEF Observations!Spec

-----------------------------------------------------------------------------
(* What an evaluation is told of what is recalled *)

Provenances == {"user", "technical", "mail"}
Ids == {recalled[kept[i].at].id : i \in DOMAIN kept}

\* What was passed over is known or did not fit, and will not.
RecallInv ==
    /\ recalled \in Seq(Entries) /\ reached \in 1..(Len(recalled) + 1)
    /\ kept \in Seq([at : 1..Len(recalled), provenance : Provenances])
    /\ Len(kept) <= MaxEntries
    /\ length \in Nat /\ length <= MaxLength
    /\ \A i \in DOMAIN kept : kept[i].at < reached
    /\ Recall!OwnerSpeaks
    /\ \A i, j \in DOMAIN kept : recalled[kept[i].at].id = recalled[kept[j].at].id => i = j
    /\ \A i \in 1..(reached - 1) :
          recalled[i].id \in Ids \/ length + recalled[i].length + Recall!Separator > MaxLength

LEMMA KeptOfRecalled ==
    ASSUME RecallInv
    PROVE  \A i \in DOMAIN kept : kept[i].at \in 1..Len(recalled) /\ kept[i].at \in Nat
<1> DEFINE Kept == [at : 1..Len(recalled), provenance : Provenances]
<1>1. kept \in Seq(Kept) /\ Len(recalled) \in Nat
  BY LenProperties DEF RecallInv
<1>2. \A i \in DOMAIN kept : kept[i] \in Kept
  <2> HIDE DEF Kept
  <2> QED BY <1>1, ElementOfSeq, LenProperties
<1> QED BY <1>1, <1>2

LEMMA RecallTells ==
    ASSUME RecallInv PROVE Recall!TypeOK /\ Recall!OwnerSpeaks /\ Recall!KeptIsEnough
<1>1. Len(recalled) \in Nat /\ DOMAIN recalled = 1..Len(recalled) /\ Len(kept) \in Nat
  BY LenProperties DEF RecallInv
<1>2. Recall!TypeOK
  <2>1. \A i \in DOMAIN kept : kept[i].at \in 1..Len(recalled)
    BY KeptOfRecalled
  <2>2. \A i \in DOMAIN kept : kept[i].at < reached /\ reached \in Nat
    BY <1>1 DEF RecallInv
  <2> QED BY <1>1, <2>1, <2>2 DEF RecallInv, Recall!TypeOK
<1>3. Recall!KeptIsEnough
  <2> SUFFICES ASSUME ~ Recall!Going PROVE Recall!KeptIsEnough
    BY DEF Recall!KeptIsEnough
  <2>1. Len(kept) < MaxEntries => \A i \in DOMAIN recalled : i \in 1..(reached - 1)
    BY <1>1 DEF Recall!Going, RecallInv
  <2> QED BY <1>1, <2>1 DEF RecallInv, Recall!KeptIsEnough, Ids
<1> QED BY <1>2, <1>3 DEF RecallInv

LEMMA RecallInitInv ==
    ASSUME Recall!Init PROVE RecallInv
<1>1. PICK n \in 0..MaxRecalled : recalled \in [1..n -> Entries]
  BY DEF Recall!Init, Recall!Answers
<1>2. recalled \in Seq(Entries) /\ Len(recalled) \in Nat
  BY <1>1, HostAssumption
<1>3. kept = <<>> /\ length = 2 /\ reached = 1
  BY DEF Recall!Init
<1> QED BY <1>2, <1>3, HostAssumption DEF RecallInv, Recall!OwnerSpeaks

LEMMA RecallFacts ==
    ASSUME RecallInv, Recall!Going
    PROVE  /\ reached \in 1..Len(recalled) /\ Len(recalled) \in Nat /\ reached \in Nat
           /\ recalled[reached].length \in Nat /\ Recall!Separator \in 0..1
           /\ Len(kept) \in Nat /\ DOMAIN kept = 1..Len(kept)
           /\ \A i \in 1..Len(recalled) : recalled[i].length \in Nat
<1>1. Len(recalled) \in Nat /\ \A i \in 1..Len(recalled) : recalled[i] \in Entries
  BY LenProperties, ElementOfSeq DEF RecallInv
<1>2. Len(kept) \in Nat /\ DOMAIN kept = 1..Len(kept)
  BY LenProperties DEF RecallInv
<1> QED BY <1>1, <1>2, HostAssumption DEF RecallInv, Recall!Going, Recall!Separator

LEMMA RecallKeepInv ==
    ASSUME RecallInv, Recall!Keep PROVE RecallInv'
<1> DEFINE new == [at |-> reached, provenance |-> Recall!Provenance(recalled[reached])]
<1>1. /\ Recall!Going /\ ~ Recall!Known /\ ~ Recall!TooLong
      /\ kept' = Append(kept, new) /\ reached' = reached + 1 /\ recalled' = recalled
      /\ length' = length + recalled[reached].length + Recall!Separator
  BY DEF Recall!Keep, Recall!Entry
<1>2. new \in [at : 1..Len(recalled), provenance : Provenances]
  BY <1>1, RecallFacts DEF Recall!Provenance, Provenances
<1>3. new.at = reached /\ new.provenance = Recall!Provenance(recalled[reached])
  OBVIOUS
<1> HIDE DEF new
<1>4. /\ kept' \in Seq([at : 1..Len(recalled), provenance : Provenances])
      /\ Len(kept') = Len(kept) + 1 /\ DOMAIN kept' = 1..(Len(kept) + 1)
      /\ \A i \in DOMAIN kept : kept'[i] = kept[i]
      /\ kept'[Len(kept) + 1] = new
  BY <1>1, <1>2, AppendProperties, RecallFacts, LenProperties DEF RecallInv
<1>5. \A i \in DOMAIN kept' : i \in DOMAIN kept \/ i = Len(kept) + 1
  BY <1>1, <1>4, RecallFacts
<1>6. length' \in Nat /\ length' <= MaxLength /\ length <= length'
  BY <1>1, RecallFacts, HostAssumption DEF RecallInv, Recall!TooLong, Recall!Entry
<1>7. Recall!OwnerSpeaks'
  <2> SUFFICES ASSUME NEW i \in DOMAIN kept', kept'[i].provenance = "user"
               PROVE  \/ Recall!Classification(recalled[kept'[i].at].context) = "user"
                      \/ /\ Recall!Classification(recalled[kept'[i].at].context) = "draft"
                         /\ recalled[kept'[i].at].byOwner
    BY <1>1 DEF Recall!OwnerSpeaks
  <2>1. CASE i \in DOMAIN kept
    BY <1>4, <2>1 DEF RecallInv, Recall!OwnerSpeaks
  <2>2. CASE i = Len(kept) + 1
    BY <1>3, <1>4, <2>2 DEF Recall!Provenance, Recall!Type, Recall!Classification
  <2> QED BY <1>5, <2>1, <2>2
<1>8. ASSUME NEW i \in DOMAIN kept', NEW j \in DOMAIN kept',
             recalled[kept'[i].at].id = recalled[kept'[j].at].id
      PROVE  i = j
  <2>1. \A k \in DOMAIN kept : recalled[kept[k].at].id # recalled[reached].id
    BY <1>1 DEF Recall!Known, Recall!Entry
  <2> QED BY <1>3, <1>4, <1>5, <1>8, <2>1 DEF RecallInv
<1>9. Recall!Separator' = 1
  BY <1>1, <1>4, RecallFacts DEF Recall!Separator
<1>10. Ids \cup {recalled[reached].id} \subseteq Ids'
  <2>1. \A i \in DOMAIN kept : i \in DOMAIN kept'
    BY <1>1, <1>4, RecallFacts
  <2>2. Len(kept) + 1 \in DOMAIN kept'
    BY <1>1, <1>4, RecallFacts
  <2> QED BY <1>1, <1>3, <1>4, <2>1, <2>2 DEF Ids
<1>11. ASSUME NEW i \in 1..(reached' - 1)
       PROVE  recalled[i].id \in Ids' \/ length' + recalled[i].length + Recall!Separator' > MaxLength
  <2>1. CASE i = reached
    BY <1>10, <2>1
  <2>2. CASE i # reached
    <3>1. i \in 1..(reached - 1) /\ i \in 1..Len(recalled)
      BY <1>1, <2>2, RecallFacts
    <3>2. recalled[i].id \in Ids \/ length + recalled[i].length + Recall!Separator > MaxLength
      BY <3>1 DEF RecallInv
    <3>3. recalled[i].length \in Nat /\ length \in Nat /\ MaxLength \in Nat /\ Recall!Separator \in 0..1
      BY <1>1, <3>1, RecallFacts, HostAssumption DEF RecallInv
    <3> QED BY <1>6, <1>9, <1>10, <3>2, <3>3
  <2> QED BY <2>1, <2>2
<1>12. \A i \in DOMAIN kept' : kept'[i].at < reached'
  BY <1>1, <1>3, <1>4, <1>5, RecallFacts, KeptOfRecalled DEF RecallInv
<1>13. Len(kept') <= MaxEntries
  BY <1>1, <1>4, RecallFacts, HostAssumption DEF Recall!Going
<1>14. reached' \in 1..(Len(recalled) + 1)
  BY <1>1, RecallFacts
<1> QED BY <1>1, <1>4, <1>6, <1>7, <1>8, <1>11, <1>12, <1>13, <1>14 DEF RecallInv

LEMMA PassOverInv ==
    ASSUME RecallInv, Recall!PassOver PROVE RecallInv'
<1>1. /\ Recall!Going /\ (Recall!Known \/ Recall!TooLong) /\ reached' = reached + 1
      /\ UNCHANGED <<recalled, kept, length>>
  BY DEF Recall!PassOver
<1>2. Ids' = Ids /\ Recall!Separator' = Recall!Separator
  BY <1>1 DEF Ids, Recall!Separator
<1>3. recalled[reached].id \in Ids
      \/ length + recalled[reached].length + Recall!Separator > MaxLength
  BY <1>1 DEF Recall!Known, Recall!TooLong, Recall!Entry, Ids
<1>4. ASSUME NEW i \in 1..(reached' - 1)
      PROVE  recalled[i].id \in Ids \/ length + recalled[i].length + Recall!Separator > MaxLength
  <2>1. i = reached \/ i \in 1..(reached - 1)
    BY <1>1, RecallFacts
  <2> QED BY <1>3, <2>1 DEF RecallInv
<1>5. \A i \in DOMAIN kept : kept[i].at < reached'
  <2>1. \A i \in DOMAIN kept : kept[i].at \in Nat
    BY KeptOfRecalled
  <2> QED BY <1>1, <2>1, RecallFacts DEF RecallInv
<1>6. reached' \in 1..(Len(recalled) + 1)
  BY <1>1, RecallFacts
<1>7. Recall!OwnerSpeaks'
  BY <1>1 DEF RecallInv, Recall!OwnerSpeaks
<1> QED BY <1>1, <1>2, <1>4, <1>5, <1>6, <1>7 DEF RecallInv

LEMMA RecallNextInv ==
    ASSUME RecallInv, [Recall!Next]_(Recall!vars) PROVE RecallInv'
<1>1. CASE UNCHANGED Recall!vars
  <2>1. Ids' = Ids /\ Recall!Separator' = Recall!Separator /\ Recall!OwnerSpeaks' = Recall!OwnerSpeaks
    BY <1>1 DEF Recall!vars, Ids, Recall!Separator, Recall!OwnerSpeaks
  <2> QED BY <1>1, <2>1 DEF Recall!vars, RecallInv
<1> QED BY <1>1, RecallKeepInv, PassOverInv DEF Recall!Next

\* Nothing recalled speaks as the owner but what he did, and what is left out of an
\* answer is known already or has no room, for any entries, limits and lengths.
THEOREM RecallSpeaksTruly ==
    Recall!Spec => [](Recall!TypeOK /\ Recall!OwnerSpeaks /\ Recall!KeptIsEnough)
<1>1. Recall!Init => RecallInv
  BY RecallInitInv
<1>2. RecallInv /\ [Recall!Next]_(Recall!vars) => RecallInv'
  BY RecallNextInv
<1>3. RecallInv => Recall!TypeOK /\ Recall!OwnerSpeaks /\ Recall!KeptIsEnough
  BY RecallTells
<1> QED BY <1>1, <1>2, <1>3, PTL DEF Recall!Spec

-----------------------------------------------------------------------------
(* Reading an inbox while it changes *)

LEMMA MailsCount == \A S : Reading!Cardinality(S) = Cardinality(S)
  BY DEF Reading!Cardinality, Cardinality

InboxTyped ==
    /\ inbox \in [Accounts -> SUBSET Nat] /\ arrived \in Nat
    /\ \A m \in Accounts : inbox[m] \subseteq 1..arrived

LEMMA MailFacts ==
    ASSUME InboxTyped, NEW m \in Accounts
    PROVE  /\ IsFiniteSet(inbox[m]) /\ \A x \in inbox[m] : x \in Nat
           /\ \A x : Reading!Newer(m, x) \in Nat
           /\ \A x : Reading!Newer(m, x) = Cardinality({y \in inbox[m] : y > x})
           /\ \A x : IsFiniteSet({y \in inbox[m] : y > x})
<1>1. IsFiniteSet(inbox[m]) /\ \A x \in inbox[m] : x \in Nat
  <2>1. IsFiniteSet(1..arrived)
    BY FS_Interval DEF InboxTyped
  <2> QED BY <2>1, FS_Subset DEF InboxTyped
<1>2. \A x : IsFiniteSet({y \in inbox[m] : y > x}) /\ Cardinality({y \in inbox[m] : y > x}) \in Nat
  <2> SUFFICES ASSUME NEW x
               PROVE  IsFiniteSet({y \in inbox[m] : y > x})
                      /\ Cardinality({y \in inbox[m] : y > x}) \in Nat
    OBVIOUS
  <2>1. {y \in inbox[m] : y > x} \in SUBSET inbox[m]
    OBVIOUS
  <2> QED BY <1>1, <2>1, FS_Subset, FS_CardinalityType
<1>3. \A x : Reading!Newer(m, x) = Cardinality({y \in inbox[m] : y > x})
  BY MailsCount DEF Reading!Newer
<1> QED BY <1>1, <1>2, <1>3

\* An older mail has no fewer that are newer.
LEMMA OlderIsLater ==
    ASSUME InboxTyped, NEW m \in Accounts, NEW x \in inbox[m], NEW y \in inbox[m], y <= x
    PROVE  Reading!Newer(m, x) <= Reading!Newer(m, y)
<1> DEFINE X == {z \in inbox[m] : z > x}
           Y == {z \in inbox[m] : z > y}
<1>1. X \in SUBSET Y
  BY MailFacts
<1>2. IsFiniteSet(Y) /\ Reading!Newer(m, x) = Cardinality(X) /\ Reading!Newer(m, y) = Cardinality(Y)
  BY MailFacts
<1> HIDE DEF X, Y
<1> QED BY <1>1, <1>2, FS_Subset

\* Of a list the first are as many as are asked for, unless it has no more.
FirstMails(m, n) == {x \in inbox[m] : Reading!Newer(m, x) < n}

LEMMA FirstAreCounted ==
    ASSUME InboxTyped, NEW m \in Accounts, NEW n \in Nat
    PROVE  /\ FirstMails(m, n) \in SUBSET inbox[m] /\ IsFiniteSet(FirstMails(m, n))
           /\ Cardinality(FirstMails(m, n)) \in Nat /\ Cardinality(FirstMails(m, n)) <= n
           /\ FirstMails(m, n) # inbox[m] => Cardinality(FirstMails(m, n)) >= n
<1> DEFINE F == FirstMails(m, n)
           After(x) == {y \in inbox[m] : y > x}
<1>1. F \in SUBSET inbox[m] /\ \A x \in inbox[m] : x \in F <=> Reading!Newer(m, x) < n
  BY DEF FirstMails
<1>2. \A x : IsFiniteSet(After(x)) /\ Reading!Newer(m, x) = Cardinality(After(x))
  BY MailFacts
<1>3. \A x, y \in inbox[m] : y \in After(x) <=> y > x
  OBVIOUS
<1>4. \A x : After(x) \in SUBSET inbox[m] /\ Reading!Newer(m, x) \in Nat
  BY MailFacts
<1>5. IsFiniteSet(F) /\ Cardinality(F) \in Nat
  BY <1>1, MailFacts, FS_Subset, FS_CardinalityType
<1> HIDE DEF F, After
<1>6. Cardinality(F) <= n
  <2>1. CASE F = {}
    <3>1. Cardinality(F) = 0
      BY <2>1, FS_EmptySet
    <3> QED BY <3>1
  <2>2. CASE F # {}
    <3>1. F \in SUBSET Nat
      BY <1>1, MailFacts
    <3>2. PICK x \in F : \A y \in F : x <= y
      BY <2>2, <3>1, LeastOf
    <3>3. F \ {x} \in SUBSET After(x)
      BY <1>1, <1>3, <3>1, <3>2
    <3>4. Cardinality(F \ {x}) <= Cardinality(After(x))
      BY <1>2, <3>3, FS_Subset
    <3>5. Cardinality(F \ {x}) = Cardinality(F) - 1
      BY <1>5, FS_RemoveElement
    <3>6. Cardinality(After(x)) \in Nat /\ Cardinality(After(x)) < n
      BY <1>1, <1>2, <1>4, <3>2
    <3> QED BY <1>5, <3>4, <3>5, <3>6
  <2> QED BY <2>1, <2>2
<1>7. ASSUME F # inbox[m] PROVE Cardinality(F) >= n
  <2>1. inbox[m] \ F \in SUBSET (1..arrived) /\ inbox[m] \ F # {} /\ arrived \in Nat
    BY <1>1, <1>7 DEF InboxTyped
  <2>2. PICK x \in inbox[m] \ F : \A y \in inbox[m] \ F : y <= x
    BY <2>1, LargestOf
  <2>3. After(x) \in SUBSET F
    <3>1. ASSUME NEW y \in inbox[m], y > x, y \notin F PROVE FALSE
      BY <2>2, <3>1, MailFacts
    <3> QED BY <1>3, <1>4, <3>1
  <2>4. Cardinality(After(x)) <= Cardinality(F)
    BY <1>5, <2>3, FS_Subset
  <2>5. Cardinality(After(x)) \in Nat /\ ~ (Cardinality(After(x)) < n)
    BY <1>1, <1>2, <1>4, <2>2
  <2> QED BY <1>5, <2>4, <2>5
<1> QED BY <1>1, <1>5, <1>6, <1>7 DEF F

\* A page of what follows an offset ends where the offset and its number say.
LEMMA PageEndsAtCount ==
    ASSUME InboxTyped, NEW m \in Accounts, NEW n \in Nat, NEW T \in SUBSET Reading!Rest(m, n),
           \A x \in T, y \in Reading!Rest(m, n) : y > x => y \in T
    PROVE  /\ Cardinality(T) \in Nat
           /\ \A x \in Reading!Rest(m, n) : x \in T <=> Reading!Newer(m, x) < n + Cardinality(T)
<1> DEFINE F == FirstMails(m, n)
           After(x) == {y \in inbox[m] : y > x}
<1>1. /\ T \in SUBSET inbox[m] /\ F \in SUBSET inbox[m]
      /\ \A x \in inbox[m] : x \in F \/ x \in Reading!Rest(m, n)
      /\ \A x \in F : Reading!Newer(m, x) < n
      /\ \A x \in Reading!Rest(m, n) : x \in inbox[m] /\ ~ (Reading!Newer(m, x) < n)
  BY MailFacts DEF FirstMails, Reading!Rest
<1>2. \A x : IsFiniteSet(After(x)) /\ Reading!Newer(m, x) = Cardinality(After(x))
  BY MailFacts
<1>3. \A x, y \in inbox[m] : y \in After(x) <=> y > x
  OBVIOUS
<1>4. \A x : After(x) \in SUBSET inbox[m] /\ Reading!Newer(m, x) \in Nat
  BY MailFacts
<1>5. IsFiniteSet(T) /\ Cardinality(T) \in Nat
  BY <1>1, MailFacts, FS_Subset, FS_CardinalityType
<1>6. /\ IsFiniteSet(F) /\ Cardinality(F) \in Nat /\ Cardinality(F) <= n
      /\ F # inbox[m] => Cardinality(F) >= n
  BY FirstAreCounted
<1>7. \A x \in inbox[m] : x \in Nat
  BY MailFacts
<1> HIDE DEF F, After
<1>8. ASSUME NEW x \in T PROVE Reading!Newer(m, x) < n + Cardinality(T)
  <2>1. After(x) \in SUBSET ((T \ {x}) \cup F)
    BY <1>1, <1>3, <1>4, <1>7
  <2>2. IsFiniteSet(T \ {x}) /\ Cardinality(T \ {x}) = Cardinality(T) - 1
    BY <1>5, FS_RemoveElement
  <2>3. /\ IsFiniteSet((T \ {x}) \cup F)
        /\ Cardinality((T \ {x}) \cup F) =
               Cardinality(T \ {x}) + Cardinality(F) - Cardinality((T \ {x}) \cap F)
    BY <1>6, <2>2, FS_Union
  <2>4. Cardinality((T \ {x}) \cap F) \in Nat
    <3>1. (T \ {x}) \cap F \in SUBSET F
      OBVIOUS
    <3> QED BY <1>6, <3>1, FS_Subset, FS_CardinalityType
  <2>5. Cardinality(After(x)) <= Cardinality((T \ {x}) \cup F)
    BY <2>1, <2>3, FS_Subset
  <2> QED BY <1>2, <1>4, <1>5, <1>6, <2>2, <2>3, <2>4, <2>5
<1>9. ASSUME NEW x \in Reading!Rest(m, n), x \notin T
      PROVE  ~ (Reading!Newer(m, x) < n + Cardinality(T))
  <2>1. x \in inbox[m] /\ x \notin F
    BY <1>1, <1>9
  <2>2. \A y \in T : y > x
    BY <1>1, <1>7, <1>9, <2>1
  <2>3. \A y \in F : y > x
    <3> SUFFICES ASSUME NEW y \in F, y <= x PROVE FALSE
      BY <1>1, <1>7, <2>1
    <3>1. y \in inbox[m] /\ Reading!Newer(m, x) <= Reading!Newer(m, y)
      BY <1>1, <2>1, OlderIsLater
    <3>2. Reading!Newer(m, y) < n /\ ~ (Reading!Newer(m, x) < n)
      BY <1>1, <1>9
    <3> QED BY <1>4, <3>1, <3>2
  <2>4. T \cup F \in SUBSET After(x)
    BY <1>1, <1>3, <2>1, <2>2, <2>3
  <2>5. T \cap F = {}
    BY <1>1
  <2>6. Cardinality(T \cup F) = Cardinality(T) + Cardinality(F)
    <3>1. Cardinality(T \cap F) = 0
      BY <2>5, FS_EmptySet
    <3>2. Cardinality(T \cup F) = Cardinality(T) + Cardinality(F) - Cardinality(T \cap F)
      BY <1>5, <1>6, FS_Union
    <3> QED BY <1>5, <1>6, <3>1, <3>2
  <2>7. Cardinality(T \cup F) <= Cardinality(After(x))
    BY <1>2, <2>4, FS_Subset
  <2>8. Cardinality(F) >= n
    BY <1>6, <2>1
  <2> QED BY <1>2, <1>4, <1>5, <1>6, <2>6, <2>7, <2>8
<1> QED BY <1>5, <1>8, <1>9

Tale == [shown : SUBSET Nat, twice : SUBSET Nat, there : SUBSET Nat, arrival : BOOLEAN,
         removal : BOOLEAN]
PlaceOf == [stage : {"none", "more", "end"}, offsets : [Accounts -> Nat]]

ReadingTypes ==
    /\ InboxTyped /\ arrived \in 0..MaxMail /\ removed \in 0..MaxRemoved
    /\ cursor \in [Readings -> PlaceOf] /\ told \in [Readings -> Tale]
    /\ \A m, n \in Accounts : \A x \in inbox[m] : x \in inbox[n] => m = n

\* What was shown lies before the offsets unless mail arrived, and what was there
\* and not shown after them unless mail left.
ReadUpTo(r, tale, offsets) ==
    /\ ~ tale.arrival => \A m \in r.mailboxes : \A x \in inbox[m] :
          x \in tale.shown => Reading!Newer(m, x) < offsets[m]
    /\ ~ tale.removal => \A x \in tale.there :
          \/ x \in tale.shown
          \/ \E m \in r.mailboxes : x \in inbox[m] /\ Reading!Newer(m, x) >= offsets[m]

Reads(r) ==
    /\ told[r].twice # {} => told[r].arrival
    /\ cursor[r].stage # "none" => ReadUpTo(r, told[r], cursor[r].offsets)
    /\ cursor[r].stage = "end" /\ ~ told[r].removal => told[r].there \subseteq told[r].shown

ReadingInv == ReadingTypes /\ \A r \in Readings : Reads(r)

LEMMA ReadingTells ==
    ASSUME ReadingInv
    PROVE  Reading!TypeOK /\ Reading!NothingIsSkipped /\ Reading!NothingTwice
  BY DEF ReadingInv, ReadingTypes, InboxTyped, Reads, PlaceOf, Reading!TypeOK, Reading!NothingIsSkipped,
     Reading!NothingTwice

LEMMA ReadingInitInv ==
    ASSUME Reading!Init PROVE ReadingInv
  BY HostAssumption
     DEF Reading!Init, Reading!NoCursor, Reading!Untold, ReadingInv, ReadingTypes, InboxTyped, Reads,
         Tale, PlaceOf

\* What is listed next of each mailbox begins at the offset and ends at the next.
GoesOn(r, before, offsets, T, mails, next, stage) ==
    /\ before \in Tale /\ (before.twice # {} => before.arrival) /\ ReadUpTo(r, before, offsets)
    /\ offsets \in [Accounts -> Nat] /\ next \in [Accounts -> Nat] /\ stage \in {"more", "end"}
    /\ T \in [r.mailboxes -> SUBSET Nat]
    /\ \A x : x \in mails <=> \E m \in r.mailboxes : x \in T[m]
    /\ \A m \in r.mailboxes :
          /\ T[m] \in SUBSET Reading!Rest(m, offsets[m])
          /\ \A x \in T[m], y \in Reading!Rest(m, offsets[m]) : y > x => y \in T[m]
          /\ next[m] = offsets[m] + Cardinality(T[m])
          /\ stage = "end" => T[m] = Reading!Rest(m, offsets[m])

TellStands(before, mails) ==
    [shown |-> before.shown \cup mails, twice |-> before.twice \cup (before.shown \cap mails),
     there |-> before.there, arrival |-> before.arrival, removal |-> before.removal]

LEMMA ReadStep ==
    ASSUME ReadingInv, NEW r \in Readings, NEW before, NEW offsets, NEW T, NEW mails, NEW next,
           NEW stage, GoesOn(r, before, offsets, T, mails, next, stage),
           told' = [told EXCEPT ![r] = TellStands(before, mails)],
           cursor' = [cursor EXCEPT ![r] = [stage |-> stage, offsets |-> next]],
           UNCHANGED <<inbox, arrived, removed>>
    PROVE  ReadingInv'
<1> DEFINE after == TellStands(before, mails)
<1>0. /\ before \in Tale /\ (before.twice # {} => before.arrival) /\ ReadUpTo(r, before, offsets)
      /\ offsets \in [Accounts -> Nat] /\ next \in [Accounts -> Nat] /\ stage \in {"more", "end"}
      /\ T \in [r.mailboxes -> SUBSET Nat]
  BY DEF GoesOn
<1>1. /\ r.mailboxes \subseteq Accounts /\ InboxTyped
      /\ \A m, n \in Accounts : \A x \in inbox[m] : x \in inbox[n] => m = n
  BY HostAssumption DEF ReadingInv, ReadingTypes
<1>2. \A m \in r.mailboxes : offsets[m] \in Nat /\ next[m] \in Nat
  BY <1>0, <1>1
<1>3. ASSUME NEW m \in r.mailboxes
      PROVE  /\ T[m] \subseteq inbox[m] /\ Cardinality(T[m]) \in Nat
             /\ \A x \in inbox[m] : x \in T[m] \/ ~ (x \in T[m])
             /\ \A x \in T[m] : /\ Reading!Newer(m, x) < next[m]
                               /\ ~ (Reading!Newer(m, x) < offsets[m])
             /\ \A x \in inbox[m] : Reading!Newer(m, x) >= offsets[m] /\ x \notin T[m] =>
                    Reading!Newer(m, x) >= next[m]
             /\ \A x \in inbox[m] : Reading!Newer(m, x) < offsets[m] => Reading!Newer(m, x) < next[m]
  <2>1. m \in Accounts /\ offsets[m] \in Nat /\ next[m] = offsets[m] + Cardinality(T[m])
    BY <1>0, <1>1, <1>2 DEF GoesOn
  <2>2. /\ Cardinality(T[m]) \in Nat
        /\ \A x \in Reading!Rest(m, offsets[m]) :
              x \in T[m] <=> Reading!Newer(m, x) < offsets[m] + Cardinality(T[m])
    BY <1>0, <1>1, <2>1, PageEndsAtCount DEF GoesOn
  <2>3. \A x : Reading!Newer(m, x) \in Nat
    BY <1>0, <1>1, <2>1, MailFacts
  <2>4. \A x : x \in Reading!Rest(m, offsets[m]) <=>
                  x \in inbox[m] /\ Reading!Newer(m, x) >= offsets[m]
    BY DEF Reading!Rest
  <2>5. T[m] \subseteq Reading!Rest(m, offsets[m])
    BY DEF GoesOn
  <2> QED BY <2>1, <2>2, <2>3, <2>4, <2>5
<1>4. \A x : x \in mails <=> \E m \in r.mailboxes : x \in T[m]
  BY DEF GoesOn
<1>5. mails \subseteq Nat
  BY <1>0, <1>4
<1>6. after \in Tale /\ told' = [told EXCEPT ![r] = after] /\ told'[r] = after
  BY <1>0, <1>5 DEF TellStands, Tale, ReadingInv, ReadingTypes
<1>7. /\ after.shown = before.shown \cup mails /\ after.there = before.there
      /\ after.twice = before.twice \cup (before.shown \cap mails)
      /\ after.arrival = before.arrival /\ after.removal = before.removal
  BY DEF TellStands
<1> HIDE DEF after
<1>8. cursor' \in [Readings -> PlaceOf] /\ cursor'[r].stage = stage /\ cursor'[r].offsets = next
  BY <1>0 DEF ReadingInv, ReadingTypes, PlaceOf
<1>9. ASSUME ~ before.arrival, NEW m \in r.mailboxes, NEW x \in inbox[m]
      PROVE  /\ x \in mails => x \in T[m] /\ x \notin before.shown
             /\ x \in after.shown => Reading!Newer(m, x) < next[m]
  <2>1. x \in mails => x \in T[m]
    BY <1>0, <1>1, <1>3, <1>4
  <2>2. x \in before.shown => Reading!Newer(m, x) < offsets[m]
    BY <1>0, <1>9 DEF ReadUpTo
  <2> QED BY <1>0, <1>3, <1>7, <2>1, <2>2
<1>10. after.twice # {} => after.arrival
  <2> SUFFICES ASSUME ~ before.arrival, NEW x \in mails, x \in before.shown PROVE FALSE
    BY <1>0, <1>7
  <2>1. PICK m \in r.mailboxes : x \in T[m] /\ x \in inbox[m]
    BY <1>0, <1>3, <1>4
  <2> QED BY <1>0, <1>9, <2>1
<1>11. ASSUME ~ before.removal, NEW x \in before.there
       PROVE  \/ x \in after.shown
              \/ /\ stage # "end"
                 /\ \E m \in r.mailboxes : x \in inbox[m] /\ Reading!Newer(m, x) >= next[m]
  <2>1. CASE x \in before.shown
    BY <1>0, <1>7, <2>1
  <2>2. CASE x \notin before.shown
    <3>1. PICK m \in r.mailboxes : x \in inbox[m] /\ Reading!Newer(m, x) >= offsets[m]
      BY <1>0, <1>11, <2>2 DEF ReadUpTo
    <3>2. CASE x \in T[m]
      BY <1>0, <1>4, <1>7, <3>2
    <3>3. CASE x \notin T[m]
      <4>1. stage # "end"
        BY <3>1, <3>3 DEF Reading!Rest, GoesOn
      <4> QED BY <1>0, <1>3, <3>1, <3>3, <4>1
    <3> QED BY <3>2, <3>3
  <2> QED BY <2>1, <2>2
<1>12. \A m, x : Reading!Newer(m, x)' = Reading!Newer(m, x)
  BY DEF Reading!Newer
<1>13. Reads(r)'
  <2>1. ReadUpTo(r, after, next)
    BY <1>0, <1>7, <1>9, <1>11 DEF ReadUpTo
  <2>2. ReadUpTo(r, told[r], cursor[r].offsets)'
    BY <1>0, <1>6, <1>8, <1>12, <2>1 DEF ReadUpTo
  <2> QED BY <1>0, <1>6, <1>7, <1>8, <1>10, <1>11, <2>2 DEF Reads
<1>14. ASSUME NEW q \in Readings, q # r PROVE Reads(q)'
  <2>1. told'[q] = told[q] /\ cursor'[q] = cursor[q] /\ Reads(q)
    BY <1>0, <1>14 DEF ReadingInv, ReadingTypes
  <2>2. ReadUpTo(q, told[q], cursor[q].offsets) => ReadUpTo(q, told[q], cursor[q].offsets)'
    BY <1>0, <1>12, <2>1 DEF ReadUpTo
  <2> QED BY <2>1, <2>2 DEF Reads
<1>15. ReadingTypes'
  BY <1>0, <1>6, <1>8 DEF ReadingInv, ReadingTypes, InboxTyped
<1> QED BY <1>0, <1>13, <1>14, <1>15 DEF ReadingInv

LEMMA PageStep ==
    ASSUME ReadingInv, NEW r \in Readings, r.reader = "page", NEW fresh \in BOOLEAN,
           NEW before \in Tale, before = IF fresh THEN Reading!Unread(r) ELSE told[r],
           NEW offsets \in [Accounts -> Nat],
           before.twice # {} => before.arrival, ReadUpTo(r, before, offsets),
           NEW limit \in Nat, Reading!Page(r, offsets, fresh, limit),
           UNCHANGED <<inbox, arrived, removed>>
    PROVE  ReadingInv'
<1>1. PICK m \in Accounts : r.mailboxes = {m}
  BY HostAssumption
<1>2. PICK listing \in Reading!Listings(m, offsets[m], limit) :
         /\ Reading!Show(r, fresh, listing.mails)
         /\ cursor' = [cursor EXCEPT ![r] =
                [stage |-> IF listing.hasMore THEN "more" ELSE "end",
                 offsets |-> [offsets EXCEPT ![m] = @ + Reading!Cardinality(listing.mails)]]]
  BY <1>1 DEF Reading!Page
<1>3. PICK n \in 0..limit : listing =
         [mails |-> {x \in Reading!Rest(m, offsets[m]) : Reading!Newer(m, x) < offsets[m] + n},
          hasMore |-> \E x \in Reading!Rest(m, offsets[m]) : Reading!Newer(m, x) >= offsets[m] + n]
  BY DEF Reading!Listings
<1> DEFINE mails == listing.mails
           T == [a \in {m} |-> mails]
           stage == IF listing.hasMore THEN "more" ELSE "end"
           next == [offsets EXCEPT ![m] = offsets[m] + Cardinality(mails)]
<1>4. /\ mails \in SUBSET Reading!Rest(m, offsets[m])
      /\ \A x \in Reading!Rest(m, offsets[m]) : x \in mails <=> Reading!Newer(m, x) < offsets[m] + n
      /\ listing.hasMore <=>
             \E x \in Reading!Rest(m, offsets[m]) : Reading!Newer(m, x) >= offsets[m] + n
  BY <1>3
<1>5. /\ InboxTyped /\ offsets[m] + n \in Nat
      /\ \A x : Reading!Newer(m, x) \in Nat
      /\ \A x \in Reading!Rest(m, offsets[m]) : x \in inbox[m] /\ x \in Nat
  BY MailFacts DEF ReadingInv, ReadingTypes, Reading!Rest
<1>6. ASSUME NEW x \in mails, NEW y \in Reading!Rest(m, offsets[m]), y > x PROVE y \in mails
  <2>1. Reading!Newer(m, y) <= Reading!Newer(m, x)
    BY <1>4, <1>5, <1>6, OlderIsLater
  <2> QED BY <1>4, <1>5, <1>6, <2>1
<1>7. ASSUME stage = "end" PROVE mails = Reading!Rest(m, offsets[m])
  <2>1. ~ listing.hasMore
    BY <1>7
  <2> HIDE DEF mails
  <2>2. \A x \in Reading!Rest(m, offsets[m]) : x \in mails
    BY <1>4, <1>5, <2>1
  <2> QED BY <1>4, <2>2
<1>8. Cardinality(mails) \in Nat
  BY <1>4, <1>5, <1>6, PageEndsAtCount
<1>9. T \in [r.mailboxes -> SUBSET Nat] /\ T[m] = mails
  BY <1>1, <1>4, <1>5
<1>10. next \in [Accounts -> Nat] /\ next[m] = offsets[m] + Cardinality(mails)
  BY <1>8
<1>11. /\ told' = [told EXCEPT ![r] = TellStands(before, mails)]
       /\ cursor' = [cursor EXCEPT ![r] = [stage |-> stage, offsets |-> next]]
       /\ stage \in {"more", "end"}
  BY <1>2, MailsCount DEF Reading!Show, TellStands
<1> HIDE DEF mails, T, stage, next
<1>12. GoesOn(r, before, offsets, T, mails, next, stage)
  BY <1>1, <1>4, <1>6, <1>7, <1>9, <1>10, <1>11 DEF GoesOn
<1> QED BY <1>11, <1>12, ReadStep

\* What is taken of the windows of several mailboxes begins each of them.
LEMMA InboxStep ==
    ASSUME ReadingInv, NEW r \in Readings, NEW fresh \in BOOLEAN,
           NEW before \in Tale, before = IF fresh THEN Reading!Unread(r) ELSE told[r],
           NEW offsets \in [Accounts -> Nat],
           before.twice # {} => before.arrival, ReadUpTo(r, before, offsets),
           NEW limit \in Nat, Reading!Inbox(r, offsets, fresh, limit),
           UNCHANGED <<inbox, arrived, removed>>
    PROVE  ReadingInv'
<1>1. r.mailboxes \subseteq Accounts /\ InboxTyped
  BY HostAssumption DEF ReadingInv, ReadingTypes
<1>2. PICK pages \in [r.mailboxes ->
                         UNION {Reading!Listings(m, offsets[m], Window) : m \in r.mailboxes}] :
         /\ \A m \in r.mailboxes : pages[m] \in Reading!Listings(m, offsets[m], Window)
         /\ LET all == UNION {pages[m].mails : m \in r.mailboxes}
                mails == {x \in all : Reading!Cardinality({y \in all : y > x}) < limit}
            IN /\ Reading!Show(r, fresh, mails)
               /\ cursor' = [cursor EXCEPT ![r] =
                      [stage |-> IF mails # all \/ \E m \in r.mailboxes : pages[m].hasMore
                                 THEN "more" ELSE "end",
                       offsets |-> [m \in Accounts |->
                           IF m \in r.mailboxes
                           THEN offsets[m] + Reading!Cardinality(pages[m].mails \cap mails)
                           ELSE offsets[m]]]]
  BY DEF Reading!Inbox
<1> DEFINE all == UNION {pages[m].mails : m \in r.mailboxes}
           mails == {x \in all : Cardinality({y \in all : y > x}) < limit}
           T == [m \in r.mailboxes |-> pages[m].mails \cap mails]
           stage == IF mails # all \/ \E m \in r.mailboxes : pages[m].hasMore
                    THEN "more" ELSE "end"
           next == [m \in Accounts |->
                        IF m \in r.mailboxes
                        THEN offsets[m] + Cardinality(pages[m].mails \cap mails)
                        ELSE offsets[m]]
<1>3. /\ told' = [told EXCEPT ![r] = TellStands(before, mails)]
      /\ cursor' = [cursor EXCEPT ![r] = [stage |-> stage, offsets |-> next]]
      /\ stage \in {"more", "end"}
  BY <1>2, MailsCount DEF Reading!Show, TellStands
<1>4. ASSUME NEW m \in r.mailboxes
      PROVE  /\ pages[m].mails \subseteq Reading!Rest(m, offsets[m])
             /\ Reading!Rest(m, offsets[m]) \subseteq inbox[m]
             /\ \A x \in pages[m].mails, y \in Reading!Rest(m, offsets[m]) :
                    y > x => y \in pages[m].mails
             /\ ~ pages[m].hasMore => pages[m].mails = Reading!Rest(m, offsets[m])
  <2>1. PICK n \in 0..Window : pages[m] =
           [mails |-> {x \in Reading!Rest(m, offsets[m]) : Reading!Newer(m, x) < offsets[m] + n},
            hasMore |-> \E x \in Reading!Rest(m, offsets[m]) : Reading!Newer(m, x) >= offsets[m] + n]
    BY <1>2 DEF Reading!Listings
  <2>2. /\ \A x : x \in pages[m].mails <=> /\ x \in Reading!Rest(m, offsets[m])
                                          /\ Reading!Newer(m, x) < offsets[m] + n
        /\ pages[m].hasMore <=>
               \E x \in Reading!Rest(m, offsets[m]) : Reading!Newer(m, x) >= offsets[m] + n
    BY <2>1
  <2>3. /\ offsets[m] + n \in Nat /\ m \in Accounts
        /\ \A x : Reading!Newer(m, x) \in Nat
        /\ \A x \in Reading!Rest(m, offsets[m]) : x \in inbox[m] /\ x \in Nat
    BY <1>1, HostAssumption, MailFacts DEF Reading!Rest
  <2>4. ASSUME NEW x \in pages[m].mails, NEW y \in Reading!Rest(m, offsets[m]), y > x
        PROVE  y \in pages[m].mails
    <3>1. Reading!Newer(m, y) <= Reading!Newer(m, x)
      BY <1>1, <2>2, <2>3, <2>4, OlderIsLater
    <3> QED BY <2>2, <2>3, <2>4, <3>1
  <2>5. ASSUME ~ pages[m].hasMore, NEW x \in Reading!Rest(m, offsets[m])
        PROVE  x \in pages[m].mails
    BY <2>2, <2>3, <2>5
  <2>6. pages[m].mails \subseteq Reading!Rest(m, offsets[m])
    BY <2>2
  <2>7. Reading!Rest(m, offsets[m]) \subseteq inbox[m]
    BY <2>3
  <2> QED BY <2>4, <2>5, <2>6, <2>7
<1>5. all \in SUBSET (1..arrived) /\ IsFiniteSet(all)
  <2>1. \A m \in r.mailboxes : pages[m].mails \subseteq 1..arrived
    BY <1>1, <1>4 DEF InboxTyped
  <2>2. all \in SUBSET (1..arrived)
    BY <2>1
  <2>3. IsFiniteSet(1..arrived)
    BY <1>1, FS_Interval DEF InboxTyped
  <2> QED BY <2>2, <2>3, FS_Subset
<1>6. ASSUME NEW x \in mails, NEW y \in all, y > x PROVE y \in mails
  <2> DEFINE X == {z \in all : z > x}
             Y == {z \in all : z > y}
  <2>1. \A z \in all : z \in Nat
    <3> HIDE DEF all, mails
    <3> QED BY <1>1, <1>5 DEF InboxTyped
  <2>2. x \in all /\ Cardinality(X) < limit
    OBVIOUS
  <2>3. Y \in SUBSET X /\ X \in SUBSET all
    <3> HIDE DEF all, mails
    <3> QED BY <1>6, <2>1, <2>2
  <2>4. Cardinality(Y) <= Cardinality(X) /\ Cardinality(Y) \in Nat /\ Cardinality(X) \in Nat
    <3> HIDE DEF X, Y, all
    <3> QED BY <1>5, <2>3, FS_Subset, FS_CardinalityType
  <2>5. Cardinality(Y) < limit
    <3> HIDE DEF X, Y
    <3> QED BY <2>2, <2>4
  <2> QED BY <2>5
<1>7. mails \subseteq all
  OBVIOUS
<1>8. /\ T \in [r.mailboxes -> SUBSET Nat] /\ \A m \in r.mailboxes : T[m] = pages[m].mails \cap mails
      /\ \A x : x \in mails <=> \E m \in r.mailboxes : x \in T[m]
  <2>1. mails \subseteq Nat
    <3> HIDE DEF mails, all
    <3> QED BY <1>1, <1>5, <1>7 DEF InboxTyped
  <2>2. \A x \in mails : \E m \in r.mailboxes : x \in pages[m].mails
    BY <1>7
  <2>3. \A m \in r.mailboxes : pages[m].mails \cap mails \in SUBSET Nat
    BY <2>1
  <2> HIDE DEF mails, all
  <2>4. T \in [r.mailboxes -> SUBSET Nat] /\ \A m \in r.mailboxes : T[m] = pages[m].mails \cap mails
    BY <2>3
  <2> HIDE DEF T
  <2> QED BY <2>2, <2>4
<1>9. ASSUME NEW m \in r.mailboxes
      PROVE  /\ T[m] \in SUBSET Reading!Rest(m, offsets[m])
             /\ \A x \in T[m], y \in Reading!Rest(m, offsets[m]) : y > x => y \in T[m]
             /\ Cardinality(T[m]) \in Nat
             /\ stage = "end" => T[m] = Reading!Rest(m, offsets[m])
  <2>1. T[m] \in SUBSET Reading!Rest(m, offsets[m])
    BY <1>4
  <2>2. \A x \in T[m], y \in Reading!Rest(m, offsets[m]) : y > x => y \in T[m]
    <3>1. \A y \in pages[m].mails : y \in all
      OBVIOUS
    <3> HIDE DEF mails, all, T
    <3> QED BY <1>4, <1>6, <1>8, <3>1
  <2>3. Cardinality(T[m]) \in Nat
    BY <1>1, <2>1, <2>2, PageEndsAtCount
  <2>4. ASSUME stage = "end" PROVE T[m] = Reading!Rest(m, offsets[m])
    <3>1. mails = all /\ ~ pages[m].hasMore
      BY <2>4
    <3>2. pages[m].mails \subseteq all
      OBVIOUS
    <3>3. pages[m].mails = Reading!Rest(m, offsets[m])
      BY <1>4, <3>1
    <3> HIDE DEF mails, all, T
    <3>4. pages[m].mails \cap mails = pages[m].mails
      BY <3>1, <3>2
    <3> QED BY <1>8, <3>3, <3>4
  <2> QED BY <2>1, <2>2, <2>3, <2>4
<1>10. next \in [Accounts -> Nat] /\ \A m \in r.mailboxes : next[m] = offsets[m] + Cardinality(T[m])
  <2>1. \A m \in r.mailboxes : Cardinality(pages[m].mails \cap mails) \in Nat
    <3> HIDE DEF mails, T
    <3> QED BY <1>8, <1>9
  <2> HIDE DEF mails
  <2> QED BY <1>1, <2>1
<1> HIDE DEF mails, all, T, stage, next
<1>11. GoesOn(r, before, offsets, T, mails, next, stage)
  BY <1>3, <1>8, <1>9, <1>10 DEF GoesOn
<1> QED BY <1>3, <1>11, ReadStep

LEMMA BeginReadingInv ==
    ASSUME ReadingInv, NEW r \in Readings, Reading!Begin(r) PROVE ReadingInv'
<1> DEFINE before == Reading!Unread(r)
           offsets == [m \in Accounts |-> 0]
<1>1. Reading!Read(r, offsets, TRUE)
  BY DEF Reading!Begin, Reading!NoCursor
<1>2. PICK limit \in PageLimits :
         \/ r.reader = "page" /\ Reading!Page(r, offsets, TRUE, limit)
         \/ r.reader = "inbox" /\ Reading!Inbox(r, offsets, TRUE, limit)
  BY <1>1 DEF Reading!Read
<1>3. UNCHANGED <<inbox, arrived, removed>> /\ limit \in Nat
  BY <1>1, HostAssumption DEF Reading!Read
<1>4. r.mailboxes \subseteq Accounts /\ InboxTyped
  BY HostAssumption DEF ReadingInv, ReadingTypes
<1>5. \A x \in Reading!Held(r.mailboxes) : \E m \in r.mailboxes : x \in inbox[m]
  BY DEF Reading!Held
<1>6. before \in Tale /\ before = IF TRUE THEN Reading!Unread(r) ELSE told[r]
  BY <1>4, <1>5 DEF Tale, Reading!Unread, InboxTyped
<1>7. before.twice # {} => before.arrival
  BY DEF Reading!Unread
<1>8. ReadUpTo(r, before, offsets)
  <2>1. \A m \in r.mailboxes : \A x : offsets[m] = 0 /\ Reading!Newer(m, x) \in Nat
    BY <1>4, MailFacts
  <2> QED BY <1>5, <2>1 DEF ReadUpTo, Reading!Unread
<1>9. offsets \in [Accounts -> Nat] /\ TRUE \in BOOLEAN
  OBVIOUS
<1> HIDE DEF before, offsets
<1>10. CASE r.reader = "page" /\ Reading!Page(r, offsets, TRUE, limit)
  BY <1>3, <1>6, <1>7, <1>8, <1>9, <1>10, PageStep
<1>11. CASE r.reader = "inbox" /\ Reading!Inbox(r, offsets, TRUE, limit)
  BY <1>3, <1>6, <1>7, <1>8, <1>9, <1>11, InboxStep
<1> QED BY <1>2, <1>10, <1>11

LEMMA GoOnInv ==
    ASSUME ReadingInv, NEW r \in Readings, Reading!GoOn(r) PROVE ReadingInv'
<1> DEFINE before == told[r]
           offsets == cursor[r].offsets
<1>1. cursor[r].stage = "more" /\ Reading!Read(r, offsets, FALSE)
  BY DEF Reading!GoOn, Reading!Honoured, Reading!Offsets
<1>2. PICK limit \in PageLimits :
         \/ r.reader = "page" /\ Reading!Page(r, offsets, FALSE, limit)
         \/ r.reader = "inbox" /\ Reading!Inbox(r, offsets, FALSE, limit)
  BY <1>1 DEF Reading!Read
<1>3. UNCHANGED <<inbox, arrived, removed>> /\ limit \in Nat
  BY <1>1, HostAssumption DEF Reading!Read
<1>4. /\ before \in Tale /\ offsets \in [Accounts -> Nat]
      /\ before = IF FALSE THEN Reading!Unread(r) ELSE told[r]
  BY DEF ReadingInv, ReadingTypes, PlaceOf
<1>5. (before.twice # {} => before.arrival) /\ ReadUpTo(r, before, offsets)
  BY <1>1 DEF ReadingInv, Reads
<1> HIDE DEF before, offsets
<1>6. CASE r.reader = "page" /\ Reading!Page(r, offsets, FALSE, limit)
  BY <1>3, <1>4, <1>5, <1>6, PageStep
<1>7. CASE r.reader = "inbox" /\ Reading!Inbox(r, offsets, FALSE, limit)
  BY <1>3, <1>4, <1>5, <1>7, InboxStep
<1> QED BY <1>2, <1>6, <1>7

LEMMA ExpireInv ==
    ASSUME ReadingInv, NEW r \in Readings, Reading!Expire(r) PROVE ReadingInv'
<1>1. /\ cursor' = [cursor EXCEPT ![r] = Reading!NoCursor]
      /\ UNCHANGED <<inbox, arrived, removed, told>>
  BY DEF Reading!Expire
<1>2. Reading!NoCursor \in PlaceOf /\ Reading!NoCursor.stage = "none"
  BY DEF Reading!NoCursor, PlaceOf
<1>3. ReadingTypes'
  BY <1>1, <1>2 DEF ReadingInv, ReadingTypes, InboxTyped
<1>4. ASSUME NEW q \in Readings PROVE Reads(q)'
  <2>1. \A m, x : Reading!Newer(m, x)' = Reading!Newer(m, x)
    BY <1>1 DEF Reading!Newer
  <2>2. Reads(q) /\ (cursor'[q] = cursor[q] \/ cursor'[q].stage = "none")
    BY <1>1, <1>2 DEF ReadingInv, ReadingTypes
  <2>3. ASSUME cursor'[q] = cursor[q], ReadUpTo(q, told[q], cursor[q].offsets)
        PROVE  ReadUpTo(q, told[q], cursor[q].offsets)'
    BY <1>1, <2>1, <2>3 DEF ReadUpTo
  <2> QED BY <1>1, <2>2, <2>3 DEF Reads
<1> QED BY <1>3, <1>4 DEF ReadingInv

-----------------------------------------------------------------------------
(* The inbox changes *)

LEMMA ArriveMailInv ==
    ASSUME ReadingInv, NEW m \in Accounts, Reading!Arrive(m) PROVE ReadingInv'
<1>1. /\ arrived < MaxMail /\ arrived' = arrived + 1
      /\ inbox' = [inbox EXCEPT ![m] = inbox[m] \cup {arrived + 1}]
      /\ told' = [r \in Readings |-> [told[r] EXCEPT !.arrival = told[r].arrival \/ m \in r.mailboxes]]
      /\ UNCHANGED <<removed, cursor>>
  BY DEF Reading!Arrive, ReadingInv, ReadingTypes, InboxTyped
<1>2. /\ InboxTyped /\ arrived \in Nat /\ MaxMail \in Nat
      /\ \A a \in Accounts : inbox[a] \subseteq 1..arrived
  BY HostAssumption DEF ReadingInv, ReadingTypes, InboxTyped
<1>3. \A a \in Accounts : inbox'[a] = IF a = m THEN inbox[m] \cup {arrived + 1} ELSE inbox[a]
  BY <1>1, <1>2 DEF InboxTyped
<1>4. InboxTyped'
  <2>1. \A a \in Accounts : inbox'[a] \subseteq 1..arrived'
    BY <1>1, <1>2, <1>3
  <2>2. \A a \in Accounts : inbox'[a] \subseteq Nat
    BY <1>1, <1>2, <2>1
  <2>3. inbox' \in [Accounts -> SUBSET Nat]
    BY <1>1, <1>2, <2>2 DEF InboxTyped
  <2> QED BY <1>1, <1>2, <2>1, <2>3 DEF InboxTyped
<1>5. ASSUME NEW r \in Readings
      PROVE  /\ told'[r] \in Tale /\ told'[r].shown = told[r].shown /\ told'[r].twice = told[r].twice
             /\ told'[r].there = told[r].there /\ told'[r].removal = told[r].removal
             /\ told'[r].arrival = (told[r].arrival \/ m \in r.mailboxes)
  BY <1>1 DEF ReadingInv, ReadingTypes, Tale
<1>6. ReadingTypes'
  <2>1. arrived' \in 0..MaxMail
    BY <1>1, <1>2
  <2>2. told' \in [Readings -> Tale]
    BY <1>1, <1>5
  <2>3. \A a, b \in Accounts : \A x \in inbox'[a] : x \in inbox'[b] => a = b
    <3>1. \A a \in Accounts : arrived + 1 \notin inbox[a]
      BY <1>2
    <3> QED BY <1>3, <3>1 DEF ReadingInv, ReadingTypes
  <2> QED BY <1>1, <1>4, <2>1, <2>2, <2>3 DEF ReadingInv, ReadingTypes
<1>7. ASSUME NEW a \in Accounts, NEW x
      PROVE  Reading!Newer(a, x)' >= Reading!Newer(a, x) /\ Reading!Newer(a, x)' \in Nat
  <2> DEFINE Old == {y \in inbox[a] : y > x}
             New == {y \in inbox'[a] : y > x}
  <2>1. Reading!Newer(a, x) = Cardinality(Old)
    BY <1>2, MailFacts
  <2>2. Reading!Newer(a, x)' = Cardinality(New)
    BY MailsCount DEF Reading!Newer
  <2>3. Old \in SUBSET New
    BY <1>3
  <2>4. IsFiniteSet(New) /\ Cardinality(Old) \in Nat /\ Cardinality(New) \in Nat
    <3>1. arrived' \in Nat /\ New \in SUBSET (1..arrived')
      BY <1>4 DEF InboxTyped
    <3>2. IsFiniteSet(New)
      <4>1. IsFiniteSet(1..arrived')
        BY <3>1, FS_Interval
      <4> HIDE DEF New
      <4> QED BY <3>1, <4>1, FS_Subset
    <3> HIDE DEF Old, New
    <3> QED BY <2>3, <3>2, FS_Subset, FS_CardinalityType
  <2> HIDE DEF Old, New
  <2> QED BY <2>1, <2>2, <2>3, <2>4, FS_Subset
<1>8. ASSUME NEW r \in Readings, ReadUpTo(r, told[r], cursor[r].offsets), cursor[r] \in PlaceOf
      PROVE  ReadUpTo(r, told[r], cursor[r].offsets)'
  <2>1. r.mailboxes \subseteq Accounts
    BY HostAssumption
  <2>2. ASSUME ~ told'[r].arrival, NEW a \in r.mailboxes, NEW x \in inbox'[a], x \in told'[r].shown
        PROVE  Reading!Newer(a, x)' < cursor[r].offsets[a]
    <3>1. a # m /\ inbox'[a] = inbox[a]
      BY <1>3, <1>5, <2>1, <2>2
    <3>2. Reading!Newer(a, x)' = Reading!Newer(a, x)
      BY <3>1 DEF Reading!Newer
    <3> QED BY <1>5, <1>8, <2>2, <3>1, <3>2 DEF ReadUpTo
  <2>3. ASSUME ~ told'[r].removal, NEW x \in told'[r].there, x \notin told'[r].shown
        PROVE  \E a \in r.mailboxes : x \in inbox'[a] /\ Reading!Newer(a, x)' >= cursor[r].offsets[a]
    <3>1. PICK a \in r.mailboxes : x \in inbox[a] /\ Reading!Newer(a, x) >= cursor[r].offsets[a]
      BY <1>5, <1>8, <2>3 DEF ReadUpTo
    <3>2. /\ Reading!Newer(a, x) \in Nat /\ cursor[r].offsets[a] \in Nat
          /\ Reading!Newer(a, x)' >= Reading!Newer(a, x) /\ Reading!Newer(a, x)' \in Nat
      BY <1>2, <1>7, <1>8, <2>1, MailFacts DEF PlaceOf
    <3>3. x \in inbox'[a]
      BY <1>3, <2>1, <3>1
    <3> QED BY <3>1, <3>2, <3>3
  <2> QED BY <1>1, <2>2, <2>3 DEF ReadUpTo
<1>9. ASSUME NEW r \in Readings PROVE Reads(r)'
  <2>1. Reads(r) /\ cursor[r] \in PlaceOf
    BY DEF ReadingInv, ReadingTypes
  <2> QED BY <1>1, <1>5, <1>8, <2>1 DEF Reads
<1> QED BY <1>6, <1>9 DEF ReadingInv

LEMMA LeaveMailInv ==
    ASSUME ReadingInv, NEW m \in Accounts, Reading!Leave(m) PROVE ReadingInv'
<1>1. PICK mail \in inbox[m] : inbox' = [inbox EXCEPT ![m] = inbox[m] \ {mail}]
  BY DEF Reading!Leave, ReadingInv, ReadingTypes, InboxTyped
<1>2. /\ removed < MaxRemoved /\ removed' = removed + 1
      /\ told' = [r \in Readings |-> [told[r] EXCEPT !.removal = told[r].removal \/ m \in r.mailboxes]]
      /\ UNCHANGED <<arrived, cursor>>
  BY DEF Reading!Leave
<1>3. InboxTyped /\ \A a \in Accounts : inbox[a] \subseteq 1..arrived
  BY DEF ReadingInv, ReadingTypes, InboxTyped
<1>4. \A a \in Accounts : inbox'[a] = IF a = m THEN inbox[m] \ {mail} ELSE inbox[a]
  BY <1>1, <1>3 DEF InboxTyped
<1>5. \A a \in Accounts : inbox'[a] \subseteq inbox[a]
  BY <1>4
<1>6. InboxTyped'
  BY <1>1, <1>2, <1>3, <1>5 DEF InboxTyped
<1>7. ASSUME NEW r \in Readings
      PROVE  /\ told'[r] \in Tale /\ told'[r].shown = told[r].shown /\ told'[r].twice = told[r].twice
             /\ told'[r].there = told[r].there /\ told'[r].arrival = told[r].arrival
             /\ told'[r].removal = (told[r].removal \/ m \in r.mailboxes)
  BY <1>2 DEF ReadingInv, ReadingTypes, Tale
<1>8. ReadingTypes'
  <2>1. removed' \in 0..MaxRemoved
    BY <1>2, HostAssumption DEF ReadingInv, ReadingTypes
  <2>2. told' \in [Readings -> Tale]
    BY <1>2, <1>7
  <2>3. \A a, b \in Accounts : \A x \in inbox'[a] : x \in inbox'[b] => a = b
    BY <1>5 DEF ReadingInv, ReadingTypes
  <2> QED BY <1>2, <1>6, <2>1, <2>2, <2>3 DEF ReadingInv, ReadingTypes
<1>9. ASSUME NEW a \in Accounts, NEW x
      PROVE  Reading!Newer(a, x)' <= Reading!Newer(a, x) /\ Reading!Newer(a, x)' \in Nat
  <2> DEFINE Old == {y \in inbox[a] : y > x}
             New == {y \in inbox'[a] : y > x}
  <2>1. Reading!Newer(a, x) = Cardinality(Old) /\ IsFiniteSet(Old)
    BY <1>3, MailFacts
  <2>2. Reading!Newer(a, x)' = Cardinality(New)
    BY MailsCount DEF Reading!Newer
  <2>3. New \in SUBSET Old
    BY <1>5
  <2> HIDE DEF Old, New
  <2> QED BY <2>1, <2>2, <2>3, FS_Subset, FS_CardinalityType
<1>10. ASSUME NEW r \in Readings, ReadUpTo(r, told[r], cursor[r].offsets), cursor[r] \in PlaceOf
       PROVE  ReadUpTo(r, told[r], cursor[r].offsets)'
  <2>1. r.mailboxes \subseteq Accounts
    BY HostAssumption
  <2>2. ASSUME ~ told'[r].arrival, NEW a \in r.mailboxes, NEW x \in inbox'[a], x \in told'[r].shown
        PROVE  Reading!Newer(a, x)' < cursor[r].offsets[a]
    <3>1. x \in inbox[a] /\ Reading!Newer(a, x) < cursor[r].offsets[a]
      BY <1>5, <1>7, <1>10, <2>1, <2>2 DEF ReadUpTo
    <3>2. /\ Reading!Newer(a, x) \in Nat /\ cursor[r].offsets[a] \in Nat
          /\ Reading!Newer(a, x)' <= Reading!Newer(a, x) /\ Reading!Newer(a, x)' \in Nat
      BY <1>3, <1>9, <1>10, <2>1, MailFacts DEF PlaceOf
    <3> QED BY <3>1, <3>2
  <2>3. ASSUME ~ told'[r].removal, NEW x \in told'[r].there, x \notin told'[r].shown
        PROVE  \E a \in r.mailboxes : x \in inbox'[a] /\ Reading!Newer(a, x)' >= cursor[r].offsets[a]
    <3>1. PICK a \in r.mailboxes : x \in inbox[a] /\ Reading!Newer(a, x) >= cursor[r].offsets[a]
      BY <1>7, <1>10, <2>3 DEF ReadUpTo
    <3>2. inbox'[a] = inbox[a]
      BY <1>4, <1>7, <2>1, <2>3
    <3>3. Reading!Newer(a, x)' = Reading!Newer(a, x)
      BY <3>2 DEF Reading!Newer
    <3> QED BY <3>1, <3>2, <3>3
  <2> QED BY <1>2, <2>2, <2>3 DEF ReadUpTo
<1>11. ASSUME NEW r \in Readings PROVE Reads(r)'
  <2>1. Reads(r) /\ cursor[r] \in PlaceOf
    BY DEF ReadingInv, ReadingTypes
  <2> QED BY <1>2, <1>7, <1>10, <2>1 DEF Reads
<1> QED BY <1>8, <1>11 DEF ReadingInv

LEMMA ReadingNextInv ==
    ASSUME ReadingInv, [Reading!Next]_(Reading!vars) PROVE ReadingInv'
<1>1. CASE UNCHANGED Reading!vars
  <2>1. UNCHANGED <<inbox, arrived, removed, cursor, told>>
    BY <1>1 DEF Reading!vars
  <2>2. ReadingTypes' = ReadingTypes
    BY <2>1 DEF ReadingTypes, InboxTyped
  <2>3. ASSUME NEW r \in Readings PROVE Reads(r)' = Reads(r)
    BY <2>1 DEF Reads, ReadUpTo, Reading!Newer
  <2> QED BY <2>2, <2>3 DEF ReadingInv
<1> QED BY <1>1, ArriveMailInv, LeaveMailInv, BeginReadingInv, GoOnInv, ExpireInv DEF Reading!Next

\* Who reads an inbox to the end while mail arrives has been shown all that was there
\* when he began and nothing twice that did not move, for any mailboxes, windows and
\* limits of pages (client.ts, mailbox-page.ts).
THEOREM ReadingSkipsNothing ==
    Reading!Spec => [](Reading!TypeOK /\ Reading!NothingIsSkipped /\ Reading!NothingTwice)
<1>1. Reading!Init => ReadingInv
  BY ReadingInitInv
<1>2. ReadingInv /\ [Reading!Next]_(Reading!vars) => ReadingInv'
  BY ReadingNextInv
<1>3. ReadingInv => Reading!TypeOK /\ Reading!NothingIsSkipped /\ Reading!NothingTwice
  BY ReadingTells
<1> QED BY <1>1, <1>2, <1>3, PTL DEF Reading!Spec

-----------------------------------------------------------------------------

\* What HostServices promises of the memory, the model, the observing, the recall
\* and the reading, which share no state.
THEOREM AnswersStayTrue ==
    Memory!Spec /\ Model!Spec /\ Observations!Spec /\ Recall!Spec /\ Reading!Spec
    => []AnswersAreTrue
<1>1. /\ Memory!TypeOK /\ Memory!RetainedIsKept /\ Memory!BankHasMission
      /\ Model!TypeOK /\ Model!AnswersAreWhole
      /\ OwnerIsHeard
      /\ Recall!TypeOK /\ Recall!OwnerSpeaks /\ Recall!KeptIsEnough
      /\ Reading!TypeOK /\ Reading!NothingIsSkipped /\ Reading!NothingTwice
      => AnswersAreTrue
  BY DEF AnswersAreTrue, OwnerIsHeard
<1> QED BY <1>1, MemoryTellsTruth, ModelAnswersWhole, CorrectionsStand, RecallSpeaksTruly,
           ReadingSkipsNothing, PTL
=============================================================================

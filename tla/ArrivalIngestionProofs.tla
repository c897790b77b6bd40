----------------------- MODULE ArrivalIngestionProofs -----------------------
(***************************************************************************)
(* Theorems about ArrivalIngestion for any number of messages, workers and *)
(* failures: mail from before the connection stays quiet, what counts as   *)
(* dispatched is in the queue, no job is offered more often than workers   *)
(* and failures account for, and later mail is taken for baseline only     *)
(* after a baseline outlasted its lease.                                   *)
(***************************************************************************)
EXTENDS ArrivalIngestion, FiniteSetTheorems, TLAPS

(* Nothing is listed, recorded or cut off before it arrived. *)
ArrivedFirst ==
    /\ Existing <= arrived
    /\ cutoff # Open => Existing <= cutoff /\ cutoff <= arrived
    /\ \A m \in Messages : row[m] # "absent" => m <= arrived
    /\ \A w \in Workers : batch[w] \subseteq 1..arrived

(* Until one is outlasted, the baseline is one worker's business: it holds   *)
(* the lease, which has not run out, and nobody has completed a baseline.    *)
BaselineStage(w) ==
    pc[w] \in {"establish", "baseline"} \/ (pc[w] = "recent" /\ ~known[w])
HeldAlone == \A w \in Workers :
    /\ pc[w] = "accounts" \/ BaselineStage(w) => holder = w /\ ~lapsed
    /\ BaselineStage(w) => cutoff = Open

(* Who will offer a job, and who has offered it and not said so yet.  As     *)
(* long as the job is unmarked, each delivery is such an offer or cost a     *)
(* failure; afterwards, those that may still follow are counted beforehand.  *)
Takers(m) == {w \in Workers : m \in pending[w]}
Offerers(m) == {w \in Workers : m \in offered[w]}
OffersCounted ==
    /\ \A w \in Workers : pending[w] \cap offered[w] = {}
    /\ \A w \in Workers : \A m \in offered[w] : sent[m] > 0
    /\ sent \in [Messages -> Nat]
    /\ \A m \in Messages :
          IF m \in queueId
          THEN sent[m] + Cardinality(Takers(m)) <= failures + Cardinality(Workers)
          ELSE sent[m] <= failures + Cardinality(Offerers(m))

-----------------------------------------------------------------------------
(* Steps. *)

LEMMA StepCases ==
    ASSUME [Next]_vars
    PROVE  \/ \E w \in Workers : AcquireLease(w) \/ ReadAccount(w) \/ EstablishBaseline(w)
                                 \/ ListRecent(w) \/ RecordBaseline(w) \/ MarkBaseline(w)
                                 \/ RecordArrival(w) \/ PollNew(w) \/ PollSucceeded(w)
                                 \/ PollFails(w)
           \/ \E w \in Workers : PendingDispatches(w) \/ Offer(w) \/ MarkDispatched(w)
                                 \/ DispatchFails(w)
           \/ \E w \in Workers : Crash(w)
           \/ (\E m \in Messages : OwnerReads(m)) \/ Arrive \/ LeaseExpires
           \/ UNCHANGED vars
BY DEF Next, Poll, Dispatch

LEMMA MailKept ==
    ASSUME MailTyped, UNCHANGED <<mailbox, records>> PROVE MailTyped'
BY DEF MailTyped, mailbox, records
LEMMA OutboxKept ==
    ASSUME OutboxTyped, UNCHANGED <<outbox, failures>>, jobs \subseteq jobs' PROVE OutboxTyped'
BY DEF OutboxTyped, outbox
LEMMA CycleKept ==
    ASSUME CycleTyped, UNCHANGED <<lease, cycle>> PROVE CycleTyped'
BY DEF CycleTyped, lease, cycle

LEMMA BooleansTyped ==
    ASSUME NEW f \in [Workers -> BOOLEAN], NEW w \in Workers, NEW b \in BOOLEAN
    PROVE  [f EXCEPT ![w] = b] \in [Workers -> BOOLEAN]
BY Zenon

-----------------------------------------------------------------------------
(* Types. *)

LEMMA InitTyped == Init => MailTyped /\ OutboxTyped /\ CycleTyped
<1> SUFFICES ASSUME Init PROVE MailTyped /\ OutboxTyped /\ CycleTyped
  OBVIOUS
<1>1. MailTyped /\ OutboxTyped
  BY IngestionAssumption DEF Init, MailTyped, OutboxTyped, Messages, Open
<1>2. known \in [Workers -> BOOLEAN] /\ lapsed \in BOOLEAN
  BY Zenon DEF Init
<1>3. CycleTyped
  BY <1>2 DEF Init, CycleTyped
<1> QED BY <1>1, <1>3

LEMMA StepTyped ==
    MailTyped /\ OutboxTyped /\ CycleTyped /\ [Next]_vars
        => MailTyped' /\ OutboxTyped' /\ CycleTyped'
<1> SUFFICES ASSUME MailTyped, OutboxTyped, CycleTyped, [Next]_vars
             PROVE  MailTyped' /\ OutboxTyped' /\ CycleTyped'
  OBVIOUS
<1> USE IngestionAssumption
<1>1. ASSUME NEW w \in Workers, AcquireLease(w)
      PROVE  MailTyped' /\ OutboxTyped' /\ CycleTyped'
  <2>1. MailTyped' /\ OutboxTyped'
    BY <1>1, MailKept, OutboxKept DEF AcquireLease, records
  <2>2. lapsed' \in BOOLEAN
    BY <1>1 DEF AcquireLease
  <2> QED BY <1>1, <2>1, <2>2 DEF AcquireLease, CycleTyped, Goto
<1>2. ASSUME NEW w \in Workers, ReadAccount(w)
      PROVE  MailTyped' /\ OutboxTyped' /\ CycleTyped'
  <2>1. MailTyped' /\ OutboxTyped'
    BY <1>2, MailKept, OutboxKept DEF ReadAccount, records
  <2>2. known' \in [Workers -> BOOLEAN]
    <3>1. (cutoff # Open) \in BOOLEAN
      OBVIOUS
    <3>2. known \in [Workers -> BOOLEAN] /\ known' = [known EXCEPT ![w] = (cutoff # Open)]
      BY <1>2 DEF ReadAccount, CycleTyped
    <3> QED BY <3>1, <3>2, BooleansTyped
  <2> QED BY <1>2, <2>1, <2>2 DEF ReadAccount, CycleTyped, Goto, lease
<1>3. ASSUME NEW w \in Workers, EstablishBaseline(w) \/ PollSucceeded(w)
      PROVE  MailTyped' /\ OutboxTyped' /\ CycleTyped'
  <2>1. MailTyped' /\ OutboxTyped'
    BY <1>3, MailKept, OutboxKept DEF EstablishBaseline, PollSucceeded, records, MailTyped
  <2> QED BY <1>3, <2>1 DEF EstablishBaseline, PollSucceeded, CycleTyped, Goto, lease
<1>4. ASSUME NEW w \in Workers, ListRecent(w)
      PROVE  MailTyped' /\ OutboxTyped' /\ CycleTyped'
  <2>1. MailTyped' /\ OutboxTyped'
    BY <1>4, MailKept, OutboxKept DEF ListRecent, records
  <2>2. RecentInbox \subseteq Messages
    BY DEF RecentInbox, Messages, MailTyped
  <2> QED BY <1>4, <2>1, <2>2 DEF ListRecent, CycleTyped, Goto, lease
<1>5. ASSUME NEW w \in Workers, RecordBaseline(w) \/ MarkBaseline(w) \/ RecordArrival(w)
      PROVE  MailTyped' /\ OutboxTyped' /\ CycleTyped'
  <2>1. jobs \subseteq jobs'
    BY <1>5 DEF RecordBaseline, MarkBaseline, RecordArrival
  <2>2. OutboxTyped'
    BY <1>5, <2>1, OutboxKept DEF RecordBaseline, MarkBaseline, RecordArrival
  <2>3. CycleTyped'
    BY <1>5 DEF RecordBaseline, MarkBaseline, RecordArrival, CycleTyped, Goto, lease
  <2>4. MailTyped'
    <3>1. CASE RecordBaseline(w)
      BY <3>1 DEF RecordBaseline, MailTyped, CycleTyped, mailbox
    <3>2. CASE MarkBaseline(w)
      BY <3>2 DEF MarkBaseline, MailTyped, mailbox, Open
    <3>3. CASE RecordArrival(w)
      BY <3>3 DEF RecordArrival, MailTyped, CycleTyped, mailbox
    <3> QED BY <1>5, <3>1, <3>2, <3>3
  <2> QED BY <2>2, <2>3, <2>4
<1>6. ASSUME NEW w \in Workers, PollNew(w)
      PROVE  MailTyped' /\ OutboxTyped' /\ CycleTyped'
  <2>1. OutboxTyped'
    BY <1>6, OutboxKept DEF PollNew, records
  <2>2. AfterPoll \in 0..Total /\ AfterPoll <= arrived /\ NewInbox \subseteq Messages
    BY DEF AfterPoll, NewInbox, Messages, MailTyped
  <2> QED BY <1>6, <2>1, <2>2 DEF PollNew, MailTyped, CycleTyped, Goto, lease, records
<1>7. ASSUME NEW w \in Workers, PollFails(w)
      PROVE  MailTyped' /\ OutboxTyped' /\ CycleTyped'
  <2>1. AfterPoll \in 0..Total /\ AfterPoll <= arrived
    BY DEF AfterPoll, MailTyped
  <2>2. MailTyped'
    BY <1>7, <2>1 DEF PollFails, MailTyped, records
  <2>3. CycleTyped'
    BY <1>7 DEF PollFails, CycleTyped, Goto, lease
  <2>4. OutboxTyped'
    BY <1>7 DEF PollFails, OutboxTyped, outbox, records
  <2> QED BY <2>2, <2>3, <2>4
<1>8. ASSUME NEW w \in Workers,
             PendingDispatches(w) \/ Offer(w) \/ MarkDispatched(w) \/ DispatchFails(w)
      PROVE  MailTyped' /\ OutboxTyped' /\ CycleTyped'
  <2>1. MailTyped' /\ CycleTyped'
    BY <1>8, MailKept, CycleKept DEF PendingDispatches, Offer, MarkDispatched, DispatchFails
  <2>2. OutboxTyped'
    <3>1. CASE PendingDispatches(w)
      BY <3>1 DEF PendingDispatches, OutboxTyped, records
    <3>2. CASE Offer(w)
      BY <3>2 DEF Offer, OutboxTyped, records
    <3>3. CASE MarkDispatched(w)
      BY <3>3 DEF MarkDispatched, OutboxTyped, records
    <3>4. CASE DispatchFails(w)
      BY <3>4 DEF DispatchFails, OutboxTyped, records
    <3> QED BY <1>8, <3>1, <3>2, <3>3, <3>4
  <2> QED BY <2>1, <2>2
<1>9. ASSUME NEW w \in Workers, Crash(w)
      PROVE  MailTyped' /\ OutboxTyped' /\ CycleTyped'
  <2>1. MailTyped'
    BY <1>9, MailKept DEF Crash
  <2>2. OutboxTyped'
    BY <1>9 DEF Crash, OutboxTyped, records
  <2>3. known' \in [Workers -> BOOLEAN]
    <3>1. known \in [Workers -> BOOLEAN] /\ known' = [known EXCEPT ![w] = FALSE]
      BY <1>9 DEF Crash, CycleTyped
    <3> QED BY <3>1, BooleansTyped
  <2> QED BY <1>9, <2>1, <2>2, <2>3 DEF Crash, CycleTyped, Goto
<1>10. ASSUME (\E m \in Messages : OwnerReads(m)) \/ Arrive \/ LeaseExpires \/ UNCHANGED vars
       PROVE  MailTyped' /\ OutboxTyped' /\ CycleTyped'
  <2>1. OutboxTyped'
    <3>1. CASE LeaseExpires
      BY <3>1 DEF LeaseExpires, OutboxTyped, outbox, records
    <3> QED BY <1>10, <3>1, OutboxKept DEF OwnerReads, Arrive, vars, records
  <2>2. CycleTyped'
    <3>1. CASE LeaseExpires
      <4>1. lapsed' \in BOOLEAN
        BY <3>1 DEF LeaseExpires
      <4> QED BY <3>1, <4>1 DEF LeaseExpires, CycleTyped, cycle
    <3> QED BY <1>10, <3>1, CycleKept DEF OwnerReads, Arrive, vars
  <2>3. MailTyped'
    BY <1>10 DEF OwnerReads, Arrive, LeaseExpires, vars, MailTyped, mailbox, records
  <2> QED BY <2>1, <2>2, <2>3
<1> QED BY <1>1, <1>2, <1>3, <1>4, <1>5, <1>6, <1>7, <1>8, <1>9, <1>10, StepCases

Typed == MailTyped /\ OutboxTyped /\ CycleTyped

LEMMA AlwaysTyped == Spec => []Typed
<1>1. Init => Typed
  BY InitTyped DEF Typed
<1>2. Typed /\ [Next]_vars => Typed'
  BY StepTyped DEF Typed
<1> QED BY <1>1, <1>2, PTL DEF Spec

-----------------------------------------------------------------------------
(* What is recorded arrived, and what is work arrived after the baseline. *)

LEMMA StepArrivedFirst ==
    Typed /\ ArrivedFirst /\ ExistingMailIsQuiet /\ [Next]_vars
        => ArrivedFirst' /\ ExistingMailIsQuiet'
<1> SUFFICES ASSUME Typed, ArrivedFirst, ExistingMailIsQuiet, [Next]_vars
             PROVE  ArrivedFirst' /\ ExistingMailIsQuiet'
  OBVIOUS
<1> USE IngestionAssumption DEF Typed, ArrivedFirst, ExistingMailIsQuiet
<1>1. CASE \E w \in Workers : AcquireLease(w) \/ ReadAccount(w) \/ EstablishBaseline(w)
                              \/ PollSucceeded(w)
  BY <1>1 DEF AcquireLease, ReadAccount, EstablishBaseline, PollSucceeded, mailbox, records
<1>2. ASSUME NEW w \in Workers, ListRecent(w) \/ PollNew(w)
      PROVE  ArrivedFirst' /\ ExistingMailIsQuiet'
  <2>1. RecentInbox \subseteq 1..arrived /\ NewInbox \subseteq 1..arrived
    BY DEF RecentInbox, NewInbox
  <2> QED BY <1>2, <2>1 DEF ListRecent, PollNew, mailbox, records, CycleTyped
<1>3. ASSUME NEW w \in Workers, RecordBaseline(w)
      PROVE  ArrivedFirst' /\ ExistingMailIsQuiet'
  BY <1>3 DEF RecordBaseline, mailbox, CycleTyped, MailTyped
<1>4. ASSUME NEW w \in Workers, MarkBaseline(w)
      PROVE  ArrivedFirst' /\ ExistingMailIsQuiet'
  BY <1>4 DEF MarkBaseline, mailbox, MailTyped
<1>5. ASSUME NEW w \in Workers, RecordArrival(w)
      PROVE  ArrivedFirst' /\ ExistingMailIsQuiet'
  <2>1. PICK m \in batch[w] :
           /\ row' = [row EXCEPT ![m] = IF @ = "absent" THEN "arrival" ELSE @]
           /\ jobs' = IF row'[m] = "arrival" /\ m > cutoff THEN jobs \cup {m} ELSE jobs
           /\ batch' = [batch EXCEPT ![w] = @ \ {m}]
    BY <1>5 DEF RecordArrival
  <2>2. m \in Messages /\ m <= arrived /\ arrived <= Total /\ cutoff \in 0..Open
    BY DEF CycleTyped, MailTyped, Messages
  <2>3. m > cutoff => m > Existing
    BY <2>2 DEF Messages, Open, MailTyped
  <2> QED BY <1>5, <2>1, <2>2, <2>3 DEF RecordArrival, mailbox, CycleTyped, MailTyped
<1>6. ASSUME NEW w \in Workers, PollFails(w) \/ Crash(w)
      PROVE  ArrivedFirst' /\ ExistingMailIsQuiet'
  BY <1>6 DEF PollFails, Crash, mailbox, records, CycleTyped
<1>7. ASSUME NEW w \in Workers,
             PendingDispatches(w) \/ Offer(w) \/ MarkDispatched(w) \/ DispatchFails(w)
      PROVE  ArrivedFirst' /\ ExistingMailIsQuiet'
  BY <1>7 DEF PendingDispatches, Offer, MarkDispatched, DispatchFails, mailbox, records, cycle
<1>8. CASE (\E m \in Messages : OwnerReads(m)) \/ LeaseExpires \/ UNCHANGED vars
  <2>1. CASE \E m \in Messages : OwnerReads(m)
    BY <2>1 DEF OwnerReads, mailbox, records, cycle, MailTyped
  <2>2. CASE LeaseExpires \/ UNCHANGED vars
    <3>1. UNCHANGED <<mailbox, records, cycle>>
      BY <2>2 DEF LeaseExpires, vars
    <3> QED BY <3>1 DEF mailbox, records, cycle
  <2> QED BY <1>8, <2>1, <2>2
<1>9. CASE Arrive
  <2>1. arrived' = arrived + 1 /\ UNCHANGED <<row, cutoff, jobs, batch>>
    BY <1>9 DEF Arrive, records, cycle
  <2>2. arrived \in Nat /\ cutoff \in Nat /\ Existing \in Nat
    BY DEF MailTyped, Open
  <2>3. 1..arrived \subseteq 1..arrived'
    BY <2>1, <2>2
  <2> QED BY <2>1, <2>2, <2>3 DEF Messages
<1> QED BY <1>1, <1>2, <1>3, <1>4, <1>5, <1>6, <1>7, <1>8, <1>9, StepCases

LEMMA AlwaysQuiet == Spec => [](ArrivedFirst /\ ExistingMailIsQuiet)
<1>1. Init => ArrivedFirst /\ ExistingMailIsQuiet
  BY IngestionAssumption DEF Init, ArrivedFirst, ExistingMailIsQuiet, Messages
<1> QED BY <1>1, StepArrivedFirst, AlwaysTyped, PTL DEF Spec

-----------------------------------------------------------------------------
(* Later mail is not baseline. *)

LEMMA OutlastedForGood == outlasted /\ [Next]_vars => outlasted'
BY StepCases DEF AcquireLease, ReadAccount, EstablishBaseline, ListRecent, RecordBaseline,
   MarkBaseline, RecordArrival, PollNew, PollSucceeded, PollFails, PendingDispatches, Offer,
   MarkDispatched, DispatchFails, Crash, OwnerReads, Arrive, LeaseExpires, vars

LEMMA StepHeld ==
    Typed /\ ArrivedFirst /\ (outlasted \/ HeldAlone) /\ LaterMailIsNotBaseline /\ [Next]_vars
        => (outlasted' \/ HeldAlone') /\ LaterMailIsNotBaseline'
<1> SUFFICES ASSUME Typed, ArrivedFirst, HeldAlone, LaterMailIsNotBaseline, [Next]_vars,
                    ~outlasted, ~outlasted'
             PROVE  HeldAlone' /\ LaterMailIsNotBaseline'
  BY OutlastedForGood DEF LaterMailIsNotBaseline
<1> USE IngestionAssumption DEF Typed
<1>k. ASSUME UNCHANGED <<row, cutoff>> PROVE LaterMailIsNotBaseline'
  BY <1>k DEF LaterMailIsNotBaseline
<1>1. ASSUME NEW w \in Workers, AcquireLease(w)
      PROVE  HeldAlone' /\ LaterMailIsNotBaseline'
  <2>1. LaterMailIsNotBaseline'
    BY <1>1, <1>k DEF AcquireLease, records
  <2>2. HeldAlone'
    BY <1>1 DEF AcquireLease, HeldAlone, BaselineStage, Goto, CycleTyped, records
  <2> QED BY <2>1, <2>2
<1>2. ASSUME NEW w \in Workers, ReadAccount(w) \/ EstablishBaseline(w) \/ ListRecent(w)
                                 \/ PollNew(w) \/ PollSucceeded(w)
      PROVE  HeldAlone' /\ LaterMailIsNotBaseline'
  <2>1. LaterMailIsNotBaseline'
    BY <1>2, <1>k
    DEF ReadAccount, EstablishBaseline, ListRecent, PollNew, PollSucceeded, records
  <2>2. CASE ReadAccount(w)
    BY <2>1, <2>2 DEF ReadAccount, HeldAlone, BaselineStage, Goto, CycleTyped, records, lease
  <2>3. CASE EstablishBaseline(w) \/ ListRecent(w) \/ PollNew(w) \/ PollSucceeded(w)
    BY <2>1, <2>3 DEF EstablishBaseline, ListRecent, PollNew, PollSucceeded, HeldAlone,
       BaselineStage, Goto, CycleTyped, records, lease
  <2> QED BY <1>2, <2>2, <2>3
<1>3. ASSUME NEW w \in Workers, RecordBaseline(w)
      PROVE  HeldAlone' /\ LaterMailIsNotBaseline'
  <2>1. cutoff = Open /\ cutoff' = cutoff
    BY <1>3 DEF RecordBaseline, HeldAlone, BaselineStage
  <2> QED BY <1>3, <2>1
          DEF RecordBaseline, HeldAlone, BaselineStage, LaterMailIsNotBaseline, lease
<1>4. ASSUME NEW w \in Workers, MarkBaseline(w)
      PROVE  HeldAlone' /\ LaterMailIsNotBaseline'
  <2>1. cutoff = Open /\ cutoff' = arrived /\ pc' = [pc EXCEPT ![w] = "idle"] /\ holder = w
    BY <1>4 DEF MarkBaseline, HeldAlone, BaselineStage, Goto
  <2>2. LaterMailIsNotBaseline'
    BY <1>4, <2>1 DEF MarkBaseline, LaterMailIsNotBaseline, ArrivedFirst
  <2>3. HeldAlone'
    BY <1>4, <2>1 DEF MarkBaseline, HeldAlone, BaselineStage, CycleTyped, lease
  <2> QED BY <2>2, <2>3
<1>5. ASSUME NEW w \in Workers, RecordArrival(w)
      PROVE  HeldAlone' /\ LaterMailIsNotBaseline'
  <2>1. LaterMailIsNotBaseline'
    BY <1>5 DEF RecordArrival, LaterMailIsNotBaseline, CycleTyped, MailTyped
  <2> QED BY <1>5, <2>1 DEF RecordArrival, HeldAlone, BaselineStage, lease
<1>6. ASSUME NEW w \in Workers, PollFails(w) \/ Crash(w)
      PROVE  HeldAlone' /\ LaterMailIsNotBaseline'
  <2>1. LaterMailIsNotBaseline'
    BY <1>6, <1>k DEF PollFails, Crash, records
  <2>2. pc' = [pc EXCEPT ![w] = "idle"] /\ cutoff' = cutoff
    BY <1>6 DEF PollFails, Crash, Goto, records
  <2>3. \A v \in Workers : v # w => known'[v] = known[v] /\ (holder = v => holder' = v)
    BY <1>6 DEF PollFails, Crash, CycleTyped, lease
  <2>4. lapsed' = lapsed
    BY <1>6 DEF PollFails, Crash, lease
  <2> QED BY <2>1, <2>2, <2>3, <2>4 DEF HeldAlone, BaselineStage, CycleTyped
<1>7. ASSUME \/ \E w \in Workers : PendingDispatches(w) \/ Offer(w) \/ MarkDispatched(w)
                                     \/ DispatchFails(w)
             \/ Arrive \/ UNCHANGED vars
      PROVE  HeldAlone' /\ LaterMailIsNotBaseline'
  BY <1>7, <1>k DEF PendingDispatches, Offer, MarkDispatched, DispatchFails, Arrive, vars,
     records, lease, cycle, HeldAlone, BaselineStage
<1>8. ASSUME NEW m \in Messages, OwnerReads(m)
      PROVE  HeldAlone' /\ LaterMailIsNotBaseline'
  <2>1. LaterMailIsNotBaseline'
    BY <1>8 DEF OwnerReads, LaterMailIsNotBaseline, MailTyped
  <2> QED BY <1>8, <2>1 DEF OwnerReads, HeldAlone, BaselineStage, lease, cycle
<1>9. ASSUME LeaseExpires PROVE HeldAlone' /\ LaterMailIsNotBaseline'
  <2>1. \A w \in Workers : pc[w] # "accounts" /\ ~BaselineStage(w)
    BY <1>9 DEF LeaseExpires, AtBaseline, BaselineStage
  <2> QED BY <1>9, <1>k, <2>1 DEF LeaseExpires, HeldAlone, BaselineStage, records, cycle
<1> QED BY <1>1, <1>2, <1>3, <1>4, <1>5, <1>6, <1>7, <1>8, <1>9, StepCases

-----------------------------------------------------------------------------
(* Offers to the queue. *)

\* Nobody is counted twice: who will offer a job has not offered it.
LEMMA Counting ==
    ASSUME OutboxTyped, NEW m, \A w \in Workers : pending[w] \cap offered[w] = {}
    PROVE  /\ IsFiniteSet(Takers(m)) /\ IsFiniteSet(Offerers(m))
           /\ Cardinality(Takers(m)) \in Nat /\ Cardinality(Offerers(m)) \in Nat
           /\ Cardinality(Workers) \in Nat
           /\ Cardinality(Takers(m)) + Cardinality(Offerers(m)) <= Cardinality(Workers)
<1>1. Takers(m) \subseteq Workers /\ Offerers(m) \subseteq Workers
  BY DEF Takers, Offerers
<1>2. Takers(m) \cap Offerers(m) = {}
  BY DEF Takers, Offerers
<1>3. IsFiniteSet(Workers)
  BY IngestionAssumption
<1>4. IsFiniteSet(Takers(m)) /\ IsFiniteSet(Offerers(m))
  BY <1>1, <1>3, FS_Subset
<1>5. /\ Cardinality(Takers(m)) \in Nat /\ Cardinality(Offerers(m)) \in Nat
      /\ Cardinality(Workers) \in Nat
  BY <1>3, <1>4, FS_CardinalityType
<1>6. ~(Cardinality(Takers(m)) + Cardinality(Offerers(m)) > Cardinality(Workers))
  BY <1>1, <1>2, <1>3, FS_MajoritiesIntersect
<1> QED BY <1>4, <1>5, <1>6

\* A worker that loses all it holds is one taker and one offerer less, at most.
LEMMA Losing ==
    ASSUME NEW w, NEW S, NEW T, IsFiniteSet(S), S \ {w} \subseteq T, T \subseteq S
    PROVE  /\ IsFiniteSet(T) /\ Cardinality(T) \in Nat /\ Cardinality(S) \in Nat
           /\ Cardinality(T) <= Cardinality(S) /\ Cardinality(S) <= Cardinality(T) + 1
<1>1. IsFiniteSet(T) /\ Cardinality(T) <= Cardinality(S)
  BY FS_Subset
<1>2. IsFiniteSet(S \ {w}) /\ Cardinality(S) <= Cardinality(S \ {w}) + 1
  <2>1. /\ IsFiniteSet(S \ {w})
        /\ Cardinality(S \ {w}) = IF w \in S THEN Cardinality(S) - 1 ELSE Cardinality(S)
    BY FS_RemoveElement
  <2>2. Cardinality(S) \in Nat
    BY FS_CardinalityType
  <2> QED BY <2>1, <2>2
<1>3. Cardinality(S \ {w}) <= Cardinality(T)
  BY <1>1, FS_Subset
<1>4. /\ Cardinality(T) \in Nat /\ Cardinality(S) \in Nat /\ Cardinality(S \ {w}) \in Nat
  BY <1>1, <1>2, FS_CardinalityType
<1> QED BY <1>1, <1>2, <1>3, <1>4

LEMMA StepCounted ==
    Typed /\ OffersCounted /\ DispatchedIsQueued /\ [Next]_vars
        => OffersCounted' /\ DispatchedIsQueued'
<1> SUFFICES ASSUME Typed, OffersCounted, DispatchedIsQueued, [Next]_vars
             PROVE  OffersCounted' /\ DispatchedIsQueued'
  OBVIOUS
<1>t. /\ OutboxTyped /\ OutboxTyped' /\ sent \in [Messages -> Nat] /\ failures \in Nat
      /\ jobs \subseteq Messages
      /\ \A w \in Workers : pending[w] \cap offered[w] = {}
      /\ \A w \in Workers : \A m \in offered[w] : sent[m] > 0
  BY StepTyped DEF Typed, OffersCounted, OutboxTyped, MailTyped
<1>c. \A m \in Messages :
          IF m \in queueId
          THEN sent[m] + Cardinality(Takers(m)) <= failures + Cardinality(Workers)
          ELSE sent[m] <= failures + Cardinality(Offerers(m))
  BY DEF OffersCounted
<1>f. \A m : /\ IsFiniteSet(Takers(m)) /\ IsFiniteSet(Offerers(m))
             /\ Cardinality(Takers(m)) \in Nat /\ Cardinality(Offerers(m)) \in Nat
             /\ Cardinality(Workers) \in Nat
             /\ Cardinality(Takers(m)) + Cardinality(Offerers(m)) <= Cardinality(Workers)
  BY <1>t, Counting
<1>k. ASSUME UNCHANGED <<queueId, sent, pending, offered>>, failures <= failures', failures' \in Nat
      PROVE  OffersCounted' /\ DispatchedIsQueued'
  <2>1. ASSUME NEW m \in Messages PROVE Takers(m)' = Takers(m) /\ Offerers(m)' = Offerers(m)
    BY <1>k DEF Takers, Offerers
  <2> QED BY <1>k, <1>t, <1>c, <1>f, <2>1 DEF OffersCounted, DispatchedIsQueued
<1>1. ASSUME NEW w \in Workers, PendingDispatches(w) PROVE OffersCounted' /\ DispatchedIsQueued'
  <2>1. /\ pending' = [pending EXCEPT ![w] = jobs \ queueId] /\ offered[w] = {} /\ pending[w] = {}
        /\ UNCHANGED <<queueId, sent, offered, failures>>
    BY <1>1 DEF PendingDispatches
  <2>2. \A v \in Workers : pending'[v] = IF v = w THEN jobs \ queueId ELSE pending[v]
    BY <1>t, <2>1 DEF OutboxTyped
  <2>3. ASSUME NEW m \in Messages
        PROVE  Offerers(m)' = Offerers(m) /\ (m \in queueId => Takers(m)' = Takers(m))
    BY <2>1, <2>2 DEF Takers, Offerers
  <2>4. \A v \in Workers : pending'[v] \cap offered'[v] = {}
    BY <1>t, <2>1, <2>2
  <2> QED BY <1>t, <1>c, <2>1, <2>3, <2>4 DEF OffersCounted, DispatchedIsQueued
<1>2. ASSUME NEW w \in Workers, Offer(w) PROVE OffersCounted' /\ DispatchedIsQueued'
  <2>1. PICK m \in pending[w] : /\ sent' = [sent EXCEPT ![m] = @ + 1]
                               /\ offered' = [offered EXCEPT ![w] = {m}]
                               /\ pending' = [pending EXCEPT ![w] = @ \ {m}]
    BY <1>2 DEF Offer
  <2>2. offered[w] = {} /\ UNCHANGED <<queueId, failures>> /\ m \in Messages
    BY <1>2, <1>t DEF Offer, OutboxTyped
  <2>3. \A v \in Workers : /\ pending'[v] = IF v = w THEN pending[v] \ {m} ELSE pending[v]
                           /\ offered'[v] = IF v = w THEN {m} ELSE offered[v]
    BY <1>t, <2>1 DEF OutboxTyped
  <2>4. /\ sent' \in [Messages -> Nat] /\ sent'[m] = sent[m] + 1
        /\ \A n \in Messages : n # m => sent'[n] = sent[n]
    BY <1>t, <2>1, <2>2
  <2>5. \A n \in Messages : n # m => Takers(n)' = Takers(n) /\ Offerers(n)' = Offerers(n)
    BY <2>2, <2>3 DEF Takers, Offerers
  <2>6. /\ Takers(m)' = Takers(m) \ {w} /\ w \in Takers(m)
        /\ Offerers(m)' = Offerers(m) \cup {w} /\ w \notin Offerers(m)
    BY <2>2, <2>3 DEF Takers, Offerers
  <2>7. /\ Cardinality(Takers(m)') = Cardinality(Takers(m)) - 1
        /\ Cardinality(Offerers(m)') = Cardinality(Offerers(m)) + 1
    BY <1>f, <2>6, FS_RemoveElement, FS_AddElement
  <2>8. ASSUME NEW n \in Messages
        PROVE  IF n \in queueId
               THEN sent'[n] + Cardinality(Takers(n)') <= failures + Cardinality(Workers)
               ELSE sent'[n] <= failures + Cardinality(Offerers(n)')
    <3>1. CASE n = m
      BY <1>t, <1>c, <1>f, <2>2, <2>4, <2>7, <3>1
    <3>2. CASE n # m
      BY <1>c, <2>4, <2>5, <3>2
    <3> QED BY <3>1, <3>2
  <2>9. \A v \in Workers : pending'[v] \cap offered'[v] = {}
    BY <1>t, <2>3
  <2>10. \A v \in Workers : \A n \in offered'[v] : sent'[n] > 0
    BY <1>t, <2>2, <2>3, <2>4 DEF OutboxTyped
  <2>11. DispatchedIsQueued'
    BY <1>t, <2>2, <2>4 DEF DispatchedIsQueued, OutboxTyped
  <2> QED BY <2>2, <2>4, <2>8, <2>9, <2>10, <2>11 DEF OffersCounted
<1>3. ASSUME NEW w \in Workers, MarkDispatched(w) PROVE OffersCounted' /\ DispatchedIsQueued'
  <2>1. /\ queueId' = queueId \cup offered[w] /\ offered' = [offered EXCEPT ![w] = {}]
        /\ UNCHANGED <<sent, pending, failures>>
    BY <1>3 DEF MarkDispatched
  <2>2. \A v \in Workers : offered'[v] = IF v = w THEN {} ELSE offered[v]
    BY <1>t, <2>1 DEF OutboxTyped
  <2>3. \A n \in Messages : /\ Takers(n)' = Takers(n)
                            /\ n \notin offered[w] => Offerers(n)' = Offerers(n)
    BY <2>1, <2>2 DEF Takers, Offerers
  <2>4. ASSUME NEW n \in Messages
        PROVE  IF n \in queueId'
               THEN sent[n] + Cardinality(Takers(n)) <= failures + Cardinality(Workers)
               ELSE sent[n] <= failures + Cardinality(Offerers(n)')
    <3>1. CASE n \in queueId
      BY <1>c, <2>1, <3>1
    <3>2. CASE n \in offered[w] /\ n \notin queueId
      BY <1>t, <1>c, <1>f, <2>1, <3>2
    <3>3. CASE n \notin offered[w] /\ n \notin queueId
      BY <1>c, <2>1, <2>3, <3>3
    <3> QED BY <3>1, <3>2, <3>3
  <2> QED BY <1>t, <2>1, <2>2, <2>3, <2>4 DEF OffersCounted, DispatchedIsQueued
<1>4. ASSUME NEW w \in Workers, DispatchFails(w) \/ Crash(w)
      PROVE  OffersCounted' /\ DispatchedIsQueued'
  <2>1. UNCHANGED <<queueId, sent>> /\ failures' = failures + 1
    BY <1>4 DEF DispatchFails, Crash
  <2>2. \A v \in Workers : /\ pending'[v] \subseteq pending[v] /\ offered'[v] \subseteq offered[v]
                           /\ v # w => pending'[v] = pending[v] /\ offered'[v] = offered[v]
    <3>1. CASE DispatchFails(w)
      BY <1>t, <3>1 DEF DispatchFails, OutboxTyped
    <3>2. CASE Crash(w)
      BY <1>t, <3>2 DEF Crash, OutboxTyped
    <3> QED BY <1>4, <3>1, <3>2
  <2>3. ASSUME NEW n \in Messages
        PROVE  /\ Cardinality(Takers(n)') <= Cardinality(Takers(n))
               /\ Cardinality(Takers(n)') \in Nat /\ Cardinality(Offerers(n)') \in Nat
               /\ Cardinality(Offerers(n)) <= Cardinality(Offerers(n)') + 1
    <3>1. /\ Takers(n) \ {w} \subseteq Takers(n)' /\ Takers(n)' \subseteq Takers(n)
          /\ Offerers(n) \ {w} \subseteq Offerers(n)' /\ Offerers(n)' \subseteq Offerers(n)
      BY <2>2 DEF Takers, Offerers
    <3> QED BY <1>f, <3>1, Losing
  <2>4. ASSUME NEW n \in Messages
        PROVE  IF n \in queueId
               THEN sent[n] + Cardinality(Takers(n)') <= failures + 1 + Cardinality(Workers)
               ELSE sent[n] <= failures + 1 + Cardinality(Offerers(n)')
    BY <1>t, <1>c, <1>f, <2>3
  <2> QED BY <1>t, <2>1, <2>2, <2>4 DEF OffersCounted, DispatchedIsQueued
<1>5. ASSUME (\E w \in Workers : PollFails(w)) \/ LeaseExpires
      PROVE  OffersCounted' /\ DispatchedIsQueued'
  BY <1>5, <1>t, <1>k DEF PollFails, LeaseExpires, outbox
<1>6. ASSUME \/ \E w \in Workers : AcquireLease(w) \/ ReadAccount(w) \/ EstablishBaseline(w)
                                   \/ ListRecent(w) \/ RecordBaseline(w) \/ MarkBaseline(w)
                                   \/ RecordArrival(w) \/ PollNew(w) \/ PollSucceeded(w)
             \/ (\E m \in Messages : OwnerReads(m)) \/ Arrive \/ UNCHANGED vars
      PROVE  OffersCounted' /\ DispatchedIsQueued'
  <2>1. UNCHANGED <<outbox, failures>>
    BY <1>6 DEF AcquireLease, ReadAccount, EstablishBaseline, ListRecent, RecordBaseline,
       MarkBaseline, RecordArrival, PollNew, PollSucceeded, OwnerReads, Arrive, vars
  <2> QED BY <1>t, <1>k, <2>1 DEF outbox
<1> QED BY <1>1, <1>2, <1>3, <1>4, <1>5, <1>6, StepCases

LEMMA AlwaysCounted == Spec => [](OffersCounted /\ DispatchedIsQueued)
<1>1. Init => OffersCounted /\ DispatchedIsQueued
  <2> SUFFICES ASSUME Init PROVE OffersCounted /\ DispatchedIsQueued
    OBVIOUS
  <2>1. \A m \in Messages : Offerers(m) = {}
    BY DEF Init, Offerers
  <2>2. OffersCounted
    <3>1. sent = [m \in Messages |-> 0] /\ queueId = {} /\ failures = 0
          /\ \A w \in Workers : pending[w] = {} /\ offered[w] = {}
      BY DEF Init
    <3> QED BY <2>1, <3>1, FS_EmptySet DEF OffersCounted
  <2> QED BY <2>2 DEF Init, DispatchedIsQueued
<1> QED BY <1>1, StepCounted, AlwaysTyped, PTL DEF Spec

-----------------------------------------------------------------------------

\* Variables keep their types; and a job is offered to the queue no more often
\* than there are workers to find it unmarked and failures to repeat it.
THEOREM TypeCorrect == Spec => []TypeOK
<1>1. Typed /\ OffersCounted /\ outlasted \in BOOLEAN => TypeOK
  <2> SUFFICES ASSUME Typed, OffersCounted PROVE OffersBounded
    BY DEF Typed, TypeOK
  <2>1. OutboxTyped /\ failures \in Nat /\ failures <= MaxFailures /\ MaxFailures \in Nat
    BY IngestionAssumption DEF Typed, OutboxTyped
  <2>2. ASSUME NEW m \in Messages PROVE sent[m] \in 0..Cardinality(Workers) + MaxFailures
    <3>1. /\ Cardinality(Takers(m)) \in Nat /\ Cardinality(Offerers(m)) \in Nat
          /\ Cardinality(Workers) \in Nat
          /\ Cardinality(Takers(m)) + Cardinality(Offerers(m)) <= Cardinality(Workers)
      BY <2>1, Counting DEF OffersCounted
    <3> QED BY <2>1, <3>1 DEF OffersCounted
  <2> QED BY <2>2 DEF OffersBounded, OffersCounted
<1>2. Init => outlasted \in BOOLEAN
  BY DEF Init
<1>3. outlasted \in BOOLEAN /\ [Next]_vars => outlasted' \in BOOLEAN
  BY StepCases DEF AcquireLease, ReadAccount, EstablishBaseline, ListRecent, RecordBaseline,
     MarkBaseline, RecordArrival, PollNew, PollSucceeded, PollFails, PendingDispatches, Offer,
     MarkDispatched, DispatchFails, Crash, OwnerReads, Arrive, LeaseExpires, vars
<1> DEFINE IsBoolean == outlasted \in BOOLEAN
<1> HIDE DEF IsBoolean
<1>4. Init => IsBoolean
  BY <1>2 DEF IsBoolean
<1>5. IsBoolean /\ [Next]_vars => IsBoolean'
  BY <1>3 DEF IsBoolean
<1>6. Typed /\ OffersCounted /\ IsBoolean => TypeOK
  BY <1>1 DEF IsBoolean
<1> QED BY <1>4, <1>5, <1>6, AlwaysTyped, AlwaysCounted, PTL DEF Spec

\* Mail that was there when the mailbox was connected never becomes work, and a
\* job that counts as dispatched is in the queue, also when a baseline outlasts
\* its lease.
THEOREM QuietAndQueued == Spec => [](ExistingMailIsQuiet /\ DispatchedIsQueued)
BY AlwaysQuiet, AlwaysCounted, PTL

\* All that ingestion promises of what it records, whatever outlasts the lease:
\* later mail is taken for baseline only after a lease ran out under a worker that
\* was still at the baseline.
THEOREM ArrivalsSound == Spec => []ArrivalsAreSound
<1>1. Init => HeldAlone /\ LaterMailIsNotBaseline
  BY DEF Init, HeldAlone, BaselineStage, LaterMailIsNotBaseline
<1>2. Spec => []LaterMailIsNotBaseline
  BY <1>1, StepHeld, AlwaysTyped, AlwaysQuiet, PTL DEF Spec
<1>3. TypeOK /\ ExistingMailIsQuiet /\ LaterMailIsNotBaseline /\ DispatchedIsQueued
          => ArrivalsAreSound
  BY DEF ArrivalsAreSound
<1> QED BY <1>2, <1>3, TypeCorrect, QuietAndQueued, PTL
============================================================================

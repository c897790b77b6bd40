------------------------ MODULE MailboxMemoryProofs ------------------------
(***************************************************************************)
(* Theorems about MailboxMemoryEvents for any number of events, documents, *)
(* workers and troubles: what is completed was retained, one worker        *)
(* settles, and a deleted bank stays empty while its mailbox is disabled.  *)
(***************************************************************************)
EXTENDS MailboxMemoryEvents, TLAPS

(* Steps of one worker, of the operator and of everybody else. *)
WorkerStep(w) ==
    \/ Tick(w) \/ (\E e \in Events : Claim(w, e)) \/ ClaimNothing(w) \/ Start(w)
    \/ Check(w) \/ Join(w) \/ Submit(w) \/ Await(w) \/ OperationFailed(w)
    \/ HeartbeatLost(w) \/ Complete(w) \/ Defer(w) \/ CallFails(w) \/ StoreFails(w)
    \/ Strays(w) \/ Crash(w)
Outside ==
    \/ \E e \in Events : Enqueue(e) \/ BecomesDue(e) \/ Expire(e) \/ Stall(e)
    \/ \E d \in Documents : OperationEnds(d) \/ OperationAborts(d)
    \/ Reconnect
Command == StopWorkers \/ AlreadyDeleted \/ Prepare \/ DeleteBank \/ Audit \/ CommandFails

LEMMA StepCases ==
    ASSUME [Next]_vars
    PROVE  (\E w \in Workers : WorkerStep(w)) \/ Outside \/ Command \/ UNCHANGED vars
BY DEF Next, Work, Time, Deletion, WorkerStep, Outside, Command

\* The documents of an event, as pairs.
LEMMA DocumentPairs ==
    ASSUME NEW e \in Events
    PROVE  /\ DocumentsOf(e) \subseteq Documents
           /\ \A i \in 1..Parts[e] : <<e, i>> \in DocumentsOf(e)
           /\ \A d \in DocumentsOf(e) : \E i \in 1..Parts[e] : d = <<e, i>>
BY DEF Documents, DocumentsOf

-----------------------------------------------------------------------------
(* Types. *)

(* Where a delivery stands among the documents of its event. *)
Position == \A w \in Workers :
    /\ pc[w] \in {"check", "join"} => part[w] = 0
    /\ pc[w] \in {"retain", "wait"} => part[w] < Parts[event[w]]

LEMMA InitTyped == Init => TypeOK /\ Position
<1> SUFFICES ASSUME Init PROVE TypeOK /\ Position
  OBVIOUS
<1> USE MemoryAssumption DEF Init
<1>1. StoreTyped /\ OperatorTyped /\ BoundsTyped
  <2>1. due \in [Events -> BOOLEAN] /\ live \in [Events -> BOOLEAN]
    BY Zenon
  <2>2. state \in [Events -> {"none", "pending", "processing", "completed", "cancelled"}]
        /\ gen \in [Events -> Nat]
    OBVIOUS
  <2>3. audited \in BOOLEAN
    BY Zenon
  <2>4. OperatorTyped
    BY <2>3 DEF OperatorTyped
  <2>5. BoundsTyped
    BY DEF BoundsTyped
  <2> QED BY <2>1, <2>2, <2>4, <2>5 DEF StoreTyped
<1>2. HindsightTyped
  BY DEF HindsightTyped
<1>3. LocalsTyped
  <2>1. kept \in [Workers -> SUBSET Emails]
    OBVIOUS
  <2>2. stray \in [Workers -> [Events -> {"none", "retain", "wait"}]]
    OBVIOUS
  <2> QED BY <2>1, <2>2 DEF LocalsTyped, Labels
<1> QED BY <1>1, <1>2, <1>3 DEF TypeOK, Position

LEMMA HindsightKept == ASSUME HindsightTyped, UNCHANGED hindsight PROVE HindsightTyped'
BY DEF HindsightTyped, hindsight
LEMMA StoreKept == ASSUME StoreTyped, UNCHANGED store PROVE StoreTyped'
BY DEF StoreTyped, store
LEMMA LocalsKept ==
    ASSUME LocalsTyped, Position, UNCHANGED locals PROVE LocalsTyped' /\ Position'
BY DEF LocalsTyped, Position, locals
LEMMA OperatorKept == ASSUME OperatorTyped, UNCHANGED operator PROVE OperatorTyped'
BY DEF OperatorTyped, operator
LEMMA BoundsKept == ASSUME BoundsTyped, UNCHANGED bounds PROVE BoundsTyped'
BY DEF BoundsTyped, bounds
LEMMA TroubleTyped ==
    ASSUME BoundsTyped, Trouble, UNCHANGED <<requests, reconnects>> PROVE BoundsTyped'
BY MemoryAssumption DEF BoundsTyped, Trouble

\* Leaving a delivery, and going on in it without moving to another document.
LEMMA LeaveTyped ==
    ASSUME LocalsTyped, Position, NEW w \in Workers, Leave(w), UNCHANGED <<stray, kept>>
    PROVE  LocalsTyped' /\ Position'
BY DEF LocalsTyped, Position, Leave, Goto, Labels

LEMMA GotoTyped ==
    ASSUME LocalsTyped, Position, NEW w \in Workers, NEW l \in Labels, Goto(w, l),
           l \in {"check", "join"} => part[w] = 0,
           l \in {"retain", "wait"} => part[w] < Parts[event[w]],
           pc[w] \in {"down", "idle", "tick"} <=> l \in {"down", "idle", "tick"},
           UNCHANGED <<event, fence, part, stray, kept>>
    PROVE  LocalsTyped' /\ Position'
BY DEF LocalsTyped, Position, Goto

LEMMA HaltTyped ==
    ASSUME LocalsTyped, Position, NEW down \in SUBSET Workers, Halt(down)
    PROVE  LocalsTyped' /\ Position'
<1>1. kept' \in [Workers -> SUBSET Emails]
  BY DEF LocalsTyped, Halt
<1>2. stray' \in [Workers -> [Events -> {"none", "retain", "wait"}]]
  BY DEF LocalsTyped, Halt
<1>3. /\ pc' \in [Workers -> Labels]
      /\ event' \in [Workers -> Events \union {NoEvent}]
      /\ fence' \in [Workers -> Nat]
      /\ part' \in [Workers -> Nat]
  BY DEF LocalsTyped, Halt, Labels
<1>4. ASSUME NEW w \in Workers
      PROVE  /\ IF pc'[w] \in {"down", "idle", "tick"} THEN event'[w] = NoEvent /\ part'[w] = 0
                ELSE event'[w] \in Events /\ part'[w] <= Parts[event'[w]]
             /\ pc'[w] \in {"check", "join"} => part'[w] = 0
             /\ pc'[w] \in {"retain", "wait"} => part'[w] < Parts[event'[w]]
  <2>1. CASE w \in down
    <3>1. pc'[w] = "down" /\ event'[w] = NoEvent /\ part'[w] = 0
      BY <2>1 DEF Halt
    <3> QED BY <3>1
  <2>2. CASE w \notin down
    <3>1. pc'[w] = pc[w] /\ event'[w] = event[w] /\ part'[w] = part[w]
      BY <2>2 DEF Halt
    <3> QED BY <3>1 DEF LocalsTyped, Position
  <2> QED BY <2>1, <2>2
<1> QED BY <1>1, <1>2, <1>3, <1>4 DEF LocalsTyped, Position

\* A worker that holds a claim knows its event.
LEMMA Holding ==
    ASSUME LocalsTyped, NEW w \in Workers, pc[w] \notin {"down", "idle", "tick"}
    PROVE  event[w] \in Events /\ part[w] \in 0..Parts[event[w]] /\ Parts[event[w]] \in Nat
BY MemoryAssumption DEF LocalsTyped

LEMMA WorkerTypes ==
    ASSUME TypeOK, Position, NEW w \in Workers, WorkerStep(w)
    PROVE  TypeOK' /\ Position'
<1> USE DEF TypeOK
<1>1. CASE Tick(w)
  <2>1. LocalsTyped' /\ Position'
    BY <1>1, GotoTyped DEF Tick, Labels
  <2>2. StoreTyped'
    BY <1>1 DEF Tick, StoreTyped
  <2> QED BY <1>1, <2>1, <2>2, HindsightKept, OperatorKept, BoundsKept DEF Tick
<1>2. ASSUME NEW e \in Events, Claim(w, e) PROVE TypeOK' /\ Position'
  <2>1. part[w] = 0 /\ Parts[e] \in Nat
    BY <1>2, MemoryAssumption DEF Claim, LocalsTyped
  <2>2. LocalsTyped' /\ Position'
    BY <1>2, <2>1 DEF Claim, LocalsTyped, Position, Goto, Labels, StoreTyped
  <2>3. StoreTyped'
    BY <1>2 DEF Claim, StoreTyped
  <2> QED BY <1>2, <2>2, <2>3, HindsightKept, OperatorKept, BoundsKept DEF Claim
<1>3. CASE ClaimNothing(w) \/ Start(w)
  <2>1. LocalsTyped' /\ Position'
    BY <1>3, GotoTyped DEF ClaimNothing, Start, Labels
  <2> QED BY <1>3, <2>1, StoreKept, HindsightKept, OperatorKept, BoundsKept DEF ClaimNothing, Start
<1>4. CASE Check(w)
  <2>1. event[w] \in Events /\ Parts[event[w]] \in Nat /\ part[w] = 0
    BY <1>4, Holding DEF Check, Position
  <2>2. PICK l \in {"complete", "join", "retain", "defer"} :
           Goto(w, l) /\ (l = "retain" => Parts[event[w]] # 0)
    BY <1>4 DEF Check, AfterCheck
  <2>3. LocalsTyped' /\ Position'
    BY <1>4, <2>1, <2>2, GotoTyped DEF Check, Labels
  <2> QED BY <1>4, <2>3, StoreKept, HindsightKept, OperatorKept, BoundsKept DEF Check
<1>5. CASE Join(w) \/ OperationFailed(w)
  <2>1. LocalsTyped' /\ Position'
    BY <1>5, GotoTyped DEF Join, OperationFailed, Labels
  <2> QED BY <1>5, <2>1, StoreKept, HindsightKept, OperatorKept, BoundsKept DEF Join, OperationFailed
<1>6. CASE Submit(w)
  <2>1. LocalsTyped' /\ Position'
    BY <1>6, GotoTyped DEF Submit, Labels, Position
  <2>2. HindsightTyped'
    BY <1>6 DEF Submit, Accept, HindsightTyped
  <2> QED BY <1>6, <2>1, <2>2, StoreKept, OperatorKept, BoundsKept DEF Submit, store
<1>7. CASE Await(w)
  <2>1. event[w] \in Events /\ Parts[event[w]] \in Nat /\ part[w] \in Nat /\ part[w] < Parts[event[w]]
    BY <1>7, Holding DEF Await, Position
  <2>2. LocalsTyped' /\ Position'
    <3>1. CASE Renewable(w)
      <4>1. kept' \in [Workers -> SUBSET Emails]
        BY <1>7, <3>1 DEF Await, LocalsTyped
      <4>2. UNCHANGED <<event, fence, stray>>
        BY <1>7 DEF Await
      <4>3. /\ part' = [part EXCEPT ![w] = @ + 1]
            /\ Goto(w, IF part[w] + 1 = Parts[event[w]] THEN "complete" ELSE "retain")
        BY <1>7, <3>1 DEF Await
      <4>4. pc' \in [Workers -> Labels] /\ part' \in [Workers -> Nat]
        BY <2>1, <4>3 DEF LocalsTyped, Goto, Labels
      <4>5. /\ pc[w] = "wait"
            /\ part'[w] = part[w] + 1
            /\ pc'[w] = IF part[w] + 1 = Parts[event[w]] THEN "complete" ELSE "retain"
            /\ \A v \in Workers \ {w} : pc'[v] = pc[v] /\ part'[v] = part[v]
        BY <1>7, <4>3 DEF Await, LocalsTyped, Goto
      <4>6. ASSUME NEW v \in Workers
            PROVE  /\ IF pc'[v] \in {"down", "idle", "tick"} THEN event'[v] = NoEvent /\ part'[v] = 0
                      ELSE event'[v] \in Events /\ part'[v] <= Parts[event'[v]]
                   /\ pc'[v] \in {"check", "join"} => part'[v] = 0
                   /\ pc'[v] \in {"retain", "wait"} => part'[v] < Parts[event'[v]]
        <5>1. CASE v = w
          BY <5>1, <2>1, <4>2, <4>5
        <5>2. CASE v # w
          BY <5>2, <4>2, <4>5 DEF LocalsTyped, Position
        <5> QED BY <5>1, <5>2
      <4> QED BY <4>1, <4>2, <4>4, <4>6 DEF LocalsTyped, Position
    <3>2. CASE ~Renewable(w)
      BY <1>7, <3>2, GotoTyped DEF Await, Labels
    <3> QED BY <3>1, <3>2
  <2> QED BY <1>7, <2>2, StoreKept, HindsightKept, OperatorKept, BoundsKept DEF Await
<1>8. CASE HeartbeatLost(w)
  <2>1. event[w] \in Events
    BY <1>8, Holding DEF HeartbeatLost
  <2>2. stray' \in [Workers -> [Events -> {"none", "retain", "wait"}]]
    BY <1>8, <2>1 DEF HeartbeatLost, Abandon, LocalsTyped
  <2>3. LocalsTyped' /\ Position'
    BY <1>8, <2>1, <2>2 DEF HeartbeatLost, LocalsTyped, Position, Goto, Labels
  <2> QED BY <1>8, <2>3, StoreKept, HindsightKept, OperatorKept, BoundsKept DEF HeartbeatLost
<1>9. CASE Complete(w) \/ Defer(w)
  <2>1. LocalsTyped' /\ Position'
    BY <1>9, LeaveTyped DEF Complete, Defer
  <2>2. StoreTyped'
    BY <1>9 DEF Complete, Defer, StoreTyped
  <2> QED BY <1>9, <2>1, <2>2, HindsightKept, OperatorKept, BoundsKept DEF Complete, Defer
<1>10. CASE CallFails(w)
  <2>1. LocalsTyped' /\ Position'
    BY <1>10, GotoTyped DEF CallFails, Labels
  <2> QED BY <1>10, <2>1, StoreKept, HindsightKept, OperatorKept, TroubleTyped DEF CallFails
<1>11. CASE StoreFails(w)
  <2>1. LocalsTyped' /\ Position'
    BY <1>11, LeaveTyped DEF StoreFails
  <2> QED BY <1>11, <2>1, StoreKept, HindsightKept, OperatorKept, TroubleTyped DEF StoreFails
<1>12. ASSUME NEW e \in Events, StraySubmits(w, e) \/ StrayEnds(w, e) PROVE TypeOK' /\ Position'
  <2>1. stray' \in [Workers -> [Events -> {"none", "retain", "wait"}]]
    BY <1>12 DEF StraySubmits, StrayEnds, LocalsTyped
  <2>2. LocalsTyped' /\ Position'
    BY <1>12, <2>1 DEF StraySubmits, StrayEnds, LocalsTyped, Position
  <2>3. HindsightTyped'
    BY <1>12, HindsightKept DEF StraySubmits, StrayEnds, Accept, HindsightTyped
  <2> QED BY <1>12, <2>2, <2>3, StoreKept, OperatorKept, BoundsKept DEF StraySubmits, StrayEnds
<1>13. CASE Crash(w)
  <2>1. LocalsTyped' /\ Position'
    BY <1>13, HaltTyped DEF Crash
  <2> QED BY <1>13, <2>1, StoreKept, HindsightKept, OperatorKept, TroubleTyped DEF Crash
<1> QED BY <1>1, <1>2, <1>3, <1>4, <1>5, <1>6, <1>7, <1>8, <1>9, <1>10, <1>11, <1>12, <1>13
        DEF WorkerStep, Strays

LEMMA OutsideTypes ==
    ASSUME TypeOK, Position, Outside PROVE TypeOK' /\ Position'
<1> USE DEF TypeOK
<1>1. ASSUME NEW e \in Events, Enqueue(e) \/ BecomesDue(e) PROVE TypeOK' /\ Position'
  <2>1. StoreTyped'
    BY <1>1 DEF Enqueue, BecomesDue, StoreTyped
  <2> QED BY <1>1, <2>1, LocalsKept, HindsightKept, OperatorKept, BoundsKept DEF Enqueue, BecomesDue
<1>2. ASSUME NEW e \in Events, Expire(e) \/ Stall(e) PROVE TypeOK' /\ Position'
  <2>1. StoreTyped'
    BY <1>2 DEF Expire, Stall, Lapse, StoreTyped
  <2>2. BoundsTyped'
    BY <1>2, BoundsKept, TroubleTyped DEF Expire, Stall, Lapse, bounds
  <2> QED BY <1>2, <2>1, <2>2, LocalsKept, HindsightKept, OperatorKept DEF Expire, Stall, Lapse
<1>3. ASSUME NEW d \in Documents, OperationEnds(d) \/ OperationAborts(d) PROVE TypeOK' /\ Position'
  <2>1. HindsightTyped'
    BY <1>3 DEF OperationEnds, OperationAborts, HindsightTyped
  <2>2. BoundsTyped'
    BY <1>3, BoundsKept, TroubleTyped DEF OperationEnds, OperationAborts
  <2> QED BY <1>3, <2>1, <2>2, LocalsKept, StoreKept, OperatorKept DEF OperationEnds, OperationAborts
<1>4. CASE Reconnect
  <2>1. StoreTyped'
    BY <1>4 DEF Reconnect, StoreTyped
  <2>2. BoundsTyped'
    BY <1>4, MemoryAssumption DEF Reconnect, BoundsTyped
  <2> QED BY <1>4, <2>1, <2>2, LocalsKept, HindsightKept, OperatorKept DEF Reconnect
<1> QED BY <1>1, <1>2, <1>3, <1>4 DEF Outside

LEMMA CommandTypes ==
    ASSUME TypeOK, Position, Command PROVE TypeOK' /\ Position'
<1> USE DEF TypeOK
<1>1. CASE StopWorkers
  <2>1. LocalsTyped' /\ Position'
    BY <1>1, HaltTyped DEF StopWorkers
  <2>2. OperatorTyped'
    <3>1. audited' \in BOOLEAN
      BY <1>1, Zenon DEF StopWorkers, OperatorTyped
    <3> QED BY <1>1, <3>1 DEF StopWorkers, OperatorTyped
  <2>3. BoundsTyped'
    BY <1>1, MemoryAssumption DEF StopWorkers, BoundsTyped
  <2> QED BY <1>1, <2>1, <2>2, <2>3, StoreKept, HindsightKept DEF StopWorkers
<1>2. CASE AlreadyDeleted \/ Audit
  <2>1. OperatorTyped'
    <3>1. audited' \in BOOLEAN
      BY <1>2, Zenon DEF AlreadyDeleted, Audit, OperatorTyped
    <3> QED BY <1>2, <3>1 DEF AlreadyDeleted, Audit, OperatorTyped
  <2> QED BY <1>2, <2>1, StoreKept, HindsightKept, LocalsKept, BoundsKept DEF AlreadyDeleted, Audit
<1>3. CASE Prepare
  <2>1. OperatorTyped'
    <3>1. audited' \in BOOLEAN
      BY <1>3, Zenon DEF Prepare, OperatorTyped
    <3> QED BY <1>3, <3>1 DEF Prepare, OperatorTyped
  <2>2. StoreTyped'
    BY <1>3 DEF Prepare, StoreTyped
  <2> QED BY <1>3, <2>1, <2>2, HindsightKept, LocalsKept, BoundsKept DEF Prepare
<1>4. CASE DeleteBank
  <2>1. OperatorTyped'
    <3>1. audited' \in BOOLEAN
      BY <1>4, Zenon DEF DeleteBank, OperatorTyped
    <3> QED BY <1>4, <3>1 DEF DeleteBank, OperatorTyped
  <2>2. HindsightTyped'
    BY <1>4 DEF DeleteBank, HindsightTyped
  <2> QED BY <1>4, <2>1, <2>2, StoreKept, LocalsKept, BoundsKept DEF DeleteBank
<1>5. CASE CommandFails
  <2>1. OperatorTyped'
    <3>1. audited' \in BOOLEAN
      BY <1>5, Zenon DEF CommandFails, OperatorTyped
    <3> QED BY <1>5, <3>1 DEF CommandFails, OperatorTyped
  <2> QED BY <1>5, <2>1, StoreKept, HindsightKept, LocalsKept, TroubleTyped DEF CommandFails
<1> QED BY <1>1, <1>2, <1>3, <1>4, <1>5 DEF Command

\* The types hold throughout, and a worker never goes past the last document of
\* the event it delivers (Init and every action).
THEOREM TypeCorrect == Spec => [](TypeOK /\ Position)
<1>1. TypeOK /\ Position /\ [Next]_vars => TypeOK' /\ Position'
  <2> SUFFICES ASSUME TypeOK, Position, [Next]_vars PROVE TypeOK' /\ Position'
    OBVIOUS
  <2>1. CASE UNCHANGED vars
    BY <2>1, StoreKept, HindsightKept, LocalsKept, OperatorKept, BoundsKept DEF vars, TypeOK
  <2> QED BY <2>1, StepCases, WorkerTypes, OutsideTypes, CommandTypes
<1> QED BY InitTyped, <1>1, PTL DEF Spec

-----------------------------------------------------------------------------
(* Fencing: a claim has the newest generation of its event, or an older one *)
(* that no other worker has.                                                *)

Fences ==
    /\ \A w \in Workers : event[w] # NoEvent => fence[w] <= gen[event[w]]
    /\ \A v, w \in Workers :
         v # w /\ event[v] = event[w] /\ event[v] # NoEvent => fence[v] # fence[w]

\* Whoever does not claim keeps its fence or gives it up.
LEMMA FencesKept ==
    ASSUME Fences, UNCHANGED gen,
           \A w \in Workers : \/ event'[w] = NoEvent
                              \/ event'[w] = event[w] /\ fence'[w] = fence[w]
    PROVE  Fences'
BY DEF Fences

LEMMA LeaveFences ==
    ASSUME LocalsTyped, NEW w \in Workers, Leave(w)
    PROVE  \A v \in Workers : \/ event'[v] = NoEvent
                              \/ event'[v] = event[v] /\ fence'[v] = fence[v]
BY DEF Leave, LocalsTyped

LEMMA HaltFences ==
    ASSUME NEW down \in SUBSET Workers, Halt(down)
    PROVE  \A v \in Workers : \/ event'[v] = NoEvent
                              \/ event'[v] = event[v] /\ fence'[v] = fence[v]
BY DEF Halt

LEMMA ClaimFences ==
    ASSUME TypeOK, Fences, NEW w \in Workers, NEW e \in Events, Claim(w, e)
    PROVE  Fences'
<1>1. /\ gen[e] \in Nat
      /\ gen'[e] = gen[e] + 1
      /\ \A f \in Events \ {e} : gen'[f] = gen[f]
      /\ event'[w] = e /\ fence'[w] = gen[e] + 1
      /\ \A v \in Workers \ {w} : event'[v] = event[v] /\ fence'[v] = fence[v]
      /\ \A v \in Workers : fence[v] \in Nat
  BY DEF Claim, TypeOK, StoreTyped, LocalsTyped
<1>2. \A v \in Workers : event[v] # NoEvent => event[v] \in Events
  BY DEF TypeOK, LocalsTyped
<1>3. \A v \in Workers : event'[v] # NoEvent => fence'[v] <= gen'[event'[v]]
  <2> SUFFICES ASSUME NEW v \in Workers, event'[v] # NoEvent PROVE fence'[v] <= gen'[event'[v]]
    OBVIOUS
  <2>1. CASE v = w
    BY <1>1, <2>1
  <2>2. CASE v # w /\ event[v] = e
    BY <1>1, <1>2, <2>2 DEF Fences
  <2>3. CASE v # w /\ event[v] # e
    BY <1>1, <1>2, <2>3 DEF Fences
  <2> QED BY <2>1, <2>2, <2>3
<1>4. \A v \in Workers \ {w} : event[v] = e /\ e # NoEvent => fence[v] < fence'[w]
  BY <1>1 DEF Fences
<1>5. ASSUME NEW u \in Workers, NEW v \in Workers, u # v,
             event'[u] = event'[v], event'[u] # NoEvent
      PROVE  fence'[u] # fence'[v]
  <2>1. CASE u = w
    BY <1>1, <1>4, <1>5, <2>1
  <2>2. CASE v = w
    BY <1>1, <1>4, <1>5, <2>2
  <2>3. CASE u # w /\ v # w
    BY <1>1, <1>5, <2>3 DEF Fences
  <2> QED BY <2>1, <2>2, <2>3
<1> QED BY <1>3, <1>5 DEF Fences

LEMMA FencesStep ==
    ASSUME TypeOK, Fences, [Next]_vars PROVE Fences'
<1>1. CASE UNCHANGED vars \/ Outside
  BY <1>1, FencesKept DEF vars, store, locals, Outside, Enqueue, BecomesDue, Expire, Stall, Lapse,
     OperationEnds, OperationAborts, Reconnect
<1>2. CASE Command
  <2>1. CASE StopWorkers
    BY <2>1, FencesKept, HaltFences DEF StopWorkers, store
  <2>2. CASE ~StopWorkers
    BY <1>2, <2>2, FencesKept DEF Command, AlreadyDeleted, Prepare, DeleteBank, Audit, CommandFails,
       store, locals
  <2> QED BY <2>1, <2>2
<1>3. ASSUME NEW w \in Workers, WorkerStep(w) PROVE Fences'
  <2>1. ASSUME NEW e \in Events, Claim(w, e) PROVE Fences'
    BY <2>1, ClaimFences
  <2>2. CASE Complete(w) \/ Defer(w) \/ StoreFails(w)
    <3>1. Leave(w) /\ UNCHANGED gen
      BY <2>2 DEF Complete, Defer, StoreFails, store
    <3> QED BY <3>1, LeaveFences, FencesKept DEF TypeOK
  <2>3. CASE Crash(w)
    BY <2>3, HaltFences, FencesKept DEF Crash, store
  <2>4. CASE Tick(w) \/ ClaimNothing(w) \/ Start(w) \/ Check(w) \/ Join(w) \/ Submit(w) \/ Await(w)
             \/ OperationFailed(w) \/ HeartbeatLost(w) \/ CallFails(w) \/ Strays(w)
    <3>1. UNCHANGED <<gen, event, fence>>
      BY <2>4 DEF Tick, ClaimNothing, Start, Check, Join, Submit, Await, OperationFailed,
         HeartbeatLost, CallFails, Strays, StraySubmits, StrayEnds, store
    <3> QED BY <3>1, FencesKept
  <2> QED BY <1>3, <2>1, <2>2, <2>3, <2>4 DEF WorkerStep
<1> QED BY <1>1, <1>2, <1>3, StepCases

\* However often claims expire and events are claimed again, at most one worker
\* can complete or defer an event (claim, complete, defer).
THEOREM SettledByOne == Spec => []OneWorkerSettles
<1>1. Init => Fences
  BY DEF Init, Fences
<1>2. TypeOK /\ Fences /\ [Next]_vars => Fences'
  BY FencesStep
<1>3. Fences => OneWorkerSettles
  BY DEF Fences, OneWorkerSettles, Current
<1>4. Spec => []TypeOK
  BY TypeCorrect, PTL
<1> QED BY <1>1, <1>2, <1>3, <1>4, PTL DEF Spec

-----------------------------------------------------------------------------
(* What is settled stays so. *)

\* Stale workers, recovery of expired claims and deletion leave completed and
\* cancelled events alone (every statement that writes mailbox_memory_events).
THEOREM Settled == Spec => SettledIsFinal
<1> DEFINE Final == \A e \in Events : state[e] \in {"completed", "cancelled"} => state'[e] = state[e]
<1>1. ASSUME TypeOK, [Next]_vars PROVE Final
  <2> SUFFICES ASSUME NEW f \in Events, state[f] \in {"completed", "cancelled"}
               PROVE  state'[f] = state[f]
    OBVIOUS
  <2>0. state \in [Events -> {"none", "pending", "processing", "completed", "cancelled"}]
    BY <1>1 DEF TypeOK, StoreTyped
  <2>1. CASE UNCHANGED state
    BY <2>1
  <2>2. ASSUME NEW e \in Events, Enqueue(e) PROVE state'[f] = state[f]
    BY <2>0, <2>2 DEF Enqueue
  <2>3. ASSUME NEW w \in Workers, NEW e \in Events, Claim(w, e) PROVE state'[f] = state[f]
    BY <2>0, <2>3 DEF Claim, Claimable
  <2>4. ASSUME NEW w \in Workers, Tick(w) PROVE state'[f] = state[f]
    BY <2>0, <2>4 DEF Tick
  <2>5. ASSUME NEW w \in Workers, Complete(w) \/ Defer(w) PROVE state'[f] = state[f]
    BY <2>0, <2>5 DEF Complete, Defer, Current
  <2>6. CASE Prepare
    BY <2>0, <2>6 DEF Prepare
  <2>7. CASE Command /\ ~Prepare
    BY <2>7, <2>1 DEF Command, StopWorkers, AlreadyDeleted, DeleteBank, Audit, CommandFails, store
  <2>8. CASE Outside
    BY <2>8, <2>1, <2>2 DEF Outside, BecomesDue, Expire, Stall, Lapse, OperationEnds, OperationAborts,
       Reconnect, store
  <2>9. ASSUME NEW w \in Workers, WorkerStep(w) PROVE state'[f] = state[f]
    BY <2>9, <2>1, <2>3, <2>4, <2>5 DEF WorkerStep, ClaimNothing, Start, Check, Join, Submit, Await,
       OperationFailed, HeartbeatLost, CallFails, StoreFails, Strays, StraySubmits, StrayEnds, Crash, store
  <2>10. CASE UNCHANGED vars
    BY <2>1, <2>10 DEF vars, store
  <2> QED BY <1>1, <2>6, <2>7, <2>8, <2>9, <2>10, StepCases
<1>2. TypeOK /\ [Next]_vars => [Final]_vars
  BY <1>1
<1>3. Spec => []TypeOK
  BY TypeCorrect, PTL
<1> QED BY <1>2, <1>3, PTL DEF Spec, SettledIsFinal

-----------------------------------------------------------------------------
(* What Hindsight has retained, as far as workers and events know of it. *)

Idle(w) == pc[w] \in {"down", "idle", "tick"}

OperationsRetained == \A d \in Documents : op[d] = "completed" => d \in retained
EmailsRetained == \A w \in Workers : \A e \in kept[w] : DocumentsOf(e) \subseteq retained
PartsRetained == \A w \in Workers :
    ~Idle(w) => \A i \in 1..part[w] : <<event[w], i>> \in retained
DeliveryRetained == \A w \in Workers :
    pc[w] = "complete" => DocumentsOf(event[w]) \subseteq retained
RetainedSoFar ==
    CompletedWasRetained /\ OperationsRetained /\ EmailsRetained /\ PartsRetained /\ DeliveryRetained

LEMMA CompletedKept ==
    ASSUME CompletedWasRetained, retained \subseteq retained',
           \A e \in Events : state'[e] = "completed" => state[e] = "completed"
    PROVE  CompletedWasRetained'
BY DEF CompletedWasRetained, DocumentsOf
LEMMA OperationsKept ==
    ASSUME OperationsRetained, retained \subseteq retained',
           \A d \in Documents : op'[d] = "completed" => op[d] = "completed" \/ d \in retained'
    PROVE  OperationsRetained'
BY DEF OperationsRetained, Documents, DocumentsOf
LEMMA EmailsKept ==
    ASSUME EmailsRetained, retained \subseteq retained',
           \A w \in Workers : kept'[w] \subseteq kept[w]
    PROVE  EmailsRetained'
BY DEF EmailsRetained, DocumentsOf
LEMMA DeliveriesKept ==
    ASSUME PartsRetained, DeliveryRetained, retained \subseteq retained',
           \A w \in Workers : \/ Idle(w)'
                              \/ /\ ~Idle(w) /\ event'[w] = event[w] /\ part'[w] = part[w]
                                 /\ pc'[w] = "complete" => pc[w] = "complete"
    PROVE  PartsRetained' /\ DeliveryRetained'
BY DEF PartsRetained, DeliveryRetained, Idle, DocumentsOf

\* A worker that goes on in its delivery, or leaves it, and the others.
LEMMA GotoDelivery ==
    ASSUME LocalsTyped, PartsRetained, DeliveryRetained, NEW w \in Workers, NEW l \in Labels,
           Goto(w, l), l # "complete", UNCHANGED <<event, part, retained>>,
           Idle(w) => l \in {"down", "idle", "tick"}
    PROVE  PartsRetained' /\ DeliveryRetained'
<1>1. \A v \in Workers : pc'[v] = IF v = w THEN l ELSE pc[v]
  BY DEF Goto, LocalsTyped
<1> QED BY <1>1, DeliveriesKept DEF Idle

LEMMA LeaveDelivery ==
    ASSUME LocalsTyped, PartsRetained, DeliveryRetained, NEW w \in Workers,
           Leave(w), UNCHANGED retained
    PROVE  PartsRetained' /\ DeliveryRetained'
<1>1. \A v \in Workers \ {w} : pc'[v] = pc[v] /\ event'[v] = event[v] /\ part'[v] = part[v]
  BY DEF Leave, Goto, LocalsTyped
<1>2. Idle(w)'
  BY DEF Leave, Goto, LocalsTyped, Idle
<1> QED BY <1>1, <1>2, DeliveriesKept DEF Idle

LEMMA HaltDelivery ==
    ASSUME PartsRetained, DeliveryRetained, EmailsRetained, NEW down \in SUBSET Workers,
           Halt(down), UNCHANGED retained
    PROVE  PartsRetained' /\ DeliveryRetained' /\ EmailsRetained'
<1>1. \A v \in Workers : \/ pc'[v] = "down"
                         \/ pc'[v] = pc[v] /\ event'[v] = event[v] /\ part'[v] = part[v]
  BY DEF Halt
<1>2. \A v \in Workers : kept'[v] \subseteq kept[v]
  BY DEF Halt
<1> QED BY <1>1, <1>2, DeliveriesKept, EmailsKept DEF Idle

LEMMA WorkerRetained ==
    ASSUME TypeOK, Position, RetainedSoFar, NEW w \in Workers, WorkerStep(w)
    PROVE  RetainedSoFar'
<1> USE DEF TypeOK, RetainedSoFar
<1>0. state \in [Events -> {"none", "pending", "processing", "completed", "cancelled"}]
  BY DEF StoreTyped
<1>1. CASE Tick(w)
  <2>1. CompletedWasRetained'
    BY <1>0, <1>1, CompletedKept DEF Tick, hindsight
  <2>2. PartsRetained' /\ DeliveryRetained'
    BY <1>1, GotoDelivery DEF Tick, Labels, hindsight
  <2> QED BY <1>1, <2>1, <2>2, OperationsKept, EmailsKept DEF Tick, hindsight
<1>2. ASSUME NEW e \in Events, Claim(w, e) PROVE RetainedSoFar'
  <2>1. CompletedWasRetained'
    BY <1>0, <1>2, CompletedKept DEF Claim, hindsight
  <2>2. part[w] = 0
    BY <1>2 DEF Claim, LocalsTyped
  <2>3. /\ pc'[w] = "check"
        /\ \A v \in Workers \ {w} : pc'[v] = pc[v] /\ event'[v] = event[v]
        /\ UNCHANGED <<part, retained>>
    BY <1>2 DEF Claim, Goto, LocalsTyped, hindsight
  <2>4. PartsRetained' /\ DeliveryRetained'
    BY <2>2, <2>3 DEF PartsRetained, DeliveryRetained, Idle, DocumentsOf
  <2> QED BY <1>2, <2>1, <2>4, OperationsKept, EmailsKept DEF Claim, hindsight
<1>3. CASE ClaimNothing(w) \/ Start(w) \/ Join(w) \/ OperationFailed(w) \/ HeartbeatLost(w) \/ CallFails(w)
  <2>1. UNCHANGED <<state, op, retained, kept, event, part>>
    BY <1>3 DEF ClaimNothing, Start, Join, OperationFailed, HeartbeatLost, CallFails, store, hindsight
  <2>2. \/ Goto(w, "idle")
        \/ Goto(w, "defer") /\ ~Idle(w)
    BY <1>3 DEF ClaimNothing, Start, Join, OperationFailed, HeartbeatLost, CallFails, Idle
  <2>3. PartsRetained' /\ DeliveryRetained'
    BY <2>1, <2>2, GotoDelivery DEF Labels
  <2> QED BY <2>1, <2>3, CompletedKept, OperationsKept, EmailsKept
<1>4. CASE Check(w)
  <2>1. UNCHANGED <<state, op, retained, kept, event, part>> /\ ~Idle(w)
    BY <1>4 DEF Check, store, hindsight, Idle
  <2>2. event[w] \in Events /\ Parts[event[w]] \in Nat
    BY <1>4, Holding DEF Check
  <2>3. CASE Goto(w, "complete")
    <3>1. Parts[event[w]] = 0 \/ event[w] \in kept[w]
      <4>1. pc'[w] = "complete"
        BY <2>3 DEF Goto, LocalsTyped
      <4>2. pc'[w] = IF Renewable(w) /\ account = "ready" THEN AfterCheck(w) ELSE "defer"
        BY <1>4 DEF Check, Goto, LocalsTyped
      <4> QED BY <4>1, <4>2 DEF AfterCheck
    <3>2. DocumentsOf(event[w]) \subseteq retained
      BY <2>2, <3>1 DEF EmailsRetained, DocumentsOf
    <3>3. \A v \in Workers : pc'[v] = IF v = w THEN "complete" ELSE pc[v]
      BY <2>3 DEF Goto, LocalsTyped
    <3>4. PartsRetained' /\ DeliveryRetained'
      BY <2>1, <3>2, <3>3 DEF PartsRetained, DeliveryRetained, Idle, DocumentsOf
    <3> QED BY <2>1, <3>4, CompletedKept, OperationsKept, EmailsKept
  <2>4. CASE Goto(w, "defer") \/ Goto(w, "join") \/ Goto(w, "retain")
    <3>1. PartsRetained' /\ DeliveryRetained'
      BY <2>1, <2>4, GotoDelivery DEF Labels
    <3> QED BY <2>1, <3>1, CompletedKept, OperationsKept, EmailsKept
  <2> QED BY <1>4, <2>3, <2>4 DEF Check, AfterCheck
<1>5. CASE Submit(w)
  <2>1. \A d \in Documents : op'[d] = "completed" => op[d] = "completed"
    BY <1>5 DEF Submit, Accept, HindsightTyped
  <2>2. UNCHANGED <<state, retained, kept, event, part>>
    BY <1>5 DEF Submit, store
  <2>3. PartsRetained' /\ DeliveryRetained'
    BY <1>5, <2>2, GotoDelivery DEF Submit, Labels, Idle
  <2> QED BY <2>1, <2>2, <2>3, CompletedKept, OperationsKept, EmailsKept
<1>6. CASE Await(w)
  <2>1. /\ event[w] \in Events /\ Parts[event[w]] \in Nat /\ part[w] \in Nat
        /\ part[w] < Parts[event[w]] /\ ~Idle(w)
    BY <1>6, Holding DEF Await, Position, Idle
  <2>2. UNCHANGED <<state, op, retained, event>>
    BY <1>6 DEF Await, store, hindsight
  <2>3. CASE ~Renewable(w)
    <3>1. Goto(w, "defer") /\ UNCHANGED <<part, kept>>
      BY <1>6, <2>3 DEF Await
    <3>2. PartsRetained' /\ DeliveryRetained'
      BY <2>1, <2>2, <3>1, GotoDelivery DEF Labels
    <3> QED BY <2>2, <3>1, <3>2, CompletedKept, OperationsKept, EmailsKept
  <2>4. CASE Renewable(w)
    <3>1. <<event[w], part[w] + 1>> \in Documents
      BY <2>1, DocumentPairs
    <3>2. <<event[w], part[w] + 1>> \in retained
      BY <1>6, <3>1 DEF Await, OperationsRetained
    <3>3. \A i \in 1..(part[w] + 1) : <<event[w], i>> \in retained
      BY <2>1, <3>2 DEF PartsRetained
    <3>4. part[w] + 1 = Parts[event[w]] => DocumentsOf(event[w]) \subseteq retained
      BY <2>1, <3>3, DocumentPairs
    <3>5. /\ part'[w] = part[w] + 1
          /\ pc'[w] = IF part[w] + 1 = Parts[event[w]] THEN "complete" ELSE "retain"
          /\ \A v \in Workers \ {w} : pc'[v] = pc[v] /\ part'[v] = part[v]
      BY <1>6, <2>4 DEF Await, LocalsTyped, Goto
    <3>6. PartsRetained'
      BY <2>2, <3>3, <3>5 DEF PartsRetained, Idle
    <3>7. DeliveryRetained'
      <4> SUFFICES ASSUME NEW v \in Workers, pc'[v] = "complete"
                   PROVE  DocumentsOf(event[v]) \subseteq retained
        BY <2>2 DEF DeliveryRetained, DocumentsOf
      <4>1. CASE v = w
        BY <3>4, <3>5, <4>1
      <4>2. CASE v # w
        BY <3>5, <4>2 DEF DeliveryRetained
      <4> QED BY <4>1, <4>2
    <3>8. \A v \in Workers :
             \/ kept'[v] \subseteq kept[v]
             \/ /\ v = w /\ part[w] + 1 = Parts[event[w]]
                /\ kept'[v] = kept[v] \union {event[w]}
      BY <1>6, <2>4 DEF Await, LocalsTyped
    <3>9. EmailsRetained'
      <4> SUFFICES ASSUME NEW v \in Workers, NEW e \in kept'[v]
                   PROVE  DocumentsOf(e) \subseteq retained
        BY <2>2 DEF EmailsRetained, DocumentsOf
      <4>1. CASE e \in kept[v]
        BY <4>1 DEF EmailsRetained
      <4>2. CASE e \notin kept[v]
        BY <3>4, <3>8, <4>2
      <4> QED BY <4>1, <4>2
    <3> QED BY <2>2, <3>6, <3>7, <3>9, CompletedKept, OperationsKept
  <2> QED BY <2>3, <2>4
<1>7. CASE Complete(w) \/ Defer(w) \/ StoreFails(w)
  <2>1. Leave(w) /\ UNCHANGED <<op, retained, kept>>
    BY <1>7 DEF Complete, Defer, StoreFails, hindsight
  <2>2. CompletedWasRetained'
    <3>1. CASE Complete(w)
      <4>1. DocumentsOf(event[w]) \subseteq retained
        BY <3>1 DEF Complete, DeliveryRetained
      <4>2. \A e \in Events : state'[e] = "completed" => state[e] = "completed" \/ e = event[w]
        BY <1>0, <3>1 DEF Complete
      <4> QED BY <2>1, <4>1, <4>2 DEF CompletedWasRetained, DocumentsOf
    <3>2. CASE Defer(w) \/ StoreFails(w)
      <4>1. \A e \in Events : state'[e] = "completed" => state[e] = "completed"
        BY <1>0, <3>2 DEF Defer, StoreFails, store
      <4> QED BY <2>1, <4>1, CompletedKept
    <3> QED BY <1>7, <3>1, <3>2
  <2> QED BY <2>1, <2>2, LeaveDelivery, OperationsKept, EmailsKept
<1>8. ASSUME NEW e \in Events, StraySubmits(w, e) \/ StrayEnds(w, e) PROVE RetainedSoFar'
  <2>1. UNCHANGED <<state, retained, pc, event, part, kept>>
    BY <1>8 DEF StraySubmits, StrayEnds, store, hindsight
  <2>2. \A d \in Documents : op'[d] = "completed" => op[d] = "completed"
    BY <1>8 DEF StraySubmits, StrayEnds, Accept, HindsightTyped, hindsight
  <2>3. PartsRetained' /\ DeliveryRetained'
    BY <2>1 DEF PartsRetained, DeliveryRetained, Idle, DocumentsOf
  <2> QED BY <2>1, <2>2, <2>3, CompletedKept, OperationsKept, EmailsKept
<1>9. CASE Crash(w)
  BY <1>9, HaltDelivery, CompletedKept, OperationsKept DEF Crash, store, hindsight
<1> QED BY <1>1, <1>2, <1>3, <1>4, <1>5, <1>6, <1>7, <1>8, <1>9 DEF WorkerStep, Strays

LEMMA OthersRetained ==
    ASSUME TypeOK, RetainedSoFar, Outside \/ Command \/ UNCHANGED vars
    PROVE  RetainedSoFar'
<1> USE DEF TypeOK, RetainedSoFar
<1>0. state \in [Events -> {"none", "pending", "processing", "completed", "cancelled"}]
  BY DEF StoreTyped
<1>1. CASE StopWorkers
  BY <1>1, HaltDelivery, CompletedKept, OperationsKept DEF StopWorkers, store, hindsight
<1>2. CASE ~StopWorkers
  <2>1. UNCHANGED locals
    BY <1>2 DEF Outside, Command, Enqueue, BecomesDue, Expire, Stall, Lapse, OperationEnds,
       OperationAborts, Reconnect, AlreadyDeleted, Prepare, DeleteBank, Audit, CommandFails, vars
  <2>2. retained \subseteq retained'
    BY <1>2 DEF Outside, Command, Enqueue, BecomesDue, Expire, Stall, Lapse, OperationEnds,
       OperationAborts, Reconnect, AlreadyDeleted, Prepare, DeleteBank, Audit, CommandFails, vars,
       hindsight
  <2>3. PartsRetained' /\ DeliveryRetained' /\ EmailsRetained'
    BY <2>1, <2>2 DEF locals, PartsRetained, DeliveryRetained, EmailsRetained, Idle, DocumentsOf
  <2>4. \A e \in Events : state'[e] = "completed" => state[e] = "completed"
    BY <1>0, <1>2 DEF Outside, Command, Enqueue, BecomesDue, Expire, Stall, Lapse, OperationEnds,
       OperationAborts, Reconnect, AlreadyDeleted, Prepare, DeleteBank, Audit, CommandFails, vars,
       store
  <2>5. \A d \in Documents : op'[d] = "completed" => op[d] = "completed" \/ d \in retained'
    BY <1>2 DEF Outside, Command, Enqueue, BecomesDue, Expire, Stall, Lapse, OperationEnds,
       OperationAborts, Reconnect, AlreadyDeleted, Prepare, DeleteBank, Audit, CommandFails, vars,
       hindsight, HindsightTyped
  <2> QED BY <2>2, <2>3, <2>4, <2>5, CompletedKept, OperationsKept
<1> QED BY <1>1, <1>2

\* Whatever was claimed twice, joined, lost or begun again: an event is recorded
\* as completed only when Hindsight has completed every document of it (deliver).
THEOREM CompletedIsRetained == Spec => []CompletedWasRetained
<1>1. Init => RetainedSoFar
  BY DEF Init, RetainedSoFar, CompletedWasRetained, OperationsRetained, EmailsRetained,
     PartsRetained, DeliveryRetained, Idle
<1>2. TypeOK /\ Position /\ RetainedSoFar /\ [Next]_vars => RetainedSoFar'
  BY StepCases, WorkerRetained, OthersRetained
<1>3. RetainedSoFar => CompletedWasRetained
  BY DEF RetainedSoFar
<1> QED BY <1>1, <1>2, <1>3, TypeCorrect, PTL DEF Spec

-----------------------------------------------------------------------------
(* Deletion: who can still reach the bank, and what is left in it. *)

Rests(w) == Idle(w) /\ \A e \in Events : stray[w][e] = "none"
Stopped(w) == pc[w] = "down"
Quiet ==
    /\ account = "disabled" => \A w \in Workers : Rests(w)
    /\ \A w \in Workers : Stopped(w) => Rests(w)
    /\ del # "idle" => \A w \in Workers : Stopped(w)
Empty == bank = {} /\ \A d \in Documents : op[d] # "pending"
Erased ==
    /\ del = "erased" => Empty
    /\ audited /\ account = "disabled" => Empty

\* When every worker rests, no operation starts and an empty bank stays empty.
LEMMA NothingArrives ==
    ASSUME TypeOK, \A w \in Workers : Rests(w), [Next]_vars
    PROVE  /\ \A d \in Documents : op'[d] = "pending" => op[d] = "pending"
           /\ Empty => Empty'
<1>1. ASSUME UNCHANGED <<op, bank>>
      PROVE  (\A d \in Documents : op'[d] = "pending" => op[d] = "pending") /\ (Empty => Empty')
  BY <1>1 DEF Empty, Documents, DocumentsOf
<1>2. ASSUME NEW w \in Workers, WorkerStep(w) PROVE UNCHANGED <<op, bank>>
  BY <1>2 DEF WorkerStep, Rests, Idle, Tick, Claim, ClaimNothing, Start, Check, Join, Submit, Await,
     OperationFailed, HeartbeatLost, Complete, Defer, CallFails, StoreFails, Strays, StraySubmits,
     StrayEnds, Crash, hindsight
<1>3. CASE DeleteBank
  <2>1. bank' = {} /\ \A d \in Documents : op'[d] # "pending"
    BY <1>3 DEF DeleteBank
  <2> QED BY <2>1 DEF Empty, Documents, DocumentsOf
<1>4. CASE Command /\ ~DeleteBank
  <2>1. UNCHANGED <<op, bank>>
    BY <1>4 DEF Command, StopWorkers, AlreadyDeleted, Prepare, Audit, CommandFails, hindsight
  <2> QED BY <1>1, <2>1
<1>5. ASSUME NEW d \in Documents, OperationEnds(d) \/ OperationAborts(d)
      PROVE  (\A c \in Documents : op'[c] = "pending" => op[c] = "pending") /\ (Empty => Empty')
  <2>1. op[d] = "pending" /\ op \in [Documents -> {"none", "pending", "completed", "failed"}]
    BY <1>5 DEF OperationEnds, OperationAborts, TypeOK, HindsightTyped
  <2>2. \A c \in Documents : op'[c] = "pending" => op[c] = "pending"
    BY <1>5, <2>1 DEF OperationEnds, OperationAborts
  <2>3. ~Empty
    BY <2>1 DEF Empty
  <2> QED BY <2>2, <2>3
<1>6. CASE \E e \in Events : Enqueue(e) \/ BecomesDue(e) \/ Expire(e) \/ Stall(e)
  <2>1. UNCHANGED <<op, bank>>
    BY <1>6 DEF Enqueue, BecomesDue, Expire, Stall, Lapse, hindsight
  <2> QED BY <1>1, <2>1
<1>7. CASE Reconnect \/ UNCHANGED vars
  <2>1. UNCHANGED <<op, bank>>
    BY <1>7 DEF Reconnect, vars, hindsight
  <2> QED BY <1>1, <2>1
<1> QED BY <1>1, <1>2, <1>3, <1>4, <1>5, <1>6, <1>7, StepCases DEF Outside

\* A command, and a mailbox that it disabled, find every worker at rest.
LEMMA QuietRests ==
    ASSUME Quiet, del # "idle" \/ account = "disabled"
    PROVE  \A w \in Workers : Rests(w)
BY DEF Quiet

LEMMA QuietKept ==
    ASSUME Quiet, UNCHANGED <<account, del>>,
           \A w \in Workers : /\ Rests(w) => Rests(w)'
                              /\ Stopped(w)' => Stopped(w)
                              /\ del # "idle" => (Stopped(w) => Stopped(w)')
    PROVE  Quiet'
BY DEF Quiet

LEMMA WorkerQuiet ==
    ASSUME TypeOK, Quiet, NEW w \in Workers, WorkerStep(w) PROVE Quiet'
<1>0. /\ pc \in [Workers -> Labels]
      /\ stray \in [Workers -> [Events -> {"none", "retain", "wait"}]]
  BY DEF TypeOK, LocalsTyped
<1>1. UNCHANGED <<account, del>>
  BY DEF WorkerStep, Tick, Claim, ClaimNothing, Start, Check, Join, Submit, Await, OperationFailed,
     HeartbeatLost, Complete, Defer, CallFails, StoreFails, Strays, StraySubmits, StrayEnds, Crash,
     store, operator
<1>2. CASE Crash(w)
  <2>1. \A v \in Workers \ {w} : pc'[v] = pc[v] /\ stray'[v] = stray[v]
    BY <1>2 DEF Crash, Halt
  <2>2. Rests(w)' /\ Stopped(w)'
    BY <1>2 DEF Crash, Halt, Rests, Stopped, Idle
  <2> QED BY <1>1, <2>1, <2>2 DEF Quiet, Rests, Stopped, Idle
<1>3. CASE Strays(w)
  <2>1. UNCHANGED pc
    BY <1>3 DEF Strays, StraySubmits, StrayEnds
  <2>2. \A v \in Workers : Rests(v) => Rests(v)'
    <3>1. PICK e \in Events : StraySubmits(w, e) \/ StrayEnds(w, e)
      BY <1>3 DEF Strays
    <3>2. stray[w][e] # "none" /\ \A v \in Workers \ {w} : stray'[v] = stray[v]
      BY <1>0, <3>1 DEF StraySubmits, StrayEnds
    <3>3. ~Rests(w)
      BY <3>2 DEF Rests
    <3> QED BY <2>1, <3>2, <3>3 DEF Rests, Idle
  <2> QED BY <1>1, <2>1, <2>2, QuietKept DEF Stopped
<1>4. CASE \E e \in Events : Claim(w, e)
  <2>1. account = "ready" /\ pc[w] = "tick" /\ Goto(w, "check")
    BY <1>4 DEF Claim, Claimable
  <2>2. pc'[w] = "check" /\ \A v \in Workers \ {w} : pc'[v] = pc[v]
    BY <1>0, <2>1 DEF Goto
  <2>3. UNCHANGED stray
    BY <1>4 DEF Claim
  <2> QED BY <1>1, <2>1, <2>2, <2>3 DEF Quiet, Rests, Stopped, Idle
<1>5. CASE Start(w)
  <2>1. del = "idle" /\ pc[w] = "down" /\ UNCHANGED stray
    BY <1>5 DEF Start
  <2>2. pc'[w] = "idle" /\ \A v \in Workers \ {w} : pc'[v] = pc[v]
    BY <1>0, <1>5 DEF Start, Goto
  <2> QED BY <1>1, <2>1, <2>2 DEF Quiet, Rests, Stopped, Idle
<1>6. CASE Tick(w) \/ ClaimNothing(w)
  <2>1. pc[w] \in {"idle", "tick"} /\ UNCHANGED stray
    BY <1>6 DEF Tick, ClaimNothing
  <2>2. pc'[w] \in {"idle", "tick"} /\ \A v \in Workers \ {w} : pc'[v] = pc[v]
    BY <1>0, <1>6 DEF Tick, ClaimNothing, Goto
  <2> QED BY <1>1, <2>1, <2>2, QuietKept DEF Rests, Stopped, Idle
<1>7. CASE Check(w) \/ Join(w) \/ Submit(w) \/ Await(w) \/ OperationFailed(w) \/ HeartbeatLost(w)
           \/ Complete(w) \/ Defer(w) \/ CallFails(w) \/ StoreFails(w)
  <2>1. ~Idle(w)
    BY <1>7 DEF Check, Join, Submit, Await, OperationFailed, HeartbeatLost, Complete, Defer,
       CallFails, StoreFails, Idle
  <2>2. PICK l \in Labels \ {"down"} : Goto(w, l)
    BY <1>7 DEF Check, AfterCheck, Join, Submit, Await, OperationFailed, HeartbeatLost, Complete,
       Defer, CallFails, StoreFails, Leave, Labels
  <2>3. \A v \in Workers \ {w} : stray'[v] = stray[v]
    BY <1>0, <1>7 DEF Check, Join, Submit, Await, OperationFailed, HeartbeatLost, Abandon, Complete,
       Defer, CallFails, StoreFails
  <2>4. pc'[w] # "down" /\ \A v \in Workers \ {w} : pc'[v] = pc[v]
    BY <1>0, <2>2 DEF Goto
  <2> QED BY <1>1, <2>1, <2>3, <2>4, QuietKept DEF Rests, Stopped, Idle
<1> QED BY <1>2, <1>3, <1>4, <1>5, <1>6, <1>7 DEF WorkerStep

LEMMA OthersQuiet ==
    ASSUME TypeOK, Quiet, Outside \/ Command \/ UNCHANGED vars PROVE Quiet'
<1>1. CASE StopWorkers
  <2>1. \A w \in Workers : Stopped(w)' /\ Rests(w)'
    BY <1>1 DEF StopWorkers, Halt, Stopped, Rests, Idle
  <2> QED BY <2>1 DEF Quiet
<1>2. CASE ~StopWorkers
  <2>1. UNCHANGED <<pc, stray>>
    BY <1>2 DEF Outside, Command, Enqueue, BecomesDue, Expire, Stall, Lapse, OperationEnds,
       OperationAborts, Reconnect, AlreadyDeleted, Prepare, DeleteBank, Audit, CommandFails, vars,
       locals
  <2>2. \A w \in Workers : (Rests(w) <=> Rests(w)') /\ (Stopped(w) <=> Stopped(w)')
    BY <2>1 DEF Rests, Stopped, Idle
  <2>3. account' = "disabled" => account = "disabled" \/ del # "idle"
    BY <1>2 DEF Outside, Command, Enqueue, BecomesDue, Expire, Stall, Lapse, OperationEnds,
       OperationAborts, Reconnect, AlreadyDeleted, Prepare, DeleteBank, Audit, CommandFails, vars,
       store
  <2>4. del' # "idle" => del # "idle"
    BY <1>2 DEF Outside, Command, Enqueue, BecomesDue, Expire, Stall, Lapse, OperationEnds,
       OperationAborts, Reconnect, AlreadyDeleted, Prepare, DeleteBank, Audit, CommandFails, vars,
       operator
  <2> QED BY <2>2, <2>3, <2>4 DEF Quiet
<1> QED BY <1>1, <1>2

LEMMA ErasedStep ==
    ASSUME TypeOK, Quiet, Erased, [Next]_vars PROVE Erased'
<1>1. CASE DeleteBank
  <2>1. bank' = {} /\ \A d \in Documents : op'[d] # "pending"
    BY <1>1 DEF DeleteBank
  <2>2. Empty'
    BY <2>1 DEF Empty, Documents, DocumentsOf
  <2> QED BY <2>2 DEF Erased
<1>2. CASE Audit
  <2>1. del = "erased" /\ UNCHANGED <<op, bank, account>>
    BY <1>2 DEF Audit, hindsight, store
  <2>2. Empty'
    BY <2>1 DEF Erased, Empty, Documents, DocumentsOf
  <2> QED BY <2>2 DEF Erased
<1>3. CASE ~DeleteBank /\ ~Audit
  <2>1. /\ del' = "erased" => del = "erased"
        /\ audited' /\ account' = "disabled" => audited /\ account = "disabled"
    <3>1. CASE UNCHANGED vars \/ Outside \/ Command
      <4>1. del' = "erased" => del = "erased"
        BY <1>3, <3>1 DEF vars, Outside, Command, Enqueue, BecomesDue, Expire, Stall, Lapse,
           OperationEnds, OperationAborts, Reconnect, StopWorkers, AlreadyDeleted, Prepare,
           CommandFails, operator
      <4>2. UNCHANGED audited
        BY <1>3, <3>1 DEF vars, Outside, Command, Enqueue, BecomesDue, Expire, Stall, Lapse,
           OperationEnds, OperationAborts, Reconnect, StopWorkers, AlreadyDeleted, Prepare,
           CommandFails, operator
      <4>3. account' = "disabled" => account = "disabled" \/ Prepare
        BY <1>3, <3>1 DEF vars, Outside, Command, Enqueue, BecomesDue, Expire, Stall, Lapse,
           OperationEnds, OperationAborts, Reconnect, StopWorkers, AlreadyDeleted,
           CommandFails, store
      <4>4. Prepare => ~audited
        BY Zenon DEF Prepare
      <4> QED BY <4>1, <4>2, <4>3, <4>4, Zenon
    <3>2. ASSUME NEW w \in Workers, WorkerStep(w) PROVE UNCHANGED <<account, operator>>
      BY <3>2 DEF WorkerStep, Tick, Claim, ClaimNothing, Start, Check, Join, Submit, Await,
         OperationFailed, HeartbeatLost, Complete, Defer, CallFails, StoreFails, Strays,
         StraySubmits, StrayEnds, Crash, store, operator
    <3> QED BY <3>1, <3>2, StepCases DEF operator
  <2>2. Empty /\ (del # "idle" \/ account = "disabled") => Empty'
    BY NothingArrives, QuietRests
  <2> QED BY <2>1, <2>2 DEF Erased
<1> QED BY <1>1, <1>2, <1>3

LEMMA DeletionInvariant == Spec => [](TypeOK /\ Quiet /\ Erased)
<1>1. Init => Quiet /\ Erased
  BY DEF Init, Quiet, Erased, Stopped
<1>2. TypeOK /\ Quiet /\ Erased /\ [Next]_vars => Quiet' /\ Erased'
  BY StepCases, WorkerQuiet, OthersQuiet, ErasedStep
<1> QED BY <1>1, <1>2, TypeCorrect, PTL DEF Spec

\* After an audited deletion nothing refills the bank of a mailbox that has not
\* been connected again (permanentlyDeleteMailboxMemory and the stopped workers).
THEOREM StaysEmpty == Spec => []DisabledStaysEmpty
<1>1. Erased => DisabledStaysEmpty
  BY DEF Erased, Empty, DisabledStaysEmpty
<1> QED BY <1>1, DeletionInvariant, PTL

\* The bank is what the records say, whatever was lost, repeated or deleted
\* (deliver, complete and permanentlyDeleteMailboxMemory).
THEOREM BankIsTrue == Spec => []BankTellsTruth
<1>1. TypeOK /\ CompletedWasRetained /\ DisabledStaysEmpty => BankTellsTruth
  BY DEF BankTellsTruth
<1> QED BY <1>1, TypeCorrect, CompletedIsRetained, StaysEmpty, PTL

\* No worker and no stray submits a retention for a disabled mailbox (claim and
\* the stopped workers).
THEOREM SubmitsNothing == Spec => DisabledSubmitsNothing
<1> DEFINE NoneStarts == account = "disabled" =>
             \A d \in Documents : op'[d] = "pending" => op[d] = "pending"
<1>1. ASSUME TypeOK, Quiet, [Next]_vars PROVE NoneStarts
  BY <1>1, NothingArrives, QuietRests
<1>2. TypeOK /\ Quiet /\ Erased /\ [Next]_vars => [NoneStarts]_vars
  BY <1>1
<1> QED BY <1>2, DeletionInvariant, PTL DEF Spec, DisabledSubmitsNothing
============================================================================

----------------------- MODULE NotificationDelivery -----------------------
(***************************************************************************)
(* The delivery of one logical notification to its owner's devices:        *)
(* packages/notifications (NotificationWorker over PostgreSQL) and the      *)
(* recovery that redelivers what is unfinished.                            *)
(*                                                                         *)
(* Several jobs of the same notification may run at once.  Each claims the *)
(* next attempt of a device in one transaction, calls the push service     *)
(* outside of any, and finishes the attempt in another; a claim is good    *)
(* for 120 seconds.  The pair (device, attempt) stands for the claim token, *)
(* which never changes within an attempt.                                  *)
(***************************************************************************)
EXTENDS Integers, Sequences, FiniteSets

CONSTANTS
    Devices,     \* push subscriptions of the owner
    Workers,     \* concurrent notification.deliver jobs
    MaxAttempts, \* attempts of a device: three in the code
    MaxChanges,  \* bound: devices that the owner turns on or off
    MaxCrashes   \* bound: jobs that die

ASSUME DeliveryAssumption ==
    /\ IsFiniteSet(Devices)
    /\ MaxAttempts \in Nat \ {0} /\ MaxChanges \in Nat /\ MaxCrashes \in Nat

VARIABLES
    enabled,     \* push_subscriptions: neither disabled nor expired
    initialized, \* logical_notifications.targets_initialized_at IS NOT NULL
    state,       \* logical_notifications.state
    counts,      \* its delivered_count, failed_count and pending_count
    target,      \* notification_targets.state
    attempts,    \* notification_deliveries of a device: the states, by attempt
    lapsed,      \* the claim of the pending attempt has expired
    queued,      \* a notification.deliver job waits in the queue
    pc, todo, device, number, \* one job's locals
    changes, crashes

records == <<initialized, state, counts, target, attempts, lapsed>>
locals == <<pc, todo, device, number>>
bounds == <<changes, crashes>>
vars == <<enabled, records, queued, locals, bounds>>

NoDevice == "no device"
Settled == {"delivered", "failed", "suppressed"}

Init ==
    /\ enabled \in [Devices -> BOOLEAN]
    /\ initialized = FALSE
    /\ state = "pending"
    /\ counts = [delivered |-> 0, failed |-> 0, pending |-> 0]
    /\ target = [d \in Devices |-> "none"]
    /\ attempts = [d \in Devices |-> <<>>]
    /\ lapsed = [d \in Devices |-> FALSE]
    /\ queued = FALSE
    /\ pc = [w \in Workers |-> "idle"]
    /\ todo = [w \in Workers |-> {}]
    /\ device = [w \in Workers |-> NoDevice]
    /\ number = [w \in Workers |-> 0]
    /\ changes = 0
    /\ crashes = 0

Goto(w, label) == pc' = [pc EXCEPT ![w] = label]

Leave(w) ==
    /\ Goto(w, "idle")
    /\ todo' = [todo EXCEPT ![w] = {}]
    /\ device' = [device EXCEPT ![w] = NoDevice]
    /\ number' = [number EXCEPT ![w] = 0]

\* The job goes on to its next device.
Proceed(w, label) ==
    /\ Goto(w, label)
    /\ device' = [device EXCEPT ![w] = IF label = "disable" THEN @ ELSE NoDevice]
    /\ number' = [number EXCEPT ![w] = 0]

Claimed(d) == \E k \in DOMAIN attempts[d] : attempts[d][k] = "pending"
Live(d) == Claimed(d) /\ ~lapsed[d]

\* Expired claims become retryable history (DELIVERY_LEASE_EXPIRED).
Expired(d) ==
    [k \in DOMAIN attempts[d] |->
        IF attempts[d][k] = "pending" /\ lapsed[d] THEN "retryable" ELSE attempts[d][k]]

CountsOf(targets) ==
    [delivered |-> Cardinality({d \in Devices : targets[d] = "delivered"}),
     failed |-> Cardinality({d \in Devices : targets[d] = "failed"}),
     pending |-> Cardinality({d \in Devices : targets[d] = "pending"})]

-----------------------------------------------------------------------------
(* deliver() *)

\* ensureLogicalNotification(): what is told or suppressed is done.
Take(w) ==
    /\ pc[w] = "idle"
    /\ queued
    /\ queued' = FALSE
    /\ Goto(w, IF state \in {"delivered", "suppressed"} THEN "idle" ELSE "fan-out")
    /\ UNCHANGED <<enabled, records, todo, device, number, bounds>>

\* initializeTargets(): the first job freezes the enabled devices.
InitializeTargets(w) ==
    /\ pc[w] = "fan-out"
    /\ Goto(w, "list")
    /\ IF initialized
         THEN UNCHANGED <<initialized, counts, target>>
         ELSE /\ initialized' = TRUE
              /\ target' = [d \in Devices |-> IF enabled[d] THEN "pending" ELSE "none"]
              /\ counts' = [counts EXCEPT !.pending = CountsOf(target').pending]
    /\ UNCHANGED <<enabled, state, attempts, lapsed, queued, todo, device, number, bounds>>

ListEnabled(w) ==
    /\ pc[w] = "list"
    /\ todo' = [todo EXCEPT ![w] = {d \in Devices : enabled[d]}]
    /\ Goto(w, "claim")
    /\ UNCHANGED <<enabled, records, queued, device, number, bounds>>

Claimable(d) ==
    /\ target[d] = "pending"
    /\ enabled[d]
    /\ Len(attempts[d]) < MaxAttempts
    /\ \A k \in DOMAIN attempts[d] : Expired(d)[k] = "retryable"

\* claimDelivery(): expire an old claim, then insert the next attempt.
ClaimDelivery(w, d) ==
    /\ pc[w] = "claim" /\ d \in todo[w]
    /\ todo' = [todo EXCEPT ![w] = @ \ {d}]
    /\ lapsed' = [lapsed EXCEPT ![d] = IF Live(d) THEN @ ELSE FALSE]
    /\ IF Claimable(d)
         THEN /\ attempts' = [attempts EXCEPT ![d] = Append(Expired(d), "pending")]
              /\ device' = [device EXCEPT ![w] = d]
              /\ number' = [number EXCEPT ![w] = Len(attempts[d]) + 1]
              /\ state' = "delivering"
              /\ Goto(w, "send")
         ELSE /\ attempts' = [attempts EXCEPT ![d] = Expired(d)]
              /\ UNCHANGED <<device, number, state, pc>>
    /\ UNCHANGED <<enabled, initialized, counts, target, queued, bounds>>

\* What the push service answers: it accepts, knows no such device (404, 410),
\* refuses for good, or leaves doubt (a timeout, 408, 429, 5xx).
Answers == {"accepted", "gone", "refused", "doubt"}

Outcome(w, answer) ==
    CASE answer = "accepted" -> "succeeded"
      [] answer = "doubt" /\ number[w] < MaxAttempts -> "retryable"
      [] OTHER -> "permanent_failure"

\* sendAttempt() and finishDelivery(): only the holder of a claim that has not expired.
FinishUnfenced(w, answer) ==    \* a fault: neither the claim nor its end is checked
    LET d == device[w] IN
    /\ pc[w] = "send"
    /\ attempts' = [attempts EXCEPT ![d][number[w]] = Outcome(w, answer)]
    /\ target' = [target EXCEPT ![d] =
                    IF @ # "pending" THEN @
                    ELSE CASE Outcome(w, answer) = "succeeded" -> "delivered"
                           [] Outcome(w, answer) = "permanent_failure" -> "failed"
                           [] OTHER -> "pending"]
    /\ Proceed(w, IF answer = "gone" THEN "disable" ELSE "claim")
    /\ UNCHANGED <<enabled, initialized, state, counts, lapsed, queued, todo, bounds>>
FinishDelivery(w, answer) ==
    LET d == device[w] IN
    /\ pc[w] = "send"
    /\ IF attempts[d][number[w]] = "pending" /\ ~lapsed[d]
         THEN /\ attempts' = [attempts EXCEPT ![d][number[w]] = Outcome(w, answer)]
              /\ target' = [target EXCEPT ![d] =
                              IF @ # "pending" THEN @
                              ELSE CASE Outcome(w, answer) = "succeeded" -> "delivered"
                                     [] Outcome(w, answer) = "permanent_failure" -> "failed"
                                     [] OTHER -> "pending"]
              /\ Proceed(w, IF answer = "gone" THEN "disable" ELSE "claim")
         ELSE /\ Proceed(w, "claim")
              /\ UNCHANGED <<attempts, target>>
    /\ UNCHANGED <<enabled, initialized, state, counts, lapsed, queued, todo, bounds>>

DisableSubscription(w) ==
    /\ pc[w] = "disable"
    /\ enabled' = [enabled EXCEPT ![device[w]] = FALSE]
    /\ Proceed(w, "claim")
    /\ UNCHANGED <<records, queued, todo, bounds>>

\* finalizeNotification(): expire, suppress, fail, count and name the state.
SuppressedTarget(d) ==
    IF target[d] \in {"pending", "failed"} /\ ~enabled[d] THEN "suppressed" ELSE target[d]

ExhaustedTarget(d) ==
    LET failed == /\ SuppressedTarget(d) = "pending"
                  /\ ~Live(d)
                  /\ \/ Len(attempts[d]) >= MaxAttempts
                     \/ \E k \in DOMAIN attempts[d] :
                           attempts[d][k] = "permanent_failure"
    IN  IF failed THEN "failed" ELSE SuppressedTarget(d)

AggregateDeliveredFirst(c) ==   \* a fault: one delivery counts for all
    IF \E d \in Devices : Live(d) THEN "delivering"
    ELSE IF c.delivered > 0 THEN "delivered"
    ELSE IF c.pending > 0 THEN "pending"
    ELSE IF c.failed > 0 THEN "failed"
    ELSE "suppressed"
Aggregate(c) ==
    IF \E d \in Devices : Live(d) THEN "delivering"
    ELSE IF c.pending > 0 THEN "pending"
    ELSE IF c.failed > 0 THEN "failed"
    ELSE IF c.delivered > 0 THEN "delivered"
    ELSE "suppressed"

Finalize(w) ==
    /\ pc[w] = "claim" /\ todo[w] = {}
    /\ attempts' = [d \in Devices |-> Expired(d)]
    /\ lapsed' = [d \in Devices |-> FALSE]
    /\ target' = [d \in Devices |-> ExhaustedTarget(d)]
    /\ counts' = CountsOf(target')
    /\ state' = Aggregate(counts')
    /\ Leave(w)
    /\ UNCHANGED <<enabled, initialized, queued, bounds>>

-----------------------------------------------------------------------------
(* Recovery, the clock, the owner and failures. *)

\* pendingNotificationIds(): whatever still has something to be done.
UnfinishedWhilePending ==       \* a fault: `delivering' is left to its worker
    /\ state \in {"pending", "failed"}
    /\ \/ ~initialized
       \/ \E d \in Devices : Claimed(d) /\ lapsed[d]
       \/ \E d \in Devices : target[d] = "pending" /\ ~Live(d)
       \/ \E d \in Devices : target[d] \in {"pending", "failed"} /\ ~enabled[d]
Unfinished ==
    /\ state \in {"pending", "failed", "delivering"}
    /\ \/ ~initialized
       \/ \E d \in Devices : Claimed(d) /\ lapsed[d]
       \/ \E d \in Devices : target[d] = "pending" /\ ~Live(d)
       \/ \E d \in Devices : target[d] \in {"pending", "failed"} /\ ~enabled[d]
       \/ state \in {"pending", "delivering"} /\ \A d \in Devices : ~Live(d)

Recover ==
    /\ Unfinished
    /\ ~queued
    /\ queued' = TRUE
    /\ UNCHANGED <<enabled, records, locals, bounds>>

LeaseExpires(d) ==
    /\ Live(d)
    /\ lapsed' = [lapsed EXCEPT ![d] = TRUE]
    /\ UNCHANGED <<enabled, initialized, state, counts, target, attempts, queued,
                   locals, bounds>>

\* upsertSubscription(), unsubscribe(), or the subscription's own end.
ChangeSubscription(d) ==
    /\ changes < MaxChanges
    /\ changes' = changes + 1
    /\ enabled' = [enabled EXCEPT ![d] = ~@]
    /\ UNCHANGED <<records, queued, locals, crashes>>

Crash(w) ==
    /\ pc[w] # "idle"
    /\ crashes < MaxCrashes
    /\ crashes' = crashes + 1
    /\ Leave(w)
    /\ UNCHANGED <<enabled, records, queued, changes>>

-----------------------------------------------------------------------------
Deliver(w) ==
    \/ Take(w) \/ InitializeTargets(w) \/ ListEnabled(w)
    \/ \E d \in Devices : ClaimDelivery(w, d)
    \/ \E answer \in Answers : FinishDelivery(w, answer)
    \/ DisableSubscription(w)
    \/ Finalize(w)

Next ==
    \/ \E w \in Workers : Deliver(w) \/ Crash(w)
    \/ \E d \in Devices : LeaseExpires(d) \/ ChangeSubscription(d)
    \/ Recover

Spec == Init /\ [][Next]_vars

\* Jobs run, recovery sweeps every five seconds, and a claim has an end.
Fairness ==
    /\ \A w \in Workers : WF_vars(Deliver(w))
    /\ \A d \in Devices : WF_vars(LeaseExpires(d))
    /\ WF_vars(Recover)

FairSpec == Spec /\ Fairness

-----------------------------------------------------------------------------
(* Properties. *)

Outcomes == {"pending", "retryable", "succeeded", "permanent_failure"}

\* No attempt but the last of a device is open, and none follows another but a
\* retryable one.
AttemptsTyped ==
    /\ attempts \in [Devices -> Seq(Outcomes)]
    /\ \A d \in Devices :
          /\ Len(attempts[d]) <= MaxAttempts
          /\ \A k \in 1..Len(attempts[d]) - 1 : attempts[d][k] = "retryable"
RecordsTyped ==
    /\ enabled \in [Devices -> BOOLEAN]
    /\ initialized \in BOOLEAN /\ queued \in BOOLEAN
    /\ state \in {"pending", "delivering"} \cup Settled
    /\ counts \in [delivered : 0..Cardinality(Devices), failed : 0..Cardinality(Devices),
                   pending : 0..Cardinality(Devices)]
    /\ target \in [Devices -> {"none", "pending", "delivered", "failed", "suppressed"}]
    /\ lapsed \in [Devices -> BOOLEAN]
LocalsTyped ==
    /\ pc \in [Workers -> {"idle", "fan-out", "list", "claim", "send", "disable"}]
    /\ todo \in [Workers -> SUBSET Devices]
    /\ device \in [Workers -> Devices \cup {NoDevice}]
    /\ number \in [Workers -> 0..MaxAttempts]
BoundsTyped == changes \in 0..MaxChanges /\ crashes \in 0..MaxCrashes

TypeOK == AttemptsTyped /\ RecordsTyped /\ LocalsTyped /\ BoundsTyped

\* A notification is called delivered, failed or suppressed only when that is
\* what became of all its devices, and its counts say so.
StateTellsTargets ==
    LET became == {target[d] : d \in {e \in Devices : target[e] # "none"}} IN
    state \in Settled =>
        /\ counts = CountsOf(target)
        /\ state = "delivered" =>
              "delivered" \in became /\ became \subseteq {"delivered", "suppressed"}
        /\ state = "failed" => "failed" \in became /\ "pending" \notin became
        /\ state = "suppressed" => became \subseteq {"suppressed"}

\* A notification is called delivered, failed or suppressed only when that is
\* what became of all its devices, and its counts say so; and no attempt but the
\* last of a device is open.
NotificationsAreSound == TypeOK /\ StateTellsTargets

\* The outcome of an attempt is history: a worker whose claim has expired does
\* not finish the attempt that replaced it, nor rewrite its own.
AttemptsAreHistory ==
    [][\A d \in Devices : \A k \in DOMAIN attempts[d] :
          /\ k \in DOMAIN attempts'[d]
          /\ attempts[d][k] # "pending" => attempts'[d][k] = attempts[d][k]]_attempts

\* A device that was told is not told again: no attempt follows a delivery.
DeliveredIsNotRetried ==
    [][\A d \in Devices : target[d] \in {"delivered", "suppressed"} =>
          Len(attempts'[d]) = Len(attempts[d])]_attempts

\* What was attempted stays on record, and a device that was told is left alone,
\* whichever claims expire meanwhile.
HistoryStands == AttemptsAreHistory /\ DeliveredIsNotRetried

\* A notification comes to rest, whatever its jobs and its devices do: every
\* pending one is delivered, given up or suppressed, and stays so.
NotificationSettles == <>[](state \in Settled)
============================================================================

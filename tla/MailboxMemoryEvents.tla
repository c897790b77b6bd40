------------------------ MODULE MailboxMemoryEvents ------------------------
(***************************************************************************)
(* The memory of one mailbox: durable events (PostgresMailboxMemory-       *)
(* EventStore), the workers that deliver them to the mailbox's Hindsight   *)
(* bank under claims that expire (MailboxMemoryEventDeliveryWorker), and   *)
(* the operator's permanent deletion of the bank.                          *)
(*                                                                         *)
(* A worker's claim is the pair (event, generation); the token changes     *)
(* with the generation.  A retention whose claim is lost is rejected but   *)
(* not stopped: it goes on in its process as a stray.  The documents of an *)
(* event are its own and, for an email, the attachments whose type and     *)
(* size are kept; an email that the recovery flow sent has none.  Order of *)
(* claiming, delays and payloads are left out, as is the other producer,   *)
(* triage, which retains the same documents.                               *)
(***************************************************************************)
EXTENDS Integers, FiniteSets

CONSTANTS
    Events,       \* source identities: a message, a question, an action, ...
    Emails,       \* those of kind email_received
    Parts,        \* Parts[e]: how many documents the event has
    Workers,      \* worker processes
    MaxTroubles,  \* bound: failures, stalls and crashes, taken together
    MaxRequests,  \* bound: deletion commands the operator issues
    MaxReconnects \* bound: times the owner connects the mailbox again

ASSUME MemoryAssumption ==
    /\ Emails \subseteq Events
    /\ Parts \in [Events -> Nat]
    /\ MaxTroubles \in Nat /\ MaxRequests \in Nat /\ MaxReconnects \in Nat

VARIABLES
    account,  \* accounts.state
    state,    \* mailbox_memory_events.state
    gen,      \* its claim_generation
    due,      \* available_at has passed
    live,     \* claim_expires_at is still ahead
    op,       \* Hindsight: the retain operation of a document
    bank,     \* Hindsight: the documents of the mailbox's bank
    retained, \* history: documents whose retention was ever completed
    pc, event, fence, part, \* a worker's locals
    stray,    \* retentions whose claim is lost, by worker and event
    kept,     \* finished email retentions that a process remembers
    del,      \* the deletion command: how far it is
    audited,  \* an audit mailbox_memory.deleted exists
    answer,   \* what the last command answered
    troubles, requests, reconnects

store == <<account, state, gen, due, live>>
hindsight == <<op, bank, retained>>
locals == <<pc, event, fence, part, stray, kept>>
operator == <<del, audited, answer>>
bounds == <<troubles, requests, reconnects>>
vars == <<store, hindsight, locals, operator, bounds>>

NoEvent == "no event"
DocumentsOf(e) == {e} \X (1..Parts[e])
Documents == UNION {DocumentsOf(e) : e \in Events}

Init ==
    /\ account = "ready"
    /\ state = [e \in Events |-> "none"]
    /\ gen = [e \in Events |-> 0]
    /\ due = [e \in Events |-> FALSE]
    /\ live = [e \in Events |-> FALSE]
    /\ op = [d \in Documents |-> "none"]
    /\ bank = {}
    /\ retained = {}
    /\ pc = [w \in Workers |-> "idle"]
    /\ event = [w \in Workers |-> NoEvent]
    /\ fence = [w \in Workers |-> 0]
    /\ part = [w \in Workers |-> 0]
    /\ stray = [w \in Workers |-> [e \in Events |-> "none"]]
    /\ kept = [w \in Workers |-> {}]
    /\ del = "idle"
    /\ audited = FALSE
    /\ answer = "none"
    /\ troubles = 0
    /\ requests = 0
    /\ reconnects = 0

-----------------------------------------------------------------------------
(* Helpers. *)

Trouble == troubles < MaxTroubles /\ troubles' = troubles + 1

\* The row is claimed under the worker's fence; renewal also asks that the
\* claim has not expired.
Current(w) == state[event[w]] = "processing" /\ gen[event[w]] = fence[w]
Renewable(w) == Current(w) /\ live[event[w]]

Goto(w, l) == pc' = [pc EXCEPT ![w] = l]

\* A retention's promise is rejected while the operation behind it goes on.
Abandon(w) == stray' = [stray EXCEPT ![w][event[w]] = pc[w]]

Leave(w) ==
    /\ Goto(w, "idle")
    /\ event' = [event EXCEPT ![w] = NoEvent]
    /\ fence' = [fence EXCEPT ![w] = 0]
    /\ part' = [part EXCEPT ![w] = 0]

\* The retain request reaches Hindsight, which starts the document's operation.
Accept(d) == op' = [op EXCEPT ![d] = "pending"]

-----------------------------------------------------------------------------
(* The event store. *)

\* A canonical transaction records its event; replays change nothing, and the
\* state of the mailbox is not asked for.
Enqueue(e) ==
    /\ state[e] = "none"
    /\ state' = [state EXCEPT ![e] = "pending"]
    /\ due' = [due EXCEPT ![e] = TRUE]
    /\ UNCHANGED <<account, gen, live, hindsight, locals, operator, bounds>>

\* A scheduler's tick begins by making every expired claim pending again.
TickNoRecovery(w) ==             \* a fault: expired claims stay
    /\ pc[w] = "idle"
    /\ Goto(w, "tick")
    /\ UNCHANGED <<store, hindsight, event, fence, part, stray, kept, operator, bounds>>
Tick(w) ==
    /\ pc[w] = "idle"
    /\ Goto(w, "tick")
    /\ LET lapsed == {e \in Events : state[e] = "processing" /\ ~live[e]} IN
         /\ state' = [e \in Events |-> IF e \in lapsed THEN "pending" ELSE state[e]]
         /\ due' = [e \in Events |-> IF e \in lapsed THEN FALSE ELSE due[e]]
    /\ UNCHANGED <<account, gen, live, hindsight, event, fence, part, stray, kept,
                   operator, bounds>>

Claimable(e) == state[e] = "pending" /\ due[e] /\ account = "ready"

ClaimSameGeneration(w, e) ==     \* a fault: the generation is not advanced
    /\ pc[w] = "tick"
    /\ Claimable(e)
    /\ state' = [state EXCEPT ![e] = "processing"]
    /\ live' = [live EXCEPT ![e] = TRUE]
    /\ Goto(w, "check")
    /\ event' = [event EXCEPT ![w] = e]
    /\ fence' = [fence EXCEPT ![w] = gen[e]]
    /\ UNCHANGED <<account, gen, due, hindsight, part, stray, kept, operator, bounds>>
Claim(w, e) ==
    /\ pc[w] = "tick"
    /\ Claimable(e)
    /\ state' = [state EXCEPT ![e] = "processing"]
    /\ gen' = [gen EXCEPT ![e] = @ + 1]
    /\ live' = [live EXCEPT ![e] = TRUE]
    /\ Goto(w, "check")
    /\ event' = [event EXCEPT ![w] = e]
    /\ fence' = [fence EXCEPT ![w] = gen[e] + 1]
    /\ UNCHANGED <<account, due, hindsight, part, stray, kept, operator, bounds>>

ClaimNothing(w) ==
    /\ pc[w] = "tick"
    /\ \A e \in Events : ~Claimable(e)
    /\ Goto(w, "idle")
    /\ UNCHANGED <<store, hindsight, event, fence, part, stray, kept, operator, bounds>>

Complete(w) ==
    /\ pc[w] = "complete"
    /\ state' = IF Current(w) THEN [state EXCEPT ![event[w]] = "completed"] ELSE state
    /\ Leave(w)
    /\ UNCHANGED <<account, gen, due, live, hindsight, stray, kept, operator, bounds>>

DeferUnfenced(w) ==              \* a fault: any row of that id is put back
    /\ pc[w] = "defer"
    /\ state' = [state EXCEPT ![event[w]] = "pending"]
    /\ due' = [due EXCEPT ![event[w]] = FALSE]
    /\ Leave(w)
    /\ UNCHANGED <<account, gen, live, hindsight, stray, kept, operator, bounds>>
Defer(w) ==
    /\ pc[w] = "defer"
    /\ IF Current(w)
       THEN /\ state' = [state EXCEPT ![event[w]] = "pending"]
            /\ due' = [due EXCEPT ![event[w]] = FALSE]
       ELSE UNCHANGED <<state, due>>
    /\ Leave(w)
    /\ UNCHANGED <<account, gen, live, hindsight, stray, kept, operator, bounds>>

-----------------------------------------------------------------------------
(* The delivery of a claimed event. *)

\* What the delivery does once the mailbox is ready and the source is read: it
\* takes part in a retention of the same email that this process has begun.
AfterCheck(w) ==
    LET e == event[w] IN
    IF Parts[e] = 0 \/ e \in kept[w] THEN "complete"
    ELSE IF e \in Emails /\ stray[w][e] # "none" THEN "join"
    ELSE "retain"

Check(w) ==
    /\ pc[w] = "check"
    /\ Goto(w, IF Renewable(w) /\ account = "ready" THEN AfterCheck(w) ELSE "defer")
    /\ UNCHANGED <<store, hindsight, event, fence, part, stray, kept, operator, bounds>>

\* The shared retention ends with the failure of its own, older, claim.
Join(w) ==
    /\ pc[w] = "join"
    /\ stray[w][event[w]] = "none" \/ ~Renewable(w)
    /\ Goto(w, "defer")
    /\ UNCHANGED <<store, hindsight, event, fence, part, stray, kept, operator, bounds>>

Submit(w) ==
    /\ pc[w] = "retain"
    /\ Renewable(w)
    /\ Accept(<<event[w], part[w] + 1>>)
    /\ Goto(w, "wait")
    /\ UNCHANGED <<store, bank, retained, event, fence, part, stray, kept,
                   operator, bounds>>

\* The operation is polled until it is completed; the claim is renewed, and the
\* next document follows.
AwaitAccepted(w) ==              \* a fault: an accepted operation counts as done
    /\ pc[w] = "wait"
    /\ op[<<event[w], part[w] + 1>>] \in {"pending", "completed"}
    /\ Renewable(w)
    /\ part' = [part EXCEPT ![w] = @ + 1]
    /\ Goto(w, IF part[w] + 1 = Parts[event[w]] THEN "complete" ELSE "retain")
    /\ UNCHANGED <<store, hindsight, event, fence, stray, kept, operator, bounds>>
Await(w) ==
    /\ pc[w] = "wait"
    /\ op[<<event[w], part[w] + 1>>] = "completed"
    /\ IF Renewable(w)
       THEN /\ part' = [part EXCEPT ![w] = @ + 1]
            /\ LET last == part[w] + 1 = Parts[event[w]] IN
                 /\ Goto(w, IF last THEN "complete" ELSE "retain")
                 /\ kept' = IF last /\ event[w] \in Emails
                            THEN [kept EXCEPT ![w] = @ \union {event[w]}] ELSE kept
       ELSE Goto(w, "defer") /\ UNCHANGED <<part, kept>>
    /\ UNCHANGED <<store, hindsight, event, fence, stray, operator, bounds>>

OperationFailed(w) ==
    /\ pc[w] = "wait"
    /\ op[<<event[w], part[w] + 1>>] = "failed"
    /\ Goto(w, "defer")
    /\ UNCHANGED <<store, hindsight, event, fence, part, stray, kept, operator, bounds>>

\* The heartbeat finds that the claim is no longer the worker's.
HeartbeatLost(w) ==
    /\ pc[w] \in {"retain", "wait"}
    /\ ~Renewable(w)
    /\ Abandon(w)
    /\ Goto(w, "defer")
    /\ UNCHANGED <<store, hindsight, event, fence, part, kept, operator, bounds>>

\* The provider or Hindsight fails or times out; what it accepted stays accepted.
CallFails(w) ==
    /\ Trouble
    /\ pc[w] \in {"check", "retain", "wait"}
    /\ Goto(w, "defer")
    /\ UNCHANGED <<store, hindsight, event, fence, part, stray, kept, operator,
                   requests, reconnects>>

\* The database cannot be reached when the outcome is to be recorded.
StoreFails(w) ==
    /\ Trouble
    /\ pc[w] \in {"complete", "defer"}
    /\ Leave(w)
    /\ UNCHANGED <<store, hindsight, stray, kept, operator, requests, reconnects>>

\* A stray that was about to submit does so; then, or at once, its own heartbeat
\* fails and it ends.
StraySubmits(w, e) ==
    /\ stray[w][e] = "retain"
    /\ \E i \in 1..Parts[e] : Accept(<<e, i>>)
    /\ stray' = [stray EXCEPT ![w][e] = "wait"]
    /\ UNCHANGED <<store, bank, retained, pc, event, fence, part, kept, operator, bounds>>

StrayEnds(w, e) ==
    /\ stray[w][e] # "none"
    /\ stray' = [stray EXCEPT ![w][e] = "none"]
    /\ UNCHANGED <<store, hindsight, pc, event, fence, part, kept, operator, bounds>>

-----------------------------------------------------------------------------
(* Processes, time and Hindsight. *)

\* What a process remembers is gone with it.
Halt(down) ==
    /\ pc' = [w \in Workers |-> IF w \in down THEN "down" ELSE pc[w]]
    /\ event' = [w \in Workers |-> IF w \in down THEN NoEvent ELSE event[w]]
    /\ fence' = [w \in Workers |-> IF w \in down THEN 0 ELSE fence[w]]
    /\ part' = [w \in Workers |-> IF w \in down THEN 0 ELSE part[w]]
    /\ stray' = [w \in Workers |-> IF w \in down THEN [e \in Events |-> "none"] ELSE stray[w]]
    /\ kept' = [w \in Workers |-> IF w \in down THEN {} ELSE kept[w]]

Crash(w) ==
    /\ Trouble
    /\ pc[w] # "down"
    /\ Halt({w})
    /\ UNCHANGED <<store, hindsight, operator, requests, reconnects>>

\* No worker runs while a deletion command does.
Start(w) ==
    /\ pc[w] = "down"
    /\ del = "idle"
    /\ Goto(w, "idle")
    /\ UNCHANGED <<store, hindsight, event, fence, part, stray, kept, operator, bounds>>

BecomesDue(e) ==
    /\ state[e] = "pending" /\ ~due[e]
    /\ due' = [due EXCEPT ![e] = TRUE]
    /\ UNCHANGED <<account, state, gen, live, hindsight, locals, operator, bounds>>

\* Nobody renews the claim of a worker that is gone; a living one may stall.
Held(e) == \E w \in Workers : event[w] = e /\ Current(w)
Lapse(e) ==
    /\ state[e] = "processing" /\ live[e]
    /\ live' = [live EXCEPT ![e] = FALSE]
    /\ UNCHANGED <<account, state, gen, due, hindsight, locals, operator,
                   requests, reconnects>>
Expire(e) == ~Held(e) /\ Lapse(e) /\ UNCHANGED troubles
Stall(e) == Held(e) /\ Lapse(e) /\ Trouble

OperationEnds(d) ==
    /\ op[d] = "pending"
    /\ op' = [op EXCEPT ![d] = "completed"]
    /\ bank' = bank \union {d}
    /\ retained' = retained \union {d}
    /\ UNCHANGED <<store, locals, operator, bounds>>

OperationAborts(d) ==
    /\ Trouble
    /\ op[d] = "pending"
    /\ op' = [op EXCEPT ![d] = "failed"]
    /\ UNCHANGED <<store, bank, retained, locals, operator, requests, reconnects>>

-----------------------------------------------------------------------------
(* Permanent deletion, and connecting the mailbox again. *)

\* The operator stops every worker and runs the command.
StopWorkers ==
    /\ del = "idle" /\ requests < MaxRequests
    /\ del' = "requested"
    /\ answer' = "none"
    /\ requests' = requests + 1
    /\ Halt(Workers)
    /\ UNCHANGED <<store, hindsight, audited, troubles, reconnects>>

AlreadyDeleted ==
    /\ del = "requested" /\ audited
    /\ del' = "idle"
    /\ answer' = "already deleted"
    /\ UNCHANGED <<store, hindsight, locals, audited, bounds>>

Prepare ==
    /\ del = "requested" /\ ~audited
    /\ del' = "prepared"
    /\ account' = "disabled"
    /\ state' = [e \in Events |-> IF state[e] \in {"pending", "processing"}
                                  THEN "cancelled" ELSE state[e]]
    /\ UNCHANGED <<gen, due, live, hindsight, locals, audited, answer, bounds>>

\* Hindsight drops the bank with its documents and its operations.
DeleteBank ==
    /\ del = "prepared"
    /\ del' = "erased"
    /\ bank' = {}
    /\ op' = [d \in Documents |-> "none"]
    /\ UNCHANGED <<store, retained, locals, audited, answer, bounds>>

Audit ==
    /\ del = "erased"
    /\ del' = "idle"
    /\ audited' = TRUE
    /\ answer' = "deleted"
    /\ UNCHANGED <<store, hindsight, locals, bounds>>

CommandFails ==
    /\ Trouble
    /\ del # "idle"
    /\ del' = "idle"
    /\ UNCHANGED <<store, hindsight, locals, audited, answer, requests, reconnects>>

\* projectReadyAccount.
Reconnect ==
    /\ account = "disabled" /\ reconnects < MaxReconnects
    /\ account' = "ready"
    /\ reconnects' = reconnects + 1
    /\ UNCHANGED <<state, gen, due, live, hindsight, locals, operator, troubles, requests>>

-----------------------------------------------------------------------------
Work(w) ==
    \/ Tick(w) \/ (\E e \in Events : Claim(w, e)) \/ ClaimNothing(w)
    \/ Check(w) \/ Join(w) \/ Submit(w) \/ Await(w) \/ OperationFailed(w)
    \/ HeartbeatLost(w) \/ Complete(w) \/ Defer(w) \/ Start(w)
Strays(w) == \E e \in Events : StraySubmits(w, e) \/ StrayEnds(w, e)
Time(e) == Enqueue(e) \/ BecomesDue(e) \/ Expire(e) \/ Stall(e)
Deletion == AlreadyDeleted \/ Prepare \/ DeleteBank \/ Audit

Next ==
    \/ \E w \in Workers : Work(w) \/ Strays(w) \/ CallFails(w) \/ StoreFails(w) \/ Crash(w)
    \/ \E e \in Events : Time(e)
    \/ \E d \in Documents : OperationEnds(d) \/ OperationAborts(d)
    \/ StopWorkers \/ Deletion \/ CommandFails \/ Reconnect

Spec == Init /\ [][Next]_vars

\* Workers, strays, clocks and Hindsight go on; troubles are never due.
FairSpec ==
    /\ Spec
    /\ \A w \in Workers : WF_vars(Work(w)) /\ WF_vars(\E e \in Events : StrayEnds(w, e))
    /\ \A e \in Events : WF_vars(BecomesDue(e)) /\ WF_vars(Expire(e))
    /\ \A d \in Documents : WF_vars(OperationEnds(d))
    /\ WF_vars(Deletion)

-----------------------------------------------------------------------------
(* Properties. *)

Labels == {"down", "idle", "tick", "check", "join", "retain", "wait", "complete", "defer"}

StoreTyped ==
    /\ account \in {"ready", "disabled"}
    /\ state \in [Events -> {"none", "pending", "processing", "completed", "cancelled"}]
    /\ gen \in [Events -> Nat]
    /\ due \in [Events -> BOOLEAN]
    /\ live \in [Events -> BOOLEAN]
HindsightTyped ==
    /\ op \in [Documents -> {"none", "pending", "completed", "failed"}]
    /\ bank \subseteq Documents
    /\ retained \subseteq Documents
LocalsTyped ==
    /\ pc \in [Workers -> Labels]
    /\ event \in [Workers -> Events \union {NoEvent}]
    /\ fence \in [Workers -> Nat]
    /\ part \in [Workers -> Nat]
    /\ stray \in [Workers -> [Events -> {"none", "retain", "wait"}]]
    /\ kept \in [Workers -> SUBSET Emails]
    /\ \A w \in Workers :
         IF pc[w] \in {"down", "idle", "tick"} THEN event[w] = NoEvent /\ part[w] = 0
         ELSE event[w] \in Events /\ part[w] <= Parts[event[w]]
OperatorTyped ==
    /\ del \in {"idle", "requested", "prepared", "erased"}
    /\ audited \in BOOLEAN
    /\ answer \in {"none", "deleted", "already deleted"}
BoundsTyped ==
    /\ troubles \in 0..MaxTroubles
    /\ requests \in 0..MaxRequests
    /\ reconnects \in 0..MaxReconnects

\* The types of the variables; a worker between claims holds nothing of the last
\* one, and no delivery goes past the last document.
TypeOK == StoreTyped /\ HindsightTyped /\ LocalsTyped /\ OperatorTyped /\ BoundsTyped

\* An event is recorded as completed only after Hindsight has completed the
\* retention of every document it has: the payload, which completion erases, is
\* no longer needed by then, whoever claimed the event before and however often
\* its retention was begun (deliver and complete).
CompletedWasRetained ==
    \A e \in Events : state[e] = "completed" => DocumentsOf(e) \subseteq retained

\* Two workers that both delivered the same event are never both able to settle
\* it: the generation fences off all but the last claim (claim, complete, defer).
OneWorkerSettles ==
    \A v, w \in Workers :
        v # w /\ event[v] = event[w] /\ event[v] # NoEvent => ~(Current(v) /\ Current(w))

\* Once the deletion is audited and until the owner connects the mailbox again,
\* its bank is empty and nothing is on the way to it (permanentlyDeleteMailboxMemory
\* and its condition that the worker is stopped).
DisabledStaysEmpty ==
    audited /\ account = "disabled" => bank = {} /\ \A d \in Documents : op[d] # "pending"

\* The records and the bank agree: what counts as completed was retained, and
\* what counts as deleted is gone while the mailbox stays disabled; and every
\* variable keeps its type.
BankTellsTruth == TypeOK /\ CompletedWasRetained /\ DisabledStaysEmpty

\* No retention is submitted for a mailbox that is disabled, neither between the
\* steps of a deletion, nor after one that failed half-way (claim, isMailboxReady).
DisabledSubmitsNothing ==
    [][account = "disabled" =>
         \A d \in Documents : op'[d] = "pending" => op[d] = "pending"]_vars

\* What is completed or cancelled stays so, also against stale workers and the
\* recovery of expired claims.
SettledIsFinal ==
    [][\A e \in Events : state[e] \in {"completed", "cancelled"} => state'[e] = state[e]]_vars

\* Delivery retries for as long as it takes: if the mailbox is ready from some
\* time on, each of its pending events is completed, or was cancelled.
EventsAreDelivered ==
    <>[](account = "ready") =>
        \A e \in Events : state[e] = "pending" ~> state[e] \in {"completed", "cancelled"}

\* docs/retention.md:25 and docs/runbooks/hindsight.md:57: a deletion command that
\* answers has deleted the bank.
DeletedMeansGone == [][answer = "none" /\ answer' # "none" => bank' = {}]_vars
=============================================================================

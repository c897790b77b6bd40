--------------------------- MODULE Conversations ---------------------------
(***************************************************************************)
(* The owner's conversations with the assistant: ConversationStore         *)
(* (packages/db/src/conversation-store.ts), its queue consumer and its     *)
(* recovery (apps/worker/src/conversations.ts), and the owner-context gate *)
(* of apps/worker/src/mailbox-memory-inputs.ts.                            *)
(*                                                                         *)
(* Each scope, a mailbox or the global one, has one conversation of one    *)
(* owner.  A post is a transaction of two steps, because its creation time *)
(* and the mailboxes it is fanned out to are read before it commits.       *)
(* Delays of a turn (available_at) only postpone it and are left out; a    *)
(* stale version, a changed replay and a stale retry change nothing and    *)
(* are not steps.                                                          *)
(***************************************************************************)
EXTENDS Integers, FiniteSets

CONSTANTS
    Requests,     \* owner messages, by their request id
    Scopes,       \* which conversations the messages may belong to
    Mailboxes,    \* mailboxes of the owner
    Global,       \* the scope of the global conversation
    Consumers,    \* concurrent conversation.respond handlers
    NoOne,        \* not a consumer
    Budget,       \* failures of the model that fail a turn; 3 in the code
    Page,         \* messages a backfill takes at once
    MaxFaults     \* bound: crashes, slow leases, memory outages, retries, deletions

ASSUME SetsAssumption ==
    /\ IsFiniteSet(Requests) /\ Requests # {}
    /\ Scopes \subseteq [Requests -> Mailboxes \cup {Global}]
    /\ NoOne \notin Consumers

ASSUME LimitsAssumption == Budget \in Nat \ {0} /\ Page \in Nat \ {0} /\ MaxFaults \in Nat

VARIABLES
    scope,      \* the conversation of each request
    posting,    \* posts under way: creation time and the mailboxes chosen
    created,    \* creation time of the committed messages, 0 while there is none
    clock,      \* the database clock
    turn,       \* agent_conversation_turns, by request
    reply,      \* who published the assistant's reply
    event,      \* mailbox_memory_events of the owner's messages
    watermark,  \* agent_global_memory_backfills.last_message
    ready,      \* accounts.state is ready or degraded
    consumer,   \* one handler's claim and stage
    faults

history == <<scope, posting, created, clock, reply>>
memory == <<event, watermark, ready>>
vars == <<history, memory, turn, consumer, faults>>

Times == 0..Cardinality(Requests)
NotPosting == [at |-> 0, to |-> {}]
NoTurn == [state |-> "none", failures |-> 0, holder |-> NoOne, expired |-> FALSE]
Turns == [state : {"none", "pending", "running", "completed", "failed"},
          failures : 0..Budget, holder : Consumers \cup {NoOne}, expired : BOOLEAN]
Events == {"none", "pending", "completed", "cancelled"}
Idle == [stage |-> "idle", turn |-> CHOOSE r \in Requests : TRUE, cutoff |-> 0]
Committed == {r \in Requests : created[r] # 0}

Init ==
    /\ scope \in Scopes
    /\ posting = [r \in Requests |-> NotPosting]
    /\ created = [r \in Requests |-> 0]
    /\ clock = 0
    /\ turn = [r \in Requests |-> NoTurn]
    /\ reply = [r \in Requests |-> NoOne]
    /\ event = [m \in Mailboxes |-> [r \in Requests |-> "none"]]
    /\ watermark = [m \in Mailboxes |-> 0]
    /\ ready = [m \in Mailboxes |-> FALSE]
    /\ consumer = [c \in Consumers |-> Idle]
    /\ faults = 0

-----------------------------------------------------------------------------
(* Posting *)

\* append() takes the conversation's row; now() and the mailboxes are read here.
PostBegin(r) ==
    /\ posting[r] = NotPosting /\ created[r] = 0
    /\ clock' = clock + 1
    /\ posting' = [posting EXCEPT ![r] =
           [at |-> clock + 1,
            to |-> {m \in Mailboxes : IF scope[r] = Global THEN ready[m] ELSE m = scope[r]}]]
    /\ UNCHANGED <<scope, created, reply, memory, turn, consumer, faults>>

\* enqueueOwnerMessage(): one event for a message and mailbox, whoever adds it.
Enqueued(events, m, rs) ==
    [events EXCEPT ![m] = [r \in Requests |->
        IF r \in rs /\ events[m][r] = "none" THEN "pending" ELSE events[m][r]]]

PostCommit(r) ==
    /\ posting[r] # NotPosting
    /\ created' = [created EXCEPT ![r] = posting[r].at]
    /\ turn' = [turn EXCEPT ![r].state = "pending"]
    /\ event' = [m \in Mailboxes |->
           IF m \in posting[r].to THEN Enqueued(event, m, {r})[m] ELSE event[m]]
    /\ posting' = [posting EXCEPT ![r] = NotPosting]
    /\ UNCHANGED <<scope, clock, reply, watermark, ready, consumer, faults>>

\* retry(): the owner asks a failed turn again.
Retry(r) ==
    /\ turn[r].state = "failed"
    /\ faults < MaxFaults
    /\ faults' = faults + 1
    /\ turn' = [turn EXCEPT ![r].state = "pending", ![r].failures = 0]
    /\ UNCHANGED <<history, memory, consumer>>

-----------------------------------------------------------------------------
(* Claims *)

\* Mutant of Ready: what ran out is not taken up again.
ReadyPending(r) == turn[r].state = "pending"

\* readyTurnIds() and the condition of claim().
Ready(r) == turn[r].state = "pending" \/ turn[r].expired

\* Recovery queues what is ready and a handler claims it; a delivery that
\* comes late or twice finds nothing to claim.
Claim(c, r) ==
    /\ consumer[c].stage = "idle"
    /\ Ready(r)
    /\ turn' = [turn EXCEPT ![r].state = "running", ![r].holder = c, ![r].expired = FALSE]
    /\ consumer' = [consumer EXCEPT ![c] = [stage |-> "memory", turn |-> r, cutoff |-> clock]]
    /\ UNCHANGED <<history, memory, faults>>

\* Mutant of Holds: running is taken for being held.
HoldsRunning(c) == turn[consumer[c].turn].state = "running"

\* The fence of renew(), complete() and fail(): token, attempt and expiry.
Holds(c) ==
    LET r == consumer[c].turn
    IN turn[r].state = "running" /\ turn[r].holder = c /\ ~turn[r].expired

Leave(c) == consumer' = [consumer EXCEPT ![c] = Idle]

\* A renewal or a fenced update finds the claim gone: the handler gives up.
LoseLease(c) ==
    /\ consumer[c].stage # "idle"
    /\ ~Holds(c)
    /\ Leave(c)
    /\ UNCHANGED <<history, memory, turn, faults>>

\* The process dies, or the database fails when the reply is stored.
Crash(c) ==
    /\ consumer[c].stage # "idle"
    /\ faults < MaxFaults
    /\ faults' = faults + 1
    /\ Leave(c)
    /\ UNCHANGED <<history, memory, turn>>

Abandoned(r) == consumer[turn[r].holder].stage = "idle" \/ consumer[turn[r].holder].turn # r

\* 120 seconds pass without a renewal, because the holder died ...
Expire(r) ==
    /\ turn[r].state = "running" /\ ~turn[r].expired
    /\ Abandoned(r)
    /\ turn' = [turn EXCEPT ![r].expired = TRUE]
    /\ UNCHANGED <<history, memory, consumer, faults>>

\* ... or because it is slow.
ExpireSlow(r) ==
    /\ turn[r].state = "running" /\ ~turn[r].expired
    /\ ~Abandoned(r)
    /\ faults < MaxFaults
    /\ faults' = faults + 1
    /\ turn' = [turn EXCEPT ![r].expired = TRUE]
    /\ UNCHANGED <<history, memory, consumer>>

-----------------------------------------------------------------------------
(* Answering *)

\* hasPendingOwnerContext(): what the owner said before is not yet in the memory.
PendingOwnerContext(m, cutoff) ==
    \E r \in Committed : /\ created[r] <= cutoff
                         /\ scope[r] \in {m, Global}
                         /\ event[m][r] # "completed"

\* fail(): only failures of the model are counted, and only so many of them are had.
FailTurn(c, kind) ==
    /\ turn' = [turn EXCEPT ![consumer[c].turn] =
           [state |-> IF kind = "memory" \/ (kind = "temporary" /\ @.failures < Budget - 1)
                      THEN "pending" ELSE "failed",
            failures |-> IF kind = "memory" THEN @.failures ELSE @.failures + 1,
            holder |-> NoOne, expired |-> FALSE]]
    /\ Leave(c)

\* prepare(): the gate of a mailbox conversation, then the observation of threads.
Prepare(c) ==
    LET m == scope[consumer[c].turn]
        blocked == m # Global /\ PendingOwnerContext(m, consumer[c].cutoff)
    IN /\ consumer[c].stage = "memory"
       /\ Holds(c)
       /\ \/ /\ ~blocked
             /\ consumer' = [consumer EXCEPT ![c].stage = "model"]
             /\ UNCHANGED <<turn, faults>>
          \/ /\ blocked
             /\ FailTurn(c, "memory")
             /\ UNCHANGED faults
          \/ /\ faults < MaxFaults
             /\ faults' = faults + 1
             /\ FailTurn(c, "memory")
       /\ UNCHANGED <<history, memory>>

\* The context mail cannot be read, the model fails or its answer is refused.
Fail(c) ==
    /\ consumer[c].stage = "model"
    /\ Holds(c)
    /\ \E kind \in {"temporary", "permanent"} : FailTurn(c, kind)
    /\ UNCHANGED <<history, memory, faults>>

\* The model answers.  complete(): the reply and the end of the turn in one transaction.
Complete(c) ==
    /\ consumer[c].stage = "model"
    /\ Holds(c)
    /\ reply' = [reply EXCEPT ![consumer[c].turn] = c]
    /\ turn' = [turn EXCEPT ![consumer[c].turn].state = "completed",
                            ![consumer[c].turn].holder = NoOne]
    /\ Leave(c)
    /\ UNCHANGED <<scope, posting, created, clock, memory, faults>>

-----------------------------------------------------------------------------
(* The memory of the mailboxes *)

Later(m) == {r \in Committed : scope[r] = Global /\ created[r] > watermark[m]}
Missing(m) == {r \in Committed : scope[r] = Global /\ event[m][r] = "none"}

\* Mutant of BackfillDue: only what lies beyond the watermark.
BackfillDueLater(m) == Later(m)

\* Late commits leave holes behind the watermark, which are repaired too.
BackfillDue(m) == Later(m) \cup Missing(m)

\* backfillGlobalMessages(): the oldest page of what a mailbox does not have.
Backfill(m) ==
    /\ ready[m]
    /\ BackfillDue(m) # {}
    /\ LET page == {r \in BackfillDue(m) :
                      Cardinality({s \in BackfillDue(m) : created[s] < created[r]}) < Page}
           last == CHOOSE t \in {created[r] : r \in page} : \A r \in page : created[r] <= t
       IN /\ event' = Enqueued(event, m, page)
          /\ watermark' = [watermark EXCEPT ![m] = IF last > @ THEN last ELSE @]
    /\ UNCHANGED <<history, ready, turn, consumer, faults>>

\* The delivery worker of MailboxMemoryEvents.
Deliver(m, r) ==
    /\ ready[m]
    /\ event[m][r] = "pending"
    /\ event' = [event EXCEPT ![m][r] = "completed"]
    /\ UNCHANGED <<history, watermark, ready, turn, consumer, faults>>

\* projectReadyAccount(): a new mailbox, or one that was disabled.
Connect(m) ==
    /\ ~ready[m]
    /\ ready' = [ready EXCEPT ![m] = TRUE]
    /\ UNCHANGED <<history, event, watermark, turn, consumer, faults>>

\* permanentlyDeleteMailboxMemory(), with the worker stopped, cancels what was not delivered.
DeleteMemory(m) ==
    /\ ready[m]
    /\ \A c \in Consumers : consumer[c].stage = "idle"
    /\ faults < MaxFaults
    /\ faults' = faults + 1
    /\ ready' = [ready EXCEPT ![m] = FALSE]
    /\ event' = [event EXCEPT ![m] = [r \in Requests |->
           IF event[m][r] = "pending" THEN "cancelled" ELSE event[m][r]]]
    /\ UNCHANGED <<history, watermark, turn, consumer>>

Respond(c) ==
    \/ LoseLease(c) \/ Prepare(c) \/ Fail(c) \/ Complete(c)

Next ==
    \/ \E r \in Requests :
          PostBegin(r) \/ PostCommit(r) \/ Retry(r) \/ Expire(r) \/ ExpireSlow(r)
    \/ \E c \in Consumers : Respond(c) \/ Crash(c) \/ \E r \in Requests : Claim(c, r)
    \/ \E m \in Mailboxes :
          \/ Backfill(m) \/ Connect(m) \/ DeleteMemory(m)
          \/ \E r \in Requests : Deliver(m, r)

Spec == Init /\ [][Next]_vars

(* The worker's recovery queues and backfills on a timer, whatever is ready  *)
(* reaches a handler and the memory worker delivers; a claim that nobody     *)
(* renews runs out.                                                          *)
Fairness ==
    /\ \A r \in Requests : WF_vars(PostCommit(r) \/ Expire(r) \/ \E c \in Consumers : Claim(c, r))
    /\ \A c \in Consumers : WF_vars(Respond(c))
    /\ \A m \in Mailboxes : WF_vars(Backfill(m) \/ \E r \in Requests : Deliver(m, r))

FairSpec == Spec /\ Fairness

-----------------------------------------------------------------------------
(* Properties *)

\* The types of the rows and of the handlers' claims.
MessagesTyped ==
    /\ scope \in [Requests -> Mailboxes \cup {Global}]
    /\ posting \in [Requests -> [at : Times, to : SUBSET Mailboxes]]
    /\ created \in [Requests -> Times]
    /\ clock \in Times
    /\ reply \in [Requests -> Consumers \cup {NoOne}]

TurnsTyped ==
    /\ turn \in [Requests -> Turns]
    /\ \A r \in Requests : turn[r].expired => turn[r].state = "running"

MemoryTyped ==
    /\ event \in [Mailboxes -> [Requests -> Events]]
    /\ watermark \in [Mailboxes -> Times]
    /\ ready \in [Mailboxes -> BOOLEAN]

ClaimsTyped ==
    consumer \in [Consumers -> [stage : {"idle", "memory", "model"}, turn : Requests,
                                cutoff : Times]]

TypeOK ==
    MessagesTyped /\ TurnsTyped /\ MemoryTyped /\ ClaimsTyped /\ faults \in 0..MaxFaults

\* A handler whose claim ran out while the model answered, and whose turn
\* another one claimed, cannot publish: a reply comes from the claim that holds
\* the turn, once, and nothing reopens the turn or replaces its reply.
RepliesAreHeld ==
    \A r \in Requests :
        /\ reply'[r] # reply[r] =>
              /\ reply[r] = NoOne /\ turn'[r].state = "completed"
              /\ turn[r].state = "running" /\ turn[r].holder = reply'[r] /\ ~turn[r].expired
        /\ turn[r].state = "completed" => turn'[r] = turn[r]
RepliesStand == [][RepliesAreHeld /\ TypeOK']_vars

Answered(r) == turn[r].state \in {"completed", "failed"}

\* A turn is answered or failed in the end, through crashes, lost claims and
\* memory that is late; only a mailbox that is not connected keeps it waiting,
\* or one whose memory was deleted before it held what the owner said.
TurnSettles ==
    \A r \in Requests :
        turn[r].state \in {"pending", "running"} ~>
            \/ Answered(r)
            \/ scope[r] # Global /\ ~ready[scope[r]]
            \/ scope[r] # Global /\ \E s \in Requests : event[scope[r]][s] = "cancelled"

\* What the runbook says of a deletion: reconnected, the mailbox starts over.
ReconnectedAnswers ==
    \A r \in Requests :
        turn[r].state \in {"pending", "running"} ~>
            Answered(r) \/ (scope[r] # Global /\ ~ready[scope[r]])

\* What the owner said globally reaches the memory of every mailbox, also of
\* one connected later and when the message committed behind the watermark.
GlobalMessagesFanOut ==
    \A r \in Requests : \A m \in Mailboxes :
        created[r] # 0 /\ scope[r] = Global ~> event[m][r] # "none" \/ ~ready[m]
=============================================================================

-------------------------- MODULE HindsightMemory --------------------------
(***************************************************************************)
(* The worker's client of the Hindsight service: HindsightMailboxMemory    *)
(* behind ReadinessGatedMailboxMemory (apps/worker/src/hindsight-memory.ts).*)
(*                                                                         *)
(* One mailbox, and calls that retain a text or a file in its bank or       *)
(* recall from it.  A call is its document: the id is derived from the      *)
(* source, so a repeated call names the same document.  A request that      *)
(* times out, fails or is answered with something invalid fails the call;   *)
(* what the service did by then stays done.  The operations are numbered in *)
(* the order the service created them, which stands for created_at, and a   *)
(* page of the listing holds one of them instead of a hundred.              *)
(***************************************************************************)
EXTENDS Naturals, Sequences, FiniteSets

CONSTANTS
    Processes,   \* worker processes, each with a client of its own
    Calls,       \* calls on the memory
    Host,        \* Host[c]: the process that makes the call
    Files,       \* the calls that are retainFile
    Texts,       \* the calls that are retain; the others are recall
    MaxStarts,   \* bound: times a call is made
    MaxFaults    \* bound: failed requests, failed operations and crashes

VARIABLES
    profile,     \* service: the bank is "absent", or has the mission or none
    documents,   \* service: the documents of the bank
    operations,  \* service: the bank's operations, oldest first
    gate,        \* ReadinessGatedMailboxMemory.ready, by process
    cached,      \* readyBanks holds the bank
    creation,    \* bankCreation holds a promise
    call,        \* where each call is
    starts, wrongs

vars == <<profile, documents, operations, gate, cached, creation, call, starts, wrongs>>

\* follows: the operation that is polled; offset: of the listing.
At(stage) == [stage |-> stage, follows |-> 0, offset |-> 0]
Idle == {"idle", "done", "failed"}

Init ==
    /\ profile = "absent"
    /\ documents = {}
    /\ operations = <<>>
    /\ gate = [p \in Processes |-> FALSE]
    /\ cached = [p \in Processes |-> FALSE]
    /\ creation = [p \in Processes |-> FALSE]
    /\ call = [c \in Calls |-> At("idle")]
    /\ starts = 0
    /\ wrongs = 0

service == <<profile, documents, operations>>

Fault == wrongs < MaxFaults /\ wrongs' = wrongs + 1

Become(c, next) == call' = [call EXCEPT ![c] = next]

-----------------------------------------------------------------------------
(* Readiness and the bank *)

\* readiness(): the service, its version and its routes are the expected ones.
Probe(p) ==
    /\ gate' = [gate EXCEPT ![p] = TRUE]
    /\ UNCHANGED <<service, cached, creation, call, starts, wrongs>>
ProbeFails(p) ==
    /\ Fault
    /\ gate' = [gate EXCEPT ![p] = FALSE]
    /\ UNCHANGED <<service, cached, creation, call, starts>>

\* A call passes the gate and asks for the bank: it is known in this process,
\* somebody is creating it, or this call begins to.
Begin(c) ==
    LET p == Host[c] IN
    /\ gate[p] /\ starts < MaxStarts /\ call[c].stage \in Idle
    /\ Become(c, At(IF cached[p] THEN "submit" ELSE "bank"))
    /\ creation' = [creation EXCEPT ![p] = ~cached[p]]
    /\ starts' = starts + 1
    /\ UNCHANGED <<service, gate, cached, wrongs>>

Waiting(p) == {c \in Calls : Host[c] = p /\ call[c].stage = "bank"}
Release(p, stage) ==
    call' = [c \in Calls |-> IF c \in Waiting(p) THEN At(stage) ELSE call[c]]

\* The PUT gives the bank its mission, whether it is there or not; everyone who
\* waits for the shared promise goes on.
Created(p) ==
    /\ creation[p]
    /\ profile' = "mission"
    /\ cached' = [cached EXCEPT ![p] = TRUE]
    /\ creation' = [creation EXCEPT ![p] = FALSE]
    /\ Release(p, "submit")
    /\ UNCHANGED <<documents, operations, gate, starts, wrongs>>

\* It fails for everyone, and the next call begins another.
CreationFails(p) ==
    /\ Fault /\ creation[p]
    /\ profile' \in {profile, "mission"}
    /\ creation' = [creation EXCEPT ![p] = FALSE]
    /\ gate' = [gate EXCEPT ![p] = FALSE]
    /\ Release(p, "failed")
    /\ UNCHANGED <<documents, operations, cached, starts>>

-----------------------------------------------------------------------------
(* Retaining and recalling *)

Known(c) == {i \in DOMAIN operations :
                operations[i].kind = "text" /\ operations[i].document = c}

\* The service takes the request.  A text names its operation, so that a second
\* request starts the same one again; a file gets a conversion of its own.  A
\* service that is asked to retain in an absent bank may make one, which then
\* has no mission.
Submit(c) ==
    /\ call[c].stage = "submit" /\ c \in Files \cup Texts
    /\ profile' = IF profile = "absent" THEN "none" ELSE profile
    /\ LET old == IF c \in Texts THEN Known(c) ELSE {}
           new == Len(operations) + 1
           op == [kind |-> IF c \in Texts THEN "text" ELSE "conversion",
                  document |-> c, state |-> "pending"]
       IN IF old = {}
          THEN /\ operations' = Append(operations, op)
               /\ Become(c, [At("wait") EXCEPT !.follows = new])
          ELSE /\ operations' = [i \in DOMAIN operations |-> IF i \in old THEN op ELSE operations[i]]
               /\ \E i \in old : Become(c, [At("wait") EXCEPT !.follows = i])
    /\ UNCHANGED <<documents, gate, cached, creation, starts, wrongs>>

\* recall(): what the bank answers.
Recall(c) ==
    /\ call[c].stage = "submit" /\ c \notin Files \cup Texts
    /\ Become(c, At("done"))
    /\ UNCHANGED <<service, gate, cached, creation, starts, wrongs>>

\* What a completed operation means to the call that polled it: a conversion
\* has only queued the retention, which is to be found and waited for.
SettledConverted(c) == At("done")  \* a fault: the conversion counts as retention
Settled(c) == IF operations[call[c].follows].kind = "conversion"
              THEN [call[c] EXCEPT !.stage = "scan"]
              ELSE At("done")

\* waitForOperation()
Wait(c) ==
    /\ call[c].stage = "wait"
    /\ operations[call[c].follows].state = "completed"
    /\ Become(c, Settled(c))
    /\ UNCHANGED <<service, gate, cached, creation, starts, wrongs>>

\* The listing, newest first, is of the operations that retain: the page at an
\* offset has the one that is newer than all but so many.
Retains == {i \in DOMAIN operations : operations[i].kind \in {"text", "file"}}
Page(offset) == {i \in Retains : Cardinality({j \in Retains : j > i}) = offset}

\* The page after one that did not have the operation.
NextPage(c) == [call[c] EXCEPT !.offset = @ + 1]

\* waitForFileRetain(): the listing is read until it is older than the
\* conversion, then once more from its beginning; the operation whose payload
\* names the document is the one.
Scan(c) ==
    /\ call[c].stage = "scan"
    /\ LET page == {i \in Page(call[c].offset) : i > call[c].follows}
       IN \/ page = {} /\ Become(c, [call[c] EXCEPT !.offset = 0])
          \/ \E i \in page :
                LET op == operations[i]
                IN Become(c, IF op.document # c THEN NextPage(c)
                             ELSE IF op.state = "completed" THEN At("done")
                             ELSE IF op.state = "failed" THEN At("failed")
                             ELSE [At("wait") EXCEPT !.follows = i])
    /\ gate' = [gate EXCEPT ![Host[c]] = @ /\ call'[c].stage # "failed"]
    /\ UNCHANGED <<service, cached, creation, starts, wrongs>>

\* A request fails, times out or is answered with nonsense: the call fails and
\* the gate closes until the next probe.
RequestFails(c) ==
    /\ Fault /\ call[c].stage \in {"submit", "wait", "scan"}
    /\ Become(c, At("failed"))
    /\ gate' = [gate EXCEPT ![Host[c]] = FALSE]
    /\ UNCHANGED <<service, cached, creation, starts>>

\* The operation has failed, which the call learns.
OperationFailed(c) ==
    /\ call[c].stage = "wait"
    /\ operations[call[c].follows].state = "failed"
    /\ Become(c, At("failed"))
    /\ gate' = [gate EXCEPT ![Host[c]] = FALSE]
    /\ UNCHANGED <<service, cached, creation, starts, wrongs>>

-----------------------------------------------------------------------------
(* The service, the processes and the operator *)

\* A conversion queues the retention of its document; a retention adds it.
OperationEnds(i) ==
    /\ operations[i].state = "pending"
    /\ LET op == operations[i]
           ended == [operations EXCEPT ![i].state = "completed"]
       IN IF op.kind = "conversion"
          THEN /\ operations' = Append(ended, [kind |-> "file", document |-> op.document,
                                               state |-> "pending"])
               /\ UNCHANGED documents
          ELSE /\ operations' = ended
               /\ documents' = documents \cup {op.document}
    /\ UNCHANGED <<profile, gate, cached, creation, call, starts, wrongs>>
OperationAborts(i) ==
    /\ Fault /\ operations[i].state = "pending"
    /\ operations' = [operations EXCEPT ![i].state = "failed"]
    /\ UNCHANGED <<profile, documents, gate, cached, creation, call, starts>>

\* A process dies or is stopped; it comes back knowing nothing.
Stop(p) ==
    /\ Fault
    /\ gate' = [gate EXCEPT ![p] = FALSE]
    /\ cached' = [cached EXCEPT ![p] = FALSE]
    /\ creation' = [creation EXCEPT ![p] = FALSE]
    /\ call' = [c \in Calls |-> IF Host[c] = p THEN At("idle") ELSE call[c]]
    /\ UNCHANGED <<service, starts>>

Stopped(p) == ~gate[p] /\ ~cached[p] /\ ~creation[p]
              /\ \A c \in Calls : Host[c] = p => call[c].stage = "idle"

\* deleteMailbox(), by the operator's command, which has a client of its own and
\* asks that every worker be stopped.
DeleteMailbox ==
    /\ \A p \in Processes : Stopped(p)
    /\ profile' = "absent"
    /\ documents' = {}
    /\ operations' = <<>>
    /\ UNCHANGED <<gate, cached, creation, call, starts, wrongs>>

Step(c) == Submit(c) \/ Recall(c) \/ Wait(c) \/ Scan(c) \/ OperationFailed(c)

Next ==
    \/ \E p \in Processes : Probe(p) \/ ProbeFails(p) \/ Created(p) \/ CreationFails(p) \/ Stop(p)
    \/ \E c \in Calls : Begin(c) \/ Step(c) \/ RequestFails(c)
    \/ \E i \in DOMAIN operations : OperationEnds(i) \/ OperationAborts(i)
    \/ DeleteMailbox

\* Requests are answered, and the service works through its operations.
Fairness ==
    /\ \A p \in Processes : WF_vars(Created(p))
    /\ \A c \in Calls : WF_vars(Step(c))
    /\ WF_vars(\E i \in DOMAIN operations : OperationEnds(i))

Spec == Init /\ [][Next]_vars
FairSpec == Spec /\ Fairness

-----------------------------------------------------------------------------

TypeOK ==
    /\ profile \in {"absent", "mission", "none"}
    /\ documents \subseteq Calls
    /\ operations \in Seq([kind : {"text", "conversion", "file"}, document : Calls,
                           state : {"pending", "completed", "failed"}])
    /\ {gate, cached, creation} \subseteq [Processes -> BOOLEAN]
    /\ \A c \in Calls :
          /\ call[c].stage \in Idle \cup {"bank", "submit", "wait", "scan"}
          /\ call[c].follows \in 0..Len(operations) /\ call[c].offset \in Nat
    /\ starts \in 0..MaxStarts /\ wrongs \in 0..MaxFaults

\* A retention that answered means that the document is in the bank: neither
\* that the service took it nor that a file's conversion ended is enough.
RetainedIsKept ==
    \A c \in Files \cup Texts : call[c].stage = "done" => c \in documents

\* Nothing is ever retained in a bank without the mission that tells facts of
\* mail from preferences of the owner, whichever process created the bank,
\* failed to, or deleted it meanwhile.
BankHasMission == profile # "none"

\* A call that no fault interrupts ends, however many other documents are
\* retained meanwhile: the retention of its file is found.
Underway(c) == call[c].stage \notin Idle
CallsEnd == \A c \in Calls : Underway(c) ~> ~Underway(c)
=============================================================================

----------------------------- MODULE MCServices -----------------------------
(***************************************************************************)
(* The evaluation of activities, and the services around it: the client of *)
(* the memory service, the model provider that runs a CLI, the worker      *)
(* process and its retention passes, the connecting of mailboxes, the      *)
(* sessions of the MCP endpoint, the reading of an inbox, the download of  *)
(* attachments, and the evidence that is kept of drafts, recalled for an   *)
(* evaluation and observed of what the owner says.  They share no state    *)
(* here, so a behaviour picks one of them and leaves the others as they    *)
(* start.                                                                  *)
(* Retention comes in two instances: two workers that sweep tokens and     *)
(* their family in batches, and one with a body, a send and a task.        *)
(***************************************************************************)
EXTENDS MCAgentWork, HostServices, Sequences

CONSTANTS
    p1, f1, x1, r1,          \* a client of the memory, a file, a text, a recall
    g1, g2,                  \* calls of the model
    w1, w2, o1, o2, fam,     \* retention workers, tokens and their family
    b1, s1, t1,              \* a cached body, a send, a task
    a1, a2, a3, u1, u2,      \* requests to connect a mailbox, and owners
    i1, i2, y1, z1, v1, v2,  \* requests to the MCP endpoint, and who asks
    n1, n2,                  \* downloads
    m1, m2,                  \* mailboxes that are read
    e1, e2                   \* workers that prepare a model's input

VARIABLES
    body, sent, snapshot, passes, over, sleeper, running, troubles, again,
    draft, projection, fitting, low, high, best,
    uttered, clock, stored, seen, holding, reader, lapses,
    part,
    watched      \* what of the part must come to an end

\* Two tokens and their family.
MCSweep == (o1 :> "tokens") @@ (o2 :> "tokens") @@ (fam :> "families")
MCFamily == (o1 :> fam) @@ (o2 :> fam)
\* One owner asks two providers for the same address, another one of them.
MCOwner == (a1 :> u1) @@ (a2 :> u1) @@ (a3 :> u2)
MCNamed == (a1 :> "gmail") @@ (a2 :> "imap") @@ (a3 :> "gmail")
\* A call and a deletion by one of two who have a session.
MCIdentity == (i1 :> v1) @@ (i2 :> v2) @@ (y1 :> v1) @@ (z1 :> v1)
\* A worker that retains a file and a text and recalls.
MCHost == (f1 :> p1) @@ (x1 :> p1) @@ (r1 :> p1)
\* Who pages through one mailbox, and through the list merged from two.
MCReadings == {[reader |-> "page", mailboxes |-> {m1}], [reader |-> "inbox", mailboxes |-> {m1, m2}]}

Bodies == INSTANCE Retention
          WITH Workers <- {w1}, Rows <- {b1, s1, t1}, Sends <- {s1}, Tasks <- {t1},
               Sweep <- (b1 :> "bodies") @@ (s1 :> "sends") @@ (t1 :> "tasks"),
               Families <- {}, Family <- <<>>,
               Limit <- 1, MaxTroubles <- 1, MaxReturns <- 1,
               row <- body, submitted <- sent, report <- snapshot, holder <- passes,
               lapsed <- over, loop <- sleeper, todo <- running, returns <- again

\* What JSON escapes, what it does not, and what UTF-8 makes longer.
Control == [bytes |-> 1, encoded |-> 3]
Plain == [bytes |-> 1, encoded |-> 1]
Wide == [bytes |-> 2, encoded |-> 2]
Projection == INSTANCE DraftProjection
              WITH SubjectTexts <- UNION {[1..n -> {Plain, Control}] : n \in 0..2},
                   BodyTexts <- UNION {[1..n -> {Plain, Control, Wide}] : n \in 0..5},
                   Fixed <- {1, 5}, SubjectLimit <- 1, BodyLimit <- 4, ProjectionLimit <- 8,
                   stage <- fitting

\* A mail that imitates an event, an event, and drafts of the owner and the agent.
Kinds == {[context |-> "mail", envelope |-> "action_approved", byOwner |-> TRUE],
          [context |-> "action_approved", envelope |-> "action_approved", byOwner |-> TRUE],
          [context |-> "draft_edited", envelope |-> "draft_edited", byOwner |-> TRUE],
          [context |-> "draft_edited", envelope |-> "draft_edited", byOwner |-> FALSE]}
MCEntries == {k @@ [id |-> i, length |-> l] : k \in Kinds, i \in {1, 2}, l \in {1, 3}}

\* A statement, and one in another thread that may correct it.
MCThread == <<"one", "other">>
\* Three in pages that change while one worker reads them.
Pages == INSTANCE OwnerObservations
         WITH MaxSources <- 3, Thread <- <<"one", "other", "one">>, Preparers <- {e1},
              PageSize <- 1, MaxLosses <- 0,
              source <- uttered, moment <- clock, saved <- stored, observed <- seen,
              lock <- holding, prep <- reader, losses <- lapses

work == vars
bodies == <<body, sent, snapshot, passes, over, sleeper, running, troubles, again>>
projecting == <<draft, projection, fitting, low, high, best>>
pages == <<uttered, clock, stored, seen, holding, reader, lapses>>
evidence == <<bodies, projecting, pages>>
around == <<memory, model, process, retention, mailboxes, endpoint, downloads, observing, recalling,
            reading>>

\* The parts that have more than one initial state vary only when they are picked.
ServicesInit ==
    /\ Init /\ Memory!Init /\ Model!Init /\ Worker!Init /\ Sweeps!Init /\ Mailboxes!Init
    /\ Endpoint!Init /\ Attachments!Init /\ Observations!Init /\ Reading!Init
    /\ Bodies!Init /\ Pages!Init
    /\ part \in {"work", "memory", "model", "worker", "tokens", "bodies", "mailboxes", "endpoint",
                "downloads", "reading", "projection", "recall", "observations", "pages"}
    /\ watched \in CASE part = "memory" -> {f1, x1, r1} [] part = "model" -> {g1, g2}
                      [] part = "tokens" -> {o1, o2, fam}
                      [] part = "downloads" -> {n1, n2} [] OTHER -> {part}
    /\ part # "work" => mail = "ordinary"
    /\ part # "worker" => working = Worker!Dependencies
    /\ part # "mailboxes" => default = [u \in {u1, u2} |-> "unset"]
    /\ draft \in IF part = "projection" THEN Projection!Drafts
                ELSE {[subject |-> <<>>, body |-> <<>>, fixed |-> 1]}
    /\ Projection!Init
    /\ recalled \in IF part = "recall" THEN Recall!Answers ELSE {<<>>}
    /\ Recall!Init

ServicesNext ==
    /\ UNCHANGED <<part, watched>>
    /\ \/ /\ part = "work" /\ Next
          /\ UNCHANGED <<around, evidence>>
       \/ /\ part = "memory" /\ Memory!Next
          /\ UNCHANGED <<work, model, process, retention, mailboxes, endpoint, downloads,
                         observing, recalling, reading, evidence>>
       \/ /\ part = "model" /\ Model!Next
          /\ UNCHANGED <<work, memory, process, retention, mailboxes, endpoint, downloads,
                         observing, recalling, reading, evidence>>
       \/ /\ part = "worker" /\ Worker!Next
          /\ UNCHANGED <<work, memory, model, retention, mailboxes, endpoint, downloads,
                         observing, recalling, reading, evidence>>
       \/ /\ part = "tokens" /\ Sweeps!Next
          /\ UNCHANGED <<work, memory, model, process, mailboxes, endpoint, downloads, observing,
                         recalling, reading, evidence>>
       \/ /\ part = "mailboxes" /\ Mailboxes!Next
          /\ UNCHANGED <<work, memory, model, process, retention, endpoint, downloads, observing,
                         recalling, reading, evidence>>
       \/ /\ part = "endpoint" /\ Endpoint!Next
          /\ UNCHANGED <<work, memory, model, process, retention, mailboxes, downloads,
                         observing, recalling, reading, evidence>>
       \/ /\ part = "downloads" /\ Attachments!Next
          /\ UNCHANGED <<work, memory, model, process, retention, mailboxes, endpoint, observing,
                         recalling, reading, evidence>>
       \/ /\ part = "observations" /\ Observations!Next
          /\ UNCHANGED <<work, memory, model, process, retention, mailboxes, endpoint, downloads,
                         recalling, reading, evidence>>
       \/ /\ part = "recall" /\ Recall!Next
          /\ UNCHANGED <<work, memory, model, process, retention, mailboxes, endpoint, downloads,
                         observing, reading, evidence>>
       \/ /\ part = "reading" /\ Reading!Next
          /\ UNCHANGED <<work, memory, model, process, retention, mailboxes, endpoint, downloads,
                         observing, recalling, evidence>>
       \/ /\ \/ /\ part = "bodies" /\ Bodies!Next
                /\ UNCHANGED <<projecting, pages>>
             \/ /\ part = "projection" /\ Projection!Next
                /\ UNCHANGED <<bodies, pages>>
             \/ /\ part = "pages" /\ Pages!Next
                /\ UNCHANGED <<bodies, projecting>>
          /\ UNCHANGED <<work, around>>

\* The Fairness of each module, of the part it is about.
ServicesFairness ==
    /\ WF_work(part = "work" /\ Dispatch) /\ WF_work(part = "work" /\ MarkDispatched)
    /\ \A c \in {c1, c2} :
          WF_work(part = "work" /\ (ClaimNothing(c) \/ Claim(c) \/ Evaluate(c)))
    /\ WF_memory(part = "memory" /\ Memory!Created(p1))
    /\ \A c \in {f1, x1, r1} : WF_memory(part = "memory" /\ Memory!Step(c))
    /\ WF_memory(part = "memory" /\ \E i \in DOMAIN operations : Memory!OperationEnds(i))
    /\ WF_model(part = "model" /\ \E i \in 1..Len(line) : Model!Begin(i))
    /\ \A c \in {g1, g2} :
          /\ WF_model(part = "model" /\ Model!Work(c))
          /\ WF_model(part = "model" /\ Model!Abort(c))
          /\ WF_model(part = "model" /\ Model!GraceEnds(c))
          /\ WF_model(part = "model" /\ generation[c].child = "killed" /\ Model!Close(c))
    /\ \A w \in {w1, w2} :
          /\ WF_retention(part = "tokens" /\ (Sweeps!Tick(w) \/ Sweeps!Sleep(w)))
          /\ WF_retention(part = "tokens" /\ Sweeps!Restart(w))
          /\ \A k \in Sweeps!Statements : WF_retention(part = "tokens" /\ Sweeps!Run(w, k))
    /\ WF_retention(part = "tokens" /\ Sweeps!LeaseExpires)
    /\ \A d \in {n1, n2} : WF_downloads(part = "downloads" /\ Attachments!Serve(d))

ServicesSpec ==
    /\ ServicesInit
    /\ [][ServicesNext]_<<work, around, evidence, part, watched>>
    /\ ServicesFairness

-----------------------------------------------------------------------------

\* What is kept of a draft and taken of an answer is as much as fits; what is said
\* while pages are read is observed in its order; and a body that is swept and cached
\* again, a send without an outcome and the replay of a redacted task answer what
\* retention promises of them.
EvidenceIsTrue ==
    /\ part = "projection" =>
          Projection!TypeOK /\ Projection!KeptIsTrue /\ Projection!KeptIsLongest
    /\ part = "recall" => Recall!LengthIsWhole
    /\ part = "bodies" => Bodies!TypeOK /\ Bodies!SweepsAreSound
    /\ part = "pages" => Pages!TypeOK /\ Pages!CorrectionsComeLater /\ Pages!PreparedIsComplete

\* A job claimed from the queue does not stay running while its authority
\* stands; calls of the memory service and of the model and downloads end; and
\* what is past its time is swept, also when passes die over it and more is due
\* than a batch takes.
ServicesFinish ==
    LET waits == \/ watched = "work" /\ Underway
                 \/ watched \in {f1, x1, r1} /\ Memory!Underway(watched)
                 \/ watched \in {g1, g2} /\ Model!Underway(watched)
                 \/ watched \in {o1, o2, fam} /\ Sweeps!Waits(watched)
                 \/ watched \in {n1, n2} /\ Attachments!Underway(watched)
    IN waits ~> ~waits

\* What docs/retention.md says of replays, which is not so: see Retention.
ReplaysForget == part = "bodies" => Bodies!ReplaysForget

\* What attachments.ts:49 says, which is not so: see AttachmentDelivery.
SourceIsDeleted == part = "downloads" => Attachments!SourceIsDeleted

\* What mailbox-memory-inputs.ts:42 says, which is not so when the session that
\* holds the lock is lost (MaxLosses = 1).
CorrectionsComeLater == part = "observations" => Observations!CorrectionsComeLater
=============================================================================

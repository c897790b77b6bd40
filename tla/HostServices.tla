---------------------------- MODULE HostServices ----------------------------
(***************************************************************************)
(* What the two processes keep up around the work: the worker with its     *)
(* start, readiness and drain, the passes of retention that it runs, its   *)
(* client of the memory service and its model provider, and what it        *)
(* observes and recalls before it asks a model; the web process with the   *)
(* connecting of mailboxes, the reading of an inbox, the sessions of the   *)
(* MCP endpoint and the downloads of attachments.  They share no state;    *)
(* what must hold of them is stated here, for the runs that check it and   *)
(* the theorems about it.                                                  *)
(***************************************************************************)
EXTENDS Naturals, FiniteSets

CONSTANTS
    MaxOutages,        \* bound: outages of what the worker depends on
    MaxBoots,          \* bound: starts of the worker
    SweepWorkers,      \* workers that run retention
    DueRows,           \* rows that come due
    Sweep,             \* the statement that is about each of them
    SentRows,          \* those that are submissions of approved sends
    TaskRows,          \* those that are tasks of hosted agents
    Families,          \* those that are families of tokens
    Family,            \* the family of each token
    Limit,             \* rows of a batch
    MaxSetbacks,       \* bound: failed statements and dead processes
    MaxReturns,        \* bound: bodies that are cached again
    MailboxRequests,   \* requests to connect a mailbox
    Owner, Named,      \* whose each of them is, and the provider it names
    Managers,          \* mailbox managers
    MaxAsks,           \* bound: times that requests are made
    MaxRevised,        \* bound: revisions of a default manager, and deletions
    Initializes, ToolCalls, Deletes,   \* requests to the MCP endpoint
    Identity,          \* who makes each of them
    MaxListed,         \* sessions of the endpoint
    MaxInflight, MaxPerSession,        \* requests that are served, of one session
    Downloads,         \* downloads of attachments
    MaxDeaths,         \* bound: deaths of the web process
    Clients,           \* worker processes with a client of the memory
    MemoryCalls,       \* calls on the memory
    Host,              \* who makes each of them
    Files, Texts,      \* those that retain a file, a text
    MaxStarts,         \* bound: times that calls on the memory are made
    MaxWrongs,         \* bound: failed requests and operations, dead processes
    Generations,       \* calls of the model
    MaxSources,        \* bound: statements of the owner
    Thread,            \* the thread of each
    Preparers,         \* evaluations and turns that prepare a model's input
    PageSize,          \* statements in a page
    MaxLosses,         \* bound: sessions that the database ends while they hold a lock
    Entries,           \* what the memory recalls
    MaxRecalled,       \* bound: entries of one answer
    MaxEntries, MaxLength,             \* what an evaluation is told of them
    Accounts,          \* mailboxes that are read
    Readings,          \* who reads which of them
    Window, PageLimits,                \* mails that are asked for
    MaxMail, MaxRemoved                \* bounds: mails that arrive and leave

ASSUME HostAssumption ==
    /\ MaxOutages \in Nat /\ MaxBoots \in Nat
    /\ SentRows \cup TaskRows \cup Families \cup DOMAIN Family \subseteq DueRows
    /\ \A t \in DOMAIN Family : Family[t] \in Families /\ Sweep[t] # "bodies"
    /\ MaxSetbacks \in Nat /\ MaxReturns \in Nat
    /\ IsFiniteSet(MailboxRequests)
    /\ \A r \in MailboxRequests : Named[r] # "none"
    /\ "unset" \notin Managers /\ "none" \notin Managers
    /\ MaxAsks \in Nat /\ MaxRevised \in Nat
    /\ IsFiniteSet(Initializes) /\ IsFiniteSet(ToolCalls) /\ IsFiniteSet(Deletes)
    /\ "none" \notin Initializes /\ Initializes \cap (ToolCalls \cup Deletes) = {}
    /\ MaxListed \in Nat /\ MaxInflight \in Nat /\ MaxPerSession \in Nat
    /\ MaxDeaths \in Nat
    /\ \A c \in MemoryCalls : Host[c] \in Clients
    /\ Files \cup Texts \subseteq MemoryCalls
    /\ MaxStarts \in Nat /\ MaxWrongs \in Nat
    /\ MaxSources \in Nat /\ PageSize \in Nat /\ MaxLosses \in Nat
    /\ "nobody" \notin Preparers
    /\ MaxRecalled \in Nat /\ MaxEntries \in Nat /\ MaxLength \in Nat /\ MaxLength >= 2
    /\ \A e \in Entries : e.length \in Nat
    /\ \A r \in Readings : r.mailboxes \subseteq Accounts
    /\ \A r \in Readings : r.reader = "page" => \E m \in Accounts : r.mailboxes = {m}
    /\ Window \in Nat /\ PageLimits \subseteq Nat
    /\ MaxMail \in Nat /\ MaxRemoved \in Nat

VARIABLES
    working, startup, status, loop, consuming, handling, database, code, outages, boots,
    content, submitted, report, holder, overdue, sweeper, statements, setbacks, returns,
    remote, leases, asked, account, mailboxState, edge, default, managed, asks, revised,
    request, session, listed, aged, pending, inflight, total, shuttingDown,
    up, download, file, deaths,
    profile, documents, operations, gate, cached, creation, call, starts, wrongs,
    line, generation,
    source, moment, saved, observed, lock, prep, losses,
    recalled, reached, kept, length,
    inbox, arrived, removed, cursor, told

process == <<working, startup, status, loop, consuming, handling, database, code, outages, boots>>
retention == <<content, submitted, report, holder, overdue, sweeper, statements, setbacks, returns>>
mailboxes == <<remote, leases, asked, account, mailboxState, edge, default, managed, asks,
               revised>>
endpoint == <<request, session, listed, aged, pending, inflight, total, shuttingDown>>
downloads == <<up, download, file, deaths>>
memory == <<profile, documents, operations, gate, cached, creation, call, starts, wrongs>>
model == <<line, generation>>
observing == <<source, moment, saved, observed, lock, prep, losses>>
recalling == <<recalled, reached, kept, length>>
reading == <<inbox, arrived, removed, cursor, told>>

Worker == INSTANCE WorkerRuntime WITH MaxRuns <- MaxBoots, stage <- startup, runs <- boots
Sweeps == INSTANCE Retention
          WITH Workers <- SweepWorkers, Rows <- DueRows, Sends <- SentRows, Tasks <- TaskRows,
               MaxTroubles <- MaxSetbacks,
               row <- content, lapsed <- overdue, loop <- sweeper, todo <- statements, troubles <- setbacks
Mailboxes == INSTANCE Onboarding
             WITH Requests <- MailboxRequests, Asked <- Named, MaxChanges <- MaxRevised,
                  request <- asked, state <- mailboxState, assignment <- managed,
                  changes <- revised
Endpoint == INSTANCE McpSessions WITH Calls <- ToolCalls, MaxSessions <- MaxListed
Attachments == INSTANCE AttachmentDelivery
Memory == INSTANCE HindsightMemory
          WITH Processes <- Clients, Calls <- MemoryCalls, MaxFaults <- MaxWrongs
Model == INSTANCE CodexCliModel WITH Calls <- Generations, call <- generation
Observations == INSTANCE OwnerObservations
Recall == INSTANCE RecalledEvidence
Reading == INSTANCE MailboxReading

-----------------------------------------------------------------------------

\* A worker that reports itself ready takes jobs and runs every loop, and closes
\* its database under none of its handlers.
ReadinessIsTrue ==
    Worker!TypeOK /\ Worker!ReadyMeansServing /\ Worker!DatabaseOutlivesHandlers

\* Overlapping passes of retention keep the payloads of unresolved submissions,
\* the families of tokens, and what replays of reports answer.
SweepsAreSound == Sweeps!TypeOK /\ Sweeps!SweepsAreSound

\* Who was told that a mailbox is ready has it, with one owner and one manager,
\* and neither is changed by connecting it again.
MailboxesStand ==
    [][Mailboxes!ConnectedStays /\ Mailboxes!TypeOK' /\ Mailboxes!ReadyIsConnected']_mailboxes

\* Requests to the MCP endpoint that wait between check and use stay within its
\* bounds, lose no session, and are served on their own; and downloads give back
\* what they borrowed, whoever leaves or dies while they go on.
RequestsAreSound ==
    /\ Endpoint!TypeOK /\ Endpoint!LimitsHold
    /\ Endpoint!NoSessionIsLost /\ Endpoint!ServedByOwnSession
    /\ Attachments!TypeOK /\ Attachments!GivenBack

\* A retention that answered means that the document is in the bank, which never
\* lacks its mission, whichever call created it, failed to, or was interrupted;
\* the model answers no call that was cut off, with no two processes at once.
\* What the owner said is observed before a model is asked, his corrections after
\* what they correct, while the session that holds their lock is not lost; nothing
\* recalled speaks as the owner but what he did; and who reads an inbox to the end
\* while it changes is told of all that was there, and of none of it twice.
AnswersAreTrue ==
    /\ Memory!TypeOK /\ Memory!RetainedIsKept /\ Memory!BankHasMission
    /\ Model!TypeOK /\ Model!AnswersAreWhole
    /\ losses = 0 => /\ Observations!TypeOK /\ Observations!CorrectionsComeLater
                     /\ Observations!PreparedIsComplete
    /\ Recall!TypeOK /\ Recall!OwnerSpeaks /\ Recall!KeptIsEnough
    /\ Reading!TypeOK /\ Reading!NothingIsSkipped /\ Reading!NothingTwice
=============================================================================

# Hypermail: a formal model

TLA+ modules for the parts of Hypermail that act on a mailbox, on a draft, on a
memory or on a device without anybody watching: what the code in `src/` does
between two database transactions, while several workers run, calls time out
and processes die. TLC checks the modules on small instances. TLAPS proves the
safety of most of them for every instance: policy execution, approved sending,
ingestion, notifications, agent work, conversations and mailbox memory; the tasks of
agents, their authority, the owner's access, the journal of tool calls, the pool of
tenants and the history of work; the worker, retention, onboarding, the
MCP endpoint and downloads; the memory client, the model provider, and what is observed,
recalled and read.

Run a check with `tlc -config PolicyRace.cfg MCPolicyExecution` and the proofs
with `tlapm PolicyExecutionProofs.tla`.

| Module | Models | Checked by |
|---|---|---|
| `PolicyExecution` | execution and verification of an authorised action | `PolicyRace`, `PolicySafety`; proved in `PolicyExecutionProofs` |
| `MutationPromise` | what the policy package promises of an action | refined by `PolicyExecution` |
| `ApprovedSend` | sending a draft after the owner's approval | `OwnerControl`; proved in `ApprovedSendProofs` |
| `SendOnce` | what approved sending promises of a draft | refined by `ApprovedSend` |
| `ArrivalIngestion` | from a message in the Inbox to a queued agent job | `Progress`; proved in `ArrivalIngestionProofs` |
| `AgentWork` | from the agent job to authorised actions: decision, proposals, review | `Services`; proved in `AgentWorkProofs` |
| `WorkHistory` | runs, actions, evidence and events of an activity | `OwnerControl`; proved in `ServicesProofs` |
| `NotificationDelivery` | from a logical notification to devices | `NotificationDelivery`; proved in `HostProofs` |
| `MailboxMemoryEvents` | from an event of a mailbox to its memory bank, and the bank's deletion | `MailboxMemoryEvents`; proved in `MailboxMemoryProofs` |
| `HindsightMemory` | the client of the memory service | `Services`; proved in `HostProofs` |
| `RecalledEvidence` | what an evaluation is told from memory | `Services`; proved in `HostProofs` |
| `DraftProjection` | what the memory is told of a draft | `Services` |
| `OwnerObservations` | how what the owner says is observed before a model is asked | `Services`; proved in `HostProofs` |
| `Conversations` | the owner's conversations with the assistant | `Conversations`; proved in `ConversationsProofs` |
| `AgentTasks` | tasks of hosted agents under leases and limits | `Progress`; proved in `ServicesProofs` |
| `AgentAuthority` | connections, managers, grants and the tokens issued on them | `OwnerControl`; proved in `ServicesProofs` |
| `Access` | passwords, sessions, recovery and its mail | `OwnerControl`, `Progress`; proved in `ServicesProofs` |
| `McpMutations` | a mutating tool call and the recovery that takes it over | `Progress`; proved in `ServicesProofs` |
| `McpSessions` | the sessions of the public MCP endpoint | `Services`; proved in `HostProofs` |
| `TenantSessions` | the pool of provider sessions | `OwnerControl`; proved in `ServicesProofs` |
| `MailboxReading` | an inbox read page by page while it changes | `Services`; proved in `HostProofs` |
| `AttachmentDelivery` | the download of an attachment | `Services`; proved in `HostProofs` |
| `Onboarding` | connecting a mailbox | `Services`; proved in `HostProofs` |
| `Retention` | the sweeps of what is past its time | `Services`; proved in `HostProofs` |
| `CodexCliModel` | the model provider that runs a CLI | `Services`; proved in `HostProofs` |
| `WorkerRuntime` | start, readiness and drain of the worker | `Services`; proved in `HostProofs` |

Four modules compose components and state what must hold of them together:

| Module | Composes | Checked by |
|---|---|---|
| `OwnerAccess` | `Access`, as both of the next two use it | |
| `OwnerServices` | access, `AgentAuthority`, `WorkHistory`, `TenantSessions` | `OwnerControl`; proved in `ServicesProofs` |
| `WorkServices` | access, `AgentTasks`, `McpMutations` | `Progress`; proved in `ServicesProofs` |
| `HostServices` | `WorkerRuntime`, `Retention`, `Onboarding`, `McpSessions`, `AttachmentDelivery`, `HindsightMemory`, `CodexCliModel`, `OwnerObservations`, `RecalledEvidence`, `MailboxReading` | `Services`; proved in `HostProofs` |

They give the constants that the runs and the theorems have in common, with one
named assumption each.

Each `MC...` module gives model values and small functions for TLC. Three of them
also put components that share no state beside each other: `MCOwnerControl`,
`MCProgress` and `MCServices` have a variable `part` that a behaviour picks once;
the other parts stay as they start, so
each component is checked as if it ran alone, and one run costs the sum of the
instances and not their product. A property of a composition says nothing of `part`: it
holds of the parts that stay as they start, too. One that is stated in the `MC...` module names
its part. In `MCServices` a second variable that never changes, `watched`,
picks the item whose end the liveness property is about, for the same reason. Definitions marked `a fault`
stand just before the definition they spoil: they are the plausible bugs against
which each property was tried, and nothing else uses them.

## 1. Inventory

A web process (`apps/web`) and one or more workers (`apps/worker`) share one
PostgreSQL database and call two services over the network: Hypermail, an MCP
server in front of the mail providers, and Hindsight, the memory service. The
two applications never call each other. They meet in rows: one writes, and the
other finds the row through the pg-boss queue or through a recovery sweep.
There is no transaction across a network call anywhere, and that is what makes
most of the behaviour below hard: before a call the code commits an intent, after it an
outcome, and between the two anything may happen.

| Component | State | Operations | Hard behaviour | What makes it correct |
|---|---|---|---|---|
| Policy execution (`packages/policy`, `apps/worker/src/policy.ts`) | `agent_authorized_actions`, `actions`, safety samples, pauses | claim, fence, mutate, report, read back, complete, recover | several deliveries, lost answers, late effects, pauses, crashes | one mutation at most; the outcome is final and true; only under authority; settles |
| Approved sending (`packages/send`, `drafts`, `send-requests`) | drafts, approvals, requests, submission journal | approve, request, begin, reject, confirm, dispatch, reconcile | two flows for one draft, expiry, late answers, crashes | one send at most; sent means found in Sent; request and journal agree |
| Arrival ingestion (`apps/worker/src/ingestion.ts`) | messages, baseline time, leases, jobs, queue ids | baseline, reconcile, poll, record, dispatch | provider checkpoint outside the transaction, unfenced lease | no job for old mail, a job for each later message |
| Notification delivery (`packages/notifications`) | notification, targets, attempts | freeze targets, claim, send, finish, finalise, recover | expiring claims, devices that come and go | no device told twice on purpose, attempts are history, comes to rest |
| Activities and questions (`activity`) | activities, questions, runs | acknowledge, answer, aggregate | several sources of unfinished work | nothing unresolved is acknowledged |
| Agent work, proposals, reviews (`production.ts`, `agent-work-store`, `agent-proposal-store`, `packages/agent`) | jobs, decisions, proposals, reviews, authorised actions | claim, decide, propose, review, authorise, answer, retry | redelivery, review racing supersession, dependencies | the first decision of an attempt stands; an action only after its review and its dependencies |
| Conversations (`conversation-store`, worker `conversations.ts`) | conversations, messages, turns, backfills | post, claim, renew, reply, retry, fail, fan out | claims of 120 s, commit order against creation time | one reply for an owner message; every message reaches the memories |
| Mailbox memory events (`mailbox-memory-event-store`, `-delivery`, `-inputs`, `-deletion`) | events with fences and generations | enqueue, claim, renew, complete, defer, recover, observe, delete | expiring claims around slow uploads; deletion of a bank | settled only by the current claim; retained before completed; a deleted bank stays empty |
| Hindsight client (`hindsight-memory.ts`) | ready banks, a shared creation, a gate | ensure the bank, retain text or file, wait, recall | a creation that half succeeds, two stages of a file | what answered is in the bank, which has its mission |
| Agent tasks (`agent-task-store`, `operational-safety`) | tasks, leases, receipts, counters | enqueue, claim, heartbeat, report, cancel, recover | lease generations, repeated reports, quotas | one lease at a time; a report has one effect; the limit holds |
| Connections, managers, grants | assignments, grants, ceilings, revisions | connect, pause, assign, grant, revoke | revisions move while work is queued | old authority never acts |
| Authentication and recovery (`packages/auth`) | users, sessions, tokens, recovery mail | sign in, rotate, reset, deliver | rotation against reset, claims of the mailer | nothing old opens anything; at most three mails |
| Draft operations (`draft-operations`) | drafts, versions, memory projection | create, edit, discard, project | owner and agents edit at once | no lost update; the evidence is true and as long as it may be |
| MCP server and mutation journal (`apps/web/src/mcp`) | sessions, reservations, idempotency journal | initialise, call, delete, reap, journal, verify | state checked before an await; recovery takes an open row over | within bounds; one effect for a call |
| OAuth | consents, codes, token families | authorise, exchange, rotate, revoke | replays | refused once, refused for ever |
| Tenant sessions and Hypermail client (`packages/hypermail`) | session pool, leases, cursors, files | lease, evict, reconfigure, close, page, stream | initialisation racing eviction; mail that arrives between pages | a leased session stays open; nothing is skipped; what was borrowed is given back |
| Mailbox onboarding | accounts, user accounts, assignments | start, complete | requests of two owners and providers at once | one owner and one manager, unchanged by connecting again |
| Retention and lifecycle | lease, rows past their time | sweep by age | passes that outlive the lease, batches | nothing that is in use is swept; all that is due is |
| Model providers (`codex-cli-model.ts`) | one process at a time | generate, abort | queueing, kill after a grace period | no answer after an abort; every call ends |
| Worker composition and health (`runtime.ts`, `health.ts`) | status, loops, handlers | start, probe, drain | dependencies that come and go | ready means serving |
| Web shell, contracts and schema, observability, backup, Hermes connector | | | | no protocol state: section 14 |

How they interact: ingestion creates an activity, a notification, an agent job
and a memory event in one transaction and publishes the job; agent work observes what the owner said,
recalls the memory, and turns
the job into proposals and, after review, into authorised actions; policy
execution carries an action out and recomputes its activity; sending starts
from a draft and ends in the journal; notifications are created by ingestion
and by a safety pause; conversations feed the memory of every mailbox they are
about; connected agents act through MCP under the authority of their tokens, on
the same rows as the policy recovery.

## 2. Policy execution

`PolicyExecution` models one delivery of a `policy.execute` job as an executor
with a program counter. A transaction of `PostgresPolicyPersistence` is one
action (`Claim`, `Fence`, `Report`, `Complete`, the cursor in `ScanPage` and
`ScanIncomplete`); a provider call is split into its issue (`IssueCall`), what
the provider does with it whenever it likes (`ProviderApplies`,
`ProviderIgnores`) and the answer (`CallSucceeds`, `CallRefused`,
`CallAmbiguous`). A request therefore may be carried out long after its caller
has timed out, died, or been overtaken by a recovery.

| State | In the code |
|---|---|
| `state`, `reported`, `expired`, `cursor`, `kind` | columns of `app.agent_authorized_actions` |
| `legacy` | `app.actions.state` |
| `sample`, `paused`, `alerts` | `policy_safety_samples`, `accounts.autonomy_paused_at`, safety activities |
| `granted` | the comparison of frozen with current revisions in the fence |
| `activity`, `remembered` | `app.agent_activities.state`, memory events |
| `pc`, `job`, `tries`, `confirmed`, `from`, `at`, `result` | locals of `PolicyExecutor.execute` and of the transport's `read` |
| `inflight`, `applied`, `visible`, `page` | Hypermail and the mailbox |

`granted` is one Boolean for each action: the fence compares the revisions of
assignment, grant, ceiling and connection, and a property can only ask whether
all of them still agree. `visible` says whether the message still answers to
the id the database stores, since a provider may give a moved message another
one; `page` is where a folder listing shows it.

`MutationPromise` is the abstract specification: an action waits, is started,
lands at most once and ends. `PolicyExecution` refines it by mapping `executing`
and `verifying` to *started* and `applied` to *landed*.

Runs:

- `policy_race` - one action whose kind is a folder move, a flag or a new draft, with
  preconditions; two executors, two attempts, a listing of two pages, one crash,
  and an owner who pauses, revokes and disconnects. Two executors are enough for
  every race the code guards against, because each guard is a compare-and-set
  on one row; two attempts show the first, the last and the step between; two
  pages let a cursor lie inside the listing. Checks the type invariant,
  `OutcomesAreTrue`, `FirstOutcomeStands`, `StartsUnderAuthority` and the
  refinement `KeepsPromise`.
- `policy_safety` - two archives of one mailbox and one activity with a limit of one
  half: windows with no, one and two samples, below, on and above the
  boundary. One of the two messages is in the archive from the beginning. Checks
  `ResolvedMeansVerified`, `CrossingPausesOnce` and, under fairness,
  `UncertainSettles`.
- `policy_draft_edit` and `policy_stale_cursor` - two disagreements with the
  documents, section 12.

Deadlock is not checked in these runs: an action that has settled leaves its
executors nothing to do.

## 3. Owner-approved sending

`ApprovedSend` models one draft with the approvals its owner prepares and the
send requests of agents, the journal `approved_send_submissions`, and the HTTP
handlers that confirm or reconcile. `Claim` is the transaction that consumes the
approval; `Dispatch` the compare-and-set before the call; `RecordResult`,
`StatusBegin`, `AgeOut` and `SaveStatus` are statements outside a transaction and
so each is a step of its own; `CompleteSend` and `Finish` carry the outcome to
the draft and to the request. Time appears as facts that become true: an
approval lapses, a request is overdue, a dispatch is older than 120 seconds.

An approval is known by what it belongs to, so that a member of `Requests` is
a request together with its approval. A draft is one: nothing in the code relates the
sends of two drafts. `SendOnce` is the promise: a draft is committed, called for
at most once, opened again only if it was not, and called sent only afterwards.

`owner_control` checks one approval of the owner against one request with two
handlers, two revisions and one crash. `Reconcile` takes any approval of the draft
that has a submission, as the route does (`drafts/postgres-repository.ts:52`); only the
screen offers the latest alone (`send-approval.tsx:104-111`). A handler that settles the
draft by an approval of another version than the draft now has makes the history variable
`mistaken` true, and costs the crash. What is false from then on is asked only before: that
the draft is called for at most once and stays closed, and that a request agrees with
it. All else is asked of every state: each approval is called for at most once,
a rejected one never, what is shown as sent or approved went out, and no two flows are open
for one version. Section 12 tells what happens after a mistake.

## 4. Arrival ingestion and notifications

`ArrivalIngestion` follows one mailbox. Messages are numbered in the order they
arrive and a time is the number of messages that had arrived by then, so the
comparison of `received_at` with `baseline_completed_at` is a comparison of
numbers. A cycle reads the account, establishes or reconciles, records each
message in a transaction and polls; `DispatchRecovery` of any process offers
recorded jobs to the queue and marks them. `RecentInbox`, `NewInbox` and `AfterPoll`
are what Hypermail returns and where its own checkpoint then is.

In `progress` it has two workers, one message that was there before, one
that arrives, a poll of one message, a recent window of two and one failure or crash at
any point. That is enough for a checkpoint to move past a message nobody
recorded, for two workers to hold overlapping cycles and for the owner to
list a message first. A lease may run out under any worker, also one that is at its *baseline*:
that costs a failure, and the history variable `outlasted` remembers it. From then on
`ArrivalsAreSound` and `MailComesThrough` no longer ask whether later mail was recorded as baseline, which
section 12 is about; all else they ask of every state. The
window covers what arrives: mail beyond it is lost by design (`rollout.md:61`).

`NotificationDelivery` follows one logical notification through
`NotificationWorker.deliver`, with the claim, the push call and the end of the
attempt as three steps. Its instance has two devices, two jobs, one change of
subscription, one crash and a ceiling of two attempts in place of the three of
the code: the constant separates a first from a last attempt, and two do that.
A push is one step with the end of its attempt: what the service does
with a push whose job has died is not visible to the system, so a device may
be shown a notification twice after a lost answer, and `HistoryStands`
speaks of recorded deliveries only.

## 5. Memory

### Events of a mailbox

`MailboxMemoryEvents` follows the events of one mailbox. A transaction of the
event store is one action (`Enqueue`, the recovery in `Tick`, `Claim`,
`Complete`, `Defer`); a delivery is a worker that checks its claim and the
mailbox, submits a document, waits for the operation at Hindsight and goes on
to the next. `Current` and `Renewable` are the two conditions of the
statements: settling asks for the generation, renewal also for a claim that has
not expired, so a worker may complete an event late as long as nobody claimed
it again.

| State | In the code |
|---|---|
| `state`, `gen`, `due`, `live` | `mailbox_memory_events`: state, claim generation, `available_at` passed, `claim_expires_at` ahead |
| `account`, `audited` | `accounts.state`, the audit `mailbox_memory.deleted` |
| `pc`, `event`, `fence`, `part` | locals of `deliver` and `performCurrentEmailRetention` |
| `stray` | operations that lost the race in `withRenewal` and go on |
| `kept` | finished promises in `emailRetention` |
| `del`, `answer` | the command `delete-mailbox-memory` |
| `op`, `bank` | Hindsight: operations and documents |
| `retained` | history only |

`withRenewal` rejects when a heartbeat fails, but what it wrapped cannot be
stopped: it becomes a *stray*, which may still submit. A later claim of the same email
in the same process takes part in it (`Join`), since `retainCurrentEmail` keeps
promises by message. Assumed of Hindsight: deleting a bank drops its documents
and operations, and a request is received while its sender lives. Assumed of the
operator, since the code does: all workers are stopped before the command and
none starts until it has ended. Processes may stop anywhere in the command.

The instance has one email with an attachment (two documents, so
that a delivery may stop between them), two workers (each event is only ever
contended between an old and a new claim), two troubles of any kind (a claim
has to lapse and something else has to fail), two deletion commands and one
reconnection (a command that fails half-way and its repetition). More events
would only be claimed one after the other: nothing relates two of them.

### The client of the service

`HindsightMemory` is what `retain`, `retainFile` and `recall` do around each
request: the readiness gate, the set of banks known to exist, the creation that
concurrent calls share, the two stages of a file (an upload that is converted, and a retain task of
which only the document is known), and the listing that is searched for it page
by page while further operations shift it: an operation is at the place that the number
of newer retained ones gives it. The service answers late, wrongly or
with a failure, and the process may die at any step. In `services`: one
process with a file, a text and a recall, three calls in all and two faults.

### What memory is told, and tells

`DraftProjection` follows `draftMemoryProjection()`: two texts, cut to their own
limits and then, by binary search, to the limit of the whole as JSON. A
character is its weight in UTF-8 and in JSON, so that a cut may fall inside one
and escapes may make a short text too long. The limits are scaled down; that the body is not enough and the
subject has to be fitted, or the draft refused, needs tighter proportions than
the constants of the code have, and is checked with these.
`RecalledEvidence` follows `boundedMailboxMemoryEvidence()`: who speaks in an entry
of recall (a mail may imitate an event; an edit of a draft may be the agent's), which of equal entries
is kept, and which still fit.

`OwnerObservations` follows `MailboxOwnerMemoryInputs.prepare`: before a model is
asked, the owner's statements up to a cutoff are gone through in pages, in the
order of their creation, and each is added to its thread, unless it is there, and
observed at once. The creation time is the start of the statement's
transaction, so a statement can appear behind others, or behind the cursor. An
advisory lock held by a database session keeps two preparers apart. Two
instances: two statements in two threads with two preparers, and three in pages
of one with one preparer, so that a page is full, not full and empty. Two
statements that do not know of each other may be observed in either order; `CorrectionsComeLater`
speaks of those where the later was begun after the earlier was visible. The second instance,
`Pages`, has variables of its own. A page is a set of statements that is gone through from its
first, and `observed` the sequence of what was observed at a time. In neither instance is a
database session lost: section 12 tells what happens then.

## 6. Agent work

`AgentWork` follows the embedded assistant on one activity. Each transaction of
`PostgresAgentJobStore`, `AgentProposalStore` and the owner's repository is a step;
between them a consumer remembers the attempt and the run it claimed, and a
deferral, a redelivery or a crash may come in between. The model may answer any
plan in `Shapes`: which keys it proposes, of which it is unsure, and which needs
which. What becomes of an authorised action is that of `PolicyExecution`; here it
settles in any order. Recovery mail of the product itself is a kind of mail that
is never evaluated. In `services`: two consumers, two action keys, three
attempts of the job, two runs, one queued delivery, one fault and one change of
authority: enough for a decision, its review with a correction, an answer and
a retry, raced by a second delivery of the same attempt.

`WorkHistory` has the methods of `AgentWorkStore` with the triggers behind
them, over one activity with two actions and three runs: continuation, retry,
evidence, verification and the events that the memory gets. `createRun` takes a run with
any trigger and `appendEvent` any event, as they do in the code, so that the
guarantees are those of the methods that compare: which run `createContinuation` was given
(`continues`) and whether an event was written with the evidence (`proven`) are history.
An activity is resolved or acknowledged only when nothing of it is open (`NothingOpen`,
`drizzle/0015:141-148`). `MaxRecords` bounds the runs and the events together in `MCOwnerControl`, since no method
relates them: three runs, of which the last might continue the first; two with one event; or one with two,
for both actions or twice for one.

## 7. Conversations and tasks

`Conversations` follows two messages of the owner, to a mailbox and to the global
conversation, or both to the latter. `PostBegin` and `PostCommit` are two steps, because the
creation time and the mailboxes that a message is fanned out to are read before
it commits; `Claim`, `Prepare`, `Complete`, `Fail`, `Expire` and `Retry` are what happens to a turn;
`Backfill` goes by creation times behind a watermark. The owner-context
gate makes a turn wait for what the owner said before. Two consumers, one
mailbox, a budget of two failures for the three of the code, and one fault:
a crash, a slow lease, a memory outage, a retry or a deletion.

`AgentTasks` follows two tasks of one owner with two executors, a limit of one
lease at a time and two attempts for the five of the code. Recovery, cancellation and
changes of authority race with what the executors report. `reports` is the table
`agent_task_reports`, with the attempt that each row ended: the request id of a command names its run
and its kind, as `MastraAutomaticTaskAdapter` makes it, and one that is on record answers with its
snapshot. An executor whose answer is lost says the same again, and after a result that was refused or
not answered it reports a failure. A command may also be given up and arrive
later (`strays`), when the task was taken back, claimed anew or finished. The tasks that await
verification have their order in `awaiting`, a set of pairs of which the first came before the second,
as `ORDER BY updated_at` has it. Production
runs only the recovery so far; the adapters and the store are modelled as they
will be used.

## 8. Authority and access

`AgentAuthority` has the revisions that everything an agent does is compared with:
connection, manager assignment, grant and ceiling, the owner's operations on
them, and consent, code and token families issued on that ground. Two connections
compete for one mailbox with four revisions in all and two generations of tokens:
the smallest in which a mailbox goes to another manager and back.

`Access` has two sessions, a sign-in, re-authentication or rotation between the
check of its password and its write, recovery tokens, and their mail. It has two
instances: in `owner_control` passwords change twice over two recovery tokens, and no
process fails; in `progress` two schedulers deliver one mail in two claims with
two faults.

`McpMutations` is one mutating tool call between journal, fence, provider and
verification, and the policy recovery that finds the same row open and takes it
over. Two calls, one on a draft, two executors and two faults.
`McpSessions` is the HTTP handler in steps from await to await, with at most one
session, two requests in flight and one for a session, so that each bound is met: two initialisations
of different identities, a call and a deletion.

## 9. Mailboxes, files and processes

`Onboarding` has three requests of two owners, of whom one asks two providers
for the same address, with one revision of a default manager or deletion.
`TenantSessions` has two tenants, two callers, a pool of one and two
configurations: eviction, displacement and retirement all happen at a pool of one.
`MailboxReading` has an inbox as a set of mails that tell their age: a page begins where as many
are newer as its offset says. Its instance has two mailboxes of up to three mails of which one may leave,
and readers who go on with any cursor they were given. It takes it that each mail has its date and that the provider
lists the newest first. `AttachmentDelivery` has two downloads whose clients may leave at any step,
and one death of the process.

`TenantSessions` lets the configuration change at any time. A session that is held when it
changes stays open for its callers; one that was being initialised is closed as it comes
(`tenant-client.ts:156-165`), the only exception of `SessionsAreSound`.

`Retention` has two instances with variables of their own: one with two workers that
sweep tokens and their family in batches of one, and `Bodies` with a cached body, a send and a task.
`CodexCliModel` has two calls in one queue, and one kill timer for each: a call that is cut off twice
overwrites the first (`codex-cli-model.ts:165-171`), which then asks a process that has ended. `WorkerRuntime` has one worker, two
outages and two starts; the composition does not assume that anything of it ends.

Of `src/apps/web` the server's `streamResponse` ends a download; the rest of the
shell carries no protocol state.

## 10. Runs

| Run | Asks | Size |
|---|---|---|
| `policy_race`, `policy_safety` | may an action be carried out twice, without authority or under a false outcome; does it settle (section 2) | |
| `owner_control` | is at most one call made of a send, are the records of it true, is nothing honoured that was withdrawn, do histories agree, is a leased session open | 1.4 million states |
| `progress` | do limits and journals hold, does a report end its own attempt, once, and does all that was begun end: mail, recovery mail, tasks, tool calls | 0.24 million states |
| `services` | do evaluation and the services around it keep their promises: `PlansHold` for plans and dependencies, `AnswersAreTrue` for the memory client, the model, observations, recall and the reading of inboxes, `EvidenceIsTrue` for the projection of drafts, the length of what is recalled, and the second instances of retention (`Bodies`) and observations (`Pages`), `ReadinessIsTrue` for the worker, `SweepsAreSound` for retention, `MailboxesStand` for onboarding, `RequestsAreSound` for the MCP endpoint and downloads, `ServicesFinish` for what must end | 0.35 million states |
| `conversations` | does one reply stand, do turns settle, do messages reach every memory (section 7) | |
| `notification_delivery` | is a told device not told again, are attempts kept, does the notification say what became of its devices (section 4) | |
| `mailbox_memory_events` | is completed retained, is deleted gone, does only the current claim settle, is every event delivered (section 5) | |
| four runs that find a violation | section 12 | |

Deadlock is checked in `mailbox_memory_events`. In the others a system
that has settled may have nothing left to do: every action is settled, the
mail has arrived, the counted changes are used up.

`owner_control` takes handlers for interchangeable (`Symmetry`): no
definition tells two of them apart, and the run checks no liveness.

What bounds do: a count of faults, changes, crashes, starts or outages bounds the
environment and not the code, and each is as large as the longest story that the
code guards against needs (one fault to lose a claim and one more to fail after
it). Numbers of attempts are scaled down to the least that tells a first, a
middle and a last attempt apart. Two of each actor are enough wherever the
code relates actors through one row or one lock, since each step then sees its
own state and that row.

## 11. Fairness

Safety runs have none. `PolicyExecution` assumes that a delivered job goes on
(weak), that the queue keeps redelivering each unsettled action and that such a delivery
is taken up if that is possible again and again (strong: an account may be
paused and resumed), and that the 15-minute deadline passes; `DurablePolicyRecovery`
runs every five seconds. `ArrivalIngestion` assumes that each process ticks and
recovers on its timers and that a lease ends; `NotificationDelivery` that jobs
run, recovery sweeps and a claim ends. `MailboxMemoryEvents` assumes that a worker goes on, that a stray ends, as its
heartbeat or its 30-second deadline ends it, that delays and unrenewed claims run
out, that Hindsight finishes what it accepted unless it fails, and that a
deletion command goes on; that the mailbox is ready is the premise of its
liveness property and not assumed.

`AgentWork`: the dispatcher runs and marks, and a consumer that is delivered a
job goes on. `Conversations`: a post is committed, claims run out, a pending turn is
claimed, a consumer goes on, backfills and deliveries are repeated. `AgentTasks`:
executors go on and the sweep, every five seconds, comes to each task. `Access`: the
schedulers of the web process sweep and deliver on their interval. `McpMutations`:
a handler goes on until it answers or dies, and deliveries of recovery are made.
`HindsightMemory`: a call goes on, as every wait in it has a deadline, and the
service ends its operations. `CodexCliModel`: callers' timeouts and the kill timer
run out, and a killed process closes. `Retention`: passes go on, the lease runs
out, and a worker whose loop has ended is started again by whoever sees that it is
not ready. `AttachmentDelivery`: a client that stays takes what it is sent.

Nothing is assumed of Hypermail, of a push service or of the owner: no call has
to be answered in a particular way, no mailbox resumed. The number of failures and crashes is bounded, so a liveness
property says that the system recovers once they stop. A failing account is
polled with a growing delay in the code, which fairness abstracts.

## 12. Disagreements found

Four runs find what a document of the repository denies:

| Run | What the document says | What the code does |
|---|---|---|
| `policy_draft_edit` | no success "from reachability alone" (`docs/architecture.md:123`) | an interrupted draft edit is verified by reading the draft (`policy.ts:149`) |
| `policy_stale_cursor` | "absence is established only at provider end-of-list" (`docs/architecture.md:181`) | pages read before the effect count as read (`policy.ts:163`) |
| `memory_redeletion` | the command deletes the bank idempotently, and a reconnection may create a new one (`docs/runbooks/hindsight.md:57-58`) | the audit of the first deletion answers for the second bank (`mailbox-memory-deletion.ts:30`) |
| `agent_answer` | "Answer recorded; work resumed." (`agent/service.ts:89`) | the pending job still bears its old queue identity, and nothing offers it (`agent/postgres-repository.ts:170`) |

Each run checks one property, and its counterexample is the story. The first also bounds a theorem:
`VerifiedIsInPlace` and `PromiseKept` assume that no action edits a draft.

Further ones are found by a property of the model in a configuration of the project,
in place of its properties and with the change in brackets (for the third, `LaterMailIsNotBaseline`
without its last disjunct, `outlasted`):

| Property | Configuration | What is written | What the code does |
|---|---|---|---|
| `NoCallWhilePaused` | `PolicyRace` | "assert no mutation after pause commits" (`docs/release/deployed-fault-drill.md:57`) | the pause is read before the call, not with it |
| `CalledStaysClosed` | `OwnerControl` | a dispatch is never treated as proven undispatched (`docs/contracts/hypermail.md:64`) | reconciling an older rejected approval reopens the draft (`drafts/postgres-repository.ts:52`) |
| `LaterMailIsNotBaseline` | `Progress` | baseline identities are projected before completion (`docs/architecture.md:65`) | a slow holder of a lapsed lease records later mail as baseline (`ingestion.ts:69`) |
| `FailedCanBeRetried` | `AgentAnswer` | a failed item that is not retrying can be retried | `requestRetry` compares with the canonical revision and updates by the legacy version, which a failure leaves behind: always a conflict (`activity/postgres-repository.ts:143-144`) |
| `ReconnectedAnswers` | `Conversations` | a reconnected mailbox starts over (`docs/runbooks/hindsight.md:58`) | a turn waits for ever for an owner message whose event was cancelled (`conversation-store.ts:275-285`) |
| `ReadinessRecovers` | of `WorkerRuntime` alone: `FairSpec`, `MaxOutages = 1`, `MaxRuns = 1`, no deadlock | readiness recovers after the database was restarted (`docs/release/deployed-fault-drill.md:34`) | a loop that ended is not begun again (`runtime.ts:119-123`) |
| `ReplaysForget` | `Services` | replayed reports do not retain action identifiers (`docs/retention.md`) | the snapshot of the report that named them is kept as it is (`lifecycle/postgres-store.ts:133-138`) |
| `SourceIsDeleted` | `Services` | "deleted on completion, failure, or cancellation" (`attachments.ts:49`) | who leaves while the file is being opened is not heard (`attachments.ts:69`, `server.ts:56`) |
| `CorrectionsComeLater` | `Services` (`MaxLosses = 1`) | "later corrections in other threads must be applied later" (`mailbox-memory-inputs.ts:42`) | the lock goes with its database session, and its holder goes on to append and observe until it unlocks |

Met while reading, without a configuration: after an activity was acknowledged, a late handler's
question opens its work again and nothing aggregates it, so an action may wait there over one that
was given up (section 13); an action that failed or was cancelled keeps its activity from ever being
resolved, whatever retried it (`drizzle/0015:143`); `appendEvent` stores an `action_verified`
event of a caller without evidence, beside the rule that only a readback verifies (`agent-work-store.ts:276`), and
`createRun` a run that calls itself an answer or a retry; updating the configuration of a
tenant client while a session initialises closes the session its callers wait
for (`tenant-client.ts:109`; no caller in production); a tool call may answer
success while recovery settled its row otherwise, and its run stays `running` after a
crash; journaled actions on drafts are not settled by recovery; rotating a password leaves recovery
tokens open; the payload of an approved send that
ended as unknown may be purged, after which it cannot be reconciled; a call
to the model without a signal that hangs holds up all others; the repository of
the web application allows `disconnected` to become `paused`, which
`lifecycleTransitions` does not; `inbox()` answers a cursor that does not
advance when a provider reports more and lists nothing.

## 13. Proofs

Twenty-three modules have their safety proved for every value of the constants that
their assumptions allow; the tables name the theorem and the property it is about. TLC checked each
inductive invariant on the small instances before it was proved. The proofs of components that
share a composition are in one module: `ServicesProofs` for those of `OwnerServices` and
`WorkServices`, `HostProofs` for those of `HostServices` and for notifications. What a
theorem says of two components, it says under the specifications of both
(`Access!Spec /\ Tasks!Spec => []Consistent`): their invariants need nothing of each other.

### Policy execution

`PolicyExecutionProofs` proves, for any sets of actions, executors, mailboxes
and activities and any bounds, every safety property that `policy_race` and `policy_safety`
check, and the parts of them that are worth a name:

| Theorem | Property |
|---|---|
| `TypeCorrect` | `TypeOK` |
| `SentAtMostOnce` | `AtMostOnce` |
| `CancelledUntouched` | `CancelledIsUntouched` |
| `IncorrectIsReported` | `IncorrectNeedsReport` |
| `OutcomesAreFinal` | `FirstOutcomeStands` |
| `StartsAreAuthorised` | `StartsUnderAuthority` |
| `ResolvedIsVerified` | `ResolvedMeansVerified` |
| `CrossingPauses` | `CrossingPausesOnce` |
| `VerifiedIsInPlace` | `VerifiedMeansInPlace`, if no action edits a draft |
| `OutcomesTrue` | `OutcomesAreTrue`, if no action edits a draft |
| `PromiseKept` | `KeepsPromise`, if no action edits a draft |

Assumptions: the two named in the module (`ActionsAssumption`,
`BoundsAssumption`), which TLC evaluates in every run, and `NoDraftEdits` where
the table says so. The set of actions is finite, as the rows of a table are; only
`CrossingPausesOnce` needs that, to count the samples of a window.

`AtMostOnce` is not inductive: it says nothing about the executor that is about
to call. The proof strengthens it in layers, each invariant under `Next` given
the ones below it.

1. `Control` - with `TypeOK`: a busy executor has an action; before the fence it has used no
   attempt; one about to call has an attempt left; an outcome is there when it is to be recorded.
2. `Exclusive` - the executor between fence and report *owns* its action: no other does, the
   action has left `authorized` and is not cancelled, and an owner about to call finds it
   untouched; so do actions still authorized, and cancelled ones. The compare-and-set in the
   fence is the one place where ownership begins, which is why the theorem needs no bound on
   executors.
3. `Witnessed` - whoever claims provider confirmation, in its locals or in a row, and every
   recorded `incorrect`, has the `reported` column behind it; a report is never taken back.
4. `Verified` - a success that is about to be recorded, or was, has the mailbox in place,
   because an effect is never undone in the model and readback looks at it.

The action properties follow from the step itself and these layers. The
refinement maps each action to one of `MutationPromise` or to a stutter; `Land`
is possible only once because of `Exclusive`.

### Mailbox memory

`MailboxMemoryProofs` proves, for any events, documents and workers and any
bounds, every safety property that `mailbox_memory_events` checks and their parts, from
`MemoryAssumption` alone:

| Theorem | Property | Inductive part |
|---|---|---|
| `TypeCorrect` | `TypeOK` | with `Position`: a worker at a document has one left |
| `SettledByOne` | `OneWorkerSettles` | `Fences`: a fence is never ahead of the generation, and no two workers have the same fence for one event |
| `Settled` | `SettledIsFinal` | none: the statements themselves ask for `pending` or `processing` |
| `CompletedIsRetained` | `CompletedWasRetained` | `RetainedSoFar`: what workers, their remembered results and completed operations stand for was retained |
| `StaysEmpty`, `BankIsTrue` | `DisabledStaysEmpty`, `BankTellsTruth` | `Erased`, on `Quiet` |
| `SubmitsNothing` | `DisabledSubmitsNothing` | `Quiet`: while a command runs every worker is down, and a disabled mailbox has only workers at rest |

`Quiet` is where the condition that the workers are stopped enters: it holds
for a disabled mailbox because nothing was under way when it was disabled and
`claim` takes only events of ready mailboxes.

### Approved sending

`ApprovedSendProofs`, from `SetsAssumption`:

| Theorem | Property |
|---|---|
| `JournalTrue` | `StoriesAgree`: what the journal says of an approval happened, whichever one a reconcile names |
| `TypeCorrect` | `TypeOK` |
| `OutcomesTrue` | `SendOutcomesAreTrue` |
| `FlowsApart` | `OneFlowPerDraft` |
| `CalledAtMostOnce` | `CalledOnce` |
| `PromiseKept` | `KeepsPromise`, the refinement of `SendOnce` |

All hold of every behaviour, whichever approval a reconcile names; where a property is
false after an older approval settled the draft (section 12) it says so by `mistaken`, and the
proof has the part of the invariant about the draft's outcome under the same condition. The
refinement holds up to that step. The argument has two halves. `StoriesAgree` relates, for each
approval by itself, its journal row, the calls made for it, what the provider delivered and what
handlers believe of it: one handler at most may still call for it, and a rejected one is
*dead*, neither called nor to be called. `DraftSound` relates the approvals of one
draft: a consumed approval holds the draft in `sending` at its version, or is dead, or was settled by the
proof with which the draft is sent, and no two are consumed for one version. An editable
draft therefore has only dead approvals behind it, and a new call
finds no earlier one. `VersionsCounted` bounds the version by the edits and the approvals behind it.

### Arrival ingestion and notifications

`ArrivalIngestionProofs`, from the assumptions of its module:

| Theorem | Property | Inductive part |
|---|---|---|
| `TypeCorrect` | `TypeOK` | `OffersCounted`: while a job is unmarked its offers are failures or workers about to mark it, and afterwards those that may still follow are counted beforehand |
| `QuietAndQueued` | `ExistingMailIsQuiet`, `DispatchedIsQueued` | `ArrivedFirst`: nothing is listed, recorded or cut off before it arrived, and the cutoff lies behind what existed |
| `ArrivalsSound` | `ArrivalsAreSound` | `HeldAlone`: who is in a baseline holds the lease, which has not lapsed, and no cutoff is set; or a baseline has outlasted its lease, which is for good (`OutlastedForGood`) |

`HostProofs`, from `DeliveryAssumption`:

| Theorem | Property | Inductive part |
|---|---|---|
| `TypeCorrect` | `TypeOK` | `Position`: an open attempt is the last of its device, and a job sends under one on record |
| `NotificationsTrue` | `NotificationsAreSound` | `SettledIsQuiet`: no target of a settled notification is pending or claimed |
| `AttemptsKept` | `HistoryStands` | both of these |

### Agent work

`AgentWorkProofs`, from `PlansAssumption` and `BoundsAssumption`:

| Theorem | Property |
|---|---|
| `TypeCorrect` | `TypeOK` |
| `PlansSound` | `Sound`, the inductive invariant |
| `PlansAlwaysHold` | `PlansHold` |
| `DecisionsKept` | `FirstDecisionStands` |

`Sound` says of the rows of an activity that whatever was authorised rests on
verified work (`RestsOnVerified`), that what a proposal has come to tells who decided over it
(`Decided`: a correction has a superseded twin, an unsure proposal that is ready was approved),
and that nothing waits over what was given up (`NothingWaits`). A transaction is a
function of the rows taken as one value, so each is a lemma about the value it commits.
The attempt to prove the last one has shown that it holds only until the activity is
acknowledged. A handler whose delivery comes late may
ask a question of an acknowledged activity; its work is open again and is not
aggregated, so a failed dependency no longer blocks what waits on it.
`NothingWaitsOnFailure` is stated accordingly.

### Conversations

`ConversationsProofs`, from `SetsAssumption` and `LimitsAssumption`:

| Theorem | Property |
|---|---|
| `InvHolds` | `Inv`: `TypeOK`, `Posted`, `ClockCounts`, `Published` |
| `RepliesHeld` | `RepliesStand` |

`RepliesStand` needs that a turn that is running has no reply (`Published`) and that a turn
comes with a committed message (`Posted`). That the clock stays within its type rests on
`ClockCounts`: it is as many as the posts begun. That a page of a backfill is never empty and has
a last message is proved by `LeastNatural`, from the well-foundedness of the natural numbers:
some message is the oldest that is due, and none is before it.

### The owner's services

`ServicesProofs`, from `AccessAssumption`, `ServicesAssumption` and `WorkAssumption`:

| Theorem | Property | Inductive part |
|---|---|---|
| `AccessStaysCurrent` | `AccessIsCurrent` | `AccessInv` and `AuthorityInv` |
| `RefusalIsFinal` | `RefusedStaysRefused` | `AuthorityInv` |
| `WorkStaysConsistent` | `Consistent` | `AccessInv` and `TasksInv` |
| `ReportsStayHonest` | `ReportsAreHonest` | `TasksInv` and `ReportsInv` |
| `JournalKeepsTellingTruth` | `JournalTellsTruth` | `CallsInv` |
| `SessionsStaySound` | `SessionsAreSound` | `TenantsInv` |
| `HistoryStaysAgreed` | `HistoryAgrees` | `HistoryInv` |

`AccessInv` has `CredentialsInv`: an active login came in by the password of now,
a recovery changes the password, so each link that was consumed is older than it, and an open link is
younger than every consumed one. `MailInv` bounds the mails: what was handed over of a
mail, and the schedulers that are about to hand it over, are together no more than its attempts.

`AuthorityInv` is about revisions that only grow. `SettingsInv` ties the latest grant to the
manager it was given to and to its approval, and every change of the settings
`Advances` them: what a token rests on does not change without its revision. `TokensInv` says that
each token names a vector of revisions that was *reached*, none of it ahead of the settings, and that a
refresh token presented twice has ended its family. A token that is
refused therefore differs from the settings in a revision, and no later step takes one back.

`TasksInv` has `RowsHeld`: an executor between the lock on a task and the storing of its lease
finds the task pending and nobody else at it; `RoomHeld`: who is admitted holds the owner's lock,
the leases counted then still leave room, and no second executor is admitted; and `Ordered`: the
tasks that await verification are in one order. `ReportsInv` is about commands in
four parts: a row of a report ended the attempt it names, which is over (`RowsSound`); an attempt has one
row (`ReportedOnce`), since the first ends the lease that a second would need; a command under way belongs
to an attempt that began (`StraysSound`); and what an executor was told is refused is of an
attempt that is over without such a row, or cannot be reported any more, and stays so (`CommandsSound`).

`CallsInv` relates the row of a tool call, what the provider was asked and did, and where the
handler and the deliveries are: only who moved the row to `executing` asks, nobody who verifies finds it before
that, and the answer of a handler rests on the row. `TenantsInv` counts: the
references of a session are as many as the callers that hold it, a session that is out of the pool is closed,
closing, or waits for its last reference (`SessionsKept`), and who uses one has waited for it to be initialised
(`UsedAreReady`). `HistoryInv` says that a run which `createContinuation` stored follows
the one before it as its trigger asks (`Continued`), whatever runs others created, and that the state of an action
follows from its record.

### The services of the hosts

`HostProofs`, from `HostAssumption`:

| Theorem | Property | Inductive part |
|---|---|---|
| `ReadinessStaysTrue` | `ReadinessIsTrue` | `WorkerInv`: a scheduler is reported from the moment the loops run until one ends, and handlers run between start and drain on an open database |
| `SweepsStaySound` | `SweepsAreSound` | `SweepsInv`: what was swept of a task belongs to one that was reported |
| `MailboxesKeepStanding` | `MailboxesStand` | `MailboxesInv`: who is about to project an account found it ready at the provider, and the leases on a tenant are its requests under way |
| `RequestsStaySound` | `RequestsAreSound` | `EndpointInv` and `DownloadsInv` |

`EndpointInv` counts what the handler counts: reservations are the initialisations that
wait, requests in flight those that are served, of the endpoint and of each session
(`EndpointCounted`). Counters are then sizes of sets of requests, and the bounds follow from
the checks that a request makes in the step in which it is counted. `Placed`
says where each request is, and `Begun` that the request by which a listed session was
initialised was served, or still is, and holds no reservation any more: a
deletion that waits cannot free a place twice. `DownloadsInv` says that a
download has its lease from the fetch until it is released, and its file while it may be read.

`AnswersStayTrue` is `AnswersAreTrue`, five invariants together:

| Theorem | About | Inductive part |
|---|---|---|
| `MemoryTellsTruth` | `HindsightMemory` | `MemoryInv`: a call beyond the gate has found the bank with its mission (`cached` never runs ahead of it), waits for an operation on its own document, and is done when its document is there; what a completed operation retained is there |
| `ModelAnswersWhole` | `CodexCliModel` | `ModelInv`: the line names no call twice, and one that has begun leaves none before it that is not done; a call's flags tell whether it was cut off, and one that was has no text |
| `CorrectionsStand` | `OwnerObservations` | `ObservingInv`: who holds the lock has observed all that is due up to his cursor except what is left of his page; what is observed had everything before it observed that was visible when it was begun |
| `RecallSpeaksTruly` | `RecalledEvidence` | `RecallInv`: an entry that was passed over is known by its id or did not fit, and will not, since the length only grows |
| `ReadingSkipsNothing` | `MailboxReading` | `ReadingInv`: unless mail left, whatever was there when reading began was told or lies at or behind the offset of its mailbox; unless mail arrived, whatever was told lies before it |

`CorrectionsStand` proves `OwnerIsHeard`, which says this of every state before a
session is lost; `MaxLosses` need not be zero for it. These theorems speak for all constants, hence also for the
instances `Bodies` and `Pages` of the runs, which are the modules `Retention` and
`OwnerObservations` with other variables. Several of the lemmas are about numbers: a finite set of them has a
least and a largest (`LeastOf`, `LargestOf`), and a set without its least is
smaller.

An instance of a module that EXTENDS `FiniteSets` has a `Cardinality` of its own for the
prover; a lemma for each of them (`TasksCount`, `EndpointCounts`) says that it is the same number.

### What the proofs changed in the model

- `awaiting` in `AgentTasks` was a sequence; it is the order itself, a set of pairs, which
  is all that the sweep reads of it.
- `OwnerServices`, `WorkServices` and `HostServices` were parts of the `MC...` modules; the
  two instances of `Retention` shared variables.
- Updates in `McpMutations` and `Access` that nested one `@` in another are written out.
- The inboxes of `MailboxReading`, the pages of `OwnerObservations` and the listing of `HindsightMemory`
  were sequences of which only places are compared; they are sets with the number of what is newer, or
  before. What a reader of an inbox was told is written where mail arrives and leaves.
- The bounds of `RecalledEvidence` are `KeptIsEnough`, which is proved, and `LengthIsWhole`, which
  says that the length is the sum of what is kept.
- `BankTellsTruth` includes `TypeOK`, and `AnswersAreTrue` and `EvidenceIsTrue` are two
  properties, of which the first is proved.
- `MaxGeneration` is at least one: a family begins with a token.
- `Aggregate` in `NotificationDelivery` had a `CASE` whose guards overlap, which leaves its value
  open where several hold; it is now the chain of conditions of the code.
- `Dependents` in `AgentWork` is the least set that is closed under dependencies,
  which is what the recursive query answers, and `NextRun` one more than the runs there are,
  as the sequence is in the code.
- `NothingWaitsOnFailure` has the condition named above.
- That reconcile names the latest approval and that a baseline ends within its lease were
  assumptions; the model takes any, and `mistaken` and `outlasted` mark in the properties what rested on them.
- Composite properties (`PlansHold`, `SendOutcomesAreTrue`, `OneFlowPerDraft`, `ArrivalsAreSound`,
  `NotificationsAreSound`, `RepliesStand`) are stated in the module they are about, and
  `TypeOK` is a conjunction of named parts.
- Sets that are rows of tables or processes are assumed to be finite where something is
  counted: `Actions`, `Approvals`, `Devices`, `Workers`, `Requests`.

### What stays with TLC

`DraftProjection` and `LengthIsWhole` of `RecalledEvidence`: both are about
sums over sequences, so their invariants are inductions over data. `CorrectionsComeLater` once a database
session was lost, which is false (section 12). `KeepsPromise` and `OutcomesAreTrue` of policy execution
where actions edit drafts: there they are false, and section 12 tells how. Every liveness property and whatever needs `ENABLED`, which the prover does
not handle. Induction over data, in its usual form, since the theorems for
it take an operator the installed back ends cannot instantiate; `LeastNatural` is a way round
where the least counterexample is a number. No module declares a RECURSIVE operator.

## 14. Not modelled

- Prompts and what a language model answers: it may be any decision the schema
  allows, and where that matters a small set of plans stands for it.
- Screens, routing, service worker, logging, metrics, backup and deployment: they
  keep no protocol state. The Hermes connector is a client in Python that the
  release notes keep disabled.
- Encryption, formatting, validation of payloads, PKCE, redirects, client
  registration and rate limits, which only refuse.
- The limit of a hundred actions to a sweep of `DurablePolicyRecovery`
  (`apps/worker/src/policy.ts:51`): it is ordered by the time of authorisation, so that a hundred
  actions that never settle would starve those behind them. The model has one action that
  recovery must reach. Likewise the limit of a hundred tasks to `reconcileVerifiedActions`
  (`packages/db/src/agent-task-store.ts:79`), by the time of their last change: a hundred tasks whose actions
  are never verified would keep later ones from completion. `VerifiedCompletes` speaks of fewer.
- Mail that arrives around a lost poll beyond the recent window
  (`ingestion.ts:80`): `docs/release/rollout.md:61` grants that it is lost. The
  instance keeps the window as large as what arrives.
- Creation and discarding of drafts, the other tools of the Hypermail client, the
  compatibility leases of its pool, the default of a manager's modes, and a device that another user
  registers again.
- The transition tables of `packages/contracts` are modelled where a store calls them; `schema.ts` as the
  states, keys and defaults of the tables that the modules use.

## 15. Plan

Done: all modules of the tables above, their compositions, and the proofs of section 13.
Left, in this order:

1. A composition of `AgentWork` with `PolicyExecution`, in which dependencies wait
   for actions that are carried out, and of `Conversations` with `MailboxMemoryEvents`.
2. One abstract lease, a claim that expires and is taken over under a higher generation, of which mailbox
   memory, notifications, conversations, tasks and recovery mail are instances.
3. A second owner for `NotificationDelivery`, and a sweep of policy recovery with its limit.

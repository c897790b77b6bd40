--------------------------- MODULE ApprovedSend ---------------------------
(***************************************************************************)
(* Sending one draft after the owner's approval: the draft's own approval  *)
(* flow (apps/web/src/drafts), the flow of a send that an agent requested  *)
(* (apps/web/src/send-requests), the submission journal both share         *)
(* (packages/send) and the transport that calls send_email and looks for   *)
(* the message in Sent (packages/hypermail/src/approved-send.ts).          *)
(*                                                                         *)
(* An approval is identified with the send request it belongs to, if any.  *)
(* A handler is one HTTP request being served by a web process: a confirm  *)
(* or a reconcile.  A database transaction, or a statement outside one, is *)
(* one step; a handler may die between two steps.                          *)
(***************************************************************************)
EXTENDS Integers, FiniteSets

CONSTANTS
    OwnerApprovals, \* approvals that the owner prepares from a draft
    Requests,       \* approvals of requests by distinct agent connections
    Handlers,       \* concurrent confirm and reconcile requests
    MaxVersion,     \* bound: revisions of the draft
    MaxCrashes      \* bound: handlers that die or settle the draft for an older approval

Approvals == OwnerApprovals \cup Requests

ASSUME SetsAssumption ==
    /\ IsFiniteSet(Approvals) /\ OwnerApprovals \cap Requests = {}
    /\ MaxVersion \in Nat \ {0} /\ MaxCrashes \in Nat

VARIABLES
    draft,      \* app.drafts: state and version
    approval,   \* app.send_approvals.state ("none": not inserted)
    approvedAt, \* app.send_approvals.draft_version; also of the request
    lapsed,     \* app.send_approvals.expires_at has passed
    request,    \* app.public_mcp_send_requests.state
    overdue,    \* app.public_mcp_send_requests.expires_at has passed
    action,     \* agent_authorized_actions.state of the request's action
    submission, \* app.approved_send_submissions.state
    reference,  \* app.approved_send_submissions.provider_reference_type
    started,    \* app.approved_send_submissions.started_at IS NOT NULL
    stale,      \* dispatched more than 120 seconds ago
    session,    \* the owner has a live session of the last five minutes
    pc, job, version, reply,    \* one handler's locals
    crashes,
    mistaken,   \* history: an older approval's outcome settled the draft
    calls,      \* provider: send_email calls made for an approval
    delivered   \* provider: the message of an approval went out

approvals == <<approval, approvedAt, lapsed>>
requests == <<request, overdue, action>>
journal == <<submission, reference, started, stale>>
locals == <<pc, job, version, reply>>
provider == <<calls, delivered>>
vars == <<draft, approvals, requests, journal, session, locals, crashes, mistaken, provider>>

Editable == draft.state \in {"editing", "failed"}
Recorded == {"reported", "unknown"}
Open == {"pending", "dispatching"} \cup Recorded
Active == {"pending_owner_approval", "sending", "unverifiable"}
NoApproval == "none"

Init ==
    /\ draft = [state |-> "editing", version |-> 1]
    /\ approval = [p \in Approvals |-> "none"]
    /\ approvedAt = [p \in Approvals |-> 0]
    /\ lapsed = [p \in Approvals |-> FALSE]
    /\ request = [r \in Requests |-> "none"]
    /\ overdue = [r \in Requests |-> FALSE]
    /\ action = [r \in Requests |-> "none"]
    /\ submission = [p \in Approvals |-> "none"]
    /\ reference = [p \in Approvals |-> "none"]
    /\ started = [p \in Approvals |-> FALSE]
    /\ stale = [p \in Approvals |-> FALSE]
    /\ session = TRUE
    /\ pc = [h \in Handlers |-> "idle"]
    /\ job = [h \in Handlers |-> NoApproval]
    /\ version = [h \in Handlers |-> 0]
    /\ reply = [h \in Handlers |-> "none"]
    /\ crashes = 0
    /\ mistaken = FALSE
    /\ calls = [p \in Approvals |-> 0]
    /\ delivered = [p \in Approvals |-> FALSE]

-----------------------------------------------------------------------------
(* The draft and the requests for it. *)

DraftBecomes(state) == draft' = [state |-> state, version |-> draft.version + 1]

\* editDraftInTransaction, by the owner or an agent.
EditDraft ==
    /\ Editable
    /\ draft.version < MaxVersion
    /\ DraftBecomes("editing")
    /\ UNCHANGED <<approvals, requests, journal, session, locals, crashes, mistaken, provider>>

\* request_send_email: refused while the owner is approving this version.
RequestUnchecked(r) ==          \* a fault: competing approvals are not looked for
    /\ request[r] = "none"
    /\ Editable
    /\ request' = [request EXCEPT ![r] = "pending_owner_approval"]
    /\ approvedAt' = [approvedAt EXCEPT ![r] = draft.version]
    /\ UNCHANGED <<draft, approval, lapsed, overdue, action, journal, session,
                   locals, crashes, mistaken, provider>>
Competing(p) == approval[p] = "pending" /\ ~lapsed[p] /\ approvedAt[p] = draft.version
RequestSend(r) ==
    /\ request[r] = "none"
    /\ Editable
    /\ \A p \in OwnerApprovals : ~Competing(p)
    /\ request' = [request EXCEPT ![r] = "pending_owner_approval"]
    /\ approvedAt' = [approvedAt EXCEPT ![r] = draft.version]
    /\ UNCHANGED <<draft, approval, lapsed, overdue, action, journal, session,
                   locals, crashes, mistaken, provider>>

\* createApproval: refused while a request for this version is in hand.
CreateApproval(p) ==
    /\ approval[p] = "none"
    /\ Editable
    /\ \A r \in Requests : ~(request[r] \in Active /\ approvedAt[r] = draft.version)
    /\ approval' = [approval EXCEPT ![p] = "pending"]
    /\ approvedAt' = [approvedAt EXCEPT ![p] = draft.version]
    /\ UNCHANGED <<draft, lapsed, requests, journal, session, locals, crashes, mistaken, provider>>

\* expire(): any owner operation that finds the request overdue settles it.
Expire(r) ==
    /\ approval' = [approval EXCEPT ![r] = IF @ = "pending" THEN "expired" ELSE @]
    /\ request' = [request EXCEPT ![r] = "expired"]
    /\ UNCHANGED <<draft, approvedAt, lapsed, overdue, action, journal, session,
                   locals, crashes, mistaken, provider>>

FindOverdue(r) ==
    /\ request[r] = "pending_owner_approval"
    /\ overdue[r]
    /\ Expire(r)

Reject(r) ==
    /\ request[r] = "pending_owner_approval"
    /\ ~overdue[r]
    /\ approval' = [approval EXCEPT ![r] = IF @ = "pending" THEN "cancelled" ELSE @]
    /\ request' = [request EXCEPT ![r] = "rejected"]
    /\ UNCHANGED <<draft, approvedAt, lapsed, overdue, action, journal, session,
                   locals, crashes, mistaken, provider>>

\* begin(): the first preparation needs the draft as requested; a later one
\* renews an approval that is pending or expired.
Begin(r) ==
    /\ session
    /\ request[r] = "pending_owner_approval"
    /\ ~overdue[r]
    /\ \/ approval[r] = "none" /\ Editable /\ draft.version = approvedAt[r]
       \/ approval[r] \in {"pending", "expired"}
    /\ approval' = [approval EXCEPT ![r] = "pending"]
    /\ lapsed' = [lapsed EXCEPT ![r] = FALSE]
    /\ UNCHANGED <<draft, approvedAt, requests, journal, session, locals, crashes, mistaken,
                   provider>>

-----------------------------------------------------------------------------
(* The owner confirms: one transaction consumes the approval and writes the *)
(* journal, and provider I/O starts only after it committed.                *)

Start(h, p) ==
    /\ draft' = [draft EXCEPT !.state = "sending"]
    /\ approval' = [approval EXCEPT ![p] = "consumed"]
    /\ submission' = [submission EXCEPT ![p] = "pending"]
    /\ pc' = [pc EXCEPT ![h] = "submit"]
    /\ job' = [job EXCEPT ![h] = p]
    /\ version' = [version EXCEPT ![h] = draft.version]
    /\ UNCHANGED <<reply, approvedAt, lapsed, reference, started, stale, session,
                   crashes, mistaken, provider>>

\* claimApproval and the claim of a request.
Claim(h, p) ==
    /\ pc[h] = "idle" /\ session
    /\ approval[p] = "pending" /\ ~lapsed[p]
    /\ p \in Requests => request[p] = "pending_owner_approval" /\ ~overdue[p]
    /\ Editable /\ draft.version = approvedAt[p]
    /\ Start(h, p)
    /\ request' = [r \in Requests |-> IF r = p THEN "sending" ELSE request[r]]
    /\ action' = [r \in Requests |-> IF r = p THEN "executing" ELSE action[r]]
    /\ UNCHANGED overdue

\* A request is settled by the attempt to confirm it after its approval lapsed.
ClaimTooLate(r) ==
    /\ session
    /\ request[r] = "pending_owner_approval"
    /\ approval[r] # "none" /\ lapsed[r]
    /\ Expire(r)

-----------------------------------------------------------------------------
(* IntegratedApprovedSendProvider.submit and the network call. *)

Step(h, label, answer) ==
    /\ pc' = [pc EXCEPT ![h] = label]
    /\ reply' = [reply EXCEPT ![h] = answer]
    /\ UNCHANGED <<job, version>>

Leave(h) ==
    /\ pc' = [pc EXCEPT ![h] = "idle"]
    /\ job' = [job EXCEPT ![h] = NoApproval]
    /\ version' = [version EXCEPT ![h] = 0]
    /\ reply' = [reply EXCEPT ![h] = "none"]

\* The compare-and-set that precedes the call: it loses to an expiry that was
\* settled, to a lapsed approval and to a draft that moved on.
DispatchUnguarded(h) ==         \* a fault: UPDATE by approval_id alone
    LET p == job[h] IN
    /\ pc[h] = "submit"
    /\ submission' = [submission EXCEPT ![p] = "dispatching"]
    /\ started' = [started EXCEPT ![p] = TRUE]
    /\ Step(h, "call", "none")
    /\ UNCHANGED <<draft, approvals, requests, reference, stale, session, crashes, mistaken,
                   provider>>
Dispatch(h) ==
    LET p == job[h]
        won == /\ submission[p] = "pending"
               /\ approval[p] = "consumed" /\ ~lapsed[p]
               /\ draft = [state |-> "sending", version |-> approvedAt[p]]
    IN
    /\ pc[h] = "submit"
    /\ IF won
         THEN /\ submission' = [submission EXCEPT ![p] = "dispatching"]
              /\ started' = [started EXCEPT ![p] = TRUE]
              /\ Step(h, "call", "none")
         ELSE /\ Step(h, "status", "unknown")
              /\ UNCHANGED <<submission, started>>
    /\ UNCHANGED <<draft, approvals, requests, reference, stale, session, crashes, mistaken,
                   provider>>

\* The reply source is gone: refused before the network.
ReplySourceUnavailable(h) ==
    /\ pc[h] = "call"
    /\ Step(h, "record", "rejected")
    /\ UNCHANGED <<draft, approvals, requests, journal, session, crashes, mistaken, provider>>

CallProvider(h) ==
    /\ pc[h] = "call"
    /\ calls' = [calls EXCEPT ![job[h]] = @ + 1]
    /\ Step(h, "await", "none")
    /\ UNCHANGED <<draft, approvals, requests, journal, session, crashes, mistaken, delivered>>

\* The provider sends the message out, whether or not anyone still waits.
ProviderDelivers(p) ==
    /\ calls[p] > 0
    /\ ~delivered[p]
    /\ delivered' = [delivered EXCEPT ![p] = TRUE]
    /\ UNCHANGED <<draft, approvals, requests, journal, session, locals, crashes, mistaken, calls>>

\* sent:true with a native id (Gmail), without one (Graph), or with the SMTP
\* Message-ID (IMAP).
Acknowledged(h) ==
    /\ pc[h] = "await"
    /\ delivered[job[h]]
    /\ \E answer \in {"native_id", "internet_message_id", "no_reference"} :
          Step(h, "record", answer)
    /\ UNCHANGED <<draft, approvals, requests, journal, session, crashes, mistaken, provider>>

\* Thirty seconds pass, the call throws, or the answer is not sent:true.
Ambiguous(h) ==
    /\ pc[h] = "await"
    /\ Step(h, "record", "unknown")
    /\ UNCHANGED <<draft, approvals, requests, journal, session, crashes, mistaken, provider>>

\* The result is recorded only over 'dispatching', yet returned in any case.
RecordResult(h) ==
    LET p == job[h] IN
    /\ pc[h] = "record"
    /\ IF submission[p] # "dispatching" THEN UNCHANGED <<submission, reference>>
       ELSE /\ submission' = [submission EXCEPT ![p] =
                    IF reply[h] \in {"unknown", "rejected"} THEN reply[h]
                    ELSE "reported"]
            /\ reference' = [reference EXCEPT ![p] =
                    IF reply[h] \in {"native_id", "internet_message_id"}
                    THEN reply[h] ELSE "none"]
    /\ \/ reply[h] = "rejected" /\ Step(h, "settle", "rejected")
       \/ reply[h] = "unknown" /\ Step(h, "status", "unknown")
       \/ /\ reply[h] \notin {"rejected", "unknown"}
          /\ Step(h, IF p \in Requests THEN "report" ELSE "status", "none")
    /\ UNCHANGED <<draft, approvals, requests, started, stale, session, crashes, mistaken,
                   provider>>

\* markReported, for requests only.
MarkReported(h) ==
    LET r == job[h] IN
    /\ pc[h] = "report"
    /\ action' = [action EXCEPT ![r] =
            IF request[r] = "sending" /\ @ = "executing" THEN "verifying" ELSE @]
    /\ Step(h, "status", "none")
    /\ UNCHANGED <<draft, approvals, request, overdue, journal, session, crashes, mistaken,
                   provider>>

-----------------------------------------------------------------------------
(* status(): readback, which never submits. *)

\* reconcile: the draft must be at the expected version; the draft flow takes
\* any approval of the draft that has a submission, a request only its own.
Reconcile(h, p) ==
    /\ pc[h] = "idle"
    /\ submission[p] # "none"
    /\ p \in Requests => /\ request[p] \in {"sending", "unverifiable"}
                         /\ draft.version = approvedAt[p]
    /\ pc' = [pc EXCEPT ![h] = "status"]
    /\ job' = [job EXCEPT ![h] = p]
    /\ version' = [version EXCEPT ![h] = draft.version]
    /\ UNCHANGED <<reply, draft, approvals, requests, journal, session, crashes, mistaken,
                   provider>>

\* A stored proof answers at once.  An approval that expired before dispatch
\* proves that nothing was sent.
StatusBegin(h) ==
    LET p == job[h] IN
    /\ pc[h] = "status"
    /\ IF submission[p] = "verified"
         THEN Step(h, "settle", "verified") /\ UNCHANGED submission
         ELSE /\ Step(h, "read", "none")
              /\ submission' = [submission EXCEPT ![p] =
                    IF @ = "pending" /\ ~started[p] /\ approval[p] = "consumed"
                       /\ lapsed[p] THEN "rejected" ELSE @]
    /\ UNCHANGED <<draft, approvals, requests, reference, started, stale, session,
                   crashes, mistaken, provider>>

StatusRead(h) ==
    LET p == job[h] IN
    /\ pc[h] = "read"
    /\ \/ submission[p] = "pending" /\ Leave(h)
       \/ submission[p] = "rejected" /\ Step(h, "settle", "rejected")
       \/ submission[p] = "dispatching" /\ Step(h, "age", "unknown")
       \/ submission[p] \in Recorded \cup {"verified"} /\ Step(h, "verify", reference[p])
    /\ UNCHANGED <<draft, approvals, requests, journal, session, crashes, mistaken, provider>>

AgeOut(h) ==
    LET p == job[h] IN
    /\ pc[h] = "age"
    /\ submission' = [submission EXCEPT ![p] =
            IF @ = "dispatching" /\ stale[p] THEN "unknown" ELSE @]
    /\ Step(h, "settle", "unknown")
    /\ UNCHANGED <<draft, approvals, requests, reference, started, stale, session,
                   crashes, mistaken, provider>>

\* verify(): only a native identity that is found in Sent proves anything; the
\* listing may also fail, time out or not have the message yet.
FindInSent(h) ==
    /\ pc[h] = "verify"
    /\ \/ /\ reply[h] = "native_id" /\ delivered[job[h]]
          /\ Step(h, "save", "verified")
       \/ Step(h, "save", "unknown")
    /\ UNCHANGED <<draft, approvals, requests, journal, session, crashes, mistaken, provider>>

SaveStatus(h) ==
    LET p == job[h] IN
    /\ pc[h] = "save"
    /\ submission' = [submission EXCEPT ![p] = IF @ \in Recorded THEN reply[h] ELSE @]
    /\ Step(h, "settle", reply[h])
    /\ UNCHANGED <<draft, approvals, requests, reference, started, stale, session,
                   crashes, mistaken, provider>>

-----------------------------------------------------------------------------
(* The outcome reaches the draft and the request. *)

\* completeSend: the draft must still be at the version the handler holds, and
\* the journal must hold the proof.
CompleteSend(h) ==
    LET p == job[h]
        outcome == IF reply[h] = "verified" THEN "sent" ELSE "failed"
    IN
    /\ pc[h] = "settle"
    /\ p \in OwnerApprovals
    /\ IF /\ reply[h] \in {"verified", "rejected"}
          /\ draft = [state |-> "sending", version |-> version[h]]
          /\ submission[p] = reply[h]
         THEN /\ DraftBecomes(outcome)
              /\ IF draft.version = approvedAt[p] THEN UNCHANGED <<mistaken, crashes>>
                 ELSE /\ crashes < MaxCrashes
                      /\ crashes' = crashes + 1
                      /\ mistaken' = TRUE
         ELSE UNCHANGED <<draft, mistaken, crashes>>
    /\ Leave(h)
    /\ UNCHANGED <<approvals, requests, journal, session, provider>>

\* finish: from 'sending' or 'unverifiable', whatever the journal holds.
Verdict(answer) ==
    CASE answer = "verified" -> "approved"
      [] answer = "rejected" -> "failed"
      [] OTHER -> "unverifiable"
FinishAnyState(h) ==            \* a fault: the request's state is not looked at
    LET r == job[h]
        verdict == Verdict(reply[h])
    IN
    /\ pc[h] = "settle"
    /\ r \in Requests
    /\ request' = [request EXCEPT ![r] = verdict]
    /\ IF verdict = "unverifiable" THEN UNCHANGED <<action, draft>>
       ELSE /\ action' = [action EXCEPT ![r] =
                    IF verdict = "approved" THEN "verified" ELSE "failed"]
            /\ IF draft.state # "sending" THEN UNCHANGED draft
               ELSE DraftBecomes(IF verdict = "approved" THEN "sent" ELSE "failed")
    /\ Leave(h)
    /\ UNCHANGED <<approvals, overdue, journal, session, crashes, mistaken, provider>>
Finish(h) ==
    LET r == job[h]
        verdict == Verdict(reply[h])
    IN
    /\ pc[h] = "settle"
    /\ r \in Requests
    /\ IF request[r] \notin {"sending", "unverifiable"}
         THEN UNCHANGED <<request, action, draft>>
         ELSE /\ request' = [request EXCEPT ![r] = verdict]
              /\ IF verdict = "unverifiable" THEN UNCHANGED <<action, draft>>
                 ELSE /\ action' = [action EXCEPT ![r] =
                             IF verdict = "approved" THEN "verified" ELSE "failed"]
                      /\ IF draft.state # "sending" THEN UNCHANGED draft
                         ELSE DraftBecomes(IF verdict = "approved" THEN "sent"
                                           ELSE "failed")
    /\ Leave(h)
    /\ UNCHANGED <<approvals, overdue, journal, session, crashes, mistaken, provider>>

-----------------------------------------------------------------------------
(* The clock, the session and failures. *)

ApprovalLapses(p) ==
    /\ approval[p] \in {"pending", "consumed"}
    /\ ~lapsed[p]
    /\ lapsed' = [lapsed EXCEPT ![p] = TRUE]
    /\ UNCHANGED <<draft, approval, approvedAt, requests, journal, session, locals,
                   crashes, mistaken, provider>>

\* An approval expires with its request at the latest.
RequestLapses(r) ==
    /\ request[r] = "pending_owner_approval"
    /\ ~overdue[r]
    /\ overdue' = [overdue EXCEPT ![r] = TRUE]
    /\ lapsed' = [lapsed EXCEPT ![r] = TRUE]
    /\ UNCHANGED <<draft, approval, approvedAt, request, action, journal, session,
                   locals, crashes, mistaken, provider>>

DispatchAges(p) ==
    /\ submission[p] = "dispatching"
    /\ ~stale[p]
    /\ stale' = [stale EXCEPT ![p] = TRUE]
    /\ UNCHANGED <<draft, approvals, requests, submission, reference, started,
                   session, locals, crashes, mistaken, provider>>

\* Password rotation, sign-out or five minutes: prepared approvals stay.
SessionEnds ==
    /\ session
    /\ session' = FALSE
    /\ UNCHANGED <<draft, approvals, requests, journal, locals, crashes, mistaken, provider>>

\* Password recovery ends the sessions and expires what they prepared.
ResetPassword ==
    /\ session
    /\ session' = FALSE
    /\ approval' = [p \in Approvals |->
                        IF approval[p] = "pending" THEN "expired" ELSE approval[p]]
    /\ UNCHANGED <<draft, approvedAt, lapsed, requests, journal, locals, crashes, mistaken,
                   provider>>

SignIn ==
    /\ ~session
    /\ session' = TRUE
    /\ UNCHANGED <<draft, approvals, requests, journal, locals, crashes, mistaken, provider>>

Crash(h) ==
    /\ pc[h] # "idle"
    /\ crashes < MaxCrashes
    /\ crashes' = crashes + 1
    /\ Leave(h)
    /\ UNCHANGED <<draft, approvals, requests, journal, session, provider, mistaken>>

-----------------------------------------------------------------------------
Submit(h) ==
    \/ Dispatch(h) \/ ReplySourceUnavailable(h) \/ CallProvider(h)
    \/ Acknowledged(h) \/ Ambiguous(h) \/ RecordResult(h) \/ MarkReported(h)

Status(h) ==
    StatusBegin(h) \/ StatusRead(h) \/ AgeOut(h) \/ FindInSent(h) \/ SaveStatus(h)

Serve(h) == Submit(h) \/ Status(h) \/ CompleteSend(h) \/ Finish(h)

OwnerActs ==
    \/ EditDraft
    \/ \E p \in OwnerApprovals : CreateApproval(p)
    \/ \E r \in Requests : RequestSend(r) \/ Begin(r) \/ Reject(r)
    \/ \E r \in Requests : FindOverdue(r) \/ ClaimTooLate(r)

Environment ==
    \/ \E p \in Approvals : ApprovalLapses(p) \/ DispatchAges(p) \/ ProviderDelivers(p)
    \/ \E r \in Requests : RequestLapses(r)
    \/ SessionEnds \/ ResetPassword \/ SignIn

Next ==
    \/ OwnerActs
    \/ \E h \in Handlers, p \in Approvals : Claim(h, p) \/ Reconcile(h, p)
    \/ \E h \in Handlers : Serve(h) \/ Crash(h)
    \/ Environment

Spec == Init /\ [][Next]_vars

-----------------------------------------------------------------------------
(* Properties. *)

DraftTyped == draft \in [state : {"editing", "sending", "sent", "failed"}, version : Nat]
ApprovalsTyped ==
    /\ approval \in [Approvals -> {"none", "pending", "consumed", "expired", "cancelled"}]
    /\ approvedAt \in [Approvals -> Nat]
    /\ lapsed \in [Approvals -> BOOLEAN]
RequestsTyped ==
    /\ request \in [Requests -> {"none", "rejected", "expired", "approved", "failed"}
                                    \cup Active]
    /\ overdue \in [Requests -> BOOLEAN]
    /\ action \in [Requests -> {"none", "executing", "verifying", "verified", "failed"}]
JournalTyped ==
    /\ submission \in [Approvals -> {"none", "verified", "rejected"} \cup Open]
    /\ reference \in [Approvals -> {"none", "native_id", "internet_message_id"}]
    /\ started \in [Approvals -> BOOLEAN]
    /\ stale \in [Approvals -> BOOLEAN]
Places == {"idle", "submit", "call", "await", "record", "report", "status", "read",
           "age", "verify", "save", "settle"}
Results == {"unknown", "rejected", "native_id", "internet_message_id", "no_reference"}
LocalsTyped ==
    /\ pc \in [Handlers -> Places]
    /\ job \in [Handlers -> Approvals \cup {NoApproval}]
    /\ version \in [Handlers -> Nat]
    /\ reply \in [Handlers -> {"none", "verified"} \cup Results]
ProviderTyped ==
    /\ session \in BOOLEAN
    /\ crashes \in 0..MaxCrashes
    /\ mistaken \in BOOLEAN
    /\ calls \in [Approvals -> Nat]
    /\ delivered \in [Approvals -> BOOLEAN]

\* A draft gets no more versions than its edits and the settled approvals make.
VersionsBounded ==
    LET Versions == 0..MaxVersion + Cardinality(Approvals) IN
    /\ draft.version \in Versions \ {0}
    /\ \A p \in Approvals : approvedAt[p] \in Versions
    /\ \A h \in Handlers : version[h] \in Versions

TypeOK ==
    /\ DraftTyped /\ ApprovalsTyped /\ RequestsTyped /\ JournalTyped
    /\ LocalsTyped /\ ProviderTyped /\ VersionsBounded

\* A confirmation that finds its dispatch lost, an approval that lapses, a
\* crash, a second approval of the same draft, by the owner or through an
\* agent's request: the provider is called at most once for each approval, and
\* at most once for the draft as long as no older approval settled it.
Calls == UNION {{p} \X (1..calls[p]) : p \in Approvals}
CalledOnce ==
    /\ \A p \in Approvals : calls[p] <= 1
    /\ mistaken \/ Cardinality(Calls) <= 1

\* A submission that expired undispatched, or that was refused before the
\* network, is proof that the provider was never called.
RejectedMeansUncalled ==
    \A p \in Approvals : submission[p] = "rejected" => calls[p] = 0

\* 'Sent' and 'approved' are shown only for a message that went out, was found
\* by its native identity, and is recorded as verified.
SentMeansDelivered ==
    /\ draft.state = "sent" =>
          \E p \in Approvals : /\ submission[p] = "verified"
                               /\ delivered[p] /\ reference[p] = "native_id"
    /\ \A r \in Requests : request[r] = "approved" => delivered[r]

\* Request, its action, the journal and the draft tell one story, whatever the
\* order in which confirm and reconcile handlers finish.
RequestTellsOneStory ==
    \A r \in Requests :
        /\ request[r] = "approved" =>
              submission[r] = "verified" /\ action[r] = "verified" /\ draft.state = "sent"
        /\ request[r] = "failed" =>
              submission[r] # "verified" /\ action[r] = "failed" /\ calls[r] = 0
        /\ request[r] \in {"sending", "unverifiable"} =>
              /\ action[r] \in {"executing", "verifying"}
              /\ draft = [state |-> "sending", version |-> approvedAt[r]]

\* The owner's own approval of a version and an agent's request for it are
\* never open at the same time.
OneApprovalFlow ==
    \A p \in OwnerApprovals, r \in Requests :
        ~ /\ request[r] = "pending_owner_approval" /\ approvedAt[r] = draft.version
          /\ Editable /\ Competing(p)

\* A draft is never opened for editing, and so for another send, after a call
\* for it was made: a dispatch is not treated as proven undispatched.
CalledStaysClosed == \A p \in Approvals : calls[p] > 0 => ~Editable

\* Draft, request, action and journal say of a send what became of it: rejected
\* was never called, and sent and approved went out, whichever approval is
\* reconciled; and the four agree unless an older approval settled the draft.
SendOutcomesAreTrue ==
    TypeOK /\ RejectedMeansUncalled /\ SentMeansDelivered /\ (mistaken \/ RequestTellsOneStory)

\* No two approval flows are open for one version of a draft, and a draft that
\* the provider was called for is closed to edits and to another send, unless
\* the outcome of an older approval settled it.
OneFlowPerDraft == OneApprovalFlow /\ (mistaken \/ CalledStaysClosed)

Phase == CASE Editable -> "open"
           [] draft.state = "sending" -> "committed"
           [] OTHER -> "sent"

Promise == INSTANCE SendOnce WITH phase <- Phase, calls <- Cardinality(Calls)

\* The two flows together keep what SendOnce promises of one draft, until the
\* outcome of an older approval settles it: reconcile takes any approval of the
\* draft that has a submission, and completeSend compares no versions with it.
KeepsPromise ==
    Promise!Init /\ [][Promise!Next \/ mistaken']_<<Phase, Cardinality(Calls)>>
============================================================================

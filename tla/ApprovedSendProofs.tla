------------------------- MODULE ApprovedSendProofs -------------------------
(***************************************************************************)
(* Theorems about ApprovedSend for any number of approvals, requests and   *)
(* handlers: what the journal, the request and the draft say of a send is  *)
(* what became of it, and a draft is called for at most once, unless the   *)
(* outcome of an older approval settled it.                                *)
(***************************************************************************)
EXTENDS ApprovedSend, FiniteSetTheorems, TLAPS

-----------------------------------------------------------------------------
(* Types. *)

Typed ==
    DraftTyped /\ ApprovalsTyped /\ RequestsTyped /\ JournalTyped /\ LocalsTyped
    /\ ProviderTyped

\* A handler at work has a job, and an answer that fits its place.
PlacedAt(h) == pc[h] # "idle" =>
    /\ job[h] \in Approvals
    /\ pc[h] = "record" => reply[h] \in Results
    /\ pc[h] = "report" => job[h] \in Requests
    /\ pc[h] = "save" => reply[h] \in {"verified", "unknown"}
Placed == \A h \in Handlers : PlacedAt(h)

LEMMA BooleansTyped ==
    ASSUME NEW S, NEW f \in [S -> BOOLEAN], NEW x \in S, NEW b \in BOOLEAN
    PROVE  [f EXCEPT ![x] = b] \in [S -> BOOLEAN]
BY Zenon

LEMMA RequestsAreApprovals == \A r \in Requests : r \in Approvals
BY DEF Approvals

LEMMA DraftKept == ASSUME DraftTyped, UNCHANGED draft PROVE DraftTyped'
BY DEF DraftTyped
LEMMA ApprovalsKept == ASSUME ApprovalsTyped, UNCHANGED approvals PROVE ApprovalsTyped'
BY DEF ApprovalsTyped, approvals
LEMMA RequestsKept == ASSUME RequestsTyped, UNCHANGED requests PROVE RequestsTyped'
BY DEF RequestsTyped, requests
LEMMA JournalKept == ASSUME JournalTyped, UNCHANGED journal PROVE JournalTyped'
BY DEF JournalTyped, journal
LEMMA LocalsKept ==
    ASSUME LocalsTyped, Placed, UNCHANGED locals PROVE LocalsTyped' /\ Placed'
BY DEF LocalsTyped, Placed, PlacedAt, locals
LEMMA ProviderKept ==
    ASSUME ProviderTyped, UNCHANGED <<session, crashes, mistaken, provider>>
    PROVE  ProviderTyped'
BY DEF ProviderTyped, provider

LEMMA DraftBecame ==
    ASSUME DraftTyped, NEW s \in {"editing", "sent", "failed"}, DraftBecomes(s)
    PROVE  /\ DraftTyped'
           /\ draft'.state = s /\ draft'.version = draft.version + 1
BY DEF DraftTyped, DraftBecomes

\* A handler moves on with an answer, or is done.
LEMMA Moved ==
    ASSUME LocalsTyped, Placed, NEW h \in Handlers, NEW label \in Places,
           NEW answer \in {"none", "verified"} \cup Results, Step(h, label, answer),
           pc[h] # "idle", label \in {"record", "save"} => answer # "none",
           label = "record" => answer # "verified",
           label = "report" => job[h] \in Requests,
           label = "save" => answer \in {"verified", "unknown"}
    PROVE  LocalsTyped' /\ Placed'
<1>1. LocalsTyped'
  BY DEF LocalsTyped, Step
<1>2. ASSUME NEW g \in Handlers PROVE PlacedAt(g)'
  <2>1. CASE g = h
    BY <2>1 DEF LocalsTyped, Placed, PlacedAt, Step
  <2>2. CASE g # h
    BY <2>2 DEF LocalsTyped, Placed, PlacedAt, Step
  <2> QED BY <2>1, <2>2
<1> QED BY <1>1, <1>2 DEF Placed

LEMMA Left ==
    ASSUME LocalsTyped, Placed, NEW h \in Handlers, Leave(h) PROVE LocalsTyped' /\ Placed'
<1>1. LocalsTyped'
  BY DEF LocalsTyped, Leave, Places
<1> QED BY <1>1 DEF LocalsTyped, Placed, PlacedAt, Leave

LEMMA InitTyped == Init => Typed /\ Placed
<1> SUFFICES ASSUME Init PROVE Typed /\ Placed
  OBVIOUS
<1>1. /\ lapsed \in [Approvals -> BOOLEAN] /\ overdue \in [Requests -> BOOLEAN]
      /\ started \in [Approvals -> BOOLEAN] /\ stale \in [Approvals -> BOOLEAN]
      /\ delivered \in [Approvals -> BOOLEAN] /\ session \in BOOLEAN /\ mistaken \in BOOLEAN
  BY Zenon DEF Init
<1>2. DraftTyped /\ ApprovalsTyped /\ RequestsTyped
  BY <1>1 DEF Init, DraftTyped, ApprovalsTyped, RequestsTyped
<1>3. JournalTyped /\ LocalsTyped /\ ProviderTyped
  BY <1>1, SetsAssumption
     DEF Init, JournalTyped, LocalsTyped, ProviderTyped, Places
<1> QED BY <1>2, <1>3 DEF Init, Typed, Placed, PlacedAt

\* The steps, sorted by what they do to the journal: those of the owner and of
\* the clock, those that only move one handler on, and the rest.
QuietStep ==
    \/ EditDraft \/ SessionEnds \/ ResetPassword \/ SignIn
    \/ \E p \in OwnerApprovals : CreateApproval(p)
    \/ \E r \in Requests : \/ RequestSend(r) \/ Begin(r) \/ Reject(r) \/ FindOverdue(r)
                           \/ ClaimTooLate(r) \/ RequestLapses(r)
    \/ \E p \in Approvals : ApprovalLapses(p) \/ DispatchAges(p)
MovingStep(h) ==
    \/ ReplySourceUnavailable(h) \/ Acknowledged(h) \/ Ambiguous(h) \/ MarkReported(h)
    \/ StatusRead(h) \/ FindInSent(h) \/ CompleteSend(h) \/ Finish(h) \/ Crash(h)
    \/ \E p \in Approvals : Reconcile(h, p)
WritingStep(h) ==
    \/ Dispatch(h) \/ CallProvider(h) \/ RecordResult(h) \/ StatusBegin(h) \/ AgeOut(h)
    \/ SaveStatus(h) \/ \E p \in Approvals : Claim(h, p)

LEMMA StepCases ==
    ASSUME [Next]_vars
    PROVE  \/ QuietStep \/ \E h \in Handlers : MovingStep(h) \/ WritingStep(h)
           \/ \E p \in Approvals : ProviderDelivers(p)
           \/ UNCHANGED vars
BY DEF Next, OwnerActs, Environment, Serve, Submit, Status, QuietStep, MovingStep, WritingStep

LEMMA QuietTyped == ASSUME Typed, Placed, QuietStep PROVE Typed' /\ Placed'
<1> USE DEF QuietStep, EditDraft, SessionEnds, ResetPassword, SignIn, CreateApproval,
    RequestSend, Begin, Reject, FindOverdue, ClaimTooLate, Expire, RequestLapses, ApprovalLapses,
    DispatchAges
<1>t. DraftTyped /\ ApprovalsTyped /\ RequestsTyped /\ JournalTyped /\ LocalsTyped
      /\ ProviderTyped
  BY DEF Typed
<1>1. LocalsTyped' /\ Placed'
  BY <1>t, LocalsKept
<1>2. DraftTyped'
  <2>1. CASE EditDraft
    BY <1>t, <2>1, DraftBecame
  <2>2. CASE ~EditDraft
    BY <1>t, <2>2, DraftKept
  <2> QED BY <2>1, <2>2
<1>3. lapsed' \in [Approvals -> BOOLEAN]
  <2>1. lapsed' = lapsed \/ \E p \in Approvals, b \in BOOLEAN : lapsed' = [lapsed EXCEPT ![p] = b]
    BY RequestsAreApprovals DEF approvals
  <2> QED BY <1>t, <2>1, BooleansTyped DEF ApprovalsTyped
<1>4. approvedAt' \in [Approvals -> Nat]
  <2>1. approvedAt' = approvedAt
        \/ \E p \in Approvals : approvedAt' = [approvedAt EXCEPT ![p] = draft.version]
    BY RequestsAreApprovals DEF approvals, Approvals
  <2> QED BY <1>t, <2>1 DEF ApprovalsTyped, DraftTyped
<1>5. ApprovalsTyped'
  <2>1. approval' \in [Approvals -> {"none", "pending", "consumed", "expired", "cancelled"}]
    BY <1>t, RequestsAreApprovals DEF approvals, ApprovalsTyped
  <2> QED BY <1>3, <1>4, <2>1 DEF ApprovalsTyped
<1>6. RequestsTyped'
  <2>1. overdue' = overdue \/ \E r \in Requests : overdue' = [overdue EXCEPT ![r] = TRUE]
    BY DEF requests
  <2>2. overdue' \in [Requests -> BOOLEAN]
    BY <1>t, <2>1, BooleansTyped DEF RequestsTyped
  <2> QED BY <1>t, <2>2 DEF requests, RequestsTyped, Active
<1>7. JournalTyped'
  <2>1. stale' = stale \/ \E p \in Approvals : stale' = [stale EXCEPT ![p] = TRUE]
    BY DEF journal
  <2>2. stale' \in [Approvals -> BOOLEAN]
    BY <1>t, <2>1, BooleansTyped DEF JournalTyped
  <2> QED BY <1>t, <2>2 DEF journal, JournalTyped
<1>8. ProviderTyped'
  <2>1. UNCHANGED <<crashes, mistaken, provider>> /\ session' \in BOOLEAN
    BY <1>t DEF ProviderTyped
  <2> QED BY <1>t, <2>1 DEF ProviderTyped, provider
<1> QED BY <1>1, <1>2, <1>5, <1>6, <1>7, <1>8 DEF Typed

LEMMA MovingTyped ==
    ASSUME Typed, Placed, NEW h \in Handlers, MovingStep(h) PROVE Typed' /\ Placed'
<1> USE DEF MovingStep, ReplySourceUnavailable, Acknowledged, Ambiguous, MarkReported,
    StatusRead, FindInSent, CompleteSend, Finish, Crash, Reconcile
<1>t. DraftTyped /\ ApprovalsTyped /\ RequestsTyped /\ JournalTyped /\ LocalsTyped
      /\ ProviderTyped
  BY DEF Typed
<1>1. ApprovalsTyped' /\ JournalTyped'
  BY <1>t, ApprovalsKept, JournalKept
<1>2. ProviderTyped'
  <2>1. CASE Crash(h) \/ CompleteSend(h)
    <3>1. UNCHANGED <<session, provider>> /\ crashes' \in 0..MaxCrashes
      BY <1>t, <2>1, SetsAssumption DEF ProviderTyped
    <3>2. mistaken' = mistaken \/ mistaken' = TRUE
      BY <2>1
    <3>3. mistaken' \in BOOLEAN
      BY <1>t, <3>2 DEF ProviderTyped
    <3> QED BY <1>t, <3>1, <3>3 DEF ProviderTyped, provider
  <2>2. CASE ~Crash(h) /\ ~CompleteSend(h)
    BY <1>t, <2>2, ProviderKept DEF provider
  <2> QED BY <2>1, <2>2
<1>3. DraftTyped'
  <2>1. \/ UNCHANGED draft
        \/ \E s \in {"editing", "sent", "failed"} : DraftBecomes(s)
    OBVIOUS
  <2> QED BY <1>t, <2>1, DraftKept, DraftBecame
<1>4. RequestsTyped'
  BY <1>t DEF RequestsTyped, requests, Verdict, Active
<1>5. LocalsTyped' /\ Placed'
  <2>1. CASE CompleteSend(h) \/ Finish(h) \/ Crash(h)
    BY <1>t, <2>1, Left
  <2>2. CASE ReplySourceUnavailable(h) \/ Acknowledged(h) \/ Ambiguous(h) \/ FindInSent(h)
             \/ MarkReported(h)
    BY <1>t, <2>2, Moved DEF Results, Places
  <2>3. CASE StatusRead(h)
    <3>1. reference[job[h]] \in {"none", "verified"} \cup Results
      BY <1>t, <2>3 DEF Placed, PlacedAt, JournalTyped, Results
    <3> QED BY <1>t, <2>3, <3>1, Moved, Left DEF Results, Places
  <2>4. ASSUME NEW p \in Approvals, Reconcile(h, p) PROVE LocalsTyped' /\ Placed'
    BY <1>t, <2>4 DEF LocalsTyped, Placed, PlacedAt, Places, DraftTyped
  <2> QED BY <2>1, <2>2, <2>3, <2>4
<1> QED BY <1>1, <1>2, <1>3, <1>4, <1>5 DEF Typed

LEMMA WritingTyped ==
    ASSUME Typed, Placed, NEW h \in Handlers, WritingStep(h) PROVE Typed' /\ Placed'
<1>t. DraftTyped /\ ApprovalsTyped /\ RequestsTyped /\ JournalTyped /\ LocalsTyped
      /\ ProviderTyped
  BY DEF Typed
<1>1. ASSUME NEW p \in Approvals, Claim(h, p) PROVE Typed' /\ Placed'
  <2>1. ApprovalsTyped' /\ JournalTyped'
    BY <1>t, <1>1 DEF Claim, Start, ApprovalsTyped, JournalTyped, Open
  <2>2. LocalsTyped' /\ Placed'
    BY <1>t, <1>1 DEF Claim, Start, LocalsTyped, Placed, PlacedAt, Places, DraftTyped
  <2>3. DraftTyped' /\ RequestsTyped' /\ ProviderTyped'
    BY <1>t, <1>1 DEF Claim, Start, DraftTyped, RequestsTyped, ProviderTyped, Active, provider
  <2> QED BY <2>1, <2>2, <2>3 DEF Typed
<1>2. ASSUME Dispatch(h) \/ CallProvider(h) \/ RecordResult(h) \/ StatusBegin(h)
             \/ AgeOut(h) \/ SaveStatus(h)
      PROVE  Typed' /\ Placed'
  <2> USE DEF Dispatch, CallProvider, RecordResult, StatusBegin, AgeOut, SaveStatus
  <2>1. DraftTyped' /\ ApprovalsTyped' /\ RequestsTyped'
    BY <1>t, <1>2, DraftKept, ApprovalsKept, RequestsKept
  <2>p. job[h] \in Approvals /\ pc[h] # "idle"
    BY <1>2 DEF Placed, PlacedAt
  <2>2. LocalsTyped' /\ Placed'
    <3>1. CASE Dispatch(h) \/ CallProvider(h) \/ StatusBegin(h) \/ AgeOut(h)
      BY <1>t, <2>p, <3>1, Moved DEF Results, Places
    <3>2. CASE RecordResult(h) \/ SaveStatus(h)
      BY <1>t, <2>p, <3>2, Moved DEF Results, Places, Placed, PlacedAt
    <3> QED BY <1>2, <3>1, <3>2
  <2>3. JournalTyped'
    <3>1. started' = started \/ \E p \in Approvals : started' = [started EXCEPT ![p] = TRUE]
      BY <1>2, <2>p DEF journal
    <3>2. started' \in [Approvals -> BOOLEAN]
      BY <1>t, <3>1, BooleansTyped DEF JournalTyped
    <3>3. stale' = stale
      BY <1>2 DEF journal
    <3>4. /\ submission' \in [Approvals -> {"none", "verified", "rejected"} \cup Open]
          /\ reference' \in [Approvals -> {"none", "native_id", "internet_message_id"}]
      BY <1>t, <1>2, <2>p DEF journal, JournalTyped, Placed, PlacedAt, Results, Open, Recorded
    <3> QED BY <1>t, <3>2, <3>3, <3>4 DEF JournalTyped
  <2>4. ProviderTyped'
    BY <1>t, <1>2, <2>p DEF ProviderTyped, provider
  <2> QED BY <2>1, <2>2, <2>3, <2>4 DEF Typed
<1> QED BY <1>1, <1>2 DEF WritingStep

LEMMA StepTyped == Typed /\ Placed /\ [Next]_vars => Typed' /\ Placed'
<1> SUFFICES ASSUME Typed, Placed, [Next]_vars PROVE Typed' /\ Placed'
  OBVIOUS
<1>t. DraftTyped /\ ApprovalsTyped /\ RequestsTyped /\ JournalTyped /\ LocalsTyped
      /\ ProviderTyped
  BY DEF Typed
<1>1. ASSUME NEW p \in Approvals, ProviderDelivers(p) PROVE Typed' /\ Placed'
  <2>1. delivered' \in [Approvals -> BOOLEAN]
    BY <1>t, <1>1, BooleansTyped DEF ProviderDelivers, ProviderTyped
  <2> QED BY <1>t, <1>1, <2>1, DraftKept, ApprovalsKept, RequestsKept, JournalKept, LocalsKept
          DEF ProviderDelivers, ProviderTyped, Typed
<1>2. CASE UNCHANGED vars
  BY <1>t, <1>2, DraftKept, ApprovalsKept, RequestsKept, JournalKept, LocalsKept, ProviderKept
     DEF vars, Typed
<1> QED BY <1>1, <1>2, StepCases, QuietTyped, MovingTyped, WritingTyped

-----------------------------------------------------------------------------
(* The journal and the handlers, whichever approval a reconcile names. *)

Claimed(p) == submission[p] # "none"

\* No call was made for the approval, and none will be.
Dead(p) ==
    /\ calls[p] = 0
    /\ submission[p] \notin {"none", "pending"}
    /\ \A h \in Handlers : ~(pc[h] = "call" /\ job[h] = p)

\* What the journal says of an approval is what became of it.
EntrySound(p) ==
    /\ Claimed(p) <=> approval[p] = "consumed"
    /\ submission[p] \in {"none", "pending"} => ~started[p]
    /\ ~started[p] => calls[p] = 0
    /\ submission[p] = "rejected" => Dead(p)
    /\ submission[p] = "verified" => reference[p] = "native_id"
    /\ reference[p] # "none" =>
          delivered[p] /\ submission[p] \in Recorded \cup {"verified"}
    /\ delivered[p] => calls[p] > 0
    /\ calls[p] <= 1
JournalSound == \A p \in Approvals : EntrySound(p)

\* What a handler still believes of its job, which others may have settled
\* since it looked.
BeliefSound(h) ==
    LET p == job[h] IN
    /\ pc[h] # "idle" => Claimed(p)
    /\ pc[h] = "submit" => ~started[p] /\ submission[p] \in {"pending", "rejected"}
    /\ pc[h] = "call" => started[p] /\ calls[p] = 0
    /\ pc[h] = "record" /\ reply[h] \notin {"rejected", "unknown"} => delivered[p]
    /\ pc[h] \in {"record", "settle"} /\ reply[h] = "rejected" => Dead(p)
    /\ pc[h] = "verify" /\ reply[h] = "native_id" => reference[p] = "native_id"
    /\ pc[h] = "save" /\ reply[h] = "verified" => reference[p] = "native_id"
    /\ pc[h] = "settle" /\ reply[h] = "verified" => submission[p] = "verified"
BeliefsSound == \A h \in Handlers : BeliefSound(h)

\* One handler at most may still call for an approval.
OneCaller == \A h, g \in Handlers :
    pc[h] \in {"submit", "call"} /\ pc[g] \in {"submit", "call"} /\ job[h] = job[g]
        => h = g

StoriesAgree == Typed /\ Placed /\ JournalSound /\ BeliefsSound /\ OneCaller

\* What no step takes back: a settled fate, a proof and a delivery.
Lasting(p) ==
    /\ Dead(p) => Dead(p)'
    /\ Claimed(p) => Claimed(p)'
    /\ submission[p] = "verified" => submission'[p] = "verified"
    /\ reference[p] = "native_id" => reference'[p] = "native_id"
    /\ delivered[p] => delivered'[p]

\* A handler that does not move keeps its beliefs.
LEMMA BeliefKept ==
    ASSUME NEW h \in Handlers, pc[h] # "idle" => job[h] \in Approvals, BeliefSound(h),
           \A p \in Approvals : Lasting(p),
           pc'[h] = pc[h], job'[h] = job[h], reply'[h] = reply[h],
           pc[h] = "submit" => /\ ~started'[job[h]]
                               /\ submission'[job[h]] \in {"pending", "rejected"},
           pc[h] = "call" => started'[job[h]] /\ calls'[job[h]] = 0
    PROVE  BeliefSound(h)'
<1>1. CASE pc[h] = "idle"
  BY <1>1 DEF BeliefSound
<1>2. CASE pc[h] # "idle"
  <2> DEFINE p == job[h]
  <2>1. Lasting(p)
    BY <1>2
  <2>2. Claimed(p)' /\ (Dead(p) => Dead(p)')
    BY <1>2, <2>1 DEF Lasting, BeliefSound
  <2> QED BY <1>2, <2>1, <2>2 DEF Lasting, BeliefSound, Claimed, Dead
<1> QED BY <1>1, <1>2

\* Steps that leave the journal and the provider.
LEMMA QuietJournal ==
    ASSUME Typed, QuietStep
    PROVE  /\ UNCHANGED <<submission, reference, started, locals, provider>>
           /\ \A p \in Approvals : approval'[p] = "consumed" <=> approval[p] = "consumed"
BY RequestsAreApprovals DEF QuietStep, EditDraft, SessionEnds, ResetPassword, SignIn,
   CreateApproval, RequestSend, Begin, Reject, FindOverdue, ClaimTooLate, Expire,
   RequestLapses, ApprovalLapses, DispatchAges, approvals, journal, Typed, ApprovalsTyped,
   Approvals

LEMMA MovingJournal ==
    ASSUME Typed, NEW h \in Handlers, MovingStep(h)
    PROVE  /\ UNCHANGED <<approvals, journal, provider>>
           /\ \A g \in Handlers \ {h} :
                 pc'[g] = pc[g] /\ job'[g] = job[g] /\ reply'[g] = reply[g]
                 /\ version'[g] = version[g]
           /\ pc'[h] \notin {"submit", "call"}
BY DEF MovingStep, ReplySourceUnavailable, Acknowledged, Ambiguous, MarkReported, StatusRead,
   FindInSent, CompleteSend, Finish, Crash, Reconcile, Step, Leave, Typed, LocalsTyped

LEMMA StayStories ==
    ASSUME StoriesAgree, UNCHANGED <<submission, reference, started, locals, provider>>,
           \A p \in Approvals : approval'[p] = "consumed" <=> approval[p] = "consumed"
    PROVE  /\ JournalSound' /\ BeliefsSound' /\ OneCaller'
           /\ \A p \in Approvals : Lasting(p)
BY DEF StoriesAgree, JournalSound, EntrySound, BeliefsSound, BeliefSound, OneCaller,
   Lasting, Claimed, Dead, locals, provider

LEMMA MovingStories ==
    ASSUME StoriesAgree, NEW h \in Handlers, MovingStep(h)
    PROVE  /\ JournalSound' /\ BeliefsSound' /\ OneCaller'
           /\ \A p \in Approvals : Lasting(p)
<1>t. Typed /\ Placed /\ PlacedAt(h) /\ BeliefSound(h) /\ LocalsTyped
  BY DEF StoriesAgree, Typed, BeliefsSound, Placed
<1>m. /\ UNCHANGED <<approvals, journal, provider>>
      /\ \A g \in Handlers \ {h} :
                 pc'[g] = pc[g] /\ job'[g] = job[g] /\ reply'[g] = reply[g]
                 /\ version'[g] = version[g]
      /\ pc'[h] \notin {"submit", "call"}
  BY <1>t, MovingJournal
<1>1. \A p \in Approvals : Lasting(p)
  BY <1>m DEF Lasting, Claimed, Dead, approvals, journal, provider
<1>2. JournalSound'
  BY <1>m, <1>1 DEF StoriesAgree, JournalSound, EntrySound, Lasting, Claimed, approvals,
     journal, provider
<1>3. OneCaller'
  BY <1>m DEF StoriesAgree, OneCaller
<1>4. ASSUME NEW g \in Handlers \ {h} PROVE BeliefSound(g)'
  BY <1>m, <1>1, BeliefKept DEF StoriesAgree, BeliefsSound, BeliefSound, Placed, PlacedAt,
     journal, provider
<1>5. BeliefSound(h)'
  <2> USE <1>t, <1>m, <1>1 DEF journal, provider, Step, LocalsTyped
  <2>1. CASE CompleteSend(h) \/ Finish(h) \/ Crash(h) \/ (StatusRead(h) /\ Leave(h))
    BY <2>1 DEF CompleteSend, Finish, Crash, Leave, BeliefSound
  <2>2. CASE ReplySourceUnavailable(h)
    <3>1. /\ job[h] \in Approvals /\ pc'[h] = "record" /\ reply'[h] = "rejected"
          /\ job' = job /\ pc[h] = "call"
      BY <2>2 DEF ReplySourceUnavailable, PlacedAt
    <3>2. Claimed(job[h])' /\ Dead(job[h])'
      BY <3>1 DEF BeliefSound, Dead, Claimed, StoriesAgree, OneCaller, JournalSound, EntrySound
    <3> QED BY <3>1, <3>2 DEF BeliefSound
  <2>3. CASE Acknowledged(h) \/ Ambiguous(h) \/ MarkReported(h) \/ FindInSent(h)
    BY <2>3 DEF Acknowledged, Ambiguous, MarkReported, FindInSent, BeliefSound, PlacedAt, Claimed
  <2>4. CASE StatusRead(h) /\ ~Leave(h)
    <3>1. job[h] \in Approvals /\ EntrySound(job[h]) /\ Claimed(job[h])' /\ job' = job
      BY <2>4 DEF StatusRead, PlacedAt, StoriesAgree, JournalSound, BeliefSound, Claimed
    <3>2. submission[job[h]] = "rejected" => Dead(job[h])'
      BY <3>1 DEF EntrySound, Lasting
    <3> QED BY <2>4, <3>1, <3>2 DEF StatusRead, BeliefSound
  <2>5. ASSUME NEW p \in Approvals, Reconcile(h, p) PROVE BeliefSound(h)'
    BY <2>5 DEF Reconcile, BeliefSound, Claimed
  <2> QED BY <2>1, <2>2, <2>3, <2>4, <2>5 DEF MovingStep
<1> QED BY <1>1, <1>2, <1>3, <1>4, <1>5 DEF BeliefsSound

\* A step of h that writes the entry of its job p.
LEMMA EntryWritten ==
    ASSUME StoriesAgree, NEW h \in Handlers, NEW p \in Approvals, EntrySound(p)',
           BeliefSound(h)', \A q \in Approvals : Lasting(q),
           \A q \in Approvals \ {p} :
              /\ submission'[q] = submission[q] /\ reference'[q] = reference[q]
              /\ started'[q] = started[q] /\ approval'[q] = approval[q]
              /\ calls'[q] = calls[q] /\ delivered'[q] = delivered[q],
           \A g \in Handlers \ {h} :
              pc'[g] = pc[g] /\ job'[g] = job[g] /\ reply'[g] = reply[g],
           \A g \in Handlers \ {h} : job[g] = p =>
              /\ pc[g] = "submit" => /\ ~started'[p]
                                     /\ submission'[p] \in {"pending", "rejected"}
              /\ pc[g] = "call" => started'[p] /\ calls'[p] = 0,
           pc'[h] \in {"submit", "call"} =>
              /\ job'[h] = p
              /\ \A g \in Handlers \ {h} : ~(pc[g] \in {"submit", "call"} /\ job[g] = p)
    PROVE  JournalSound' /\ BeliefsSound' /\ OneCaller'
<1>1. ASSUME NEW q \in Approvals, q # p PROVE EntrySound(q)'
  BY <1>1 DEF StoriesAgree, JournalSound, EntrySound, Lasting, Claimed
<1>2. ASSUME NEW g \in Handlers, g # h PROVE BeliefSound(g)'
  <2>1. BeliefSound(g) /\ (pc[g] # "idle" => job[g] \in Approvals)
    BY DEF StoriesAgree, BeliefsSound, Placed, PlacedAt
  <2>2. /\ pc[g] = "submit" => /\ ~started'[job[g]]
                               /\ submission'[job[g]] \in {"pending", "rejected"}
        /\ pc[g] = "call" => started'[job[g]] /\ calls'[job[g]] = 0
    BY <1>2, <2>1 DEF BeliefSound
  <2> QED BY <1>2, <2>1, <2>2, BeliefKept
<1>3. OneCaller'
  BY DEF StoriesAgree, OneCaller
<1> QED BY <1>1, <1>2, <1>3 DEF JournalSound, BeliefsSound

LEMMA WritingStories ==
    ASSUME StoriesAgree, NEW h \in Handlers, WritingStep(h)
    PROVE  /\ JournalSound' /\ BeliefsSound' /\ OneCaller'
           /\ \A p \in Approvals : Lasting(p)
<1> USE DEF Lasting, Dead, Claimed
<1>t. /\ ApprovalsTyped /\ JournalTyped /\ LocalsTyped /\ ProviderTyped
      /\ PlacedAt(h) /\ BeliefSound(h)
      /\ \A p \in Approvals : EntrySound(p)
  BY DEF StoriesAgree, Typed, BeliefsSound, Placed, JournalSound
<1>1. ASSUME NEW p \in Approvals, Claim(h, p)
      PROVE  /\ JournalSound' /\ BeliefsSound' /\ OneCaller'
             /\ \A q \in Approvals : Lasting(q)
  <2>1. /\ submission[p] = "none" /\ ~started[p] /\ calls[p] = 0
        /\ reference[p] = "none" /\ ~delivered[p]
    BY <1>t, <1>1 DEF Claim, EntrySound, Recorded
  <2>2. /\ submission' = [submission EXCEPT ![p] = "pending"]
        /\ approval' = [approval EXCEPT ![p] = "consumed"]
        /\ pc' = [pc EXCEPT ![h] = "submit"] /\ job' = [job EXCEPT ![h] = p]
        /\ UNCHANGED <<reference, started, provider, reply>>
    BY <1>1 DEF Claim, Start
  <2> HIDE DEF Claim
  <2>3. EntrySound(p)' /\ BeliefSound(h)'
    BY <1>t, <2>1, <2>2 DEF EntrySound, BeliefSound, provider, JournalTyped, LocalsTyped,
       ApprovalsTyped
  <2>4. \A q \in Approvals : Lasting(q)
    BY <1>t, <2>1, <2>2 DEF provider, JournalTyped, LocalsTyped
  <2>5. \A g \in Handlers \ {h} : pc[g] # "idle" => job[g] # p
    BY <2>1 DEF StoriesAgree, BeliefsSound, BeliefSound
  <2>6. JournalSound' /\ BeliefsSound' /\ OneCaller'
    BY <1>t, <2>2, <2>3, <2>4, <2>5, EntryWritten DEF provider, JournalTyped, LocalsTyped,
       ApprovalsTyped
  <2> QED BY <2>4, <2>6
<1> DEFINE p == job[h]
<1>2. ASSUME Dispatch(h)
      PROVE  /\ JournalSound' /\ BeliefsSound' /\ OneCaller'
             /\ \A q \in Approvals : Lasting(q)
  <2>1. /\ p \in Approvals /\ pc[h] = "submit" /\ job' = job
        /\ UNCHANGED <<approval, reference, calls, delivered>>
        /\ \A g \in Handlers \ {h} : pc'[g] = pc[g] /\ reply'[g] = reply[g]
    BY <1>t, <1>2 DEF Dispatch, Step, PlacedAt, approvals, provider, LocalsTyped
  <2>2. \A g \in Handlers \ {h} : ~(pc[g] \in {"submit", "call"} /\ job[g] = p)
    BY <2>1 DEF StoriesAgree, OneCaller
  <2>3. CASE pc'[h] = "call"
    <3>1. /\ submission[p] = "pending" /\ submission' = [submission EXCEPT ![p] = "dispatching"]
          /\ started' = [started EXCEPT ![p] = TRUE]
      BY <1>t, <1>2, <2>3 DEF Dispatch, Step, LocalsTyped
    <3>2. ~started[p] /\ calls[p] = 0 /\ reference[p] = "none"
      BY <1>t, <2>1, <3>1 DEF EntrySound, Recorded
    <3>3. EntrySound(p)' /\ BeliefSound(h)'
      BY <1>t, <2>1, <2>3, <3>1, <3>2 DEF EntrySound, BeliefSound, JournalTyped
    <3>4. \A q \in Approvals : Lasting(q)
      BY <1>t, <2>1, <2>3, <3>1 DEF JournalTyped
    <3>5. \A q \in Approvals \ {p} :
             submission'[q] = submission[q] /\ started'[q] = started[q]
      BY <1>t, <3>1 DEF JournalTyped
    <3>6. \A g \in Handlers \ {h} : job[g] = p => pc[g] # "submit" /\ pc[g] # "call"
      BY <2>2
    <3>7. JournalSound' /\ BeliefsSound' /\ OneCaller'
      BY <2>1, <2>2, <3>3, <3>4, <3>5, <3>6, EntryWritten
    <3> QED BY <3>4, <3>7
  <2>4. CASE pc'[h] # "call"
    <3>1. pc'[h] = "status" /\ UNCHANGED <<submission, started>>
      BY <1>t, <1>2, <2>4 DEF Dispatch, Step, LocalsTyped
    <3>2. \A q \in Approvals : Lasting(q)
      BY <2>1, <3>1
    <3>3. EntrySound(p)' /\ BeliefSound(h)'
      BY <1>t, <2>1, <3>1, <3>2 DEF EntrySound, BeliefSound
    <3> QED BY <1>t, <2>1, <2>2, <3>1, <3>2, <3>3, EntryWritten
  <2> QED BY <2>3, <2>4
<1>3. ASSUME CallProvider(h)
      PROVE  /\ JournalSound' /\ BeliefsSound' /\ OneCaller'
             /\ \A q \in Approvals : Lasting(q)
  <2>1. /\ calls' = [calls EXCEPT ![p] = calls[p] + 1] /\ p \in Approvals
        /\ pc' = [pc EXCEPT ![h] = "await"] /\ reply' = [reply EXCEPT ![h] = "none"]
        /\ UNCHANGED <<approval, submission, reference, started, delivered, job>>
        /\ pc[h] = "call"
    BY <1>t, <1>3 DEF CallProvider, Step, approvals, journal, PlacedAt
  <2>2. /\ started[p] /\ calls[p] = 0 /\ submission[p] \notin {"none", "pending"}
        /\ submission[p] # "rejected"
    BY <1>t, <2>1 DEF BeliefSound, EntrySound
  <2>3. EntrySound(p)' /\ BeliefSound(h)'
    BY <1>t, <2>1, <2>2 DEF EntrySound, BeliefSound, ProviderTyped, LocalsTyped
  <2>4. \A q \in Approvals : Lasting(q)
    BY <1>t, <2>1, <2>2 DEF ProviderTyped, LocalsTyped
  <2>5. \A g \in Handlers \ {h} : ~(pc[g] \in {"submit", "call"} /\ job[g] = p)
    BY <2>1 DEF StoriesAgree, OneCaller
  <2>6. JournalSound' /\ BeliefsSound' /\ OneCaller'
    BY <1>t, <2>1, <2>3, <2>4, <2>5, EntryWritten DEF ProviderTyped, LocalsTyped
  <2> QED BY <2>4, <2>6
<1>4. ASSUME RecordResult(h) \/ StatusBegin(h) \/ AgeOut(h) \/ SaveStatus(h)
      PROVE  /\ JournalSound' /\ BeliefsSound' /\ OneCaller'
             /\ \A q \in Approvals : Lasting(q)
  <2>1. /\ p \in Approvals /\ pc[h] \in {"record", "status", "age", "save"} /\ job' = job
        /\ UNCHANGED <<approval, started, calls, delivered>>
        /\ \A q \in Approvals \ {p} :
              submission'[q] = submission[q] /\ reference'[q] = reference[q]
        /\ \A g \in Handlers \ {h} : pc'[g] = pc[g] /\ reply'[g] = reply[g]
        /\ pc'[h] \in {"settle", "status", "report", "read"}
    BY <1>t, <1>4 DEF RecordResult, StatusBegin, AgeOut, SaveStatus, Step, PlacedAt, journal,
       approvals, provider, LocalsTyped, JournalTyped
  <2>2. Claimed(p)
    BY <1>t, <2>1 DEF BeliefSound
  <2>3. /\ submission'[p] \in {"pending", "none"} => submission[p] = submission'[p]
        /\ submission[p] = "pending" => submission'[p] \in {"pending", "rejected"}
        /\ submission[p] = "rejected" => submission'[p] = "rejected"
        /\ submission[p] = "verified" => submission'[p] = "verified"
        /\ submission'[p] # "none"
    BY <1>t, <1>4, <2>1, <2>2 DEF RecordResult, StatusBegin, AgeOut, SaveStatus, PlacedAt,
       JournalTyped, Recorded, Results
  <2>4. reference[p] # "none" => reference'[p] = reference[p]
    BY <1>t, <1>4, <2>1 DEF RecordResult, StatusBegin, AgeOut, SaveStatus, EntrySound, Recorded
  <2>5. \A q \in Approvals : Lasting(q)
    BY <2>1, <2>3, <2>4
  <2>6. EntrySound(p)'
    <3>1. submission'[p] = "rejected" => Dead(p)'
      <4>1. CASE RecordResult(h) \/ SaveStatus(h) \/ AgeOut(h)
        BY <1>t, <2>1, <2>5, <4>1 DEF RecordResult, SaveStatus, AgeOut, PlacedAt, JournalTyped,
           EntrySound, BeliefSound, Recorded
      <4>2. CASE StatusBegin(h)
        <5>1. ASSUME submission[p] # "rejected", submission'[p] = "rejected"
              PROVE  ~started[p] /\ calls[p] = 0
          BY <1>t, <2>1, <4>2, <5>1 DEF StatusBegin, EntrySound, JournalTyped
        <5>2. ~started[p] => \A g \in Handlers : ~(pc[g] = "call" /\ job[g] = p)
          BY DEF StoriesAgree, BeliefsSound, BeliefSound
        <5> QED BY <1>t, <2>1, <2>5, <5>1, <5>2 DEF EntrySound
      <4> QED BY <1>4, <4>1, <4>2
    <3>2. submission'[p] = "verified" => reference'[p] = "native_id"
      BY <1>t, <1>4, <2>1, <2>4 DEF RecordResult, StatusBegin, AgeOut, SaveStatus, PlacedAt,
         EntrySound, BeliefSound, JournalTyped, Results, Recorded
    <3>3. reference'[p] # "none" =>
              delivered'[p] /\ submission'[p] \in Recorded \cup {"verified"}
      BY <1>t, <1>4, <2>1 DEF RecordResult, StatusBegin, AgeOut, SaveStatus, PlacedAt,
         EntrySound, BeliefSound, JournalTyped, Results, Recorded
    <3> QED BY <1>t, <2>1, <2>2, <2>3, <3>1, <3>2, <3>3 DEF EntrySound
  <2>7. BeliefSound(h)'
    <3>1. pc'[h] = "settle" /\ reply'[h] = "rejected" => Dead(p)'
      BY <1>t, <1>4, <2>1, <2>5 DEF RecordResult, StatusBegin, AgeOut, SaveStatus, Step,
         PlacedAt, BeliefSound, LocalsTyped
    <3>2. pc'[h] = "settle" /\ reply'[h] = "verified" => submission'[p] = "verified"
      BY <1>t, <1>4, <2>1 DEF RecordResult, StatusBegin, AgeOut, SaveStatus, Step,
         PlacedAt, BeliefSound, EntrySound, LocalsTyped, JournalTyped, Recorded
    <3> QED BY <2>1, <2>3, <3>1, <3>2 DEF BeliefSound
  <2>8. \A g \in Handlers \ {h} : job[g] = p =>
            /\ pc[g] = "submit" => ~started'[p] /\ submission'[p] \in {"pending", "rejected"}
            /\ pc[g] = "call" => started'[p] /\ calls'[p] = 0
    BY <2>1, <2>3 DEF StoriesAgree, BeliefsSound, BeliefSound
  <2>9. JournalSound' /\ BeliefsSound' /\ OneCaller'
    BY <2>1, <2>5, <2>6, <2>7, <2>8, EntryWritten
  <2> QED BY <2>5, <2>9
<1> QED BY <1>1, <1>2, <1>3, <1>4 DEF WritingStep

LEMMA InitStories == Init => StoriesAgree
BY InitTyped DEF Init, StoriesAgree, JournalSound, EntrySound, BeliefsSound, BeliefSound,
   OneCaller, Claimed

LEMMA StepStories ==
    StoriesAgree /\ [Next]_vars => StoriesAgree' /\ \A p \in Approvals : Lasting(p)
<1> SUFFICES ASSUME StoriesAgree, [Next]_vars
             PROVE  StoriesAgree' /\ \A p \in Approvals : Lasting(p)
  OBVIOUS
<1>t. Typed /\ Placed /\ Typed' /\ Placed'
  BY StepTyped DEF StoriesAgree
<1>1. ASSUME NEW p \in Approvals, ProviderDelivers(p)
      PROVE  /\ JournalSound' /\ BeliefsSound' /\ OneCaller'
             /\ \A q \in Approvals : Lasting(q)
  <2>1. /\ calls[p] > 0 /\ delivered'[p] /\ \A q \in Approvals : delivered[q] => delivered'[q]
        /\ \A q \in Approvals \ {p} : delivered'[q] = delivered[q]
        /\ UNCHANGED <<approval, submission, reference, started, pc, job, reply, calls>>
    BY <1>t, <1>1 DEF ProviderDelivers, Typed, ProviderTyped, approvals, journal, locals
  <2>2. \A q \in Approvals : Lasting(q)
    BY <2>1 DEF Lasting, Claimed, Dead
  <2>3. JournalSound' /\ OneCaller'
    BY <2>1, <2>2 DEF StoriesAgree, JournalSound, EntrySound, OneCaller, Claimed, Dead
  <2>4. BeliefsSound'
    BY <2>1, <2>2 DEF StoriesAgree, BeliefsSound, BeliefSound, Placed, PlacedAt, Claimed, Dead
  <2> QED BY <2>2, <2>3, <2>4
<1>2. CASE UNCHANGED vars
  BY <1>t, <1>2, StayStories DEF StoriesAgree, vars, approvals, journal
<1>3. CASE QuietStep
  BY <1>t, <1>3, StayStories, QuietJournal DEF StoriesAgree
<1> QED BY <1>t, <1>1, <1>2, <1>3, StepCases, MovingStories, WritingStories DEF StoriesAgree

\* The state keeps its shape, and what the journal says of an approval is what
\* became of it: a rejected one was never called for, a verified one went out
\* and was found by its native identity, none was called for twice.  This
\* holds whichever approval a reconcile names.
THEOREM JournalTrue == Spec => []StoriesAgree
<1>1. StoriesAgree /\ [Next]_vars => StoriesAgree'
  BY StepStories
<1> QED BY <1>1, InitStories, PTL DEF Spec

-----------------------------------------------------------------------------
(* The draft, its versions and the requests, whichever approval a reconcile  *)
(* names.                                                                    *)

\* How the draft comes to change.
Edited ==
    /\ Editable /\ draft.version < MaxVersion
    /\ draft'.state = "editing" /\ draft'.version = draft.version + 1
Committed(p) ==
    /\ Editable /\ ~Claimed(p) /\ Claimed(p)'
    /\ draft'.state = "sending" /\ draft'.version = draft.version
Concluded(h) ==
    /\ CompleteSend(h) \/ Finish(h)
    /\ job[h] \in Approvals /\ Claimed(job[h]) /\ draft.state = "sending"
    /\ draft'.version = draft.version + 1
    /\ \/ draft'.state = "sent" /\ submission[job[h]] = "verified"
       \/ draft'.state = "failed" /\ Dead(job[h])

LEMMA DraftSteps ==
    ASSUME StoriesAgree, [Next]_vars
    PROVE  \/ UNCHANGED draft
           \/ /\ UNCHANGED calls
              /\ Edited \/ (\E p \in Approvals : Committed(p))
                 \/ \E h \in Handlers : Concluded(h)
<1>t. /\ DraftTyped /\ RequestsTyped /\ JournalTyped
      /\ \A p \in Approvals : Claimed(p) <=> approval[p] = "consumed"
  BY DEF StoriesAgree, Typed, JournalSound, EntrySound
<1>1. CASE QuietStep
  BY <1>t, <1>1, DraftBecame DEF QuietStep, EditDraft, SessionEnds, ResetPassword, SignIn,
     CreateApproval, RequestSend, Begin, Reject, FindOverdue, ClaimTooLate, Expire,
     RequestLapses, ApprovalLapses, DispatchAges, Edited, provider
<1>2. ASSUME NEW h \in Handlers, MovingStep(h), ~UNCHANGED draft
      PROVE  UNCHANGED calls /\ Concluded(h)
  <2>1. /\ pc[h] = "settle" /\ UNCHANGED calls /\ (CompleteSend(h) \/ Finish(h))
    BY <1>2 DEF MovingStep, ReplySourceUnavailable, Acknowledged, Ambiguous, MarkReported,
       StatusRead, FindInSent, CompleteSend, Finish, Crash, Reconcile, provider
  <2>2. job[h] \in Approvals /\ Claimed(job[h]) /\ BeliefSound(h)
    BY <2>1 DEF StoriesAgree, Placed, PlacedAt, BeliefsSound, BeliefSound
  <2>3. CASE CompleteSend(h)
    BY <1>t, <1>2, <2>1, <2>2, <2>3, DraftBecame DEF CompleteSend, BeliefSound, Concluded
  <2>4. CASE Finish(h)
    BY <1>t, <1>2, <2>1, <2>2, <2>4, DraftBecame DEF Finish, Verdict, BeliefSound, Concluded
  <2> QED BY <2>1, <2>3, <2>4
<1>3. ASSUME NEW h \in Handlers, WritingStep(h)
      PROVE  UNCHANGED draft \/ (UNCHANGED calls /\ \E p \in Approvals : Committed(p))
  <2>1. ASSUME NEW p \in Approvals, Claim(h, p) PROVE UNCHANGED calls /\ Committed(p)
    BY <1>t, <2>1 DEF Claim, Start, Committed, Claimed, DraftTyped, JournalTyped, provider
  <2> QED BY <1>3, <2>1 DEF WritingStep, Dispatch, CallProvider, RecordResult, StatusBegin,
          AgeOut, SaveStatus
<1>4. CASE (\E p \in Approvals : ProviderDelivers(p)) \/ UNCHANGED vars
  BY <1>4 DEF ProviderDelivers, vars
<1> QED BY <1>1, <1>2, <1>3, <1>4, StepCases

\* Approvals and handlers hold versions that the draft has or had.
VersionsBehind ==
    /\ draft.version > 0
    /\ \A p \in Approvals : approvedAt[p] <= draft.version
    /\ \A h \in Handlers : version[h] <= draft.version

LEMMA StepBehind ==
    ASSUME StoriesAgree, VersionsBehind, [Next]_vars PROVE VersionsBehind'
<1>t. DraftTyped /\ ApprovalsTyped /\ LocalsTyped /\ DraftTyped'
  BY StepStories DEF StoriesAgree, Typed
<1>1. draft'.version >= draft.version
  BY <1>t, DraftSteps DEF Edited, Committed, Concluded, DraftTyped
<1>2. \A p \in Approvals : approvedAt'[p] \in {approvedAt[p], draft.version}
  <2>1. \/ approvedAt' = approvedAt
        \/ \E p \in Approvals : approvedAt' = [approvedAt EXCEPT ![p] = draft.version]
    BY StepCases, RequestsAreApprovals DEF Approvals, approvals, QuietStep, MovingStep, WritingStep, EditDraft, SessionEnds,
     ResetPassword, SignIn, CreateApproval, RequestSend, Begin, Reject, FindOverdue,
     ClaimTooLate, Expire, RequestLapses, ApprovalLapses, DispatchAges, Dispatch,
     CallProvider, RecordResult, StatusBegin, AgeOut, SaveStatus, Claim, Start,
     ReplySourceUnavailable, Acknowledged, Ambiguous, MarkReported, StatusRead, FindInSent,
     CompleteSend, Finish, Crash, Reconcile, ProviderDelivers, vars
  <2> QED BY <1>t, <2>1 DEF ApprovalsTyped
<1>3. \A h \in Handlers : version'[h] \in {version[h], draft.version, 0}
  <2>1. \/ version' = version
        \/ \E h \in Handlers : \E n \in {draft.version, 0} :
              version' = [version EXCEPT ![h] = n]
    BY StepCases DEF Leave, Step, locals, QuietStep, MovingStep, WritingStep, EditDraft, SessionEnds,
     ResetPassword, SignIn, CreateApproval, RequestSend, Begin, Reject, FindOverdue,
     ClaimTooLate, Expire, RequestLapses, ApprovalLapses, DispatchAges, Dispatch,
     CallProvider, RecordResult, StatusBegin, AgeOut, SaveStatus, Claim, Start,
     ReplySourceUnavailable, Acknowledged, Ambiguous, MarkReported, StatusRead, FindInSent,
     CompleteSend, Finish, Crash, Reconcile, ProviderDelivers, vars
  <2> QED BY <1>t, <2>1 DEF LocalsTyped
<1> QED BY <1>t, <1>1, <1>2, <1>3 DEF VersionsBehind, DraftTyped, ApprovalsTyped, LocalsTyped

\* Each version beyond the owner's edits was made by the outcome of a send, and
\* each send consumed an approval.
Consumed == {p \in Approvals : Claimed(p)}
VersionsCounted ==
    draft.version + (IF draft.state = "sending" THEN 1 ELSE 0)
        <= MaxVersion + Cardinality(Consumed)

LEMMA StepCounted ==
    ASSUME StoriesAgree, VersionsCounted, [Next]_vars PROVE VersionsCounted'
<1>t. DraftTyped /\ DraftTyped' /\ \A p \in Approvals : Lasting(p)
  BY StepStories DEF StoriesAgree, Typed
<1>f. /\ IsFiniteSet(Consumed) /\ IsFiniteSet(Consumed') /\ Consumed \subseteq Consumed'
      /\ Cardinality(Consumed) \in Nat /\ Cardinality(Consumed') \in Nat
  <2>1. Consumed \subseteq Consumed'
    BY <1>t DEF Consumed, Lasting
  <2> QED BY <2>1, SetsAssumption, FS_Subset, FS_CardinalityType DEF Consumed
<1>g. Cardinality(Consumed) <= Cardinality(Consumed')
  BY <1>f, FS_Subset
<1>n. MaxVersion \in Nat /\ draft.version \in Nat /\ draft'.version \in Nat
  BY <1>t, SetsAssumption DEF DraftTyped
<1>1. CASE UNCHANGED draft
  BY <1>f, <1>g, <1>n, <1>1 DEF VersionsCounted
<1>2. CASE Edited
  BY <1>f, <1>g, <1>n, <1>2 DEF Edited, VersionsCounted
<1>3. ASSUME NEW p \in Approvals, Committed(p) PROVE VersionsCounted'
  <2>1. p \notin Consumed /\ Consumed \cup {p} \subseteq Consumed'
    BY <1>f, <1>3 DEF Committed, Consumed
  <2>2. Cardinality(Consumed) + 1 <= Cardinality(Consumed')
    BY <1>f, <2>1, FS_AddElement, FS_Subset
  <2> QED BY <1>f, <1>n, <1>3, <2>2 DEF Committed, Editable, VersionsCounted
<1>4. ASSUME NEW h \in Handlers, Concluded(h) PROVE VersionsCounted'
  BY <1>f, <1>g, <1>n, <1>4 DEF Concluded, VersionsCounted
<1> QED BY <1>1, <1>2, <1>3, <1>4, DraftSteps

\* What is called sent or approved has its proof in the journal.
SentFound == draft.state = "sent" => \E p \in Approvals : submission[p] = "verified"
ApprovedFound == \A r \in Requests : request[r] = "approved" => submission[r] = "verified"

LEMMA StepFound ==
    ASSUME StoriesAgree, SentFound, ApprovedFound, [Next]_vars
    PROVE  SentFound' /\ ApprovedFound'
<1>t. RequestsTyped /\ \A p \in Approvals : Lasting(p)
  BY StepStories DEF StoriesAgree, Typed
<1>1. SentFound'
  BY <1>t, DraftSteps DEF SentFound, Lasting, Edited, Committed, Concluded
<1>2. ASSUME NEW r \in Requests, request'[r] = "approved", request[r] # "approved"
      PROVE  submission[r] = "verified"
  <2>1. CASE QuietStep
    BY <1>t, <1>2, <2>1 DEF QuietStep, EditDraft, SessionEnds, ResetPassword, SignIn,
       CreateApproval, RequestSend, Begin, Reject, FindOverdue, ClaimTooLate, Expire,
       RequestLapses, ApprovalLapses, DispatchAges, requests, RequestsTyped
  <2>2. ASSUME NEW h \in Handlers, WritingStep(h) PROVE FALSE
    BY <1>t, <1>2, <2>2 DEF WritingStep, Dispatch, CallProvider, RecordResult, StatusBegin,
       AgeOut, SaveStatus, Claim, requests, RequestsTyped
  <2>3. ASSUME NEW h \in Handlers, MovingStep(h), ~Finish(h) PROVE FALSE
    BY <1>t, <1>2, <2>3 DEF MovingStep, ReplySourceUnavailable, Acknowledged, Ambiguous,
       MarkReported, StatusRead, FindInSent, CompleteSend, Crash, Reconcile, requests
  <2>4. CASE (\E p \in Approvals : ProviderDelivers(p)) \/ UNCHANGED vars
    BY <1>2, <2>4 DEF ProviderDelivers, requests, vars
  <2>5. ASSUME NEW h \in Handlers, Finish(h) PROVE submission[r] = "verified"
    <3>1. job[h] = r /\ pc[h] = "settle" /\ reply[h] = "verified"
      BY <1>t, <1>2, <2>5 DEF Finish, Verdict, RequestsTyped
    <3> QED BY <3>1 DEF StoriesAgree, BeliefsSound, BeliefSound
  <2> QED BY <2>1, <2>2, <2>3, <2>4, <2>5, StepCases
<1>3. ApprovedFound'
  BY <1>t, <1>2, RequestsAreApprovals DEF ApprovedFound, Lasting
<1> QED BY <1>1, <1>3

\* The owner's own approval of a version and an agent's request for it.
Apart == \A p \in OwnerApprovals, r \in Requests :
    ~ /\ request[r] = "pending_owner_approval" /\ approvedAt[r] = draft.version
      /\ Competing(p)

LEMMA StepApart ==
    ASSUME StoriesAgree, VersionsBehind, Apart, [Next]_vars PROVE Apart'
<1> SUFFICES ASSUME StoriesAgree, VersionsBehind, Apart, [Next]_vars,
                    NEW p \in OwnerApprovals, NEW r \in Requests,
                    request'[r] = "pending_owner_approval", approvedAt'[r] = draft'.version,
                    Competing(p)'
             PROVE  FALSE
  BY DEF Apart
<1>t. /\ DraftTyped /\ ApprovalsTyped /\ RequestsTyped /\ p \in Approvals /\ r \in Approvals
      /\ \A q \in Requests : q # p /\ q \in Approvals
      /\ \A q \in OwnerApprovals : q # r /\ q \in Approvals
  BY SetsAssumption DEF StoriesAgree, Typed, Approvals
<1>v. approvedAt[p] <= draft.version
  BY <1>t DEF VersionsBehind
<1>a. ~ /\ request[r] = "pending_owner_approval" /\ approvedAt[r] = draft.version
        /\ Competing(p)
  BY DEF Apart
<1>1. CASE draft'.version = draft.version + 1
  <2>1. draft' # draft
    BY <1>t, <1>1 DEF DraftTyped
  <2>2. approvedAt' = approvedAt
    BY <2>1, StepCases DEF QuietStep, MovingStep, WritingStep, EditDraft, SessionEnds,
        ResetPassword, SignIn, CreateApproval, RequestSend, Begin, Reject, FindOverdue,
        ClaimTooLate, Expire, RequestLapses, ApprovalLapses, DispatchAges, Dispatch,
        CallProvider, RecordResult, StatusBegin, AgeOut, SaveStatus, Claim, Start,
        ReplySourceUnavailable, Acknowledged, Ambiguous, MarkReported, StatusRead, FindInSent,
        CompleteSend, Finish, Crash, Reconcile, ProviderDelivers, vars, approvals
  <2> QED BY <1>t, <1>v, <1>1, <2>2 DEF Competing, DraftTyped, ApprovalsTyped
<1>2. CASE draft'.version = draft.version
  <2>1. ASSUME RequestSend(r) PROVE FALSE
    BY <1>t, <1>2, <2>1 DEF RequestSend, Competing, ApprovalsTyped
  <2>2. ASSUME CreateApproval(p) PROVE FALSE
    BY <1>t, <1>2, <2>2 DEF CreateApproval, Active, requests, ApprovalsTyped
  <2>3. CASE ~RequestSend(r) /\ ~CreateApproval(p)
    <3>1. /\ approvedAt'[p] = approvedAt[p] /\ approvedAt'[r] = approvedAt[r]
          /\ approval'[p] = "pending" => approval[p] = "pending"
          /\ lapsed[p] => lapsed'[p]
          /\ request'[r] = "pending_owner_approval" => request[r] = "pending_owner_approval"
      <4>1. CASE QuietStep
        <5> USE <1>t, <4>1 DEF QuietStep, EditDraft, SessionEnds, ResetPassword, SignIn,
           CreateApproval, RequestSend, Begin, Reject, FindOverdue, ClaimTooLate, Expire,
           RequestLapses, ApprovalLapses, DispatchAges, approvals, requests
        <5>1. approvedAt'[p] = approvedAt[p] /\ approvedAt'[r] = approvedAt[r]
          BY <2>3 DEF ApprovalsTyped
        <5>2. approval'[p] = "pending" => approval[p] = "pending"
          BY <2>3 DEF ApprovalsTyped
        <5>3. lapsed[p] => lapsed'[p]
          BY DEF ApprovalsTyped
        <5>4. request'[r] = "pending_owner_approval" => request[r] = "pending_owner_approval"
          BY <2>3 DEF RequestsTyped
        <5> QED BY <5>1, <5>2, <5>3, <5>4
      <4>2. ASSUME NEW h \in Handlers, MovingStep(h) \/ WritingStep(h)
            PROVE  /\ approvedAt' = approvedAt /\ lapsed' = lapsed
                   /\ approval'[p] = "pending" => approval[p] = "pending"
                   /\ request'[r] = "pending_owner_approval"
                          => request[r] = "pending_owner_approval"
        BY <1>t, <4>2 DEF MovingStep, WritingStep, Dispatch, CallProvider, RecordResult,
           StatusBegin, AgeOut, SaveStatus, Claim, Start, ReplySourceUnavailable,
           Acknowledged, Ambiguous, MarkReported, StatusRead, FindInSent, CompleteSend,
           Finish, Verdict, Crash, Reconcile, approvals, requests, ApprovalsTyped, RequestsTyped
      <4>3. CASE (\E q \in Approvals : ProviderDelivers(q)) \/ UNCHANGED vars
        BY <4>3 DEF ProviderDelivers, vars, approvals, requests
      <4> QED BY <4>1, <4>2, <4>3, StepCases
    <3> QED BY <1>a, <1>2, <3>1 DEF Competing
  <2> QED BY <2>1, <2>2, <2>3
<1> QED BY <1>1, <1>2, DraftSteps DEF Edited, Committed, Concluded

\* Everything together.
Steady ==
    StoriesAgree /\ VersionsBehind /\ VersionsCounted /\ SentFound /\ ApprovedFound /\ Apart

LEMMA InitSteady == Init => Steady
<1> SUFFICES ASSUME Init PROVE Steady
  OBVIOUS
<1>1. Cardinality(Consumed) \in Nat
  BY SetsAssumption, FS_Subset, FS_CardinalityType DEF Consumed
<1>2. VersionsBehind /\ VersionsCounted
  BY <1>1, SetsAssumption DEF Init, VersionsBehind, VersionsCounted
<1>3. SentFound /\ ApprovedFound /\ Apart
  BY DEF Init, SentFound, ApprovedFound, Apart
<1> QED BY <1>2, <1>3, InitStories DEF Steady

LEMMA StepSteady == Steady /\ [Next]_vars => Steady'
BY StepStories, StepBehind, StepCounted, StepFound, StepApart DEF Steady

LEMMA AlwaysSteady == Spec => []Steady
BY InitSteady, StepSteady, PTL DEF Spec

LEMMA SteadyTyped == Steady => TypeOK
<1> SUFFICES ASSUME Steady PROVE VersionsBounded
  BY DEF Steady, StoriesAgree, Typed, TypeOK
<1>t. DraftTyped /\ ApprovalsTyped /\ LocalsTyped
  BY DEF Steady, StoriesAgree, Typed
<1>1. /\ Cardinality(Approvals) \in Nat /\ Cardinality(Consumed) \in Nat
      /\ Cardinality(Consumed) <= Cardinality(Approvals)
  BY SetsAssumption, FS_Subset, FS_CardinalityType DEF Consumed
<1>2. draft.version > 0 /\ draft.version <= MaxVersion + Cardinality(Approvals)
  BY <1>t, <1>1, SetsAssumption DEF Steady, VersionsBehind, VersionsCounted, DraftTyped
<1> QED BY <1>t, <1>1, <1>2, SetsAssumption
        DEF Steady, VersionsBehind, VersionsBounded, DraftTyped, ApprovalsTyped, LocalsTyped

\* The state keeps its shape, and a draft gets no more versions than its edits
\* and the settled approvals make, whichever approval a reconcile names.
THEOREM TypeCorrect == Spec => []TypeOK
BY AlwaysSteady, SteadyTyped, PTL

-----------------------------------------------------------------------------
(* The claims on the draft, as long as no older approval settled it. *)

InFlight(p) == draft.state = "sending" /\ draft.version = approvedAt[p]

\* An approval that was consumed holds the draft at its version, was settled
\* without a call, or was settled by the proof that the draft is sent.
ClaimSound(p) ==
    /\ Claimed(p) /\ approvedAt[p] = draft.version => draft.state = "sending"
    /\ Claimed(p) => \/ InFlight(p) \/ Dead(p)
                     \/ draft.state = "sent" /\ submission[p] = "verified"
ClaimsSound == \A p \in Approvals : ClaimSound(p)
ClaimedAlone == \A p, q \in Approvals :
    Claimed(p) /\ Claimed(q) /\ approvedAt[p] = approvedAt[q] => p = q
CalledAlone == \A p, q \in Approvals : calls[p] > 0 /\ calls[q] > 0 => p = q

RequestSound(r) ==
    /\ approval[r] = "consumed" <=>
          request[r] \in {"sending", "unverifiable", "approved", "failed"}
    /\ request[r] \in {"sending", "unverifiable"} =>
          action[r] \in {"executing", "verifying"} /\ InFlight(r)
    /\ request[r] = "approved" =>
          submission[r] = "verified" /\ action[r] = "verified" /\ draft.state = "sent"
    /\ request[r] = "failed" => Dead(r) /\ action[r] = "failed"
RequestsSound == \A r \in Requests : RequestSound(r)

DraftSound == ClaimsSound /\ ClaimedAlone /\ CalledAlone /\ RequestsSound

\* Facts about a state: which claims a draft's state allows.
LEMMA EditableClaims ==
    ASSUME StoriesAgree, DraftSound, Editable
    PROVE  /\ \A p \in Approvals : Claimed(p) => Dead(p) /\ approvedAt[p] # draft.version
           /\ \A r \in Requests : request[r] \notin {"sending", "unverifiable", "approved"}
BY DEF DraftSound, ClaimsSound, ClaimSound, RequestsSound, RequestSound, InFlight, Editable

LEMMA FlightAlone ==
    ASSUME StoriesAgree, DraftSound, NEW p \in Approvals, Claimed(p), InFlight(p)
    PROVE  /\ \A q \in Approvals : Claimed(q) /\ q # p => Dead(q) /\ approvedAt[q] # draft.version
           /\ \A r \in Requests : r # p =>
                  request[r] \notin {"sending", "unverifiable", "approved"}
<1>1. ASSUME NEW q \in Approvals, Claimed(q), q # p
      PROVE  Dead(q) /\ approvedAt[q] # draft.version
  BY <1>1 DEF DraftSound, ClaimsSound, ClaimSound, ClaimedAlone, InFlight
<1>2. ASSUME NEW r \in Requests, r # p
      PROVE  request[r] \notin {"sending", "unverifiable", "approved"}
  <2>1. r \in Approvals /\ (approval[r] = "consumed" <=> Claimed(r))
    BY RequestsAreApprovals DEF StoriesAgree, JournalSound, EntrySound
  <2> QED BY <1>1, <1>2, <2>1 DEF DraftSound, RequestsSound, RequestSound, InFlight
<1> QED BY <1>1, <1>2

\* Steps that leave the draft, and what concerns it of approvals and requests.
LEMMA DraftStands ==
    ASSUME StoriesAgree, DraftSound, \A p \in Approvals : Lasting(p),
           UNCHANGED draft,
           \A p \in Approvals :
               /\ Claimed(p)' <=> Claimed(p)
               /\ Claimed(p) => approvedAt'[p] = approvedAt[p]
               /\ approval'[p] = "consumed" <=> approval[p] = "consumed",
           \A r \in Requests :
               \/ request'[r] = request[r] /\ action'[r] = action[r]
               \/ {request[r], request'[r]} \cap
                      {"sending", "unverifiable", "approved", "failed"} = {}
    PROVE  ClaimsSound' /\ ClaimedAlone' /\ RequestsSound'
<1>1. ClaimsSound' /\ ClaimedAlone'
  BY DEF DraftSound, ClaimsSound, ClaimSound, ClaimedAlone, InFlight, Lasting
<1>2. ASSUME NEW r \in Requests PROVE RequestSound(r)'
  <2>1. r \in Approvals /\ (approval[r] = "consumed" <=> Claimed(r)) /\ Lasting(r)
    BY RequestsAreApprovals DEF StoriesAgree, JournalSound, EntrySound
  <2>2. RequestSound(r) /\ (approval'[r] = "consumed" <=> approval[r] = "consumed")
    BY <2>1 DEF DraftSound, RequestsSound
  <2>3. InFlight(r) /\ Claimed(r) => InFlight(r)'
    BY <2>1 DEF InFlight
  <2>4. CASE request'[r] = request[r] /\ action'[r] = action[r]
    BY <2>1, <2>2, <2>3, <2>4 DEF RequestSound, Lasting
  <2>5. CASE {request[r], request'[r]} \cap
                {"sending", "unverifiable", "approved", "failed"} = {}
    <3>1. request[r] \notin {"sending", "unverifiable", "approved", "failed"}
          /\ request'[r] \notin {"sending", "unverifiable", "approved", "failed"}
      BY <2>5
    <3> QED BY <2>2, <3>1 DEF RequestSound
  <2> QED BY <2>4, <2>5
<1> QED BY <1>1, <1>2 DEF RequestsSound

\* Only an approval that is not yet consumed gets a version.
LEMMA ApprovedAtKept ==
    ASSUME StoriesAgree, DraftSound, [Next]_vars
    PROVE  \A p \in Approvals : Claimed(p) => approvedAt'[p] = approvedAt[p]
<1>t. ApprovalsTyped /\ \A p \in Approvals : Claimed(p) <=> approval[p] = "consumed"
  BY DEF StoriesAgree, Typed, JournalSound, EntrySound
<1>1. ASSUME NEW r \in Requests, RequestSend(r)
      PROVE  \A p \in Approvals : Claimed(p) => approvedAt'[p] = approvedAt[p]
  BY <1>t, <1>1, RequestsAreApprovals
     DEF RequestSend, ApprovalsTyped, DraftSound, RequestsSound, RequestSound
<1>2. ASSUME NEW r \in OwnerApprovals, CreateApproval(r)
      PROVE  \A p \in Approvals : Claimed(p) => approvedAt'[p] = approvedAt[p]
  BY <1>t, <1>2 DEF CreateApproval, ApprovalsTyped, Approvals
<1> QED BY <1>1, <1>2, StepCases DEF QuietStep, MovingStep, WritingStep, EditDraft, SessionEnds,
        ResetPassword, SignIn, Begin, Reject, FindOverdue, ClaimTooLate, Expire, RequestLapses,
        ApprovalLapses, DispatchAges, Dispatch, CallProvider, RecordResult, StatusBegin, AgeOut,
        SaveStatus, Claim, Start, ReplySourceUnavailable, Acknowledged, Ambiguous, MarkReported,
        StatusRead, FindInSent, CompleteSend, Finish, Crash, Reconcile, ProviderDelivers,
        vars, approvals

LEMMA QuietDraft ==
    ASSUME StoriesAgree, VersionsBehind, DraftSound, [Next]_vars, QuietStep,
           \A p \in Approvals : Lasting(p)
    PROVE  DraftSound'
<1>t. Typed /\ DraftTyped /\ ApprovalsTyped /\ RequestsTyped
  BY DEF StoriesAgree, Typed
<1>q. /\ UNCHANGED <<submission, locals, provider>>
      /\ \A p \in Approvals : approval'[p] = "consumed" <=> approval[p] = "consumed"
  BY <1>t, QuietJournal
<1>r. \A r \in Requests : /\ r \in Approvals
                          /\ Claimed(r) <=> approval[r] = "consumed"
  BY RequestsAreApprovals DEF StoriesAgree, JournalSound, EntrySound
<1>1. \A p \in Approvals : Claimed(p) => approvedAt'[p] = approvedAt[p]
  BY ApprovedAtKept
<1>2. CalledAlone'
  BY <1>q DEF DraftSound, CalledAlone, provider
<1>3. CASE EditDraft
  <2>1. /\ draft'.state = "editing" /\ draft'.version = draft.version + 1
        /\ UNCHANGED <<approvals, requests>>
    BY <1>t, <1>3, DraftBecame DEF EditDraft
  <2>2. /\ \A p \in Approvals : Claimed(p) => Dead(p)
        /\ \A r \in Requests : request[r] \notin {"sending", "unverifiable", "approved"}
    BY <1>3, EditableClaims DEF EditDraft
  <2>3. ClaimsSound' /\ ClaimedAlone'
    BY <1>t, <1>q, <2>1, <2>2 DEF DraftSound, ClaimsSound, ClaimSound, ClaimedAlone,
       Lasting, Claimed, approvals, DraftTyped, ApprovalsTyped, VersionsBehind
  <2>4. RequestsSound'
    BY <1>r, <2>1, <2>2 DEF DraftSound, RequestsSound, RequestSound, Lasting, approvals, requests
  <2> QED BY <1>2, <2>3, <2>4 DEF DraftSound
<1>4. CASE ~EditDraft
  <2>1. UNCHANGED draft
    BY <1>4 DEF QuietStep, SessionEnds, ResetPassword, SignIn, CreateApproval, RequestSend,
       Begin, Reject, FindOverdue, ClaimTooLate, Expire, RequestLapses, ApprovalLapses,
       DispatchAges
  <2>2. \A r \in Requests :
            \/ request'[r] = request[r] /\ action'[r] = action[r]
            \/ {request[r], request'[r]} \cap
                  {"sending", "unverifiable", "approved", "failed"} = {}
    BY <1>t, <1>4 DEF QuietStep, SessionEnds, ResetPassword, SignIn, CreateApproval, RequestSend,
       Begin, Reject, FindOverdue, ClaimTooLate, Expire, RequestLapses, ApprovalLapses,
       DispatchAges, RequestsTyped, requests
  <2> QED BY <1>q, <1>1, <1>2, <2>1, <2>2, DraftStands DEF DraftSound, Claimed
<1> QED BY <1>3, <1>4

LEMMA MovingDraft ==
    ASSUME StoriesAgree, VersionsBehind, DraftSound, NEW h \in Handlers, MovingStep(h),
           ~mistaken', \A p \in Approvals : Lasting(p)
    PROVE  DraftSound'
<1>t. Typed /\ DraftTyped /\ RequestsTyped /\ LocalsTyped /\ PlacedAt(h) /\ BeliefSound(h)
  BY DEF StoriesAgree, Typed, Placed, BeliefsSound
<1>m. UNCHANGED <<approvals, journal, provider>>
  BY <1>t, MovingJournal
<1>2. CalledAlone'
  BY <1>m DEF DraftSound, CalledAlone, provider
<1>c. \A p \in Approvals :
          /\ Claimed(p)' <=> Claimed(p)
          /\ approvedAt'[p] = approvedAt[p] /\ approvedAt[p] <= draft.version
          /\ approval'[p] = approval[p]
  BY <1>m DEF Claimed, approvals, journal, VersionsBehind
<1>3. CASE UNCHANGED <<draft, request, action>>
  BY <1>2, <1>c, <1>3, DraftStands DEF DraftSound
<1>4. CASE MarkReported(h)
  <2> DEFINE r == job[h]
  <2>1. UNCHANGED <<draft, request>> /\ r \in Requests
    BY <1>t, <1>4 DEF MarkReported, PlacedAt
  <2>2. ClaimsSound' /\ ClaimedAlone'
    BY <1>c, <2>1 DEF DraftSound, ClaimsSound, ClaimSound, ClaimedAlone, InFlight, Lasting
  <2>3. \A q \in Requests :
            \/ action'[q] = action[q]
            \/ request[q] = "sending" /\ action'[q] \in {"executing", "verifying"}
    BY <1>t, <1>4, <2>1 DEF MarkReported, RequestsTyped
  <2>4. RequestsSound'
    BY <1>c, <2>1, <2>3, RequestsAreApprovals DEF DraftSound, RequestsSound, RequestSound, InFlight,
       Lasting
  <2> QED BY <1>2, <2>2, <2>4 DEF DraftSound
\* The draft is settled: only the job's own claim held it.
<1>s. ASSUME NEW s \in {"sent", "failed"}, DraftBecomes(s), draft.state = "sending",
             pc[h] = "settle", draft.version = approvedAt[job[h]],
             s = "sent" => submission[job[h]] = "verified", s = "failed" => Dead(job[h])
      PROVE  ClaimsSound' /\ ClaimedAlone'
  <2>1. /\ job[h] \in Approvals /\ Claimed(job[h]) /\ InFlight(job[h])
        /\ draft'.state = s /\ draft'.version = draft.version + 1
    BY <1>t, <1>s, DraftBecame DEF PlacedAt, BeliefSound, InFlight
  <2>2. \A q \in Approvals : Claimed(q) /\ q # job[h] => Dead(q)
    BY <2>1, FlightAlone
  <2>3. \A q \in Approvals : ClaimSound(q)'
    BY <1>t, <1>s, <1>c, <2>1, <2>2 DEF ClaimSound, Lasting, DraftTyped, StoriesAgree,
       ApprovalsTyped, Typed
  <2> QED BY <1>c, <2>3 DEF ClaimsSound, ClaimedAlone, DraftSound
<1>5. ASSUME CompleteSend(h), ~UNCHANGED draft PROVE DraftSound'
  <2> DEFINE p == job[h]
  <2>1. /\ p \in OwnerApprovals /\ p \in Approvals /\ pc[h] = "settle"
        /\ draft.state = "sending" /\ draft.version = approvedAt[p]
        /\ reply[h] \in {"verified", "rejected"} /\ submission[p] = reply[h]
        /\ DraftBecomes(IF reply[h] = "verified" THEN "sent" ELSE "failed")
        /\ UNCHANGED requests
    BY <1>t, <1>5 DEF CompleteSend, Approvals
  <2>2. ClaimsSound' /\ ClaimedAlone'
    BY <1>t, <1>s, <2>1 DEF BeliefSound
  <2>3. Claimed(p) /\ InFlight(p) /\ \A r \in Requests : r # p
    BY <1>t, <2>1, SetsAssumption DEF BeliefSound, InFlight
  <2>4. \A r \in Requests : request[r] \notin {"sending", "unverifiable", "approved"}
    BY <2>1, <2>3, FlightAlone
  <2>5. RequestsSound'
    BY <1>c, <2>1, <2>4, RequestsAreApprovals DEF DraftSound, RequestsSound, RequestSound,
       Lasting, requests
  <2> QED BY <1>2, <2>2, <2>5 DEF DraftSound
<1>6. ASSUME Finish(h), ~UNCHANGED <<draft, request, action>> PROVE DraftSound'
  <2> DEFINE r == job[h]
             verdict == Verdict(reply[h])
  <2>1. /\ r \in Requests /\ r \in Approvals /\ pc[h] = "settle"
        /\ request[r] \in {"sending", "unverifiable"}
        /\ request' = [request EXCEPT ![r] = verdict]
    BY <1>t, <1>6, RequestsAreApprovals DEF Finish
  <2>2. Claimed(r) /\ InFlight(r) /\ action[r] \in {"executing", "verifying"}
    BY <1>t, <2>1 DEF BeliefSound, DraftSound, RequestsSound, RequestSound
  <2>3. \A q \in Requests : q # r => request[q] \notin {"sending", "unverifiable", "approved"}
    BY <2>1, <2>2, FlightAlone
  <2>4. \A q \in Requests : q # r => request'[q] = request[q] /\ action'[q] = action[q]
    BY <1>t, <1>6, <2>1 DEF Finish, RequestsTyped
  <2>5. CASE reply[h] = "verified" \/ reply[h] = "rejected"
    <3>1. /\ request'[r] = IF reply[h] = "verified" THEN "approved" ELSE "failed"
          /\ action'[r] = IF reply[h] = "verified" THEN "verified" ELSE "failed"
          /\ DraftBecomes(IF reply[h] = "verified" THEN "sent" ELSE "failed")
      BY <1>t, <1>6, <2>1, <2>2, <2>5 DEF Finish, Verdict, InFlight, RequestsTyped
    <3>2. ClaimsSound' /\ ClaimedAlone'
      BY <1>t, <1>s, <2>1, <2>2, <2>5, <3>1 DEF BeliefSound, InFlight
    <3>3. ASSUME NEW q \in Requests PROVE RequestSound(q)'
      <4>1. CASE q = r
        <5>1. approval'[r] = "consumed" /\ Lasting(r)
          BY <1>c, <2>1, <2>2 DEF StoriesAgree, JournalSound, EntrySound
        <5> QED BY <1>t, <2>1, <2>5, <3>1, <4>1, <5>1, DraftBecame
                DEF RequestSound, BeliefSound, Lasting
      <4>2. CASE q # r
        BY <1>c, <2>3, <2>4, <4>2, RequestsAreApprovals
           DEF DraftSound, RequestsSound, RequestSound, Lasting
      <4> QED BY <4>1, <4>2
    <3> QED BY <1>2, <3>2, <3>3 DEF DraftSound, RequestsSound
  <2>6. CASE reply[h] # "verified" /\ reply[h] # "rejected"
    <3>1. request'[r] = "unverifiable" /\ UNCHANGED <<action, draft>>
      BY <1>t, <1>6, <2>1, <2>6 DEF Finish, Verdict, RequestsTyped
    <3>2. ClaimsSound' /\ ClaimedAlone'
      BY <1>c, <3>1 DEF DraftSound, ClaimsSound, ClaimSound, ClaimedAlone, InFlight,
         Lasting
    <3>3. RequestsSound'
      BY <1>c, <2>1, <2>4, <3>1, RequestsAreApprovals
         DEF DraftSound, RequestsSound, RequestSound, InFlight, Lasting
    <3> QED BY <1>2, <3>2, <3>3 DEF DraftSound
  <2> QED BY <2>5, <2>6
<1>7. \/ UNCHANGED <<draft, request, action>> \/ MarkReported(h)
      \/ CompleteSend(h) /\ ~UNCHANGED draft
      \/ Finish(h) /\ ~UNCHANGED <<draft, request, action>>
  BY DEF MovingStep, ReplySourceUnavailable, Acknowledged, Ambiguous, StatusRead, FindInSent,
     CompleteSend, Crash, Reconcile, requests
<1> QED BY <1>3, <1>4, <1>5, <1>6, <1>7

LEMMA WritingDraft ==
    ASSUME StoriesAgree, DraftSound, NEW h \in Handlers, WritingStep(h),
           \A p \in Approvals : Lasting(p)
    PROVE  DraftSound'
<1>t. /\ Typed /\ DraftTyped /\ ApprovalsTyped /\ RequestsTyped /\ JournalTyped /\ LocalsTyped
      /\ ProviderTyped /\ PlacedAt(h) /\ BeliefSound(h)
  BY DEF StoriesAgree, Typed, Placed, BeliefsSound
<1>p. \A p \in Approvals : Claimed(p) <=> approval[p] = "consumed"
  BY DEF StoriesAgree, JournalSound, EntrySound
<1>1. ASSUME NEW p \in Approvals, Claim(h, p) PROVE DraftSound'
  <2>1. /\ Editable /\ draft.version = approvedAt[p] /\ approval[p] = "pending"
        /\ draft'.state = "sending" /\ draft'.version = draft.version
        /\ approval' = [approval EXCEPT ![p] = "consumed"]
        /\ submission' = [submission EXCEPT ![p] = "pending"]
        /\ UNCHANGED <<approvedAt, calls>>
        /\ \A r \in Requests : request'[r] = IF r = p THEN "sending" ELSE request[r]
        /\ \A r \in Requests : action'[r] = IF r = p THEN "executing" ELSE action[r]
    BY <1>t, <1>1 DEF Claim, Start, DraftTyped, provider
  <2>2. /\ \A q \in Approvals : Claimed(q) => Dead(q) /\ approvedAt[q] # draft.version
        /\ \A r \in Requests : request[r] \notin {"sending", "unverifiable", "approved"}
    BY <2>1, EditableClaims
  <2>3. \A q \in Approvals : Claimed(q)' <=> Claimed(q) \/ q = p
    BY <1>t, <2>1 DEF Claimed, JournalTyped
  <2>4. ClaimsSound' /\ ClaimedAlone' /\ CalledAlone'
    BY <1>t, <2>1, <2>2, <2>3 DEF DraftSound, ClaimsSound, ClaimSound, ClaimedAlone,
       CalledAlone, InFlight, Lasting
  <2>5. ASSUME NEW r \in Requests PROVE RequestSound(r)'
    <3>1. r \in Approvals /\ approval'[r] = IF r = p THEN "consumed" ELSE approval[r]
      BY <1>t, <2>1, RequestsAreApprovals DEF ApprovalsTyped
    <3> QED BY <2>1, <2>2, <3>1 DEF DraftSound, RequestsSound, RequestSound, InFlight, Lasting
  <2> QED BY <2>4, <2>5 DEF DraftSound, RequestsSound
<1>2. ASSUME Dispatch(h) \/ CallProvider(h) \/ RecordResult(h) \/ StatusBegin(h) \/ AgeOut(h)
             \/ SaveStatus(h)
      PROVE  DraftSound'
  <2>1. /\ UNCHANGED <<draft, approvals, requests, job>>
        /\ job[h] \in Approvals /\ Claimed(job[h]) /\ pc[h] # "idle" /\ pc'[h] # "idle"
        /\ \A g \in Handlers \ {h} : pc'[g] = pc[g]
    BY <1>t, <1>2 DEF Dispatch, CallProvider, RecordResult, StatusBegin, AgeOut, SaveStatus,
       Step, LocalsTyped, PlacedAt, BeliefSound
  <2>2. \A p \in Approvals : Claimed(p)' <=> Claimed(p)
    BY <1>t, <1>2, <2>1 DEF Dispatch, CallProvider, RecordResult, StatusBegin, AgeOut, SaveStatus,
       journal, JournalTyped, Lasting, Claimed
  <2>3. ClaimsSound' /\ ClaimedAlone' /\ RequestsSound'
    BY <2>1, <2>2, DraftStands DEF approvals, requests
  <2>5. CalledAlone'
    <3>1. CASE CallProvider(h)
      <4>1. /\ started[job[h]] /\ calls[job[h]] = 0 /\ ~Dead(job[h])
            /\ submission[job[h]] # "verified"
        BY <1>t, <2>1, <3>1 DEF CallProvider, BeliefSound, Dead, StoriesAgree, JournalSound,
           EntrySound
      <4>2. InFlight(job[h])
        BY <2>1, <4>1 DEF DraftSound, ClaimsSound, ClaimSound
      <4>3. \A q \in Approvals : calls[q] > 0 => Claimed(q) /\ ~Dead(q)
        BY <1>t DEF StoriesAgree, JournalSound, EntrySound, Claimed, Dead
      <4>4. \A q \in Approvals : calls[q] > 0 => q = job[h]
        BY <2>1, <4>2, <4>3, FlightAlone
      <4>5. \A q \in Approvals : q # job[h] => calls'[q] = calls[q]
        BY <1>t, <3>1 DEF CallProvider, ProviderTyped
      <4> QED BY <4>4, <4>5 DEF CalledAlone
    <3>2. CASE ~CallProvider(h)
      BY <1>2, <3>2 DEF Dispatch, RecordResult, StatusBegin, AgeOut, SaveStatus, provider,
         DraftSound, CalledAlone
    <3> QED BY <3>1, <3>2
  <2> QED BY <2>3, <2>5 DEF DraftSound
<1> QED BY <1>1, <1>2 DEF WritingStep

LEMMA InitDraft == Init => DraftSound
BY RequestsAreApprovals DEF Init, DraftSound, ClaimsSound, ClaimSound, ClaimedAlone,
   CalledAlone, RequestsSound, RequestSound, Claimed

LEMMA StepDraft ==
    ASSUME StoriesAgree, VersionsBehind, DraftSound, [Next]_vars, ~mistaken' PROVE DraftSound'
<1>l. \A p \in Approvals : Lasting(p)
  BY StepStories
<1>1. CASE (\E p \in Approvals : ProviderDelivers(p)) \/ UNCHANGED vars
  <2>1. UNCHANGED <<draft, approvals, requests, submission, calls>>
    BY <1>1 DEF ProviderDelivers, vars, provider, journal
  <2>2. ClaimsSound' /\ ClaimedAlone' /\ RequestsSound'
    BY <1>l, <2>1, DraftStands DEF Claimed, approvals, requests
  <2> QED BY <2>1, <2>2 DEF DraftSound, CalledAlone
<1> QED BY <1>1, <1>l, StepCases, QuietDraft, MovingDraft, WritingDraft

LEMMA MistakenForGood == mistaken /\ [Next]_vars => mistaken'
BY StepCases DEF QuietStep, MovingStep, WritingStep, EditDraft, SessionEnds,
   ResetPassword, SignIn, CreateApproval, RequestSend, Begin, Reject, FindOverdue,
   ClaimTooLate, Expire, RequestLapses, ApprovalLapses, DispatchAges, Dispatch,
   CallProvider, RecordResult, StatusBegin, AgeOut, SaveStatus, Claim, Start,
   ReplySourceUnavailable, Acknowledged, Ambiguous, MarkReported, StatusRead, FindInSent,
   CompleteSend, Finish, Crash, Reconcile, ProviderDelivers, vars

\* The draft is sound until the outcome of an older approval settles it.
SendSound == Steady /\ (mistaken \/ DraftSound)

LEMMA Soundness == Spec => []SendSound
<1>1. Init => SendSound
  BY InitSteady, InitDraft DEF SendSound
<1>2. SendSound /\ [Next]_vars => SendSound'
  BY StepSteady, StepDraft, MistakenForGood DEF SendSound, Steady
<1> QED BY <1>1, <1>2, PTL DEF Spec

\* Draft, request, action and journal say of a send what became of it, in
\* whatever order confirm and reconcile handlers look, answer, settle and die:
\* rejected was never called, sent and approved went out, whichever approval is
\* reconciled; and the four agree unless an older approval settled the draft.
THEOREM OutcomesTrue == Spec => []SendOutcomesAreTrue
<1>1. SendSound => SendOutcomesAreTrue
  <2> SUFFICES ASSUME SendSound PROVE SendOutcomesAreTrue
    OBVIOUS
  <2>t. /\ Steady /\ DraftTyped /\ \A p \in Approvals : EntrySound(p)
    BY DEF SendSound, Steady, StoriesAgree, Typed, JournalSound
  <2>1. RejectedMeansUncalled
    BY <2>t DEF RejectedMeansUncalled, EntrySound, Dead
  <2>2. SentMeansDelivered
    BY <2>t, RequestsAreApprovals
       DEF SentMeansDelivered, EntrySound, Steady, SentFound, ApprovedFound
  <2>3. ASSUME ~mistaken PROVE RequestTellsOneStory
    <3>1. DraftSound
      BY <2>3 DEF SendSound
    <3>2. ASSUME NEW r \in Requests, InFlight(r)
          PROVE  draft = [state |-> "sending", version |-> approvedAt[r]]
      BY <2>t, <3>2 DEF InFlight, DraftTyped
    <3> QED BY <2>t, <3>1, <3>2, RequestsAreApprovals
            DEF RequestTellsOneStory, EntrySound, DraftSound, RequestsSound, RequestSound, Dead
  <2> QED BY <2>t, <2>1, <2>2, <2>3, SteadyTyped DEF SendOutcomesAreTrue
<1> QED BY <1>1, Soundness, PTL

-----------------------------------------------------------------------------
(* One flow for a draft, and one call. *)

\* No two approval flows are open for one version of a draft, whichever approval
\* is reconciled; and a draft that the provider was called for is closed to edits
\* and to another send, unless the outcome of an older approval settled it.
THEOREM FlowsApart == Spec => []OneFlowPerDraft
<1>1. SendSound => OneFlowPerDraft
  <2> SUFFICES ASSUME SendSound PROVE OneFlowPerDraft
    OBVIOUS
  <2>1. OneApprovalFlow
    BY DEF SendSound, Steady, Apart, OneApprovalFlow
  <2>2. ASSUME ~mistaken, Editable, NEW p \in Approvals PROVE ~(calls[p] > 0)
    <3>1. StoriesAgree /\ DraftSound
      BY <2>2 DEF SendSound, Steady
    <3>2. Claimed(p) => calls[p] = 0
      BY <2>2, <3>1, EditableClaims DEF Dead
    <3> QED BY <3>1, <3>2 DEF StoriesAgree, JournalSound, EntrySound, Claimed
  <2> QED BY <2>1, <2>2 DEF OneFlowPerDraft, CalledStaysClosed
<1> QED BY <1>1, Soundness, PTL

\* The calls for a draft, counted.
LEMMA CallsCounted ==
    ASSUME NEW c \in [Approvals -> Nat], \A p \in Approvals : c[p] <= 1,
           \A p, q \in Approvals : c[p] > 0 /\ c[q] > 0 => p = q
    PROVE  Cardinality(UNION {{p} \X (1..c[p]) : p \in Approvals})
               = IF \E p \in Approvals : c[p] > 0 THEN 1 ELSE 0
<1> DEFINE all == UNION {{p} \X (1..c[p]) : p \in Approvals}
<1>1. CASE \A p \in Approvals : ~(c[p] > 0)
  <2>1. \A p \in Approvals : {p} \X (1..c[p]) = {}
    BY <1>1
  <2>2. all = {}
    BY <2>1
  <2> QED BY <1>1, <2>2, FS_EmptySet
<1>2. ASSUME NEW p \in Approvals, c[p] > 0 PROVE Cardinality(all) = 1
  <2>1. \A q \in Approvals : {q} \X (1..c[q]) = IF q = p THEN {<<p, 1>>} ELSE {}
    <3>1. \A q \in Approvals : q # p => 1..c[q] = {}
      BY <1>2
    <3>2. 1..c[p] = {1}
      BY <1>2
    <3> QED BY <3>1, <3>2
  <2>2. all = {<<p, 1>>}
    BY <2>1
  <2> QED BY <2>2, FS_Singleton
<1> QED BY <1>1, <1>2

LEMMA OneCall ==
    StoriesAgree /\ DraftSound
        => Cardinality(Calls) = IF \E p \in Approvals : calls[p] > 0 THEN 1 ELSE 0
BY CallsCounted DEF StoriesAgree, Typed, ProviderTyped, JournalSound, EntrySound,
   DraftSound, CalledAlone, Calls

\* The provider is called at most once for each approval, by several handlers and
\* after lapses and crashes, whichever approval is reconciled; and at most once
\* for the draft, in all, until the outcome of an older approval settles it.
THEOREM CalledAtMostOnce == Spec => []CalledOnce
<1>1. SendSound => CalledOnce
  <2> SUFFICES ASSUME SendSound PROVE CalledOnce
    OBVIOUS
  <2>1. \A p \in Approvals : calls[p] <= 1
    BY DEF SendSound, Steady, StoriesAgree, JournalSound, EntrySound
  <2>2. ~mistaken => Cardinality(Calls) <= 1
    BY OneCall DEF SendSound, Steady
  <2> QED BY <2>1, <2>2 DEF CalledOnce
<1> QED BY <1>1, Soundness, PTL

\* Whether a call was made changes with the call alone.
LEMMA CallSteps ==
    ASSUME StoriesAgree, DraftSound, (StoriesAgree /\ DraftSound)', [Next]_vars
    PROVE  \/ UNCHANGED calls
           \/ /\ UNCHANGED draft /\ draft.state = "sending"
              /\ Cardinality(Calls) = 0 /\ Cardinality(Calls') = 1
<1>1. ASSUME NEW h \in Handlers, CallProvider(h)
      PROVE  /\ UNCHANGED draft /\ draft.state = "sending"
             /\ Cardinality(Calls) = 0 /\ Cardinality(Calls') = 1
  <2> DEFINE p == job[h]
  <2>1. /\ p \in Approvals /\ Claimed(p) /\ started[p] /\ calls[p] = 0 /\ EntrySound(p)
        /\ pc[h] = "call" /\ job[h] = p
    BY <1>1 DEF CallProvider, StoriesAgree, Placed, PlacedAt, BeliefsSound,
       BeliefSound, JournalSound
  <2>2. InFlight(p)
    BY <2>1 DEF EntrySound, Dead, DraftSound, ClaimsSound, ClaimSound
  <2>3. \A q \in Approvals : calls[q] = 0
    <3>1. \A q \in Approvals : calls[q] \in Nat /\ (calls[q] > 0 => Claimed(q))
      BY DEF StoriesAgree, Typed, ProviderTyped, JournalSound, EntrySound, Claimed
    <3>2. \A q \in Approvals : Claimed(q) /\ q # p => calls[q] = 0
      BY <2>1, <2>2, FlightAlone DEF Dead
    <3> QED BY <2>1, <3>1, <3>2
  <2>4. calls'[p] = 1
    BY <1>1, <2>1 DEF CallProvider, StoriesAgree, Typed, ProviderTyped
  <2>5. Cardinality(Calls) = 0
    BY <2>3, OneCall
  <2>6. Cardinality(Calls') = 1
    <3>1. /\ calls' \in [Approvals -> Nat] /\ \A q \in Approvals : calls'[q] <= 1
          /\ \A q, g \in Approvals : calls'[q] > 0 /\ calls'[g] > 0 => q = g
      BY DEF StoriesAgree, Typed, ProviderTyped, JournalSound, EntrySound,
         DraftSound, CalledAlone
    <3> QED BY <2>1, <2>4, <3>1, CallsCounted DEF Calls
  <2> QED BY <1>1, <2>2, <2>5, <2>6 DEF CallProvider, InFlight
<1>2. CASE \A h \in Handlers : ~CallProvider(h)
  BY <1>2, StepCases DEF QuietStep, MovingStep, WritingStep, EditDraft, SessionEnds,
        ResetPassword, SignIn, CreateApproval, RequestSend, Begin, Reject, FindOverdue,
        ClaimTooLate, Expire, RequestLapses, ApprovalLapses, DispatchAges, Dispatch,
        RecordResult, StatusBegin, AgeOut, SaveStatus, Claim, Start,
        ReplySourceUnavailable, Acknowledged, Ambiguous, MarkReported, StatusRead, FindInSent,
        CompleteSend, Finish, Crash, Reconcile, ProviderDelivers, vars, provider
<1> QED BY <1>1, <1>2

LEMMA StepPromised ==
    ASSUME StoriesAgree, DraftSound, (StoriesAgree /\ DraftSound)', [Next]_vars, ~mistaken'
    PROVE  [Promise!Next]_<<Phase, Cardinality(Calls)>>
<1>t. DraftTyped /\ ProviderTyped
  BY DEF StoriesAgree, Typed
<1>1. CASE UNCHANGED <<draft, calls>>
  BY <1>1 DEF Phase, Editable, Calls
<1>2. CASE ~UNCHANGED calls
  <2>1. /\ Phase = "committed" /\ Phase' = "committed"
        /\ Cardinality(Calls) = 0 /\ Cardinality(Calls)' = 1
    BY <1>2, CallSteps DEF Phase, Editable
  <2> QED BY <2>1 DEF Promise!Next, Promise!Call
<1>3. CASE UNCHANGED calls /\ ~UNCHANGED draft
  <2>c. Cardinality(Calls)' = Cardinality(Calls)
    BY <1>3 DEF Calls
  <2>n. ASSUME \A p \in Approvals : Claimed(p) => Dead(p) PROVE Cardinality(Calls) = 0
    BY <1>t, <2>n, OneCall DEF Dead, Claimed, StoriesAgree, JournalSound, EntrySound,
       ProviderTyped
  <2>1. CASE Edited
    BY <2>c, <2>1 DEF Edited, Phase, Editable
  <2>2. ASSUME NEW p \in Approvals, Committed(p)
        PROVE  [Promise!Next]_<<Phase, Cardinality(Calls)>>
    <3>1. Cardinality(Calls) = 0
      BY <2>2, <2>n, EditableClaims DEF Committed
    <3>2. Phase = "open" /\ Phase' = "committed"
      BY <2>2 DEF Committed, Phase, Editable
    <3> QED BY <2>c, <3>1, <3>2 DEF Promise!Next, Promise!Commit
  <2>3. ASSUME NEW h \in Handlers, Concluded(h)
        PROVE  [Promise!Next]_<<Phase, Cardinality(Calls)>>
    <3> DEFINE p == job[h]
    <3>1. Phase = "committed" /\ p \in Approvals /\ Claimed(p)
      BY <2>3 DEF Concluded, Phase, Editable
    <3>2. CASE draft'.state = "sent" /\ submission[p] = "verified"
      <4>1. Phase' = "sent"
        BY <3>2 DEF Phase, Editable
      <4>2. Cardinality(Calls) = 1
        BY <3>1, <3>2, OneCall DEF StoriesAgree, JournalSound, EntrySound
      <4> QED BY <2>c, <3>1, <4>1, <4>2 DEF Promise!Next, Promise!Conclude
    <3>3. CASE draft'.state = "failed" /\ Dead(p)
      <4>1. Phase' = "open"
        BY <3>3 DEF Phase, Editable
      <4>2. InFlight(p)
        <5>1. CASE CompleteSend(h)
          BY <1>3, <2>3, <5>1 DEF CompleteSend, Concluded, InFlight
        <5>2. CASE Finish(h)
          BY <1>3, <2>3, <5>2 DEF Finish, DraftSound, RequestsSound, RequestSound
        <5> QED BY <2>3, <5>1, <5>2 DEF Concluded
      <4>3. Cardinality(Calls) = 0
        BY <3>1, <2>n, <3>3, <4>2, FlightAlone
      <4> QED BY <2>c, <3>1, <4>1, <4>3 DEF Promise!Next, Promise!Reopen
    <3> QED BY <2>3, <3>2, <3>3 DEF Concluded
  <2> QED BY <1>3, <2>1, <2>2, <2>3, DraftSteps
<1> QED BY <1>1, <1>2, <1>3

\* The two flows together keep what SendOnce promises of one draft until the
\* outcome of an older approval settles it: the draft is committed before the one
\* call, opened again only without a call, and called sent only after it.
THEOREM PromiseKept == Spec => KeepsPromise
<1>1. Init => Promise!Init
  <2> SUFFICES ASSUME Init PROVE Promise!Init
    OBVIOUS
  <2>1. Cardinality(Calls) = 0
    BY InitStories, InitDraft, OneCall DEF Init
  <2> QED BY <2>1 DEF Init, Phase, Editable, Promise!Init
<1>2. SendSound /\ SendSound' /\ [Next]_vars
          => [Promise!Next \/ mistaken']_<<Phase, Cardinality(Calls)>>
  BY StepPromised, MistakenForGood DEF SendSound, Steady
<1> QED BY <1>1, <1>2, Soundness, PTL DEF Spec, KeepsPromise
=============================================================================

---------------------- MODULE PolicyExecutionProofs ----------------------
(***************************************************************************)
(* Theorems about PolicyExecution for any number of actions, executors,    *)
(* mailboxes, pages, attempts and crashes.  The invariant is proved in     *)
(* layers: types; who may call the provider; what a receipt proves; what a *)
(* readback proves.  Each layer uses those before it.                      *)
(***************************************************************************)
EXTENDS PolicyExecution, FiniteSetTheorems, TLAPS

(* The owner's and the clock's steps, apart from those of the provider. *)
Outside ==
    \/ \E a \in Actions : DeadlinePasses(a) \/ WindowSlides(a) \/ Revoke(a)
    \/ \E m \in Accounts : SetAccountPause(m) \/ SetAccountActive(m)
    \/ \E v \in Activities : Acknowledge(v)
    \/ SetGlobalPause

\* A step is one executor's, the provider's or one from outside.
LEMMA StepCases ==
    ASSUME [Next]_vars
    PROVE  \/ \E e \in Executors, a \in Actions : Claim(e, a)
           \/ \E e \in Executors : Precheck(e) \/ Fence(e) \/ Mutation(e)
           \/ \E e \in Executors : Readback(e) \/ Complete(e) \/ Crash(e)
           \/ \E a \in Actions : ProviderApplies(a) \/ ProviderIgnores(a)
           \/ Outside
           \/ UNCHANGED vars
BY DEF Next, Work, Environment, Outside

-----------------------------------------------------------------------------
(* Types. *)

(* What the control of the executors adds to the types: a busy executor has *)
(* an action, a call leaves an attempt to count, and an outcome is there    *)
(* when it is to be recorded.                                               *)
Control == \A e \in Executors :
    /\ pc[e] # "idle" => job[e] \in Actions
    /\ pc[e] \in {"idle", "precheck", "fence"} => tries[e] = 0
    /\ pc[e] = "mutate" => tries[e] < MaxAttempts
    /\ pc[e] = "complete" => result[e] \in Outcomes

LEMMA InitTyped == Init => TypeOK
<1> SUFFICES ASSUME Init PROVE TypeOK
  OBVIOUS
<1> USE ActionsAssumption, BoundsAssumption
<1>1. kind \in [Actions -> Kinds]
  BY DEF Init
<1>2. ReadbackTyped
  BY <1>1 DEF Init, ReadbackTyped
<1>6. ProviderTyped
  <2>1. visible \in [Actions -> BOOLEAN]
    BY Zenon DEF Init
  <2>2. page \in [Actions -> 1..Pages]
    BY DEF Init
  <2>3. inflight \in [Actions -> Nat] /\ applied \in [Actions -> Nat]
    BY DEF Init
  <2> QED BY <2>1, <2>2, <2>3 DEF ProviderTyped
<1>3. LocalsTyped
  BY DEF Init, LocalsTyped, Labels, Outcomes
<1>4. RecordsTyped
  BY DEF Init, RecordsTyped, ActionStates
<1>5. SafetyTyped
  BY DEF Init, SafetyTyped
<1>7. OwnerTyped
  BY Zenon DEF Init, OwnerTyped
<1>8. crashes \in 0..MaxCrashes
  BY DEF Init
<1> QED BY <1>2, <1>3, <1>4, <1>5, <1>6, <1>7, <1>8 DEF TypeOK

\* What the steps of the executor's control do to its locals.
LEMMA LeaveTyped ==
    ASSUME LocalsTyped, NEW e \in Executors, Leave(e) PROVE LocalsTyped'
BY BoundsAssumption DEF LocalsTyped, Leave, Goto, Labels

LEMMA GotoTyped ==
    ASSUME LocalsTyped, NEW e \in Executors, NEW l \in Labels, Goto(e, l),
           UNCHANGED <<job, tries, confirmed, from, at, result>>
    PROVE  LocalsTyped'
BY DEF LocalsTyped, Goto

LEMMA VerifyTyped ==
    ASSUME LocalsTyped, NEW e \in Executors, NEW b \in BOOLEAN, Verify(e, b)
    PROVE  LocalsTyped'
BY DEF LocalsTyped, Verify, Goto, Labels

LEMMA FinishTyped ==
    ASSUME LocalsTyped, NEW e \in Executors, NEW o \in Outcomes, Finish(e, o)
    PROVE  LocalsTyped'
BY DEF LocalsTyped, Finish, Goto, Labels

LEMMA MismatchTyped == \A e : Mismatch(e) \in Outcomes
BY DEF Mismatch, Outcomes

LEMMA AggregateTyped ==
    ASSUME RecordsTyped, NEW v, NEW s, AggregateActivity(v, s)
    PROVE  activity' \in [Activities ->
                {"open", "attention_required", "resolved", "acknowledged"}]
BY DEF RecordsTyped, AggregateActivity, Aggregate

\* Groups of variables that a step leaves alone keep their types.
LEMMA RecordsKept == ASSUME RecordsTyped, UNCHANGED records PROVE RecordsTyped'
BY DEF RecordsTyped, records

LEMMA ReadbackKept == ASSUME ReadbackTyped, UNCHANGED readback PROVE ReadbackTyped'
BY DEF ReadbackTyped, readback

LEMMA SafetyKept == ASSUME SafetyTyped, UNCHANGED safety PROVE SafetyTyped'
BY DEF SafetyTyped, safety

LEMMA OwnerKept == ASSUME OwnerTyped, UNCHANGED owner PROVE OwnerTyped'
BY DEF OwnerTyped, owner

LEMMA LocalsKept == ASSUME LocalsTyped, UNCHANGED locals PROVE LocalsTyped'
BY DEF LocalsTyped, locals

LEMMA ProviderKept == ASSUME ProviderTyped, UNCHANGED provider PROVE ProviderTyped'
BY DEF ProviderTyped, provider

LEMMA ClaimTyped ==
    ASSUME TypeOK, NEW e \in Executors, NEW a \in Actions, Claim(e, a)
    PROVE  TypeOK'
<1>1. LocalsTyped'
  BY DEF TypeOK, LocalsTyped, RecordsTyped, Claim, Goto, Labels
<1> QED BY <1>1, RecordsKept, ReadbackKept, SafetyKept, OwnerKept, ProviderKept
        DEF TypeOK, Claim

LEMMA PrecheckTyped ==
    ASSUME TypeOK, NEW e \in Executors, Precheck(e)
    PROVE  TypeOK'
<1>1. "fence" \in Labels /\ "failed" \in Outcomes
  BY DEF Labels, Outcomes
<1>2. LocalsTyped'
  BY <1>1, GotoTyped, FinishTyped, LeaveTyped DEF TypeOK, Precheck
<1> QED BY <1>2, RecordsKept, ReadbackKept, SafetyKept, OwnerKept, ProviderKept
        DEF TypeOK, Precheck

LEMMA FenceTyped ==
    ASSUME TypeOK, NEW e \in Executors, Fence(e)
    PROVE  TypeOK'
<1>1. LocalsTyped'
  <2>1. "mutate" \in Labels
    BY DEF Labels
  <2> QED BY <2>1, GotoTyped, LeaveTyped
          DEF TypeOK, Fence, FenceLost, FencePaused, FenceDenied, FencePassed
<1>2. RecordsTyped'
  <2>1. CASE FenceLost(e) \/ FencePaused(e)
    BY <2>1, RecordsKept DEF TypeOK, FenceLost, FencePaused
  <2>2. CASE FenceDenied(e)
    <3>1. state' \in [Actions -> ActionStates]
      BY <2>2 DEF TypeOK, FenceDenied, RecordsTyped, ActionStates, Settled
    <3>2. activity' \in [Activities ->
                {"open", "attention_required", "resolved", "acknowledged"}]
      BY <2>2, AggregateTyped DEF TypeOK, FenceDenied
    <3> QED BY <2>2, <3>1, <3>2 DEF TypeOK, FenceDenied, RecordsTyped
  <2>3. CASE FencePassed(e)
    BY <2>3 DEF TypeOK, FencePassed, RecordsTyped, ActionStates, Uncertain
  <2> QED BY <2>1, <2>2, <2>3 DEF Fence
<1> QED BY <1>1, <1>2, ReadbackKept, SafetyKept, OwnerKept, ProviderKept
        DEF TypeOK, Fence

LEMMA MutationTyped ==
    ASSUME TypeOK, Control, NEW e \in Executors, Mutation(e)
    PROVE  TypeOK'
<1> USE BoundsAssumption DEF TypeOK, Control
<1>0. {"mutate", "await", "retain", "report"} \subseteq Labels
  BY DEF Labels
<1>1. CASE IssueCall(e)
  <2>1. LocalsTyped'
    BY <1>1 DEF IssueCall, LocalsTyped, Goto, Labels
  <2>2. ProviderTyped'
    BY <1>1 DEF IssueCall, ProviderTyped
  <2> QED BY <1>1, <2>1, <2>2, RecordsKept, ReadbackKept, SafetyKept, OwnerKept
          DEF IssueCall
<1>2. CASE CallNeverMade(e) \/ CallAmbiguous(e)
  BY <1>2, VerifyTyped, RecordsKept, ReadbackKept, SafetyKept, OwnerKept, ProviderKept
  DEF CallNeverMade, CallAmbiguous
<1>3. CASE CallSucceeds(e)
  BY <1>0, <1>3, GotoTyped, RecordsKept, ReadbackKept, SafetyKept, OwnerKept,
     ProviderKept DEF CallSucceeds
<1>4. CASE CallRefused(e)
  <2>1. LocalsTyped'
    BY <1>0, <1>4, GotoTyped, VerifyTyped DEF CallRefused
  <2>2. ProviderTyped'
    BY <1>4 DEF CallRefused, ProviderTyped
  <2> QED BY <1>4, <2>1, <2>2, RecordsKept, ReadbackKept, SafetyKept, OwnerKept
          DEF CallRefused
<1>5. CASE Retain(e)
  <2>1. LocalsTyped'
    BY <1>0, <1>5, GotoTyped, VerifyTyped DEF Retain
  <2>2. ProviderTyped'
    BY <1>5 DEF Retain, ProviderTyped
  <2> QED BY <1>5, <2>1, <2>2, RecordsKept, ReadbackKept, SafetyKept, OwnerKept
          DEF Retain
<1>6. CASE Report(e)
  <2>1. LocalsTyped'
    BY <1>6, LeaveTyped, VerifyTyped DEF Report
  <2>2. RecordsTyped'
    BY <1>6 DEF Report, RecordsTyped, ActionStates, Uncertain
  <2> QED BY <1>6, <2>1, <2>2, ReadbackKept, SafetyKept, OwnerKept, ProviderKept
          DEF Report
<1> QED BY <1>1, <1>2, <1>3, <1>4, <1>5, <1>6 DEF Mutation
LEMMA ReadbackTypedStep ==
    ASSUME TypeOK, Control, NEW e \in Executors, Readback(e)
    PROVE  TypeOK'
<1> USE BoundsAssumption DEF TypeOK
<1>0. /\ "scan" \in Labels
      /\ {"succeeded", "unverifiable"} \subseteq Outcomes
  BY DEF Labels, Outcomes
<1>1. LocalsTyped'
  <2>1. CASE VerificationUnavailable(e) \/ ReadFlag(e) \/ ReadDraft(e)
    BY <1>0, <2>1, FinishTyped, MismatchTyped
    DEF VerificationUnavailable, ReadFlag, ReadDraft
  <2>2. CASE BeginScan(e)
    <3>1. job[e] \in Actions
      BY <2>2 DEF Control, BeginScan
    <3> QED BY <1>0, <2>2, <3>1, FinishTyped
            DEF BeginScan, LocalsTyped, ReadbackTyped, Goto
  <2>3. CASE ScanPage(e)
    <3>1. CASE \E o \in Outcomes : Finish(e, o)
      BY <3>1, FinishTyped
    <3>2. CASE /\ at[e] + 1 < Pages
               /\ at' = [at EXCEPT ![e] = @ + 1]
               /\ UNCHANGED <<pc, job, tries, confirmed, from, result>>
      BY <3>2 DEF LocalsTyped
    <3> QED BY <1>0, <2>3, <3>1, <3>2, MismatchTyped DEF ScanPage
  <2>4. CASE ScanIncomplete(e)
    BY <2>4, LeaveTyped DEF ScanIncomplete
  <2> QED BY <2>1, <2>2, <2>3, <2>4 DEF Readback
<1>2. ReadbackTyped'
  <2>1. CASE UNCHANGED readback
    BY <2>1, ReadbackKept
  <2>2. CASE \E next \in 0..Pages - 1 : SaveCursor(e, next)
    BY <2>2 DEF SaveCursor, ReadbackTyped
  <2>3. 0 \in 0..Pages - 1 /\ at[e] \in 0..Pages - 1
    BY DEF LocalsTyped
  <2> QED BY <2>1, <2>2, <2>3 DEF Readback, VerificationUnavailable, ReadFlag,
             ReadDraft, BeginScan, ScanPage, ScanIncomplete, readback
<1>3. UNCHANGED <<records, safety, owner, crashes, provider>>
  BY DEF Readback, VerificationUnavailable, ReadFlag, ReadDraft, BeginScan, ScanPage,
         ScanIncomplete
<1> QED BY <1>1, <1>2, <1>3, RecordsKept, SafetyKept, OwnerKept, ProviderKept

LEMMA SampleTyped ==
    ASSUME SafetyTyped, NEW a \in Actions, NEW o \in {"succeeded", "incorrect"},
           SampleSafety(a, o)
    PROVE  SafetyTyped'
<1>1. AccountOf[a] \in Accounts
  BY ActionsAssumption
<1> QED BY <1>1 DEF SafetyTyped, SampleSafety

LEMMA CompleteTyped ==
    ASSUME TypeOK, Control, NEW e \in Executors, Complete(e)
    PROVE  TypeOK'
<1> USE DEF TypeOK
<1> DEFINE a == job[e]
<1>1. a \in Actions /\ result[e] \in Outcomes
  BY DEF Complete, Control
<1>2. LocalsTyped'
  BY LeaveTyped DEF Complete
<1>3. CASE state[a] \in Settled
  BY <1>2, <1>3, RecordsKept, ReadbackKept, SafetyKept, OwnerKept, ProviderKept
  DEF Complete
<1>4. CASE state[a] \notin Settled
  <2>1. CompleteVerified(a) \/ CompleteOtherwise(a, result[e])
    BY <1>4 DEF Complete
  <2>2. state' \in [Actions -> ActionStates]
    BY <1>1, <2>1 DEF CompleteVerified, CompleteOtherwise, RecordsTyped, ActionStates,
       Settled
  <2>3. legacy' \in [Actions -> {"planned", "executing"} \cup Outcomes]
    BY <1>1, <2>1 DEF CompleteVerified, CompleteOtherwise, RecordsTyped, Outcomes
  <2>4. activity' \in [Activities ->
                {"open", "attention_required", "resolved", "acknowledged"}]
    BY <1>4, AggregateTyped DEF Complete
  <2>5. RecordsTyped'
    BY <1>1, <1>4, <2>2, <2>3, <2>4 DEF Complete, RecordsTyped
  <2>6. SafetyTyped'
    BY <1>1, <2>1, SampleTyped, SafetyKept DEF CompleteVerified, CompleteOtherwise
  <2> QED BY <1>2, <1>4, <2>5, <2>6, ReadbackKept, OwnerKept, ProviderKept DEF Complete
<1> QED BY <1>3, <1>4

LEMMA CrashTyped ==
    ASSUME TypeOK, NEW e \in Executors, Crash(e)
    PROVE  TypeOK'
<1>1. crashes' \in 0..MaxCrashes
  BY BoundsAssumption DEF TypeOK, Crash
<1> QED BY <1>1, LeaveTyped, RecordsKept, ReadbackKept, SafetyKept, OwnerKept,
        ProviderKept DEF TypeOK, Crash

LEMMA ProviderTypedStep ==
    ASSUME TypeOK, NEW a \in Actions, ProviderApplies(a) \/ ProviderIgnores(a)
    PROVE  TypeOK'
<1> USE DEF TypeOK
<1>1. ProviderTyped'
  BY DEF ProviderApplies, ProviderIgnores, ProviderTyped
<1> QED BY <1>1, RecordsKept, ReadbackKept, SafetyKept, OwnerKept, LocalsKept
        DEF ProviderApplies, ProviderIgnores

LEMMA OutsideTyped ==
    ASSUME TypeOK, Outside
    PROVE  TypeOK'
<1> USE DEF TypeOK
<1>1. ASSUME NEW a \in Actions, DeadlinePasses(a) PROVE TypeOK'
  BY <1>1, RecordsKept, SafetyKept, OwnerKept, LocalsKept, ProviderKept
  DEF DeadlinePasses, ReadbackTyped
<1>2. ASSUME NEW a \in Actions, WindowSlides(a) PROVE TypeOK'
  BY <1>2, RecordsKept, ReadbackKept, OwnerKept, LocalsKept, ProviderKept
  DEF WindowSlides, SafetyTyped
<1>3. ASSUME NEW a \in Actions, Revoke(a) PROVE TypeOK'
  BY <1>3, RecordsKept, ReadbackKept, SafetyKept, LocalsKept, ProviderKept
  DEF Revoke, OwnerTyped
<1>4. ASSUME NEW m \in Accounts, SetAccountPause(m) PROVE TypeOK'
  BY <1>4, RecordsKept, ReadbackKept, OwnerKept, LocalsKept, ProviderKept
  DEF SetAccountPause, SafetyTyped
<1>5. ASSUME NEW m \in Accounts, SetAccountActive(m) PROVE TypeOK'
  BY <1>5, RecordsKept, ReadbackKept, SafetyKept, LocalsKept, ProviderKept
  DEF SetAccountActive, OwnerTyped
<1>6. ASSUME NEW v \in Activities, Acknowledge(v) PROVE TypeOK'
  BY <1>6, ReadbackKept, SafetyKept, OwnerKept, LocalsKept, ProviderKept
  DEF Acknowledge, RecordsTyped
<1>7. ASSUME SetGlobalPause PROVE TypeOK'
  BY <1>7, RecordsKept, ReadbackKept, SafetyKept, LocalsKept, ProviderKept
  DEF SetGlobalPause, OwnerTyped
<1> QED BY <1>1, <1>2, <1>3, <1>4, <1>5, <1>6, <1>7 DEF Outside
LEMMA ControlStep ==
    ASSUME TypeOK, Control, [Next]_vars
    PROVE  Control'
<1> USE BoundsAssumption DEF TypeOK, Control, LocalsTyped
<1>1. ASSUME NEW e \in Executors, NEW a \in Actions, Claim(e, a) PROVE Control'
  BY <1>1 DEF Claim, Goto
<1>2. ASSUME NEW e \in Executors, Precheck(e) PROVE Control'
  BY <1>2 DEF Precheck, Goto, Finish, Leave, Outcomes
<1>3. ASSUME NEW e \in Executors, Fence(e) PROVE Control'
  BY <1>3 DEF Fence, FenceLost, FencePaused, FenceDenied, FencePassed, Goto, Leave
<1>4. ASSUME NEW e \in Executors, Mutation(e) PROVE Control'
  BY <1>4 DEF Mutation, IssueCall, CallNeverMade, CallSucceeds, CallRefused,
     CallAmbiguous, Retain, Report, Goto, Leave, Verify
<1>5. ASSUME NEW e \in Executors, Readback(e) PROVE Control'
  <2>1. CASE \E o \in Outcomes : Finish(e, o) /\ pc[e] \in {"verify", "scan"}
    BY <2>1 DEF Finish, Goto
  <2>2. CASE ScanIncomplete(e)
    BY <2>2 DEF ScanIncomplete, Leave, Goto
  <2>3. CASE pc[e] = "verify" /\ Goto(e, "scan") /\ UNCHANGED <<job, tries, result>>
    BY <2>3 DEF Goto
  <2>4. CASE UNCHANGED <<pc, job, tries, result>>
    BY <2>4
  <2>5. {"succeeded", "unverifiable"} \subseteq Outcomes
    BY DEF Outcomes
  <2> QED BY <1>5, <2>1, <2>2, <2>3, <2>4, <2>5, MismatchTyped
          DEF Readback, VerificationUnavailable, ReadFlag, ReadDraft, BeginScan, ScanPage
<1>6. ASSUME NEW e \in Executors, Complete(e) \/ Crash(e) PROVE Control'
  BY <1>6 DEF Complete, Crash, Leave, Goto
<1>7. CASE UNCHANGED locals
  BY <1>7 DEF locals
<1>8. \A a \in Actions : ProviderApplies(a) \/ ProviderIgnores(a) => UNCHANGED locals
  BY DEF ProviderApplies, ProviderIgnores
<1>9. Outside => UNCHANGED locals
  BY DEF Outside, DeadlinePasses, WindowSlides, Revoke, SetAccountPause,
     SetAccountActive, Acknowledge, SetGlobalPause, locals
<1> QED BY <1>1, <1>2, <1>3, <1>4, <1>5, <1>6, <1>7, <1>8, <1>9, StepCases
        DEF vars

LEMMA TypedStep ==
    ASSUME TypeOK, Control, [Next]_vars
    PROVE  TypeOK'
<1>1. CASE UNCHANGED vars
  BY <1>1, LocalsKept, RecordsKept, ReadbackKept, SafetyKept, OwnerKept, ProviderKept
  DEF vars, TypeOK
<1> QED BY <1>1, StepCases, ClaimTyped, PrecheckTyped, FenceTyped, MutationTyped,
        ReadbackTypedStep, CompleteTyped, CrashTyped, ProviderTypedStep, OutsideTyped

\* Every variable keeps its type, for any number of executors and actions.
THEOREM TypeCorrect == Spec => [](TypeOK /\ Control)
<1>1. Init => TypeOK /\ Control
  BY InitTyped, BoundsAssumption DEF Init, Control
<1>2. TypeOK /\ Control /\ [Next]_vars => (TypeOK /\ Control)'
  BY TypedStep, ControlStep
<1> QED BY <1>1, <1>2, PTL DEF Spec

-----------------------------------------------------------------------------
(* Who may call the provider.  An executor owns an action from the fence to *)
(* its report.  There is one owner at most, an action that nobody fenced is *)
(* untouched, and an owner that is about to call finds it untouched.        *)

Owning == {"mutate", "await", "retain", "report"}
Owns(e, a) == pc[e] \in Owning /\ job[e] = a
Untouched(a) == applied[a] = 0 /\ inflight[a] = 0

Ownership ==
    /\ \A a \in Actions : \A e, f \in Executors :
          Owns(e, a) /\ Owns(f, a) => e = f
    /\ \A a \in Actions : \A e \in Executors :
          Owns(e, a) => state[a] \notin {"authorized", "cancelled"}
    /\ \A a \in Actions : state[a] \in {"authorized", "cancelled"} => Untouched(a)
    /\ \A a \in Actions : \A e \in Executors :
          Owns(e, a) /\ pc[e] = "mutate" => Untouched(a)

Exclusive == TypeOK /\ Control /\ Ownership /\ AtMostOnce

\* A step that makes no new owner, sends nothing to the provider and starts or
\* cancels no action keeps the ownership.
LEMMA QuietStep ==
    ASSUME Exclusive,
           UNCHANGED <<applied, inflight>>,
           \A e \in Executors : pc'[e] \in Owning =>
               /\ pc[e] \in Owning /\ job'[e] = job[e]
               /\ pc'[e] = "mutate" => pc[e] = "mutate",
           \A a \in Actions : state'[a] \in {"authorized", "cancelled"} =>
               state'[a] = state[a]
    PROVE  Ownership' /\ AtMostOnce'
BY DEF Exclusive, Ownership, AtMostOnce, Owns, Untouched
LEMMA ExclusiveStep ==
    ASSUME Exclusive, [Next]_vars
    PROVE  Exclusive'
<1> USE DEF Exclusive
<1>t. TypeOK' /\ Control'
  BY TypedStep, ControlStep
<1>s. state \in [Actions -> ActionStates] /\ pc \in [Executors -> Labels]
      /\ job \in [Executors -> Actions \cup {NoAction}]
      /\ inflight \in [Actions -> Nat] /\ applied \in [Actions -> Nat]
  BY DEF TypeOK, RecordsTyped, LocalsTyped, ProviderTyped
<1>1. ASSUME NEW e \in Executors, NEW a \in Actions, Claim(e, a)
      PROVE  Ownership' /\ AtMostOnce'
  BY <1>1, <1>s, QuietStep DEF Claim, Goto, Owning, records, provider
<1>2. ASSUME NEW e \in Executors, Precheck(e)
      PROVE  Ownership' /\ AtMostOnce'
  BY <1>2, <1>s, QuietStep
  DEF Precheck, Goto, Finish, Leave, Owning, records, provider
<1>3. ASSUME NEW e \in Executors, Fence(e)
      PROVE  Ownership' /\ AtMostOnce'
  <2>1. CASE FenceLost(e) \/ FencePaused(e)
    BY <1>3, <2>1, <1>s, QuietStep
    DEF Fence, FenceLost, FencePaused, Goto, Leave, Owning, records, provider
  <2>2. CASE FenceDenied(e)
    BY <1>3, <2>2, <1>s
    DEF Fence, FenceDenied, Goto, Leave, provider, Ownership, AtMostOnce, Owns,
        Untouched, Owning
  <2>3. CASE FencePassed(e)
    <3>1. job[e] \in Actions
      BY <1>3 DEF Fence, Control
    <3> QED BY <1>3, <2>3, <3>1, <1>s
            DEF Fence, FencePassed, Goto, provider, Ownership, AtMostOnce, Owns,
                Untouched, Owning
  <2> QED BY <1>3, <2>1, <2>2, <2>3 DEF Fence
<1>4. ASSUME NEW e \in Executors, Mutation(e)
      PROVE  Ownership' /\ AtMostOnce'
  <2>0. job[e] \in Actions /\ Owns(e, job[e])
    BY <1>4 DEF Mutation, IssueCall, CallNeverMade, CallSucceeds, CallRefused,
       CallAmbiguous, Retain, Report, Control, Owns, Owning
  <2>1. CASE IssueCall(e)
    BY <2>0, <2>1, <1>s
    DEF IssueCall, Goto, records, Ownership, AtMostOnce, Owns, Untouched, Owning
  <2>2. CASE CallRefused(e)
    <3>1. /\ pc[e] = "await" /\ inflight[job[e]] > 0
          /\ inflight' = [inflight EXCEPT ![job[e]] = @ - 1]
          /\ pc' = [pc EXCEPT ![e] = pc'[e]] /\ pc'[e] \in {"mutate", "verify"}
          /\ UNCHANGED <<job, state, applied>>
      BY <2>2, <1>s DEF CallRefused, Goto, Verify, records
    <3>2. Untouched(job[e])'
      BY <2>0, <3>1, <1>s DEF Untouched, AtMostOnce
    <3> QED BY <2>0, <3>1, <3>2, <1>s
            DEF Ownership, AtMostOnce, Owns, Untouched, Owning
  <2>3. CASE CallNeverMade(e) \/ CallSucceeds(e) \/ CallAmbiguous(e)
    BY <2>0, <2>3, <1>s, QuietStep
    DEF CallNeverMade, CallSucceeds, CallAmbiguous, Goto, Verify, records, provider,
        Owning
  <2>4. CASE Retain(e)
    BY <2>0, <2>4, <1>s, QuietStep DEF Retain, Goto, Verify, records, Owning
  <2>5. CASE Report(e)
    BY <2>0, <2>5, <1>s, QuietStep
    DEF Report, Goto, Verify, Leave, provider, Owning
  <2> QED BY <1>4, <2>1, <2>2, <2>3, <2>4, <2>5 DEF Mutation
<1>5. ASSUME NEW e \in Executors, Readback(e)
      PROVE  Ownership' /\ AtMostOnce'
  <2>1. /\ pc' = [pc EXCEPT ![e] = pc'[e]] /\ pc'[e] \notin Owning
        /\ job' = [job EXCEPT ![e] = job'[e]]
        /\ UNCHANGED <<records, provider>>
    BY <1>5, <1>s
    DEF Readback, VerificationUnavailable, ReadFlag, ReadDraft, BeginScan, ScanPage,
        ScanIncomplete, Finish, Leave, Goto, Owning
  <2> QED BY <2>1, <1>s, QuietStep DEF records, provider
<1>6. ASSUME NEW e \in Executors, Complete(e)
      PROVE  Ownership' /\ AtMostOnce'
  <2>1. /\ pc' = [pc EXCEPT ![e] = "idle"]
        /\ job' = [job EXCEPT ![e] = NoAction]
        /\ UNCHANGED provider
    BY <1>6 DEF Complete, Leave, Goto
  <2>2. \A a \in Actions : state'[a] \in {"authorized", "cancelled"} =>
            state'[a] = state[a]
    BY <1>6, <1>s DEF Complete, CompleteVerified, CompleteOtherwise, records
  <2> QED BY <2>1, <2>2, <1>s, QuietStep DEF provider, Owning
<1>7. ASSUME NEW e \in Executors, Crash(e)
      PROVE  Ownership' /\ AtMostOnce'
  BY <1>7, <1>s, QuietStep DEF Crash, Leave, Goto, Owning, records, provider
<1>8. ASSUME NEW a \in Actions, ProviderApplies(a) \/ ProviderIgnores(a)
      PROVE  Ownership' /\ AtMostOnce'
  <2>1. /\ UNCHANGED <<state, pc, job>>
        /\ inflight[a] > 0 /\ inflight' = [inflight EXCEPT ![a] = @ - 1]
        /\ applied' = applied \/ applied' = [applied EXCEPT ![a] = @ + 1]
    BY <1>8 DEF ProviderApplies, ProviderIgnores, records, locals
  <2>2. \A b \in Actions : Untouched(b) => Untouched(b)'
    BY <2>1, <1>s DEF Untouched
  <2>3. Ownership'
    BY <2>1, <2>2 DEF Ownership, Owns
  <2>4. AtMostOnce'
    <3> SUFFICES ASSUME NEW b \in Actions
                 PROVE  applied'[b] + inflight'[b] <= 1
      BY DEF AtMostOnce
    <3>1. applied[b] + inflight[b] <= 1
      BY DEF AtMostOnce
    <3> QED BY <2>1, <3>1, <1>s
  <2> QED BY <2>3, <2>4
<1>9. ASSUME Outside \/ UNCHANGED vars
      PROVE  Ownership' /\ AtMostOnce'
  <2>1. UNCHANGED <<state, pc, job, applied, inflight>>
    BY <1>9 DEF Outside, DeadlinePasses, WindowSlides, Revoke, SetAccountPause,
       SetAccountActive, Acknowledge, SetGlobalPause, vars, records, locals, provider
  <2> QED BY <2>1, QuietStep
<1> QED BY <1>t, <1>1, <1>2, <1>3, <1>4, <1>5, <1>6, <1>7, <1>8, <1>9, StepCases

LEMMA InitExclusive ==
    ASSUME Init
    PROVE  Exclusive
<1>1. TypeOK
  BY InitTyped
<1>2. Control
  BY DEF Init, Control
<1>3. /\ \A e \in Executors : pc[e] = "idle"
      /\ \A a \in Actions : applied[a] = 0 /\ inflight[a] = 0
  BY DEF Init
<1>4. Ownership
  BY <1>3 DEF Ownership, Owns, Owning, Untouched
<1>5. AtMostOnce
  BY <1>3 DEF AtMostOnce
<1> QED BY <1>1, <1>2, <1>4, <1>5 DEF Exclusive

\* Deliveries, retries, crashes and recoveries send an action at most once.
THEOREM SentAtMostOnce == Spec => []AtMostOnce
<1>1. Init => Exclusive
  BY InitExclusive
<1>2. Exclusive /\ [Next]_vars => Exclusive'
  BY ExclusiveStep
<1>3. Exclusive => AtMostOnce
  BY DEF Exclusive
<1> QED BY <1>1, <1>2, <1>3, PTL DEF Spec

\* What the fence cancels was never sent.
THEOREM CancelledUntouched == Spec => []CancelledIsUntouched
<1>1. Init => Exclusive
  BY InitExclusive
<1>2. Exclusive /\ [Next]_vars => Exclusive'
  BY ExclusiveStep
<1>3. Exclusive => CancelledIsUntouched
  BY DEF Exclusive, Ownership, Untouched, CancelledIsUntouched
<1> QED BY <1>1, <1>2, <1>3, PTL DEF Spec

-----------------------------------------------------------------------------
(* What a receipt proves.  Evidence of a report is only held by an executor *)
(* whose action was reported, and a report is never withdrawn.              *)

Evidence ==
    /\ \A e \in Executors : confirmed[e] \/ result[e] = "incorrect" =>
          pc[e] # "idle" /\ reported[job[e]]
    /\ \A a \in Actions : legacy[a] = "incorrect" \/ sample[a] = "incorrect" =>
          reported[a]

Witnessed == TypeOK /\ Control /\ Evidence

\* A step that leaves the records' evidence alone, and in which an executor
\* only keeps its own or loses it.
LEMMA EvidenceKept ==
    ASSUME Witnessed,
           UNCHANGED <<reported, legacy, sample>>,
           \A e \in Executors : confirmed'[e] \/ result'[e] = "incorrect" =>
               /\ pc'[e] # "idle"
               /\ reported[job'[e]]
    PROVE  Evidence'
BY DEF Witnessed, Evidence

LEMMA EvidenceStep ==
    ASSUME Witnessed, [Next]_vars
    PROVE  Evidence'
<1> USE DEF Witnessed
<1>s. /\ pc \in [Executors -> Labels] /\ job \in [Executors -> Actions \cup {NoAction}]
      /\ confirmed \in [Executors -> BOOLEAN]
      /\ result \in [Executors -> Outcomes \cup {"none"}]
      /\ reported \in [Actions -> BOOLEAN]
  BY DEF TypeOK, LocalsTyped, RecordsTyped
<1>1. ASSUME NEW e \in Executors, NEW a \in Actions, Claim(e, a)
      PROVE  Evidence'
  BY <1>1, <1>s, EvidenceKept DEF Evidence, Claim, Goto, records, safety
<1>2. ASSUME NEW e \in Executors, Precheck(e) \/ Crash(e)
      PROVE  Evidence'
  BY <1>2, <1>s, EvidenceKept
  DEF Evidence, Precheck, Crash, Goto, Finish, Leave, records, safety
<1>3. ASSUME NEW e \in Executors, Fence(e)
      PROVE  Evidence'
  <2>1. CASE ~FencePassed(e)
    BY <1>3, <2>1, <1>s, EvidenceKept
    DEF Evidence, Fence, FenceLost, FencePaused, FenceDenied, Goto, Leave, records,
        safety
  <2>2. CASE FencePassed(e)
    <3>1. /\ UNCHANGED <<reported, sample, job, confirmed, result>>
          /\ pc' = [pc EXCEPT ![e] = "mutate"]
          /\ legacy' = [legacy EXCEPT ![job[e]] = "executing"]
      BY <1>3, <2>2 DEF Fence, FencePassed, Goto, safety
    <3>2. \A a \in Actions : legacy'[a] = "incorrect" => legacy[a] = "incorrect"
      BY <3>1 DEF TypeOK, RecordsTyped
    <3> QED BY <3>1, <3>2, <1>s DEF Evidence
  <2> QED BY <2>1, <2>2
<1>4. ASSUME NEW e \in Executors, Mutation(e)
      PROVE  Evidence'
  <2>1. CASE ~Report(e)
    BY <1>4, <2>1, <1>s, EvidenceKept
    DEF Evidence, Mutation, IssueCall, CallNeverMade, CallSucceeds, CallRefused,
        CallAmbiguous, Retain, Goto, Verify, records, safety
  <2>2. CASE Report(e)
    BY <2>2, <1>s
    DEF Evidence, Report, Control, Goto, Verify, Leave, safety
  <2> QED BY <2>1, <2>2
<1>5. ASSUME NEW e \in Executors, Readback(e)
      PROVE  Evidence'
  <2>1. /\ UNCHANGED <<reported, legacy, sample>>
        /\ pc[e] \in {"verify", "scan"}
    BY <1>5 DEF Readback, VerificationUnavailable, ReadFlag, ReadDraft, BeginScan,
       ScanPage, ScanIncomplete, records, safety
  <2>2. CASE \E o \in {"succeeded", "unverifiable", Mismatch(e)} : Finish(e, o)
    BY <2>1, <2>2, <1>s, EvidenceKept DEF Evidence, Finish, Goto, Mismatch
  <2>3. CASE Leave(e)
    BY <2>1, <2>3, <1>s, EvidenceKept DEF Evidence, Leave, Goto
  <2>4. CASE /\ UNCHANGED <<job, confirmed, result>>
             /\ pc' = pc \/ Goto(e, "scan")
    BY <2>1, <2>4, <1>s, EvidenceKept DEF Evidence, Goto
  <2> QED BY <1>5, <2>2, <2>3, <2>4
          DEF Readback, VerificationUnavailable, ReadFlag, ReadDraft, BeginScan,
              ScanPage, ScanIncomplete
<1>6. ASSUME NEW e \in Executors, Complete(e)
      PROVE  Evidence'
  <2>1. /\ job[e] \in Actions /\ Leave(e) /\ UNCHANGED reported
    BY <1>6 DEF Complete, Control, records
  <2>2. \A f \in Executors : confirmed'[f] \/ result'[f] = "incorrect" =>
           pc'[f] # "idle" /\ reported[job'[f]]
    BY <2>1, <1>s DEF Evidence, Leave, Goto
  <2>3. \A a \in Actions : legacy'[a] = "incorrect" =>
           legacy[a] = "incorrect" \/ (a = job[e] /\ result[e] = "incorrect")
    BY <1>6, <2>1
    DEF Complete, CompleteVerified, CompleteOtherwise, TypeOK, RecordsTyped, records
  <2>4. \A a \in Actions : sample'[a] = "incorrect" =>
           sample[a] = "incorrect" \/ (a = job[e] /\ result[e] = "incorrect")
    BY <1>6, <2>1
    DEF Complete, CompleteVerified, CompleteOtherwise, SampleSafety, TypeOK,
        SafetyTyped, safety
  <2> QED BY <2>1, <2>2, <2>3, <2>4 DEF Evidence
<1>7. ASSUME NEW a \in Actions, ProviderApplies(a) \/ ProviderIgnores(a)
      PROVE  Evidence'
  BY <1>7, EvidenceKept
  DEF Evidence, ProviderApplies, ProviderIgnores, records, safety, locals
<1>8. ASSUME Outside \/ UNCHANGED vars
      PROVE  Evidence'
  <2>1. UNCHANGED <<reported, legacy, pc, job, confirmed, result>>
    BY <1>8 DEF Outside, DeadlinePasses, WindowSlides, Revoke, SetAccountPause,
       SetAccountActive, Acknowledge, SetGlobalPause, vars, records, locals
  <2>2. \A a \in Actions : sample'[a] = "incorrect" => sample[a] = "incorrect"
    BY <1>8 DEF Outside, DeadlinePasses, WindowSlides, Revoke, SetAccountPause,
       SetAccountActive, Acknowledge, SetGlobalPause, vars, safety, TypeOK, SafetyTyped
  <2> QED BY <2>1, <2>2 DEF Evidence
<1> QED BY <1>1, <1>2, <1>3, <1>4, <1>5, <1>6, <1>7, <1>8, StepCases

\* An action is called incorrect, and counted against its account, only when
\* the provider confirmed its call.
THEOREM IncorrectIsReported == Spec => []IncorrectNeedsReport
<1>1. Init => Witnessed
  <2> SUFFICES ASSUME Init PROVE Witnessed
    OBVIOUS
  <2>1. TypeOK
    BY InitTyped
  <2>2. Control
    BY DEF Init, Control
  <2>3. Evidence
    BY DEF Init, Evidence
  <2> QED BY <2>1, <2>2, <2>3 DEF Witnessed
<1>2. Witnessed /\ [Next]_vars => Witnessed'
  BY TypedStep, ControlStep, EvidenceStep DEF Witnessed
<1>3. Witnessed => IncorrectNeedsReport
  BY DEF Witnessed, Evidence, IncorrectNeedsReport
<1> QED BY <1>1, <1>2, <1>3, PTL DEF Spec

-----------------------------------------------------------------------------
(* What a step may never do to a record. *)

LEMMA StateSteps ==
    ASSUME TypeOK, Control, [Next]_vars
    PROVE  \/ UNCHANGED state
           \/ \E e \in Executors : Fence(e) /\ (FenceDenied(e) \/ FencePassed(e))
           \/ \E e \in Executors : Report(e)
           \/ \E e \in Executors : Complete(e) /\ state[job[e]] \notin Settled
<1>1. ASSUME NEW e \in Executors, Fence(e), ~FenceDenied(e), ~FencePassed(e)
      PROVE  UNCHANGED state
  BY <1>1 DEF Fence, FenceLost, FencePaused, records
<1>2. ASSUME NEW e \in Executors, Mutation(e), ~Report(e)
      PROVE  UNCHANGED state
  BY <1>2 DEF Mutation, IssueCall, CallNeverMade, CallSucceeds, CallRefused,
     CallAmbiguous, Retain, records
<1>3. ASSUME NEW e \in Executors, Readback(e) \/ Precheck(e) \/ Crash(e)
      PROVE  UNCHANGED state
  BY <1>3 DEF Readback, VerificationUnavailable, ReadFlag, ReadDraft, BeginScan,
     ScanPage, ScanIncomplete, Precheck, Crash, records
<1>4. ASSUME NEW e \in Executors, Complete(e), state[job[e]] \in Settled
      PROVE  UNCHANGED state
  BY <1>4 DEF Complete, records
<1>5. ASSUME NEW e \in Executors, NEW a \in Actions, Claim(e, a)
      PROVE  UNCHANGED state
  BY <1>5 DEF Claim, records
<1>6. ASSUME NEW a \in Actions, ProviderApplies(a) \/ ProviderIgnores(a)
      PROVE  UNCHANGED state
  BY <1>6 DEF ProviderApplies, ProviderIgnores, records
<1>7. Outside \/ UNCHANGED vars => UNCHANGED state
  BY DEF Outside, DeadlinePasses, WindowSlides, Revoke, SetAccountPause,
     SetAccountActive, Acknowledge, SetGlobalPause, vars, records
<1> QED BY <1>1, <1>2, <1>3, <1>4, <1>5, <1>6, <1>7, StepCases

LEMMA SettledStays ==
    ASSUME TypeOK, Control, [Next]_vars, NEW a \in Actions, state[a] \in Settled
    PROVE  state'[a] = state[a]
<1>1. state \in [Actions -> ActionStates]
  BY DEF TypeOK, RecordsTyped
<1>2. ASSUME NEW e \in Executors, FenceDenied(e) \/ FencePassed(e)
      PROVE  state'[a] = state[a]
  BY <1>1, <1>2 DEF FenceDenied, FencePassed, Settled
<1>3. ASSUME NEW e \in Executors, Report(e)
      PROVE  state'[a] = state[a]
  BY <1>1, <1>3 DEF Report, Settled
<1>4. ASSUME NEW e \in Executors, Complete(e), state[job[e]] \notin Settled
      PROVE  state'[a] = state[a]
  BY <1>1, <1>4 DEF Complete, CompleteVerified, CompleteOtherwise
<1> QED BY <1>2, <1>3, <1>4, StateSteps

\* Executors that race to complete an action never replace its first outcome.
THEOREM OutcomesAreFinal == Spec => FirstOutcomeStands
<1>1. TypeOK /\ Control /\ [Next]_vars =>
        [\A a \in Actions : state[a] \in Settled => state'[a] = state[a]]_state
  BY SettledStays
<1> QED BY <1>1, TypeCorrect, PTL DEF Spec, FirstOutcomeStands

\* An action is started only by a fence that sees standing authority and no
\* pause, whatever its executor had read before.
THEOREM StartsAreAuthorised == Spec => StartsUnderAuthority
<1> DEFINE Allowed(a) == granted[a] /\ active[AccountOf[a]] /\ ~PausedFor(a)
<1>1. ASSUME TypeOK, Control, [Next]_vars, NEW a \in Actions,
             state[a] = "authorized", state'[a] = "executing"
      PROVE  Allowed(a)
  <2>1. state \in [Actions -> ActionStates]
    BY <1>1 DEF TypeOK, RecordsTyped
  <2>2. ASSUME NEW e \in Executors, FencePassed(e)
        PROVE  Allowed(a)
    BY <1>1, <2>1, <2>2 DEF FencePassed
  <2>3. ASSUME NEW e \in Executors, FenceDenied(e) \/ Report(e) \/
                   (Complete(e) /\ state[job[e]] \notin Settled)
        PROVE  FALSE
    BY <1>1, <2>1, <2>3
    DEF FenceDenied, Report, Complete, CompleteVerified, CompleteOtherwise
  <2> QED BY <1>1, <2>2, <2>3, StateSteps
<1>2. TypeOK /\ Control /\ [Next]_vars =>
        [\A a \in Actions : state[a] = "authorized" /\ state'[a] = "executing"
            => granted[a] /\ active[AccountOf[a]] /\ ~PausedFor(a)]_state
  BY <1>1
<1> QED BY <1>2, TypeCorrect, PTL DEF Spec, StartsUnderAuthority

-----------------------------------------------------------------------------
(* What a readback proves.  A draft edit is verified by the draft being      *)
(* readable, whatever it says; every other readback that succeeds has seen   *)
(* the target state.                                                         *)

NoDraftEdits == \A a \in Actions : "draft_edit" \notin KindsOf[a]

Truth ==
    /\ \A a \in Actions : kind[a] \in KindsOf[a]
    /\ \A a \in Actions : kind[a] = "draft_create" /\ visible[a] => applied[a] > 0
    /\ \A e \in Executors : result[e] = "succeeded" =>
          pc[e] # "idle" /\ InPlace(job[e])
    /\ \A a \in Actions : state[a] = "verified" => InPlace(a)

Verified == Exclusive /\ Truth

\* A step that hides no effect, shows none that is missing, and records no
\* success.
LEMMA TruthKept ==
    ASSUME Verified, TypeOK',
           UNCHANGED kind,
           \A a \in Actions : applied'[a] >= applied[a],
           \A a \in Actions : visible'[a] => visible[a] \/ applied[a] > 0,
           \A e \in Executors : result'[e] = "succeeded" =>
               pc'[e] # "idle" /\ job'[e] \in Actions /\ InPlace(job'[e]),
           \A a \in Actions : state'[a] = "verified" => InPlace(a)
    PROVE  Truth'
<1>1. applied \in [Actions -> Nat] /\ applied' \in [Actions -> Nat]
  BY DEF Verified, Exclusive, TypeOK, ProviderTyped
<1>2. \A a \in Actions : InPlace(a) => InPlace(a)'
  BY <1>1 DEF InPlace
<1>3. \A a \in Actions : kind'[a] = "draft_create" /\ visible'[a] => applied'[a] > 0
  BY <1>1 DEF Verified, Truth
<1>4. \A e \in Executors : result'[e] = "succeeded" => pc'[e] # "idle" /\ InPlace(job[e])'
  BY <1>2
<1>5. \A a \in Actions : kind'[a] \in KindsOf[a]
  BY DEF Verified, Truth
<1> QED BY <1>2, <1>3, <1>4, <1>5 DEF Truth

LEMMA TruthStep ==
    ASSUME NoDraftEdits, Verified, [Next]_vars
    PROVE  Truth'
<1> USE DEF Verified
<1>t. TypeOK' /\ TypeOK /\ Control
  BY ExclusiveStep DEF Exclusive
<1>s. /\ pc \in [Executors -> Labels] /\ job \in [Executors -> Actions \cup {NoAction}]
      /\ result \in [Executors -> Outcomes \cup {"none"}]
      /\ state \in [Actions -> ActionStates]
      /\ applied \in [Actions -> Nat] /\ visible \in [Actions -> BOOLEAN]
      /\ kind \in [Actions -> Kinds]
  BY <1>t DEF TypeOK, LocalsTyped, RecordsTyped, ProviderTyped, ReadbackTyped
\* The provider's share of TruthKept, for steps that leave the provider alone.
<1>p. /\ applied' = applied => \A a \in Actions : applied'[a] >= applied[a]
      /\ visible' = visible => \A a \in Actions : visible'[a] => visible[a]
  BY <1>s
\* An executor that has seen the target state is busy with an action.
<1>j. \A e \in Executors : result[e] = "succeeded" =>
          pc[e] # "idle" /\ job[e] \in Actions /\ InPlace(job[e])
  BY <1>t DEF Truth, Control
<1>v. \A a \in Actions : state[a] = "verified" => InPlace(a)
  BY DEF Truth
<1>1. ASSUME NEW e \in Executors, NEW a \in Actions, Claim(e, a)
      PROVE  Truth'
  <2>1. /\ UNCHANGED <<kind, applied, visible, state, result>> /\ pc[e] = "idle"
        /\ \A f \in Executors : f # e => pc'[f] = pc[f] /\ job'[f] = job[f]
    BY <1>1, <1>s DEF Claim, Goto, records, readback, provider
  <2> QED BY <2>1, <1>t, <1>p, <1>j, <1>v, TruthKept
<1>2. ASSUME NEW e \in Executors, Precheck(e) \/ Crash(e)
      PROVE  Truth'
  <2>1. UNCHANGED <<kind, applied, visible, state>>
    BY <1>2 DEF Precheck, Crash, records, readback, provider
  <2>2. \A f \in Executors : result'[f] = "succeeded" =>
           result[f] = "succeeded" /\ pc'[f] # "idle" /\ job'[f] = job[f]
    BY <1>2, <1>s, <1>j DEF Precheck, Crash, Goto, Finish, Leave
  <2> QED BY <2>1, <2>2, <1>t, <1>p, <1>j, <1>v, TruthKept
<1>3. ASSUME NEW e \in Executors, Fence(e)
      PROVE  Truth'
  <2>1. UNCHANGED <<kind, applied, visible>>
    BY <1>3 DEF Fence, readback, provider
  <2>2. \A f \in Executors : result'[f] = "succeeded" =>
           result[f] = "succeeded" /\ pc'[f] # "idle" /\ job'[f] = job[f]
    BY <1>3, <1>s, <1>j
    DEF Fence, FenceLost, FencePaused, FenceDenied, FencePassed, Goto, Leave
  <2>3. \A a \in Actions : state'[a] = "verified" => state[a] = "verified"
    BY <1>3, <1>s DEF Fence, FenceLost, FencePaused, FenceDenied, FencePassed, records
  <2> QED BY <2>1, <2>2, <2>3, <1>t, <1>p, <1>j, <1>v, TruthKept
<1>4. ASSUME NEW e \in Executors, Mutation(e)
      PROVE  Truth'
  <2>1. UNCHANGED <<kind, applied>>
    BY <1>4 DEF Mutation, IssueCall, CallNeverMade, CallSucceeds, CallRefused,
       CallAmbiguous, Retain, Report, readback, provider
  <2>2. \A a \in Actions : visible'[a] => visible[a] \/ applied[a] > 0
    <3>1. CASE Retain(e)
      BY <3>1, <1>s DEF Retain
    <3>2. CASE ~Retain(e)
      BY <1>4, <3>2, <1>s
      DEF Mutation, IssueCall, CallNeverMade, CallSucceeds, CallRefused,
          CallAmbiguous, Report, provider
    <3> QED BY <3>1, <3>2
  <2>3. \A f \in Executors : result'[f] = "succeeded" =>
           result[f] = "succeeded" /\ pc'[f] # "idle" /\ job'[f] = job[f]
    BY <1>4, <1>s, <1>j
    DEF Mutation, IssueCall, CallNeverMade, CallSucceeds, CallRefused,
        CallAmbiguous, Retain, Report, Verify, Goto, Leave
  <2>4. \A a \in Actions : state'[a] = "verified" => state[a] = "verified"
    BY <1>4, <1>s
    DEF Mutation, IssueCall, CallNeverMade, CallSucceeds, CallRefused,
        CallAmbiguous, Retain, Report, records
  <2> QED BY <2>1, <2>2, <2>3, <2>4, <1>t, <1>p, <1>j, <1>v, TruthKept
<1>5. ASSUME NEW e \in Executors, Readback(e)
      PROVE  Truth'
  <2>1. UNCHANGED <<kind, applied, visible, state>>
    BY <1>5 DEF Readback, VerificationUnavailable, ReadFlag, ReadDraft, BeginScan,
       ScanPage, ScanIncomplete, SaveCursor, records, readback, provider
  <2>2. pc[e] # "idle" /\ job[e] \in Actions
    BY <1>5, <1>t DEF Readback, VerificationUnavailable, ReadFlag, ReadDraft,
       BeginScan, ScanPage, ScanIncomplete, Control
  <2>3. CASE ReadDraft(e)
    <3>1. kind[job[e]] = "draft_create"
      BY <2>2, <2>3 DEF ReadDraft, DraftKinds, NoDraftEdits, Truth
    <3>2. InPlace(job[e])
      BY <2>2, <2>3, <3>1 DEF ReadDraft, Truth, InPlace
    <3>3. \A f \in Executors : result'[f] = "succeeded" =>
             /\ pc'[f] # "idle" /\ job'[f] = job[f]
             /\ f = e \/ result[f] = "succeeded"
      BY <2>3, <1>s, <1>j DEF ReadDraft, Finish, Goto
    <3> QED BY <2>1, <2>2, <3>2, <3>3, <1>t, <1>p, <1>j, <1>v, TruthKept
  <2>4. CASE ~ReadDraft(e)
    <3>1. \A f \in Executors : result'[f] = "succeeded" =>
             /\ pc'[f] # "idle" /\ job'[f] = job[f]
             /\ (f = e /\ InPlace(job[e])) \/ result[f] = "succeeded"
      BY <1>5, <2>2, <2>4, <1>s, <1>j
      DEF Readback, VerificationUnavailable, ReadFlag, BeginScan, ScanPage,
          ScanIncomplete, Finish, Goto, Leave, Mismatch
    <3> QED BY <2>1, <2>2, <3>1, <1>t, <1>p, <1>j, <1>v, TruthKept
  <2> QED BY <2>3, <2>4
<1>6. ASSUME NEW e \in Executors, Complete(e)
      PROVE  Truth'
  <2>1. UNCHANGED <<kind, applied, visible>> /\ Leave(e) /\ pc[e] = "complete"
    BY <1>6 DEF Complete, readback, provider
  <2>2. \A f \in Executors : result'[f] = "succeeded" =>
           result[f] = "succeeded" /\ pc'[f] # "idle" /\ job'[f] = job[f]
    BY <2>1, <1>s, <1>j DEF Leave, Goto
  <2>3. \A a \in Actions : state'[a] = "verified" =>
           state[a] = "verified" \/ (a = job[e] /\ result[e] = "succeeded")
    BY <1>6, <1>s DEF Complete, CompleteVerified, CompleteOtherwise, records
  <2> QED BY <2>1, <2>2, <2>3, <1>t, <1>p, <1>j, <1>v, TruthKept
<1>7. ASSUME NEW a \in Actions, ProviderApplies(a) \/ ProviderIgnores(a)
      PROVE  Truth'
  <2>1. UNCHANGED <<kind, state, pc, job, result>>
    BY <1>7 DEF ProviderApplies, ProviderIgnores, records, readback, locals
  <2>2. \A b \in Actions : applied'[b] >= applied[b]
    BY <1>7, <1>s DEF ProviderApplies, ProviderIgnores
  <2>3. \A b \in Actions : visible'[b] => visible[b]
    <3>1. CASE ProviderIgnores(a)
      BY <3>1 DEF ProviderIgnores
    <3>2. CASE ProviderApplies(a)
      <4>1. PICK kept \in BOOLEAN : visible' = [visible EXCEPT ![a] = @ /\ kept]
        BY <3>2 DEF ProviderApplies
      <4> QED BY <4>1, <1>s, Zenon
    <3> QED BY <1>7, <3>1, <3>2
  <2> QED BY <2>1, <2>2, <2>3, <1>t, <1>j, <1>v, TruthKept
<1>8. ASSUME Outside \/ UNCHANGED vars
      PROVE  Truth'
  <2>1. UNCHANGED <<kind, applied, visible, state, pc, job, result>>
    BY <1>8 DEF Outside, DeadlinePasses, WindowSlides, Revoke, SetAccountPause,
       SetAccountActive, Acknowledge, SetGlobalPause, vars, records, readback, locals,
       provider
  <2> QED BY <2>1, <1>t, <1>p, <1>j, <1>v, TruthKept
<1> QED BY <1>1, <1>2, <1>3, <1>4, <1>5, <1>6, <1>7, <1>8, StepCases

LEMMA VerifiedInvariant ==
    ASSUME NoDraftEdits
    PROVE  Spec => []Verified
<1>1. Init => Verified
  <2> SUFFICES ASSUME Init PROVE Verified
    OBVIOUS
  <2>1. Exclusive
    BY InitExclusive
  <2>2. \A a \in Actions : kind[a] \in KindsOf[a]
    BY DEF Init
  <2>3. \A a \in Actions : visible[a] = (kind[a] # "draft_create")
    BY DEF Init
  <2>4. /\ \A e \in Executors : result[e] # "succeeded"
        /\ \A a \in Actions : state[a] # "verified"
    BY DEF Init
  <2> QED BY <2>1, <2>2, <2>3, <2>4 DEF Verified, Truth
<1>2. Verified /\ [Next]_vars => Verified'
  BY ExclusiveStep, TruthStep DEF Verified
<1> QED BY <1>1, <1>2, PTL DEF Spec

\* No silent success: without draft edits, a verified action has had its
\* effect, or asked for what already held.
THEOREM VerifiedIsInPlace ==
    ASSUME NoDraftEdits
    PROVE  Spec => []VerifiedMeansInPlace
<1>1. Verified => VerifiedMeansInPlace
  BY DEF Verified, Truth, VerifiedMeansInPlace
<1> QED BY <1>1, VerifiedInvariant, PTL

\* Every outcome on record is true, for any number of executors and actions, as
\* long as no action edits a draft (fence, readback and completion).
THEOREM OutcomesTrue ==
    ASSUME NoDraftEdits
    PROVE  Spec => []OutcomesAreTrue
<1>1. CancelledIsUntouched /\ VerifiedMeansInPlace /\ IncorrectNeedsReport => OutcomesAreTrue
  BY DEF OutcomesAreTrue
<1> QED BY <1>1, CancelledUntouched, VerifiedIsInPlace, IncorrectIsReported, PTL

-----------------------------------------------------------------------------
(* The executors implement the promise of the package. *)

LEMMA PromiseStep ==
    ASSUME NoDraftEdits, Verified, [Next]_vars
    PROVE  [Promise!Next]_<<[a \in Actions |-> Phase(state[a])], applied>>
<1> DEFINE phase == [a \in Actions |-> Phase(state[a])]
           Quiet == UNCHANGED <<[a \in Actions |-> Phase(state[a])], applied>>
<1> USE DEF Verified, Exclusive
<1>s. /\ state \in [Actions -> ActionStates] /\ applied \in [Actions -> Nat]
      /\ inflight \in [Actions -> Nat]
      /\ \A e \in Executors : result[e] \in Outcomes \cup {"none"}
  BY DEF TypeOK, LocalsTyped, RecordsTyped, ProviderTyped
<1>1. CASE UNCHANGED <<state, applied>>
  BY <1>1
<1>2. ASSUME NEW e \in Executors, Fence(e), FencePassed(e)
      PROVE  Promise!Next
  <2>1. PICK a \in Actions : a = job[e]
    BY <1>2 DEF Fence, Control
  <2>2. Promise!Start(a)
    BY <1>2, <2>1, <1>s
    DEF Fence, FencePassed, Promise!Start, Promise!Move, Phase, Uncertain, provider
  <2> QED BY <2>2 DEF Promise!Next
<1>3. ASSUME NEW e \in Executors, Fence(e), FenceDenied(e)
      PROVE  Promise!Next
  <2>1. PICK a \in Actions : a = job[e]
    BY <1>3 DEF Fence, Control
  <2>2. Promise!Refuse(a)
    BY <1>3, <2>1, <1>s
    DEF Fence, FenceDenied, Promise!Refuse, Promise!Move, Phase, Uncertain, provider
  <2> QED BY <2>2 DEF Promise!Next
<1>4. ASSUME NEW e \in Executors, Report(e)
      PROVE  Quiet
  BY <1>4, <1>s DEF Report, Phase, Uncertain, provider
<1>5. ASSUME NEW e \in Executors, Complete(e), state[job[e]] \notin Settled
      PROVE  Promise!Next
  <2>a. PICK a \in Actions : a = job[e]
    BY <1>5 DEF Complete, Control
  <2>1. UNCHANGED applied /\ state[a] \in {"authorized"} \cup Uncertain
    BY <1>5, <2>a, <1>s DEF Complete, provider, ActionStates
  <2>2. CASE result[e] = "succeeded"
    <3>1. applied[a] > 0 \/ a \in Already
      BY <2>2, <2>a DEF Truth, InPlace
    <3>2. state[a] \in Uncertain /\ state' = [state EXCEPT ![a] = "verified"]
      BY <1>5, <2>2, <2>a DEF Complete, CompleteVerified
    <3>3. Promise!Verify(a)
      BY <2>1, <3>1, <3>2, <1>s DEF Promise!Verify, Promise!Move, Phase, Uncertain
    <3> QED BY <3>3 DEF Promise!Next
  <2>3. CASE result[e] # "succeeded"
    <3>1. \/ state' = [state EXCEPT ![a] = "failed"]
          \/ state' = [state EXCEPT ![a] = "unverifiable"]
      BY <1>5, <2>3, <2>a DEF Complete, CompleteOtherwise
    <3>2. Promise!GiveUp(a)
      BY <2>1, <3>1, <1>s DEF Promise!GiveUp, Promise!Move, Phase, Uncertain
    <3> QED BY <3>2 DEF Promise!Next
  <2> QED BY <2>2, <2>3
<1>6. ASSUME NEW a \in Actions, ProviderApplies(a)
      PROVE  Promise!Next
  <2>1. inflight[a] > 0 /\ applied' = [applied EXCEPT ![a] = @ + 1] /\ UNCHANGED state
    BY <1>6 DEF ProviderApplies, records
  <2>2. applied[a] = 0
    BY <2>1, <1>s DEF AtMostOnce
  <2>3. state[a] \notin {"authorized", "cancelled"}
    BY <2>1, <1>s DEF Ownership, Untouched
  <2>4. applied' = [applied EXCEPT ![a] = 1]
    BY <2>1, <2>2
  <2>5. Phase(state[a]) \notin {"waiting", "cancelled"}
    BY <2>3, <1>s DEF Phase, Uncertain, ActionStates, Settled
  <2>6. Promise!Land(a)
    BY <2>1, <2>2, <2>4, <2>5 DEF Promise!Land, Phase
  <2> QED BY <2>6 DEF Promise!Next
<1>7. CASE \A a \in Actions : ~ProviderApplies(a)
  <2>1. UNCHANGED applied
    <3>1. \A e \in Executors : Mutation(e) \/ Readback(e) => UNCHANGED applied
      BY DEF Mutation, IssueCall, CallNeverMade, CallSucceeds, CallRefused,
         CallAmbiguous, Retain, Report, Readback, VerificationUnavailable, ReadFlag,
         ReadDraft, BeginScan, ScanPage, ScanIncomplete, provider
    <3>2. \A e \in Executors : Precheck(e) \/ Fence(e) \/ Complete(e) \/ Crash(e)
             => UNCHANGED applied
      BY DEF Precheck, Fence, Complete, Crash, provider
    <3>3. \A e \in Executors, a \in Actions : Claim(e, a) => UNCHANGED applied
      BY DEF Claim, provider
    <3>4. \A a \in Actions : ProviderIgnores(a) => UNCHANGED applied
      BY DEF ProviderIgnores
    <3>5. Outside \/ UNCHANGED vars => UNCHANGED applied
      BY DEF Outside, DeadlinePasses, WindowSlides, Revoke, SetAccountPause,
         SetAccountActive, Acknowledge, SetGlobalPause, vars, provider
    <3> QED BY <1>7, <3>1, <3>2, <3>3, <3>4, <3>5, StepCases
  <2>2. UNCHANGED state => Quiet
    BY <2>1
  <2> QED BY <2>2, <1>2, <1>3, <1>4, <1>5, StateSteps
<1> QED BY <1>6, <1>7

\* Without draft edits, every behaviour of the executors, with their retries,
\* races and crashes, is one that MutationPromise allows.
THEOREM PromiseKept ==
    ASSUME NoDraftEdits
    PROVE  Spec => KeepsPromise
<1>1. Init => Promise!Init
  <2> SUFFICES ASSUME Init PROVE Promise!Init
    OBVIOUS
  <2>1. /\ state = [a \in Actions |-> "authorized"]
        /\ applied = [a \in Actions |-> 0]
    BY DEF Init
  <2>2. \A a \in Actions : Phase(state[a]) = "waiting"
    <3>1. \A s : s = "authorized" => Phase(s) = "waiting"
      BY DEF Phase, Uncertain
    <3> QED BY <2>1, <3>1
  <2> QED BY <2>1, <2>2 DEF Promise!Init
<1>2. Verified /\ [Next]_vars =>
        [Promise!Next]_<<[a \in Actions |-> Phase(state[a])], applied>>
  BY PromiseStep
<1> QED BY <1>1, <1>2, VerifiedInvariant, PTL DEF Spec, KeepsPromise, Promise!Spec

-----------------------------------------------------------------------------
(* Activities and the safety window. *)

\* Which steps change an activity, and which the safety window.
LEMMA ActivitySteps ==
    ASSUME [Next]_vars
    PROVE  \/ UNCHANGED activity
           \/ \E v \in Activities : Acknowledge(v)
           \/ \E v : AggregateActivity(v, state')
<1>1. ASSUME NEW e \in Executors, Fence(e) \/ Complete(e)
      PROVE  UNCHANGED activity \/ \E v : AggregateActivity(v, state')
  BY <1>1 DEF Fence, FenceLost, FencePaused, FenceDenied, FencePassed, Complete, records
<1>2. ASSUME NEW e \in Executors, Mutation(e) \/ Readback(e) \/ Precheck(e) \/ Crash(e)
      PROVE  UNCHANGED activity
  BY <1>2 DEF Mutation, IssueCall, CallNeverMade, CallSucceeds, CallRefused, CallAmbiguous,
     Retain, Report, Readback, VerificationUnavailable, ReadFlag, ReadDraft, BeginScan,
     ScanPage, ScanIncomplete, Precheck, Crash, records
<1>3. ASSUME \/ \E e \in Executors, a \in Actions : Claim(e, a)
             \/ \E a \in Actions : ProviderApplies(a) \/ ProviderIgnores(a)
             \/ UNCHANGED vars
      PROVE  UNCHANGED activity
  BY <1>3 DEF Claim, ProviderApplies, ProviderIgnores, vars, records
<1>4. ASSUME Outside PROVE UNCHANGED activity \/ \E v \in Activities : Acknowledge(v)
  BY <1>4 DEF Outside, DeadlinePasses, WindowSlides, Revoke, SetAccountPause,
     SetAccountActive, SetGlobalPause, records
<1> QED BY <1>1, <1>2, <1>3, <1>4, StepCases

LEMMA SafetySteps ==
    ASSUME [Next]_vars
    PROVE  \/ UNCHANGED <<sample, alerts>>
           \/ \E e \in Executors : /\ Complete(e) /\ state[job[e]] \notin Settled
                                   /\ ~UNCHANGED safety
           \/ \E a \in Actions : WindowSlides(a)
<1>1. ASSUME NEW e \in Executors, Complete(e), state[job[e]] \in Settled \/ UNCHANGED safety
      PROVE  UNCHANGED safety
  BY <1>1 DEF Complete
<1>2. ASSUME NEW e \in Executors,
             Fence(e) \/ Mutation(e) \/ Readback(e) \/ Precheck(e) \/ Crash(e)
      PROVE  UNCHANGED safety
  BY <1>2 DEF Fence, Mutation, IssueCall, CallNeverMade, CallSucceeds, CallRefused,
     CallAmbiguous, Retain, Report, Readback, VerificationUnavailable, ReadFlag, ReadDraft,
     BeginScan, ScanPage, ScanIncomplete, Precheck, Crash
<1>3. ASSUME \/ \E e \in Executors, a \in Actions : Claim(e, a)
             \/ \E a \in Actions : ProviderApplies(a) \/ ProviderIgnores(a)
             \/ UNCHANGED vars
      PROVE  UNCHANGED safety
  BY <1>3 DEF Claim, ProviderApplies, ProviderIgnores, vars
<1>4. ASSUME Outside PROVE UNCHANGED <<sample, alerts>> \/ \E a \in Actions : WindowSlides(a)
  BY <1>4 DEF Outside, DeadlinePasses, Revoke, SetAccountPause, SetAccountActive, Acknowledge,
     SetGlobalPause, safety
<1> QED BY <1>1, <1>2, <1>3, <1>4, StepCases DEF safety

\* An activity is resolved by the aggregate of its actions' states, which later
\* steps do not take back.
LEMMA StepResolved ==
    TypeOK /\ Control /\ ResolvedMeansVerified /\ [Next]_vars => ResolvedMeansVerified'
<1> SUFFICES ASSUME TypeOK, Control, ResolvedMeansVerified, [Next]_vars,
                    NEW a \in Actions,
                    activity'[ActivityOf[a]] \in {"resolved", "acknowledged"}
             PROVE  state'[a] = "verified"
  BY DEF ResolvedMeansVerified
<1> DEFINE v == ActivityOf[a]
<1>t. /\ v \in Activities /\ state \in [Actions -> ActionStates]
      /\ activity \in [Activities ->
                          {"open", "attention_required", "resolved", "acknowledged"}]
      /\ state' \in [Actions -> ActionStates]
  BY TypedStep, ActionsAssumption DEF TypeOK, RecordsTyped
<1>1. CASE activity[v] \in {"resolved", "acknowledged"}
  <2>1. state[a] = "verified"
    BY <1>1 DEF ResolvedMeansVerified
  <2> QED BY <2>1, SettledStays DEF Settled
<1>2. CASE activity[v] \notin {"resolved", "acknowledged"}
  <2>1. ASSUME NEW w, AggregateActivity(w, state') PROVE state'[a] = "verified"
    <3>1. w = v /\ Aggregate(v, state') = "resolved"
      BY <1>t, <1>2, <2>1 DEF AggregateActivity, Aggregate
    <3>2. state'[a] \in {state'[b] : b \in {c \in Actions : ActivityOf[c] = v}}
      OBVIOUS
    <3> QED BY <1>t, <3>1, <3>2 DEF Aggregate, ActionStates, Settled
  <2>2. ASSUME NEW w \in Activities, Acknowledge(w) PROVE FALSE
    BY <1>t, <1>2, <2>2 DEF Acknowledge
  <2> QED BY <1>2, <2>1, <2>2, ActivitySteps
<1> QED BY <1>1, <1>2

\* An activity rests only when every one of its actions was verified.
THEOREM ResolvedIsVerified == Spec => []ResolvedMeansVerified
<1>1. Init => ResolvedMeansVerified
  BY ActionsAssumption DEF Init, ResolvedMeansVerified
<1> QED BY <1>1, StepResolved, TypeCorrect, PTL DEF Spec

\* Only a settled action was counted, so that none is counted again.
SampledOnce == \A a \in Actions : sample[a] # "none" => state[a] \in Settled

LEMMA StepSampled ==
    TypeOK /\ Control /\ SampledOnce /\ [Next]_vars => SampledOnce'
<1> SUFFICES ASSUME TypeOK, Control, SampledOnce, [Next]_vars PROVE SampledOnce'
  OBVIOUS
<1>t. state \in [Actions -> ActionStates] /\ sample \in [Actions -> {"none", "succeeded",
          "incorrect", "aged"}]
  BY DEF TypeOK, RecordsTyped, SafetyTyped
<1>s. \A a \in Actions : state[a] \in Settled => state'[a] \in Settled
  BY SettledStays
<1>1. ASSUME NEW e \in Executors, Complete(e), state[job[e]] \notin Settled
      PROVE  SampledOnce'
  <2>1. job[e] \in Actions
    BY <1>1 DEF Complete, Control
  <2>2. \A a \in Actions : a # job[e] => sample'[a] = sample[a]
    BY <1>1, <1>t DEF Complete, CompleteVerified, CompleteOtherwise, SampleSafety, safety
  <2>3. state'[job[e]] \in Settled
    BY <1>1, <1>t, <2>1 DEF Complete, CompleteVerified, CompleteOtherwise, Settled
  <2> QED BY <1>s, <2>2, <2>3 DEF SampledOnce
<1>2. ASSUME NEW a \in Actions, WindowSlides(a) PROVE SampledOnce'
  BY <1>s, <1>t, <1>2 DEF WindowSlides, SampledOnce
<1>3. ASSUME UNCHANGED sample PROVE SampledOnce'
  BY <1>s, <1>3 DEF SampledOnce
<1> QED BY <1>1, <1>2, <1>3, SafetySteps

\* A count of a window that is not empty, for any samples.
LEMMA WindowCounted ==
    ASSUME NEW m, NEW samples, NEW which, NEW a \in InWindow(m, samples, which)
    PROVE  Cardinality(InWindow(m, samples, which)) > 0
<1>1. IsFiniteSet(InWindow(m, samples, which))
  BY ActionsAssumption, FS_Subset DEF InWindow
<1> QED BY <1>1, FS_EmptySet, FS_CardinalityType

LEMMA StepCrossing ==
    ASSUME TypeOK, Control, SampledOnce, [Next]_vars, NEW m \in Accounts
    PROVE  LET new == \E a \in Actions : AccountOf[a] = m
                        /\ sample[a] = "none" /\ sample'[a] # "none"
               share == Cardinality(InWindow(m, sample', {"incorrect"}))
               total == Cardinality(InWindow(m, sample', {"succeeded", "incorrect"}))
           IN  IF new
                 THEN /\ share * RateDen >= RateNum * total => paused'[m]
                      /\ alerts'[m] - alerts[m] =
                            (IF paused'[m] /\ ~paused[m] THEN 1 ELSE 0)
                 ELSE alerts'[m] = alerts[m]
<1>t. /\ sample \in [Actions -> {"none", "succeeded", "incorrect", "aged"}]
      /\ paused \in [Accounts -> BOOLEAN] /\ alerts \in [Accounts -> Nat]
  BY DEF TypeOK, SafetyTyped
<1> DEFINE new == \E a \in Actions : AccountOf[a] = m
                        /\ sample[a] = "none" /\ sample'[a] # "none"
           share == Cardinality(InWindow(m, sample', {"incorrect"}))
           total == Cardinality(InWindow(m, sample', {"succeeded", "incorrect"}))
<1>1. ASSUME NEW e \in Executors, Complete(e), state[job[e]] \notin Settled, ~UNCHANGED safety
      PROVE  IF new
               THEN /\ share * RateDen >= RateNum * total => paused'[m]
                    /\ alerts'[m] - alerts[m] = (IF paused'[m] /\ ~paused[m] THEN 1 ELSE 0)
               ELSE alerts'[m] = alerts[m]
  <2> DEFINE a == job[e]
  <2>1. PICK outcome \in {"succeeded", "incorrect"} : SampleSafety(a, outcome)
    BY <1>1 DEF Complete, CompleteVerified, CompleteOtherwise
  <2>2. a \in Actions /\ sample[a] = "none" /\ sample' = [sample EXCEPT ![a] = outcome]
    BY <1>1, <2>1 DEF Complete, Control, SampledOnce, SampleSafety
  <2>3. CASE AccountOf[a] = m
    <3>1. new /\ total > 0
      <4>1. a \in InWindow(m, sample', {"succeeded", "incorrect"})
        BY <1>t, <2>2, <2>3 DEF InWindow
      <4> QED BY <1>t, <2>2, <2>3, <4>1, WindowCounted
    <3>2. OverThreshold(m, sample') <=> share * RateDen >= RateNum * total
      BY <3>1 DEF OverThreshold
    <3> HIDE DEF new, share, total
    <3>3. CASE OverThreshold(m, sample') /\ ~paused[m]
      <4>1. paused'[m] /\ alerts'[m] = alerts[m] + 1
        BY <1>t, <2>1, <2>3, <3>3 DEF SampleSafety
      <4> QED BY <1>t, <3>1, <3>3, <4>1
    <3>4. CASE ~(OverThreshold(m, sample') /\ ~paused[m])
      <4>1. paused'[m] = paused[m] /\ alerts'[m] = alerts[m]
        BY <1>t, <2>1, <2>3, <3>4 DEF SampleSafety
      <4> QED BY <1>t, <3>1, <3>2, <3>4, <4>1
    <3> QED BY <3>3, <3>4
  <2>4. CASE AccountOf[a] # m
    <3>1. ~new
      BY <1>t, <2>2, <2>4
    <3>2. alerts'[m] = alerts[m]
      BY <1>t, <2>1, <2>4 DEF SampleSafety
    <3> QED BY <3>1, <3>2
  <2> QED BY <2>3, <2>4
<1>2. ASSUME NEW a \in Actions, WindowSlides(a) PROVE ~new /\ alerts' = alerts
  BY <1>t, <1>2 DEF WindowSlides
<1>3. ASSUME UNCHANGED sample, UNCHANGED alerts PROVE ~new /\ alerts' = alerts
  BY <1>3
<1> QED BY <1>1, <1>2, <1>3, SafetySteps DEF safety

\* A new sample that leaves the window at or over the limit leaves the account
\* paused, and each such pause raises one alert and touches no other account.
THEOREM CrossingPauses == Spec => CrossingPausesOnce
<1>1. Init => SampledOnce
  BY DEF Init, SampledOnce
<1>2. TypeOK /\ Control /\ SampledOnce /\ [Next]_vars =>
        [\A m \in Accounts :
          LET new == \E a \in Actions : AccountOf[a] = m
                        /\ sample[a] = "none" /\ sample'[a] # "none"
              share == Cardinality(InWindow(m, sample', {"incorrect"}))
              total == Cardinality(InWindow(m, sample', {"succeeded", "incorrect"}))
          IN  IF new
                THEN /\ share * RateDen >= RateNum * total => paused'[m]
                     /\ alerts'[m] - alerts[m] =
                           (IF paused'[m] /\ ~paused[m] THEN 1 ELSE 0)
                ELSE alerts'[m] = alerts[m]]_safety
  BY StepCrossing
<1> QED BY <1>1, <1>2, StepSampled, TypeCorrect, PTL DEF Spec, CrossingPausesOnce
=============================================================================

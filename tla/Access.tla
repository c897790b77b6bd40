------------------------------- MODULE Access -------------------------------
(***************************************************************************)
(* How the owner gets in: passwords, sessions and recovery, by AuthService *)
(* (packages/auth/src/index.ts) over its store (postgres-store.ts), and    *)
(* the delivery of recovery mail (recovery-delivery.ts).                   *)
(*                                                                         *)
(* A password is the number of times it was set: a hash never recurs.  The *)
(* owner types the current one, and rate limits, wrong passwords and the   *)
(* like are the freedom not to go on.  Better Auth, which the server does  *)
(* not mount, is left out.                                                 *)
(***************************************************************************)
EXTENDS Naturals

CONSTANTS
    Sessions,      \* identities of sessions
    Requests,      \* sign-ins, re-authentications and rotations
    Recoveries,    \* recovery tokens, each with its mail
    Schedulers,    \* RecoveryDeliveryScheduler of each web process
    MaxAttempts,   \* claims of one mail; 3 in the code
    MaxChanges,    \* bound: passwords set
    MaxFaults      \* bound: failed deliveries, crashes, claims that run out

VARIABLES
    password,      \* app.users.password_hash
    session,       \* app.sessions, with the password it was opened with
    request,       \* the locals of each handler
    token,         \* app.recovery_tokens, and the password when issued
    mail,          \* app.recovery_mail_deliveries
    scheduler,     \* the delivery each scheduler is at
    handed,        \* how often each mail was handed to SMTP
    faults

credentials == <<password, session, request>>
delivery == <<mail, scheduler, handed>>
vars == <<credentials, token, delivery, faults>>

NoRequest == [stage |-> "idle", expected |-> 0, session |-> CHOOSE s \in Sessions : TRUE]
NoMail == [state |-> "none", attempt |-> 0, claimed |-> FALSE, payload |-> FALSE]
NoDelivery == [stage |-> "idle", mail |-> CHOOSE m \in Recoveries : TRUE, attempt |-> 0,
               delivered |-> FALSE]

Init ==
    /\ password = 1
    /\ session = [s \in Sessions |-> [state |-> "none", password |-> 0]]
    /\ request = [r \in Requests |-> NoRequest]
    /\ token = [m \in Recoveries |-> [state |-> "none", issued |-> 0]]
    /\ mail = [m \in Recoveries |-> NoMail]
    /\ scheduler = [d \in Schedulers |-> NoDelivery]
    /\ handed = [m \in Recoveries |-> 0]
    /\ faults = 0

Fault == faults < MaxFaults /\ faults' = faults + 1
Revoked(which) ==
    [s \in Sessions |-> IF s \in which /\ session[s].state = "active"
                        THEN [session[s] EXCEPT !.state = "ended"] ELSE session[s]]
Request(r, stage, expected, s) ==
    request' = [request EXCEPT ![r] = [stage |-> stage, expected |-> expected, session |-> s]]
EndRequest(r) == request' = [request EXCEPT ![r] = NoRequest]

-----------------------------------------------------------------------------
(* Sessions *)

\* signIn() and bootstrap(): the hash that the password was compared with.
SignIn(r) ==
    /\ request[r].stage = "idle"
    /\ Request(r, "opening", password, request[r].session)
    /\ UNCHANGED <<password, session, token, delivery, faults>>

\* reauthenticate() and rotatePassword(): the session is active, the user read.
Authenticate(r, s) ==
    /\ request[r].stage = "idle" /\ session[s].state = "active"
    /\ \E stage \in {"replacing", "rotating"} : Request(r, stage, password, s)
    /\ UNCHANGED <<password, session, token, delivery, faults>>

\* reauthenticate() ends the session that it replaces.
Replace(r) ==
    /\ request[r].stage = "replacing"
    /\ session' = Revoked({request[r].session})
    /\ request' = [request EXCEPT ![r].stage = "opening"]
    /\ UNCHANGED <<password, token, delivery, faults>>

\* rotatePassword() of the store, under the lock of the user.
Rotate(r) ==
    LET s == request[r].session
    IN /\ request[r].stage = "rotating" /\ password <= MaxChanges
       /\ IF password = request[r].expected /\ session[s].state = "active"
          THEN /\ password' = password + 1
               /\ session' = Revoked(Sessions)
               /\ Request(r, "opening", password + 1, s)
          ELSE EndRequest(r) /\ UNCHANGED <<password, session>>
       /\ UNCHANGED <<token, delivery, faults>>

\* createSession() locks the user and compares the hash.
MayOpen(r) == password = request[r].expected

OpenSession(r, s) ==
    /\ request[r].stage = "opening" /\ session[s].state = "none"
    /\ session' = IF MayOpen(r)
                  THEN [session EXCEPT ![s] = [state |-> "active", password |-> request[r].expected]]
                  ELSE session
    /\ EndRequest(r)
    /\ UNCHANGED <<password, token, delivery, faults>>

\* signOut(), or the session expires.
EndSession(s) ==
    /\ session[s].state = "active"
    /\ session' = Revoked({s})
    /\ UNCHANGED <<password, request, token, delivery, faults>>

-----------------------------------------------------------------------------
(* Recovery *)

\* issueRecovery(): token, mail and identifier in one transaction.
IssueRecovery(m) ==
    /\ token[m].state = "none"
    /\ token' = [token EXCEPT ![m] = [state |-> "open", issued |-> password]]
    /\ mail' = [mail EXCEPT ![m] = [state |-> "pending", attempt |-> 0, claimed |-> FALSE,
                                    payload |-> TRUE]]
    /\ UNCHANGED <<credentials, scheduler, handed, faults>>

\* All tokens of the owner are.
Consumes(m) == Recoveries

\* resetRecovery(), with a token that was delivered, to whoever presents it.
ResetRecovery(m) ==
    /\ token[m].state = "open" /\ handed[m] > 0 /\ password <= MaxChanges
    /\ password' = password + 1
    /\ session' = Revoked(Sessions)
    /\ token' = [n \in Recoveries |-> IF n \in Consumes(m) /\ token[n].state = "open"
                                      THEN [token[n] EXCEPT !.state = "consumed"] ELSE token[n]]
    /\ UNCHANGED <<request, delivery, faults>>

\* A quarter of an hour ends token and mail.
ExpireRecovery(m) ==
    /\ token[m].state \in {"open", "consumed"}
    /\ token' = [token EXCEPT ![m].state = "expired"]
    /\ UNCHANGED <<credentials, delivery, faults>>

-----------------------------------------------------------------------------
(* Delivery of recovery mail *)

Failed(m) == mail' = [mail EXCEPT ![m] = [@ EXCEPT !.state = "failed", !.payload = FALSE,
                                                   !.claimed = FALSE]]

\* purgeExpiredRecoveryPayloads()
Purge(m) ==
    /\ token[m].state = "expired" /\ mail[m].payload
    /\ Failed(m)
    /\ UNCHANGED <<credentials, token, scheduler, handed, faults>>

\* Mutant of LastClaimExpired: an expired last claim waits for another attempt.
LastClaimExpiredNever(m) == FALSE

LastClaimExpired(m) ==
    mail[m].state = "processing" /\ mail[m].attempt = MaxAttempts /\ ~mail[m].claimed

EndLastClaim(m) ==
    /\ LastClaimExpired(m)
    /\ Failed(m)
    /\ UNCHANGED <<credentials, token, scheduler, handed, faults>>

Claimable(m) == mail[m].attempt < MaxAttempts

\* The claim's token is its attempt.
Claim(d, m) ==
    /\ scheduler[d].stage = "idle"
    /\ token[m].state # "expired" /\ Claimable(m)
    /\ mail[m].state = "pending" \/ (mail[m].state = "processing" /\ ~mail[m].claimed)
    /\ mail' = [mail EXCEPT ![m] = [mail[m] EXCEPT !.state = "processing", !.attempt = @ + 1,
                                                   !.claimed = TRUE]]
    /\ scheduler' = [scheduler EXCEPT ![d] = [stage |-> "sending", mail |-> m,
                                              attempt |-> mail[m].attempt + 1, delivered |-> FALSE]]
    /\ UNCHANGED <<credentials, token, handed, faults>>

\* smtp.deliver(); an error may hide that the mail went out.
Deliver(d) ==
    /\ scheduler[d].stage = "sending"
    /\ \E delivered, answered \in BOOLEAN :
          /\ answered => delivered
          /\ IF answered THEN UNCHANGED faults ELSE Fault
          /\ handed' = [handed EXCEPT ![scheduler[d].mail] = @ + IF delivered THEN 1 ELSE 0]
          /\ scheduler' = [scheduler EXCEPT ![d] = [@ EXCEPT !.stage = "recording",
                                                             !.delivered = answered]]
    /\ UNCHANGED <<credentials, token, mail>>

\* The outcome, if the claim still stands.
Record(d) ==
    LET m == scheduler[d].mail
        terminal == scheduler[d].delivered \/ scheduler[d].attempt >= MaxAttempts
    IN /\ scheduler[d].stage = "recording"
       /\ mail' = IF mail[m].state = "processing" /\ mail[m].claimed
                     /\ mail[m].attempt = scheduler[d].attempt
                  THEN [mail EXCEPT ![m] =
                          [@ EXCEPT !.state = IF scheduler[d].delivered THEN "delivered"
                                              ELSE IF terminal THEN "failed" ELSE "pending",
                                    !.payload = ~terminal, !.claimed = FALSE]]
                  ELSE mail
       /\ scheduler' = [scheduler EXCEPT ![d] = NoDelivery]
       /\ UNCHANGED <<credentials, token, handed, faults>>

\* Two minutes pass without an outcome, or the process died before one.
ClaimExpires(m) ==
    /\ mail[m].claimed
    /\ Fault
    /\ mail' = [mail EXCEPT ![m].claimed = FALSE]
    /\ \E dead \in SUBSET {d \in Schedulers : scheduler[d].stage # "idle" /\ scheduler[d].mail = m} :
          scheduler' = [d \in Schedulers |-> IF d \in dead THEN NoDelivery ELSE scheduler[d]]
    /\ UNCHANGED <<credentials, token, handed>>

Sweep(m) == Purge(m) \/ EndLastClaim(m) \/ \E d \in Schedulers : Claim(d, m)
Work(d) == Deliver(d) \/ Record(d)

Next ==
    \/ \E r \in Requests : \/ SignIn(r) \/ Replace(r) \/ Rotate(r)
                           \/ \E s \in Sessions : Authenticate(r, s) \/ OpenSession(r, s)
    \/ \E s \in Sessions : EndSession(s)
    \/ \E m \in Recoveries : \/ IssueRecovery(m) \/ ResetRecovery(m) \/ ExpireRecovery(m)
                             \/ Sweep(m) \/ ClaimExpires(m)
    \/ \E d \in Schedulers : Work(d)

Spec == Init /\ [][Next]_vars

\* Some scheduler sweeps every second, and a delivery comes to its end.
Fairness ==
    /\ \A m \in Recoveries : WF_vars(Sweep(m))
    /\ \A d \in Schedulers : WF_vars(Work(d))

FairSpec == Spec /\ Fairness

-----------------------------------------------------------------------------
(* Properties *)

TypeOK ==
    /\ password \in 1..(MaxChanges + 1)
    /\ session \in [Sessions -> [state : {"none", "active", "ended"}, password : 0..password]]
    /\ \A r \in Requests : request[r].stage \in {"idle", "opening", "replacing", "rotating"}
    /\ token \in [Recoveries -> [state : {"none", "open", "consumed", "expired"},
                                 issued : 0..password]]
    /\ \A m \in Recoveries :
          /\ mail[m].attempt \in 0..MaxAttempts
          /\ mail[m].state \in {"none", "pending", "processing", "delivered", "failed"}
          /\ mail[m].payload <=> mail[m].state \in {"pending", "processing"}
    /\ faults \in 0..MaxFaults

\* Once the password is changed, by its owner or by recovery, nobody is in or
\* gets in by an older one, and a recovery link from before a recovery is dead.
OldCredentialsAreDead ==
    /\ \A s \in Sessions : session[s].state = "active" => session[s].password = password
    /\ \A m, n \in Recoveries :
          token[m].state = "open" /\ token[n].state = "consumed" => token[m].issued > token[n].issued

\* A recovery mail goes out at most once for each claim, however many
\* schedulers run, and what is called delivered went out.
MailIsBounded ==
    \A m \in Recoveries :
        /\ handed[m] <= mail[m].attempt /\ mail[m].attempt <= MaxAttempts
        /\ mail[m].state = "delivered" => handed[m] > 0

\* Every recovery mail is delivered or given up, and its link removed, even
\* when the process dies over its last attempt.
MailSettles == \A m \in Recoveries : mail[m].payload ~> ~mail[m].payload
=============================================================================

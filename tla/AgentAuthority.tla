--------------------------- MODULE AgentAuthority ---------------------------
(***************************************************************************)
(* What a connected agent may do to one mailbox and when it no longer may: *)
(* connections, the manager of the mailbox and its capability grant        *)
(* (apps/web/src/agent-connections/postgres-repository.ts, the stores      *)
(* packages/db/src/agent-manager-store.ts and capability-grant-store.ts    *)
(* with the triggers of drizzle/0005), and the tokens that OAuthService    *)
(* (apps/web/src/oauth/service.ts) issues and accepts on that ground.      *)
(*                                                                         *)
(* Each connection has one client, which the owner lets in once: families  *)
(* of tokens share nothing but the authority they rest on.  Calls with a   *)
(* stale revision are refused and are not steps.  Capabilities, modes,     *)
(* PKCE and redirect addresses are left out.                               *)
(***************************************************************************)
EXTENDS Naturals, Sequences, SequencesExt

CONSTANTS
    Connections,   \* agent connections of the owner
    MaxChanges,    \* bound: revisions of connections, assignment, grant and ceiling
    MaxGeneration  \* bound: generations of a token family

VARIABLES
    connection,    \* agent_connections
    assignment,    \* mailbox_manager_assignments
    grants,        \* agent_capability_grant_revisions; the last is the grant
    approvals,     \* revisions in capability_grant_reapproval_events
    ceiling,       \* revision of agent_safety_ceiling
    consent,       \* the consent request and its code
    family,        \* oauth_token_families and their tokens, by generation
    lapsed,        \* history: revisions the grant had when the mailbox last changed its
                   \* manager or the connection was security revoked
    changes        \* counts revisions, for the bound

owner == <<connection, assignment, grants, approvals, ceiling, lapsed, changes>>
vars == <<owner, consent, family>>

States == {"connected", "paused", "disconnected", "security_revoked"}
Holders == Connections \cup {"mastra"}
Managers == Holders \cup {"none"}
GrantStates == {"active", "revoked", "reapproval_required"}
NoVector == <<0, 0, 0, 0>>

Init ==
    /\ connection = [k \in Connections |-> [state |-> "connected", revision |-> 1]]
    /\ assignment \in [manager : Managers, automatic : {FALSE}, revision : {1}]
    /\ grants = <<>>
    /\ approvals = {}
    /\ ceiling = 1
    /\ consent = [k \in Connections |-> [stage |-> "none", vector |-> NoVector]]
    /\ family = [k \in Connections |-> [revoked |-> FALSE, expired |-> FALSE, tokens |-> <<>>]]
    /\ lapsed = [k \in Connections |-> 0]
    /\ changes = 0

Change == changes < MaxChanges /\ changes' = changes + 1
Granted == grants # <<>>
Record(manager, state) == grants' = Append(grants, [manager |-> manager, state |-> state])

\* enforce_capability_grant_matches_assignment(), at the end of a transaction.
GrantMatches(grant, manager) == grant.state # "revoked" => grant.manager = manager
Lapse(changed) == lapsed' = IF changed THEN [k \in Connections |-> Len(grants)] ELSE lapsed
Matching == grants' # <<>> => GrantMatches(Last(grants'), assignment'.manager)

-----------------------------------------------------------------------------
(* Connections *)

\* lifecycleTransitions
Transitions(state) ==
    CASE state = "security_revoked" -> {}
      [] state = "disconnected" -> {"connected", "security_revoked"}
      [] OTHER -> States \ {state}

\* Mutant of Revised: a connection that comes back is the one it was.
RevisedNever(k, state) == [state |-> state, revision |-> connection[k].revision]

Revised(k, state) == [state |-> state, revision |-> connection[k].revision + 1]

\* Mutant of Fences: security revocation leaves the grant alone.
FencesNone(k) == FALSE

\* require_grant_reapproval_after_security_revocation()
Fences(k) == Granted /\ Last(grants) = [manager |-> k, state |-> "active"]

SetLifecycle(k, state) ==
    /\ Change
    /\ connection[k].state \notin {state, "security_revoked"}
    /\ connection' = [connection EXCEPT ![k] = Revised(k, state)]
    /\ IF state = "security_revoked" /\ Fences(k)
       THEN Record(k, "reapproval_required")
       ELSE UNCHANGED grants
    /\ lapsed' = IF state = "security_revoked" THEN [lapsed EXCEPT ![k] = Len(grants)] ELSE lapsed
    /\ UNCHANGED <<assignment, approvals, ceiling, consent, family>>

\* AgentManagerStore.reviseConnectionLifecycle(): the caller names the state it
\* has seen, and the table of transitions decides before the row is touched.
ReviseConnectionLifecycle(k, seen, state) ==
    /\ state \in Transitions(seen)
    /\ connection[k].state = seen
    /\ SetLifecycle(k, state)

\* reconnectSecurityRevoked(), with a verified proof that it consumes.
ReconnectSecurityRevoked(k) ==
    /\ Change
    /\ connection[k].state = "security_revoked"
    /\ connection' = [connection EXCEPT ![k] = Revised(k, "connected")]
    /\ UNCHANGED <<assignment, grants, approvals, ceiling, lapsed, consent, family>>

-----------------------------------------------------------------------------
(* Assignment and grant *)

\* A new manager never starts with automatic processing.
Assign(manager, automatic) ==
    LET changed == manager # assignment.manager
    IN /\ Change
       /\ changed \/ automatic # assignment.automatic
       /\ assignment' = [manager |-> manager, automatic |-> automatic /\ ~changed,
                         revision |-> assignment.revision + 1]
       /\ Lapse(changed)
       /\ UNCHANGED <<connection, approvals, ceiling, consent, family>>

\* The grant follows the new manager, who has to be approved anew.
FollowGrant(manager) ==
    /\ Granted
    /\ IF manager = "none"
       THEN Record(Last(grants).manager, "revoked")
       ELSE Record(manager, "reapproval_required")

\* setAssignment(): the grant follows when the caller names its revision.
SetAssignment(manager, automatic, withGrant) ==
    /\ Assign(manager, automatic)
    /\ IF manager # assignment.manager /\ withGrant
       THEN FollowGrant(manager)
       ELSE UNCHANGED grants
    /\ Matching

\* AgentManagerStore.reviseAssignment(): for mailboxes that have no grant.
ReviseAssignment(manager, automatic) ==
    /\ Assign(manager, automatic)
    /\ Granted => manager = assignment.manager
    /\ UNCHANGED grants

\* AgentManagerStore.reviseAssignmentAndFenceGrant()
ReviseAssignmentAndFenceGrant(manager) ==
    /\ manager # assignment.manager
    /\ Assign(manager, FALSE)
    /\ FollowGrant(manager)
    /\ ~(manager = "none" /\ Last(grants).state = "revoked")

\* activateAssistant(): the owner's confirmation is the approval.
ActivateAssistant ==
    LET foreign == Granted /\ Last(grants).manager # "mastra"
        ended == IF foreign /\ Last(grants).state # "revoked"
                 THEN Append(grants, [Last(grants) EXCEPT !.state = "revoked"])
                 ELSE grants
    IN /\ Change
       /\ assignment' = IF assignment.manager = "mastra" /\ assignment.automatic
                        THEN assignment
                        ELSE [manager |-> "mastra", automatic |-> TRUE,
                              revision |-> assignment.revision + 1]
       /\ grants' = Append(ended, [manager |-> "mastra", state |-> "active"])
       /\ approvals' = approvals \cup {Len(grants')}
       /\ Matching
       /\ Lapse(assignment.manager # "mastra")
       /\ UNCHANGED <<connection, ceiling, consent, family>>

\* CapabilityGrantStore.create()
CreateGrant(manager) ==
    /\ Change
    /\ ~Granted
    /\ Record(manager, "reapproval_required")
    /\ UNCHANGED <<connection, assignment, approvals, ceiling, lapsed, consent, family>>
    /\ Matching

\* CapabilityGrantStore.revise(): never makes a grant active, never gives an
\* active one to another manager.
ReviseGrant(manager, state) ==
    /\ Change
    /\ Granted
    /\ IF Last(grants).state = "active" THEN manager = Last(grants).manager ELSE state # "active"
    /\ Record(manager, state)
    /\ UNCHANGED <<connection, assignment, approvals, ceiling, lapsed, consent, family>>
    /\ Matching

\* reapproveGrant()
ReapproveGrant ==
    /\ Change
    /\ Granted /\ Last(grants).state = "reapproval_required"
    /\ Record(Last(grants).manager, "active")
    /\ approvals' = approvals \cup {Len(grants')}
    /\ UNCHANGED <<connection, assignment, ceiling, lapsed, consent, family>>

\* The operator changes the ceiling.
ReviseCeiling ==
    /\ Change
    /\ ceiling' = ceiling + 1
    /\ UNCHANGED <<connection, assignment, grants, approvals, lapsed, consent, family>>

-----------------------------------------------------------------------------
(* Consent and tokens *)

\* current()
Current(k) ==
    /\ connection[k].state = "connected"
    /\ assignment.manager = k
    /\ Granted /\ Last(grants) = [manager |-> k, state |-> "active"]

Vector(k) == <<connection[k].revision, assignment.revision, Len(grants), ceiling>>
Consent(k, stage, vector) == consent' = [consent EXCEPT ![k] = [stage |-> stage, vector |-> vector]]

BeginConsent(k) ==
    /\ consent[k].stage = "none" /\ Current(k)
    /\ Consent(k, "asked", NoVector)
    /\ UNCHANGED <<owner, family>>

\* approveConsent() locks the request; the code carries the revisions.
ApproveConsent(k) ==
    /\ consent[k].stage = "asked" /\ Current(k)
    /\ Consent(k, "coded", Vector(k))
    /\ UNCHANGED <<owner, family>>

\* denyConsent(), or the request or the code expires.
EndConsent(k) ==
    /\ consent[k].stage \in {"asked", "coded"}
    /\ Consent(k, "ended", NoVector)
    /\ UNCHANGED <<owner, family>>

\* issue(): the next generation, under the authority as it is now.
Issue(k, tokens) ==
    Append(tokens, [vector |-> Vector(k), ended |-> FALSE, presented |-> 0])

ExchangeCode(k) ==
    /\ consent[k].stage = "coded"
    /\ Current(k) /\ consent[k].vector = Vector(k)
    /\ Consent(k, "ended", NoVector)
    /\ family' = [family EXCEPT ![k].tokens = Issue(k, @)]
    /\ UNCHANGED owner

\* The token was consumed, or a later generation exists.
Reused(k, g) == family[k].tokens[g].presented > 0 \/ g < Len(family[k].tokens)

\* refresh(), whoever presents the token: presenting consumes it.
Refresh(k, g) ==
    LET presented == [family[k].tokens EXCEPT ![g].presented = @ + 1]
    IN /\ ~family[k].revoked /\ presented[g].presented <= 2
       /\ family' = [family EXCEPT ![k] =
             IF Reused(k, g) \/ ~Current(k)
             THEN [@ EXCEPT !.revoked = TRUE, !.tokens = presented]
             ELSE [@ EXCEPT !.tokens = IF family[k].expired THEN presented ELSE Issue(k, presented)]]
       /\ Len(family'[k].tokens) <= MaxGeneration
       /\ UNCHANGED <<owner, consent>>

\* revoke() with the refresh token.
RevokeFamily(k) ==
    /\ family[k].tokens # <<>> /\ ~family[k].revoked
    /\ family' = [family EXCEPT ![k].revoked = TRUE]
    /\ UNCHANGED <<owner, consent>>

\* revoke() with the access token, or its quarter of an hour is over.
EndAccess(k, g) ==
    /\ ~family[k].tokens[g].ended
    /\ family' = [family EXCEPT ![k].tokens[g].ended = TRUE]
    /\ UNCHANGED <<owner, consent>>

ExpireFamily(k) ==
    /\ family[k].tokens # <<>> /\ ~family[k].expired
    /\ family' = [family EXCEPT ![k].expired = TRUE]
    /\ UNCHANGED <<owner, consent>>

\* verifyAccess() and live(): nothing is taken from an earlier call.
Accepted(k, g) ==
    LET token == family[k].tokens[g]
    IN ~token.ended /\ ~family[k].revoked /\ Current(k) /\ token.vector = Vector(k)

Settings ==
    \/ \E k \in Connections :
          \/ ReconnectSecurityRevoked(k)
          \/ \E s \in States :
                SetLifecycle(k, s) \/ \E seen \in States : ReviseConnectionLifecycle(k, seen, s)
    \/ \E m \in Managers, automatic, withGrant \in BOOLEAN :
          SetAssignment(m, automatic, withGrant) \/ ReviseAssignment(m, automatic)
    \/ \E m \in Managers : ReviseAssignmentAndFenceGrant(m)
    \/ \E m \in Holders : CreateGrant(m) \/ \E s \in GrantStates : ReviseGrant(m, s)
    \/ ActivateAssistant \/ ReapproveGrant \/ ReviseCeiling

Tokens ==
    \E k \in Connections :
       \/ BeginConsent(k) \/ ApproveConsent(k) \/ EndConsent(k) \/ ExchangeCode(k)
       \/ \E g \in DOMAIN family[k].tokens : Refresh(k, g) \/ EndAccess(k, g)
       \/ RevokeFamily(k) \/ ExpireFamily(k)

Next == Settings \/ Tokens

Spec == Init /\ [][Next]_vars

-----------------------------------------------------------------------------
(* Properties *)

TypeOK ==
    /\ connection \in [Connections -> [state : States, revision : 1..(MaxChanges + 1)]]
    /\ assignment \in [manager : Managers, automatic : BOOLEAN, revision : 1..(MaxChanges + 1)]
    /\ grants \in Seq([manager : Holders, state : GrantStates])
    /\ approvals \subseteq DOMAIN grants
    /\ ceiling \in 1..(MaxChanges + 1)
    /\ \A k \in Connections : lapsed[k] <= Len(grants)
    /\ \A k \in Connections :
          /\ consent[k].stage \in {"none", "asked", "coded", "ended"}
          /\ Len(family[k].tokens) <= MaxGeneration
    /\ changes \in 0..MaxChanges

\* A token of an agent is accepted only on an approval by the owner that no
\* reassignment of the mailbox and no security revocation has followed.
AccessNeedsApproval ==
    \A k \in Connections : \A g \in DOMAIN family[k].tokens :
        Accepted(k, g) =>
            /\ connection[k].state = "connected" /\ assignment.manager = k
            /\ \E r \in approvals : r > lapsed[k] /\ grants[r].manager = k

\* A refresh token that two parties have presented ends what either of them
\* holds.
ReuseEndsFamily ==
    \A k \in Connections :
        (\E g \in DOMAIN family[k].tokens : family[k].tokens[g].presented > 1)
            => \A g \in DOMAIN family[k].tokens : ~Accepted(k, g)

\* An access token that is no longer accepted never is again, whatever the
\* owner takes back or turns on later.
RefusedStaysRefused ==
    [][\A k \in Connections : \A g \in DOMAIN family[k].tokens :
          ~Accepted(k, g) => ~Accepted(k, g)']_vars
=============================================================================

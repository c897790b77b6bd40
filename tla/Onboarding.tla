----------------------------- MODULE Onboarding -----------------------------
(***************************************************************************)
(* Mailboxes that owners connect: MailboxService                           *)
(* (apps/web/src/mailboxes/service.ts) behind its two routes, with the     *)
(* projection of what is ready into the tables                             *)
(* (UserAccountScopeStore.projectReadyAccount and                          *)
(* AgentManagerStore.assignCurrentDefault in packages/db).                 *)
(*                                                                         *)
(* Each owner has one address, which more than one provider may serve, and *)
(* a Hypermail of their own, leased for the length of a request.  The      *)
(* transaction of the projection is a step that looks for the account, and *)
(* one that writes: when there was none, another transaction may insert it *)
(* in between, and the unique indexes decide.                              *)
(***************************************************************************)
EXTENDS Naturals, FiniteSets

CONSTANTS
    Requests,      \* requests of the owners' browsers
    Owner,         \* Owner[r]: whose it is
    Asked,         \* Asked[r]: the provider it names
    Managers,      \* mailbox managers
    MaxAsks,       \* bound: times that requests are made
    MaxChanges     \* bound: revisions of a default manager, and deletions

VARIABLES
    remote,        \* the account at each owner's Hypermail, by provider
    leases,        \* leases held on each owner's Hypermail
    request,       \* where each request is
    account,       \* accounts: the provider of the owner's address, or "none"
    state,         \* of the account
    edge,          \* owners with a row of user_accounts
    default,       \* user_agent_preferences: the default manager, or "unset"
    assignment,    \* mailbox_manager_assignments: the manager, or "none"
    asks, changes

hypermail == <<remote, leases>>
tables == <<account, state, edge, default, assignment>>
vars == <<hypermail, request, tables, asks, changes>>

Owners == {Owner[r] : r \in Requests}
Providers == {Asked[r] : r \in Requests}
Over == {"idle", "ready", "pending", "expired", "error", "unavailable"}

Init ==
    /\ remote = [u \in Owners |-> [p \in Providers |-> "absent"]]
    /\ leases = [u \in Owners |-> 0]
    /\ request = [r \in Requests |-> "idle"]
    /\ account = [u \in Owners |-> "none"]
    /\ state = [u \in Owners |-> "none"]
    /\ edge = {}
    /\ default \in [Owners -> {"unset"} \cup Managers]
    /\ assignment = [u \in Owners |-> "none"]
    /\ asks = 0
    /\ changes = 0

Goes(r, stage) == request' = [request EXCEPT ![r] = stage]

\* The answer, after which the lease is given back.
Answer(r, stage) ==
    /\ Goes(r, stage)
    /\ leases' = [leases EXCEPT ![Owner[r]] = @ - 1]

-----------------------------------------------------------------------------
(* The service *)

\* leaseForUser() initializes the owner's Hypermail, or fails.
Lease(r) ==
    /\ request[r] \in Over /\ asks < MaxAsks
    /\ asks' = asks + 1
    /\ \/ /\ leases' = [leases EXCEPT ![Owner[r]] = @ + 1]
          /\ Goes(r, "leased")
       \/ Goes(r, "unavailable") /\ UNCHANGED leases
    /\ UNCHANGED <<remote, tables, changes>>

\* start(): the account is ready at once, or the owner has to verify it.
Start(r) ==
    LET u == Owner[r]  p == Asked[r] IN
    /\ request[r] = "leased"
    /\ \/ /\ remote' = [remote EXCEPT ![u][p] = "ready"]
          /\ Goes(r, "found") /\ UNCHANGED leases
       \/ /\ remote[u][p] # "ready"
          /\ remote' = [remote EXCEPT ![u][p] = "pending"]
          /\ Answer(r, "pending")
    /\ UNCHANGED <<tables, asks, changes>>

\* complete() of what was started.
Complete(r) ==
    LET u == Owner[r]  p == Asked[r] IN
    /\ request[r] = "leased" /\ remote[u][p] # "absent"
    /\ \/ /\ remote' = [remote EXCEPT ![u][p] = "ready"]
          /\ Goes(r, "found") /\ UNCHANGED leases
       \/ \E answer \in {"pending", "expired", "error"} :
             Answer(r, answer) /\ UNCHANGED remote
    /\ UNCHANGED <<tables, asks, changes>>

\* The call fails, with or without an effect.
ProviderFails(r) ==
    /\ request[r] = "leased"
    /\ remote' \in {remote, [remote EXCEPT ![Owner[r]][Asked[r]] = "ready"]}
    /\ Answer(r, "unavailable")
    /\ UNCHANGED <<tables, asks, changes>>

-----------------------------------------------------------------------------
(* projectReadyAccount() *)

\* What all projections end with: the account is ready, has its owner, and the
\* default manager if it has none.  Without a default the transaction fails.
Ready(r) ==
    LET u == Owner[r] IN
    IF default[u] = "unset"
    THEN Answer(r, "unavailable") /\ UNCHANGED tables
    ELSE /\ account' = [account EXCEPT ![u] = Asked[r]]
         /\ state' = [state EXCEPT ![u] = "ready"]
         /\ edge' = edge \cup {u}
         /\ assignment' = [assignment EXCEPT ![u] = IF @ = "none" THEN default[u] ELSE @]
         /\ Answer(r, "ready")
         /\ UNCHANGED default

\* The account is there, and the transaction holds it: it must be of the same
\* provider.
Readd(r) ==
    /\ request[r] = "found" /\ account[Owner[r]] # "none"
    /\ IF account[Owner[r]] = Asked[r]
       THEN Ready(r)
       ELSE Answer(r, "unavailable") /\ UNCHANGED tables
    /\ UNCHANGED <<remote, asks, changes>>

Look(r) ==
    /\ request[r] = "found" /\ account[Owner[r]] = "none"
    /\ Goes(r, "inserting")
    /\ UNCHANGED <<hypermail, tables, asks, changes>>

\* An address is unique among the accounts of an owner, whatever the provider.
TakenBySame(r) == account[Owner[r]] = Asked[r]    \* a fault: among those of the provider
Taken(r) == account[Owner[r]] # "none"
Insert(r) ==
    /\ request[r] = "inserting"
    /\ IF Taken(r) THEN Answer(r, "unavailable") /\ UNCHANGED tables ELSE Ready(r)
    /\ UNCHANGED <<remote, asks, changes>>

\* The database fails the transaction.
RollsBack(r) ==
    /\ request[r] \in {"found", "inserting"}
    /\ Answer(r, "unavailable")
    /\ UNCHANGED <<remote, tables, asks, changes>>

-----------------------------------------------------------------------------
(* The owner and the operator *)

Change == changes < MaxChanges /\ changes' = changes + 1

\* initializeDefaultManager() and reviseDefaultManager()
ChooseDefault(u, manager) ==
    /\ Change /\ default[u] # manager
    /\ default' = [default EXCEPT ![u] = manager]
    /\ UNCHANGED <<hypermail, request, account, state, edge, assignment, asks>>

\* The deletion of a mailbox's memory disables it.
Disable(u) ==
    /\ Change /\ account[u] # "none"
    /\ state' = [state EXCEPT ![u] = "disabled"]
    /\ UNCHANGED <<hypermail, request, account, edge, default, assignment, asks>>

\* The web process dies: its sessions of Hypermail go with it.
Crash ==
    /\ Change
    /\ leases' = [u \in Owners |-> 0]
    /\ request' = [r \in Requests |-> IF request[r] \in Over THEN request[r] ELSE "unavailable"]
    /\ UNCHANGED <<remote, tables, asks>>

Project(r) == Readd(r) \/ Look(r) \/ Insert(r)

Next ==
    \/ \E r \in Requests :
          Lease(r) \/ Start(r) \/ Complete(r) \/ ProviderFails(r) \/ Project(r) \/ RollsBack(r)
    \/ \E u \in Owners : Disable(u) \/ \E manager \in Managers : ChooseDefault(u, manager)
    \/ Crash

Spec == Init /\ [][Next]_vars

-----------------------------------------------------------------------------

TypeOK ==
    /\ remote \in [Owners -> [Providers -> {"absent", "pending", "ready"}]]
    /\ leases \in [Owners -> Nat]
    /\ request \in [Requests -> Over \cup {"leased", "found", "inserting"}]
    /\ account \in [Owners -> Providers \cup {"none"}]
    /\ state \in [Owners -> {"none", "ready", "disabled"}]
    /\ edge \subseteq Owners
    /\ default \in [Owners -> Managers \cup {"unset"}]
    /\ assignment \in [Owners -> Managers \cup {"none"}]
    /\ asks \in 0..MaxAsks /\ changes \in 0..MaxChanges

\* Who was told that a mailbox is ready has it, from the provider that was
\* asked; a mailbox has its owner and a manager from the moment it is there, and
\* is one that Hypermail has; and a lease is held for each request under way.
ReadyIsConnected ==
    /\ \A r \in Requests : request[r] = "ready" => account[Owner[r]] = Asked[r]
    /\ \A u \in Owners :
          /\ account[u] # "none" => /\ u \in edge /\ assignment[u] # "none"
                                    /\ remote[u][account[u]] = "ready"
          /\ leases[u] = Cardinality({r \in Requests : Owner[r] = u /\ request[r] \notin Over})

\* Connecting a mailbox again, or at the same time, neither gives it to another
\* manager nor another provider.
ConnectedStays ==
    \A u \in Owners : account[u] # "none" =>
        account'[u] = account[u] /\ assignment'[u] = assignment[u]
ConnectedStands == [][ConnectedStays]_vars
=============================================================================

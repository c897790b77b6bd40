--------------------------- MODULE TenantSessions ---------------------------
(***************************************************************************)
(* The pool of provider sessions: TenantHypermailSessionProvider           *)
(* (packages/hypermail/src/tenant-client.ts).  Callers lease the session   *)
(* of a user, which the first of them initialises; idle, displaced and     *)
(* outdated sessions retire and close when nobody holds them.              *)
(*                                                                         *)
(* What #locked runs is a step; what it leaves to a promise is another.    *)
(* Which sessions are idle long enough, and which idle one is the oldest,  *)
(* is left open.  The compatibility leases, which no caller of the         *)
(* applications takes, are left out.                                       *)
(***************************************************************************)
EXTENDS Naturals, Sequences, FiniteSets

CONSTANTS
    Users,         \* tenants with a route
    Callers,       \* operations that lease a session
    MaxSessions,   \* maxSessions
    MaxEntries,    \* bound: sessions ever begun
    MaxVersions    \* bound: configurations

VARIABLES
    entry,         \* entries by the order of their creation
    pool,          \* #entries: the entry of each user, or 0
    version,       \* #version
    closed,        \* #closed
    lease          \* what each caller is doing

vars == <<entry, pool, version, closed, lease>>

NoLease == [stage |-> "idle", entry |-> 0]

Init ==
    /\ entry = <<>>
    /\ pool = [u \in Users |-> 0]
    /\ version = 1
    /\ closed = FALSE
    /\ lease = [c \in Callers |-> NoLease]

Pooled == {pool[u] : u \in Users} \ {0}
Unused == {e \in Pooled : entry[e].references = 0}

\* The pool without some entries.
Without(out) == [u \in Users |-> IF pool[u] \in out THEN 0 ELSE pool[u]]

\* Entries that leave the pool retire; some are closed, once.
Retired(out, closing) ==
    [e \in DOMAIN entry |->
        IF e \in out
        THEN [entry[e] EXCEPT !.retiring = TRUE,
                              !.closing = IF e \in closing /\ @ = "no" THEN "due" ELSE @]
        ELSE entry[e]]

NewEntry == [version |-> version, references |-> 1, retiring |-> FALSE, closing |-> "no",
             promise |-> "pending", timedOut |-> FALSE, raw |-> "pending", bundle |-> "none"]

-----------------------------------------------------------------------------
(* Leases *)

Take(c, e) == lease' = [lease EXCEPT ![c] = [stage |-> "waiting", entry |-> e]]

\* Only a session that nobody holds is displaced.
Evictable(idle) == Unused \ idle

\* leaseForUser(): idle sessions go; the user's own is joined, or a new one
\* begun, which at capacity displaces an unused one or is refused.
Lease(c, u) ==
    /\ ~closed /\ lease[c].stage = "idle"
    /\ \E idle \in SUBSET Unused :
          IF pool[u] \notin idle \cup {0}
          THEN /\ entry' = [Retired(idle, idle) EXCEPT ![pool[u]].references = @ + 1]
               /\ pool' = Without(idle)
               /\ Take(c, pool[u])
          ELSE /\ Len(entry) < MaxEntries
               /\ \E displaced \in
                        IF Cardinality(Pooled \ idle) < MaxSessions THEN {{}}
                        ELSE {{e} : e \in Evictable(idle)} :
                     /\ entry' = Append(Retired(idle \cup displaced, idle \cup displaced), NewEntry)
                     /\ pool' = [Without(idle \cup displaced) EXCEPT ![u] = Len(entry) + 1]
                     /\ Take(c, Len(entry) + 1)
    /\ UNCHANGED <<version, closed>>

\* The promise of the entry settles for its caller; a failed one is released.
Obtain(c) ==
    /\ lease[c].stage = "waiting"
    /\ entry[lease[c].entry].promise # "pending"
    /\ lease' = [lease EXCEPT ![c].stage =
                    IF entry[lease[c].entry].promise = "ready" THEN "using" ELSE "releasing"]
    /\ UNCHANGED <<entry, pool, version, closed>>

\* #release(), when the operation is over.
Release(c) ==
    LET e == lease[c].entry
    IN /\ lease[c].stage \in {"using", "releasing"}
       /\ lease' = [lease EXCEPT ![c] = NoLease]
       /\ entry' = [entry EXCEPT ![e].references = @ - 1,
                                 ![e].closing = IF entry[e].references = 1 /\ entry[e].retiring
                                                   /\ @ = "no" THEN "due" ELSE @]
       /\ pool' = IF entry[e].references = 1 /\ entry[e].retiring THEN Without({e}) ELSE pool
       /\ UNCHANGED <<version, closed>>

-----------------------------------------------------------------------------
(* Initialisation and closing *)

Entry(e, to) ==
    /\ entry' = [entry EXCEPT ![e] = to]
    /\ UNCHANGED <<pool, version, closed, lease>>

\* The answer to nobody, or to an entry that has left the pool, is closed as it
\* comes, also when callers wait for it.
ClosesAtOnce(e) == entry[e].timedOut \/ entry[e].retiring

\* The factory delivers, early or late.  A session that was closed as it came is
\* told apart from one that was closed later, for the properties.
Initialized(e) ==
    /\ entry[e].raw = "pending"
    /\ Entry(e, [entry[e] EXCEPT !.raw = "settled",
                                 !.bundle = IF ClosesAtOnce(e) THEN "dropped" ELSE "open",
                                 !.promise = IF @ = "pending" THEN "ready" ELSE @])

\* The factory fails, or takes longer than the timeout and may deliver yet.
InitializationFails(e) ==
    /\ entry[e].promise = "pending"
    /\ \E late \in BOOLEAN :
          Entry(e, [entry[e] EXCEPT !.promise = "failed", !.timedOut = late,
                                    !.raw = IF late THEN @ ELSE "settled"])

\* #removeFailed()
RemoveFailed(e) ==
    /\ entry[e].promise = "failed" /\ (e \in Pooled \/ ~entry[e].retiring)
    /\ entry' = Retired({e}, {})
    /\ pool' = Without({e})
    /\ UNCHANGED <<version, closed, lease>>

\* #closeEntry() aborts what is being initialised and closes what there is.
CloseEntry(e) ==
    /\ entry[e].closing = "due"
    /\ Entry(e, [entry[e] EXCEPT !.closing = "done",
                                 !.promise = IF @ = "pending" THEN "failed" ELSE @,
                                 !.bundle = IF @ = "open" THEN "closed" ELSE @])

-----------------------------------------------------------------------------
(* The pool as a whole *)

\* Mutant of UpdateConfiguration: what is held is closed at once, too.
UpdateConfigurationClosing ==
    /\ ~closed /\ version < MaxVersions
    /\ version' = version + 1
    /\ entry' = Retired(Pooled, Pooled)
    /\ pool' = Without(Pooled)
    /\ UNCHANGED <<closed, lease>>

\* updateConfiguration(): what is held is closed by its last release.
UpdateConfiguration ==
    /\ ~closed /\ version < MaxVersions
    /\ version' = version + 1
    /\ entry' = Retired(Pooled, Unused)
    /\ pool' = Without(Pooled)
    /\ UNCHANGED <<closed, lease>>

\* evictIdle()
EvictIdle ==
    /\ \E idle \in SUBSET Unused \ {{}} : entry' = Retired(idle, idle) /\ pool' = Without(idle)
    /\ UNCHANGED <<version, closed, lease>>

\* close() also aborts what is being initialised.
Close ==
    /\ ~closed
    /\ closed' = TRUE
    /\ LET retired == Retired(Pooled, Unused)
       IN entry' = [e \in DOMAIN entry |->
             [retired[e] EXCEPT !.promise = IF e \in Pooled /\ @ = "pending" THEN "failed" ELSE @]]
    /\ pool' = Without(Pooled)
    /\ UNCHANGED <<version, lease>>

Next ==
    \/ \E c \in Callers : Obtain(c) \/ Release(c) \/ \E u \in Users : Lease(c, u)
    \/ \E e \in DOMAIN entry : \/ Initialized(e) \/ InitializationFails(e)
                               \/ RemoveFailed(e) \/ CloseEntry(e)
    \/ UpdateConfiguration \/ EvictIdle \/ Close

Spec == Init /\ [][Next]_vars

-----------------------------------------------------------------------------
(* Properties *)

TypeOK ==
    /\ \A e \in DOMAIN entry :
          /\ entry[e].references = Cardinality({c \in Callers : lease[c].entry = e})
          /\ entry[e].promise \in {"pending", "ready", "failed"}
          /\ entry[e].bundle \in {"none", "open", "closed", "dropped"}
    /\ pool \in [Users -> 0..Len(entry)] /\ Cardinality(Pooled) <= MaxSessions
    /\ version \in 1..MaxVersions /\ closed \in BOOLEAN
    /\ \A c \in Callers : lease[c].stage \in {"idle", "waiting", "using", "releasing"}

\* The session under a lease stays open whatever retires it: idleness,
\* displacement, a new configuration, shutdown, a late answer.  One exception:
\* the configuration changed while it was being initialised, and it was closed as
\* it came.
LeasedIsOpen ==
    \A c \in Callers : lease[c].stage = "using" =>
        LET e == entry[lease[c].entry]
        IN e.bundle = "open" \/ (e.bundle = "dropped" /\ e.version < version)

\* No session is forgotten: an open one is in the pool, held or being closed.
NoneForgotten ==
    \A e \in DOMAIN entry : entry[e].bundle = "open" =>
        e \in Pooled \/ entry[e].references > 0 \/ entry[e].closing = "due"
=============================================================================

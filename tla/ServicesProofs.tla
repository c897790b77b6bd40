--------------------------- MODULE ServicesProofs ---------------------------
(***************************************************************************)
(* What OwnerServices and WorkServices promise, for any sessions, agents,  *)
(* tasks, tool calls and bounds.  Each of the services has an invariant of *)
(* its own; none of them needs another's state.                            *)
(***************************************************************************)
EXTENDS OwnerServices, WorkServices, FiniteSetTheorems, SequenceTheorems, TLAPS

-----------------------------------------------------------------------------
(* An instance has the operators of FiniteSets as its own. *)

LEMMA TenantsCount == \A S : Tenants!Cardinality(S) = Cardinality(S)
  BY DEF Tenants!Cardinality, Cardinality

-----------------------------------------------------------------------------
(* The pool of provider sessions *)

Session == [version : Nat, references : Nat, retiring : BOOLEAN,
            closing : {"no", "due", "done"}, promise : {"pending", "ready", "failed"},
            timedOut : BOOLEAN, raw : {"pending", "settled"}, bundle : {"none", "open", "closed", "dropped"}]
Leases == [stage : {"idle", "waiting", "using", "releasing"}, entry : 0..Len(entry)]

\* The callers that hold a session, or wait for it.
Holding(e) == {c \in Callers : lease[c].entry = e}

PoolTyped ==
    /\ pool \in [Users -> 0..Len(entry)]
    /\ Cardinality(Tenants!Pooled) <= MaxSessions

LeasesTyped ==
    /\ lease \in [Callers -> Leases]
    /\ \A c \in Callers : lease[c].stage = "idle" <=> lease[c].entry = 0

SessionsTyped ==
    /\ entry \in Seq(Session)
    /\ PoolTyped /\ LeasesTyped
    /\ configuration \in 1..MaxConfigurations /\ closed \in BOOLEAN

\* A session retires when it leaves the pool and is closed when nobody holds it;
\* what the factory delivers is open as long as it is in the pool or held, but
\* for one that an older configuration began and that was closed as it came.
Kept(s, e, pooled, now) ==
    /\ s.version <= now
    /\ s.retiring <=> e \notin pooled
    /\ s.closing # "no" => s.retiring /\ s.references = 0
    /\ s.promise = "pending" => s.raw = "pending" /\ ~s.timedOut
    /\ s.raw = "pending" => s.bundle = "none"
    /\ s.promise = "failed" /\ s.raw = "pending" => s.timedOut \/ s.retiring
    /\ s.bundle = "open" => s.promise = "ready"
    /\ s.promise = "ready" /\ ~s.retiring => s.bundle = "open"
    /\ s.references > 0 /\ s.promise = "pending" /\ s.retiring => s.version # now
    /\ s.references > 0 /\ s.promise = "ready" =>
          s.bundle = "open" \/ (s.bundle = "dropped" /\ s.version < now)
    /\ s.bundle = "open" => ~s.retiring \/ s.references > 0 \/ s.closing = "due"

SessionsCounted == \A e \in 1..Len(entry) : entry[e].references = Cardinality(Holding(e))
SessionsKept == \A e \in 1..Len(entry) : Kept(entry[e], e, Tenants!Pooled, configuration)
UsedAreReady == \A c \in Callers : lease[c].stage = "using" => entry[lease[c].entry].promise = "ready"

TenantsInv == SessionsTyped /\ SessionsCounted /\ SessionsKept /\ UsedAreReady

\* The invariant says what the runs check of the pool.
LEMMA TenantsInvSuffices == TenantsInv => SessionsAreSound
<1> SUFFICES ASSUME TenantsInv PROVE SessionsAreSound
  OBVIOUS
<1> USE DEF TenantsInv, SessionsTyped
<1>1. DOMAIN entry = 1..Len(entry) /\ Len(entry) \in Nat /\ \A e \in 1..Len(entry) : entry[e] \in Session
  BY LenProperties, ElementOfSeq
<1>2. Tenants!TypeOK
  <2>1. \A e \in DOMAIN entry :
           /\ entry[e].references = Cardinality({c \in Callers : lease[c].entry = e})
           /\ entry[e].promise \in {"pending", "ready", "failed"}
           /\ entry[e].bundle \in {"none", "open", "closed", "dropped"}
    BY <1>1 DEF SessionsCounted, Holding, Session
  <2>2. \A c \in Callers : lease[c].stage \in {"idle", "waiting", "using", "releasing"}
    BY DEF LeasesTyped, Leases
  <2>3. pool \in [Users -> 0..Len(entry)] /\ Cardinality(Tenants!Pooled) <= MaxSessions
    BY DEF PoolTyped
  <2>4. configuration \in 1..MaxConfigurations
    OBVIOUS
  <2>5. closed \in BOOLEAN
    OBVIOUS
  <2> HIDE DEF TenantsInv, SessionsTyped
  <2> QED BY <2>1, <2>2, <2>3, <2>4, <2>5, TenantsCount DEF Tenants!TypeOK
<1>3. ASSUME NEW c \in Callers, lease[c].stage = "using"
      PROVE  LET e == entry[lease[c].entry]
             IN e.bundle = "open" \/ (e.bundle = "dropped" /\ e.version < configuration)
  <2> DEFINE e == lease[c].entry
  <2>1. e \in 1..Len(entry)
    BY <1>1, <1>3 DEF LeasesTyped, Leases
  <2>2. c \in Holding(e) /\ IsFiniteSet(Holding(e))
    BY FS_Subset, ServicesAssumption DEF Holding
  <2>3. Cardinality(Holding(e)) # 0
    BY <2>2, FS_EmptySet
  <2>4. entry[e].references > 0
    BY <2>1, <2>3, <1>1 DEF SessionsCounted, Session
  <2> QED BY <2>1, <2>4, <1>3 DEF SessionsKept, Kept, UsedAreReady
<1>4. Tenants!LeasedIsOpen
  BY <1>3 DEF Tenants!LeasedIsOpen
<1>5. Tenants!NoneForgotten
  BY <1>1 DEF Tenants!NoneForgotten, SessionsKept, Kept
<1> QED BY <1>2, <1>4, <1>5 DEF SessionsAreSound

LEMMA TenantsInitInv == Tenants!Init => TenantsInv
<1> SUFFICES ASSUME Tenants!Init PROVE TenantsInv
  OBVIOUS
<1> USE DEF Tenants!Init
<1>1. entry \in Seq(Session) /\ Len(entry) = 0
  BY EmptySeq
<1>2. Tenants!Pooled = {}
  BY DEF Tenants!Pooled
<1>3. PoolTyped
  BY <1>1, <1>2, FS_EmptySet, ServicesAssumption DEF PoolTyped
<1>4. LeasesTyped
  BY <1>1 DEF LeasesTyped, Leases, Tenants!NoLease
<1>5. configuration \in 1..MaxConfigurations
  BY ServicesAssumption DEF ServicesAssumption
<1>6. closed \in BOOLEAN
  OBVIOUS
<1>9. SessionsTyped
  BY <1>1, <1>3, <1>4, <1>5, <1>6, Zenon DEF SessionsTyped
<1>7. SessionsCounted /\ SessionsKept
  BY <1>1 DEF SessionsCounted, SessionsKept
<1>8. UsedAreReady
  BY DEF UsedAreReady, Tenants!NoLease
<1> QED BY <1>7, <1>8, <1>9 DEF TenantsInv

\* What SessionsTyped says of the sequence, as of a function.
LEMMA EntriesTyped ==
    ASSUME TenantsInv
    PROVE  /\ Len(entry) \in Nat /\ DOMAIN entry = 1..Len(entry)
           /\ entry \in [1..Len(entry) -> Session]
BY LenProperties DEF TenantsInv, SessionsTyped

LEMMA EntriesStay ==
    ASSUME TenantsInv, entry' \in [1..Len(entry) -> Session]
    PROVE  entry' \in Seq(Session) /\ Len(entry') = Len(entry)
<1>1. Len(entry) \in Nat
  BY EntriesTyped
<1>2. entry' \in Seq(Session)
  BY <1>1, SeqDef
<1>3. DOMAIN entry' = 1..Len(entry') /\ Len(entry') \in Nat
  BY <1>2, LenProperties
<1> QED BY <1>1, <1>2, <1>3

\* Entries that leave the pool, and those that are closed.
Leaves(s, e, closing) ==
    [s EXCEPT !.retiring = TRUE, !.closing = IF e \in closing /\ @ = "no" THEN "due" ELSE @]

LEMMA RetiredEntries ==
    ASSUME TenantsInv, NEW out, NEW closing
    PROVE  /\ Tenants!Retired(out, closing) \in [1..Len(entry) -> Session]
           /\ \A e \in 1..Len(entry) : Tenants!Retired(out, closing)[e] =
                 IF e \in out THEN Leaves(entry[e], e, closing) ELSE entry[e]
<1>1. Tenants!Retired(out, closing) =
         [e \in 1..Len(entry) |-> IF e \in out THEN Leaves(entry[e], e, closing) ELSE entry[e]]
  BY EntriesTyped DEF Tenants!Retired, Leaves
<1>2. \A e \in 1..Len(entry) : Leaves(entry[e], e, closing) \in Session /\ entry[e] \in Session
  BY EntriesTyped DEF Leaves, Session
<1> QED BY <1>1, <1>2

LEMMA PoolLeaves ==
    ASSUME TenantsInv, NEW out, pool' = Tenants!Without(out), Len(entry') = Len(entry)
    PROVE  PoolTyped' /\ Tenants!Pooled' = Tenants!Pooled \ out
<1>1. pool \in [Users -> 0..Len(entry)] /\ Len(entry) \in Nat
  BY EntriesTyped DEF TenantsInv, SessionsTyped, PoolTyped
<1>2. pool' = [u \in Users |-> IF pool[u] \in out THEN 0 ELSE pool[u]]
  BY DEF Tenants!Without
<1>3. pool' \in [Users -> 0..Len(entry)]
  BY <1>1, <1>2
<1>4. Tenants!Pooled' = Tenants!Pooled \ out
  BY <1>1, <1>2 DEF Tenants!Pooled
<1>5. IsFiniteSet(Tenants!Pooled) /\ Cardinality(Tenants!Pooled) \in Nat
  <2>1. Tenants!Pooled \subseteq 1..Len(entry)
    BY <1>1 DEF Tenants!Pooled
  <2>2. IsFiniteSet(1..Len(entry))
    BY <1>1, FS_Interval
  <2> QED BY <2>1, <2>2, FS_Subset, FS_CardinalityType
<1>6. /\ Cardinality(Tenants!Pooled \ out) <= Cardinality(Tenants!Pooled)
      /\ Cardinality(Tenants!Pooled \ out) \in Nat
  BY <1>5, FS_Subset, FS_CardinalityType
<1>7. Cardinality(Tenants!Pooled') <= MaxSessions
  BY <1>4, <1>5, <1>6, ServicesAssumption DEF TenantsInv, SessionsTyped, PoolTyped, ServicesAssumption
<1> QED BY <1>3, <1>4, <1>7 DEF PoolTyped

\* How many hold a session when one begins to, or has done.
LEMMA CallersCounted ==
    ASSUME NEW e
    PROVE  IsFiniteSet(Holding(e)) /\ Cardinality(Holding(e)) \in Nat
BY FS_Subset, FS_CardinalityType, ServicesAssumption DEF Holding, ServicesAssumption

LEMMA TakeCounts ==
    ASSUME TenantsInv, NEW c \in Callers, lease[c].entry = 0, NEW joined \in Nat \ {0},
           Tenants!Take(c, joined), NEW e \in Nat \ {0}
    PROVE  Cardinality(Holding(e)') = Cardinality(Holding(e)) + IF e = joined THEN 1 ELSE 0
<1>1. \A d \in Callers : lease'[d].entry = IF d = c THEN joined ELSE lease[d].entry
  BY DEF Tenants!Take, TenantsInv, SessionsTyped, LeasesTyped
<1>2. Holding(e)' = IF e = joined THEN Holding(e) \cup {c} ELSE Holding(e)
  BY <1>1 DEF Holding
<1>3. c \notin Holding(e)
  BY DEF Holding
<1>4. IsFiniteSet(Holding(e)) /\ Cardinality(Holding(e)) \in Nat
  BY CallersCounted
<1>5. Cardinality(Holding(e) \cup {c}) = Cardinality(Holding(e)) + 1
  BY <1>3, <1>4, FS_AddElement
<1>6. CASE e = joined
  BY <1>2, <1>5, <1>6
<1>7. CASE e # joined
  BY <1>2, <1>4, <1>7
<1> QED BY <1>6, <1>7

LEMMA ReleaseCounts ==
    ASSUME TenantsInv, NEW c \in Callers, lease' = [lease EXCEPT ![c] = Tenants!NoLease],
           NEW e \in Nat \ {0}
    PROVE  Cardinality(Holding(e)') = Cardinality(Holding(e)) - IF e = lease[c].entry THEN 1 ELSE 0
<1>1. \A d \in Callers : lease'[d].entry = IF d = c THEN 0 ELSE lease[d].entry
  BY DEF Tenants!NoLease, TenantsInv, SessionsTyped, LeasesTyped
<1>2. Holding(e)' = IF e = lease[c].entry THEN Holding(e) \ {c} ELSE Holding(e)
  BY <1>1 DEF Holding
<1>3. c \in Holding(e) <=> e = lease[c].entry
  BY DEF Holding
<1> QED BY <1>2, <1>3, CallersCounted, FS_RemoveElement

LEMMA StaysCounted ==
    ASSUME \A c \in Callers : lease'[c].entry = lease[c].entry, NEW e
    PROVE  Holding(e)' = Holding(e)
BY DEF Holding

\* A step of one session, which keeps its holders.
LEMMA EntryStep ==
    ASSUME TenantsInv, NEW e \in 1..Len(entry), NEW to \in Session, Tenants!Entry(e, to),
           to.references = entry[e].references,
           entry[e].promise = "ready" => to.promise = "ready",
           Kept(to, e, Tenants!Pooled, configuration)
    PROVE  TenantsInv'
<1>1. /\ UNCHANGED <<pool, configuration, closed, lease>>
      /\ entry' = [entry EXCEPT ![e] = to]
  BY DEF Tenants!Entry
<1>2. entry' \in Seq(Session) /\ Len(entry') = Len(entry)
  BY <1>1, EntriesTyped, EntriesStay
<1>3. \A d \in 1..Len(entry) : entry'[d] = IF d = e THEN to ELSE entry[d]
  BY <1>1, EntriesTyped
<1>4. SessionsTyped'
  <2>1. PoolTyped' /\ LeasesTyped'
    BY <1>1, <1>2 DEF TenantsInv, SessionsTyped, PoolTyped, LeasesTyped, Leases, Tenants!Pooled
  <2> QED BY <2>1, <1>1, <1>2 DEF TenantsInv, SessionsTyped
<1>5. SessionsCounted'
  <2> SUFFICES ASSUME NEW d \in 1..Len(entry) PROVE entry'[d].references = Cardinality(Holding(d)')
    BY <1>2 DEF SessionsCounted
  <2>1. Holding(d)' = Holding(d)
    BY <1>1, StaysCounted
  <2> QED BY <2>1, <1>3 DEF TenantsInv, SessionsCounted
<1>6. SessionsKept'
  <2> SUFFICES ASSUME NEW d \in 1..Len(entry)
               PROVE  Kept(entry'[d], d, Tenants!Pooled, configuration)
    BY <1>1, <1>2 DEF SessionsKept, Tenants!Pooled
  <2> QED BY <1>3 DEF TenantsInv, SessionsKept
<1>7. UsedAreReady'
  <2> SUFFICES ASSUME NEW c \in Callers, lease[c].stage = "using"
               PROVE  entry'[lease[c].entry].promise = "ready"
    BY <1>1 DEF UsedAreReady
  <2>1. lease[c].entry \in 1..Len(entry)
    BY EntriesTyped DEF TenantsInv, SessionsTyped, LeasesTyped, Leases
  <2> QED BY <2>1, <1>3 DEF TenantsInv, UsedAreReady
<1> QED BY <1>4, <1>5, <1>6, <1>7 DEF TenantsInv

LEMMA InitializedInv ==
    ASSUME TenantsInv, NEW e \in 1..Len(entry), Tenants!Initialized(e)
    PROVE  TenantsInv'
<1> DEFINE s == entry[e]
           to == [s EXCEPT !.raw = "settled",
                           !.bundle = IF Tenants!ClosesAtOnce(e) THEN "dropped" ELSE "open",
                           !.promise = IF @ = "pending" THEN "ready" ELSE @]
<1>1. s \in Session /\ Kept(s, e, Tenants!Pooled, configuration) /\ s.raw = "pending"
  BY EntriesTyped DEF TenantsInv, SessionsKept, Tenants!Initialized
<1>5. configuration \in Nat
  BY DEF TenantsInv, SessionsTyped
<1>2. /\ to \in Session /\ to.references = s.references
      /\ s.promise = "ready" => to.promise = "ready"
  BY <1>1 DEF Session
<1>3. Kept(to, e, Tenants!Pooled, configuration)
  BY <1>1, <1>5 DEF Session, Kept, Tenants!ClosesAtOnce
<1>4. Tenants!Entry(e, to)
  BY DEF Tenants!Initialized
<1> QED BY <1>2, <1>3, <1>4, EntryStep

LEMMA InitializationFailsInv ==
    ASSUME TenantsInv, NEW e \in 1..Len(entry), Tenants!InitializationFails(e)
    PROVE  TenantsInv'
<1> DEFINE s == entry[e]
<1>1. s \in Session /\ Kept(s, e, Tenants!Pooled, configuration) /\ s.promise = "pending"
  BY EntriesTyped DEF TenantsInv, SessionsKept, Tenants!InitializationFails
<1>2. PICK l \in BOOLEAN :
         Tenants!Entry(e, [s EXCEPT !.promise = "failed", !.timedOut = l,
                                    !.raw = IF l THEN @ ELSE "settled"])
  BY DEF Tenants!InitializationFails
<1> DEFINE to == [s EXCEPT !.promise = "failed", !.timedOut = l, !.raw = IF l THEN @ ELSE "settled"]
<1>3. /\ to \in Session /\ to.references = s.references
      /\ s.promise = "ready" => to.promise = "ready"
  BY <1>1 DEF Session
<1>4. Kept(to, e, Tenants!Pooled, configuration)
  BY <1>1 DEF Session, Kept
<1> QED BY <1>2, <1>3, <1>4, EntryStep

LEMMA CloseEntryInv ==
    ASSUME TenantsInv, NEW e \in 1..Len(entry), Tenants!CloseEntry(e)
    PROVE  TenantsInv'
<1> DEFINE s == entry[e]
           to == [s EXCEPT !.closing = "done",
                           !.promise = IF @ = "pending" THEN "failed" ELSE @,
                           !.bundle = IF @ = "open" THEN "closed" ELSE @]
<1>1. s \in Session /\ Kept(s, e, Tenants!Pooled, configuration) /\ s.closing = "due"
  BY EntriesTyped DEF TenantsInv, SessionsKept, Tenants!CloseEntry
<1>2. /\ to \in Session /\ to.references = s.references
      /\ s.promise = "ready" => to.promise = "ready"
  BY <1>1 DEF Session
<1>3. Kept(to, e, Tenants!Pooled, configuration)
  BY <1>1 DEF Session, Kept
<1>4. Tenants!Entry(e, to)
  BY DEF Tenants!CloseEntry
<1> QED BY <1>2, <1>3, <1>4, EntryStep

\* A step of the pool, which takes some sessions out of it and holds none anew.
LEMMA PoolStep ==
    ASSUME TenantsInv, NEW out, pool' = Tenants!Without(out), lease' = lease,
           configuration' \in 1..MaxConfigurations, closed' \in BOOLEAN,
           entry' \in [1..Len(entry) -> Session],
           \A e \in 1..Len(entry) :
              /\ entry'[e].references = entry[e].references
              /\ entry[e].promise = "ready" => entry'[e].promise = "ready"
              /\ Kept(entry'[e], e, Tenants!Pooled \ out, configuration')
    PROVE  TenantsInv'
<1>1. entry' \in Seq(Session) /\ Len(entry') = Len(entry)
  BY EntriesStay
<1>2. PoolTyped' /\ Tenants!Pooled' = Tenants!Pooled \ out
  BY <1>1, PoolLeaves
<1>3. SessionsTyped'
  <2>1. LeasesTyped'
    BY <1>1 DEF TenantsInv, SessionsTyped, LeasesTyped, Leases
  <2> QED BY <2>1, <1>1, <1>2 DEF SessionsTyped
<1>4. SessionsCounted'
  <2> SUFFICES ASSUME NEW e \in 1..Len(entry) PROVE entry'[e].references = Cardinality(Holding(e)')
    BY <1>1 DEF SessionsCounted
  <2>1. Holding(e)' = Holding(e)
    BY StaysCounted
  <2> QED BY <2>1 DEF TenantsInv, SessionsCounted
<1>5. SessionsKept'
  BY <1>1, <1>2 DEF SessionsKept
<1>6. UsedAreReady'
  <2> SUFFICES ASSUME NEW c \in Callers, lease[c].stage = "using"
               PROVE  entry'[lease[c].entry].promise = "ready"
    BY DEF UsedAreReady
  <2>1. lease[c].entry \in 1..Len(entry)
    BY EntriesTyped DEF TenantsInv, SessionsTyped, LeasesTyped, Leases
  <2> QED BY <2>1 DEF TenantsInv, UsedAreReady
<1> QED BY <1>3, <1>4, <1>5, <1>6 DEF TenantsInv

\* What leaves the pool is closed unless it is held or was never opened, and is
\* not being initialised under the configuration that is current then.
LEMMA LeavesKept ==
    ASSUME NEW s \in Session, NEW e, NEW pooled, NEW now \in Nat, Kept(s, e, pooled, now),
           e \in pooled, NEW closing, e \in closing => s.references = 0,
           s.references = 0 => e \in closing \/ s.bundle # "open",
           NEW later \in Nat, now <= later,
           s.references > 0 /\ s.promise = "pending" => s.version # later,
           NEW left, e \notin left
    PROVE  Kept(Leaves(s, e, closing), e, left, later)
BY DEF Session, Kept, Leaves

LEMMA OutKept ==
    ASSUME NEW s \in Session, NEW e, NEW pooled, NEW now \in Nat, Kept(s, e, pooled, now),
           e \notin pooled, NEW later \in Nat, now <= later, NEW left, e \notin left
    PROVE  Kept(s, e, left, later)
BY DEF Session, Kept

LEMMA InKept ==
    ASSUME NEW s \in Session, NEW e, NEW pooled, NEW now, Kept(s, e, pooled, now),
           NEW left, e \in pooled <=> e \in left
    PROVE  Kept(s, e, left, now)
BY DEF Kept

\* The sessions of the pool, and those of them that nobody holds.
LEMMA PooledEntries ==
    ASSUME TenantsInv
    PROVE  /\ Tenants!Pooled \subseteq 1..Len(entry)
           /\ \A e \in Tenants!Pooled : e \in Tenants!Unused <=> entry[e].references = 0
           /\ Tenants!Unused \subseteq Tenants!Pooled
BY EntriesTyped DEF TenantsInv, SessionsTyped, PoolTyped, Tenants!Pooled, Tenants!Unused

LEMMA RemoveFailedInv ==
    ASSUME TenantsInv, NEW e \in 1..Len(entry), Tenants!RemoveFailed(e)
    PROVE  TenantsInv'
<1>1. /\ entry' = Tenants!Retired({e}, {}) /\ pool' = Tenants!Without({e})
      /\ UNCHANGED <<configuration, closed, lease>>
  BY DEF Tenants!RemoveFailed
<1>2. e \in Tenants!Pooled /\ entry[e].promise = "failed"
  BY DEF Tenants!RemoveFailed, TenantsInv, SessionsKept, Kept
<1> SUFFICES ASSUME NEW d \in 1..Len(entry)
             PROVE  /\ entry'[d].references = entry[d].references
                    /\ entry[d].promise = "ready" => entry'[d].promise = "ready"
                    /\ Kept(entry'[d], d, Tenants!Pooled \ {e}, configuration')
  BY <1>1, RetiredEntries, PoolStep DEF TenantsInv, SessionsTyped
<1>3. /\ entry[d] \in Session /\ Kept(entry[d], d, Tenants!Pooled, configuration)
      /\ configuration \in Nat
  BY EntriesTyped DEF TenantsInv, SessionsKept, SessionsTyped
<1>4. entry'[d] = IF d \in {e} THEN Leaves(entry[d], d, {}) ELSE entry[d]
  BY <1>1, RetiredEntries
<1>5. CASE d = e
  <2>1. /\ d \in Tenants!Pooled /\ entry[d].bundle # "open"
        /\ d \notin {} /\ entry[d].promise # "pending"
    BY <1>2, <1>3, <1>5 DEF Kept
  <2>2. configuration <= configuration /\ d \notin Tenants!Pooled \ {e}
    BY <1>3, <1>5
  <2>3. Kept(Leaves(entry[d], d, {}), d, Tenants!Pooled \ {e}, configuration)
    BY <2>1, <2>2, <1>3, <1>5, LeavesKept
  <2>4. entry'[d] = Leaves(entry[d], d, {}) /\ configuration' = configuration
    BY <1>1, <1>4, <1>5
  <2>5. entry'[d].references = entry[d].references /\ entry'[d].promise = entry[d].promise
    BY <2>4, <1>3 DEF Leaves, Session
  <2> QED BY <2>3, <2>4, <2>5
<1>6. CASE d # e
  <2>1. Kept(entry[d], d, Tenants!Pooled \ {e}, configuration)
    BY <1>3, <1>6, InKept
  <2> QED BY <2>1, <1>1, <1>4, <1>6
<1> QED BY <1>5, <1>6

LEMMA EvictIdleInv ==
    ASSUME TenantsInv, Tenants!EvictIdle
    PROVE  TenantsInv'
<1>1. PICK idle \in SUBSET Tenants!Unused :
         entry' = Tenants!Retired(idle, idle) /\ pool' = Tenants!Without(idle)
  BY DEF Tenants!EvictIdle
<1>2. UNCHANGED <<configuration, closed, lease>>
  BY DEF Tenants!EvictIdle
<1> SUFFICES ASSUME NEW d \in 1..Len(entry)
             PROVE  /\ entry'[d].references = entry[d].references
                    /\ entry[d].promise = "ready" => entry'[d].promise = "ready"
                    /\ Kept(entry'[d], d, Tenants!Pooled \ idle, configuration')
  BY <1>1, <1>2, RetiredEntries, PoolStep DEF TenantsInv, SessionsTyped
<1>3. /\ entry[d] \in Session /\ Kept(entry[d], d, Tenants!Pooled, configuration)
      /\ configuration \in Nat
  BY EntriesTyped DEF TenantsInv, SessionsKept, SessionsTyped
<1>4. entry'[d] = IF d \in idle THEN Leaves(entry[d], d, idle) ELSE entry[d]
  BY <1>1, RetiredEntries
<1>5. CASE d \in idle
  <2>1. d \in Tenants!Pooled /\ entry[d].references = 0
    BY <1>1, <1>5, PooledEntries
  <2>2. configuration <= configuration /\ d \notin Tenants!Pooled \ idle
    BY <1>3, <1>5
  <2>3. Kept(Leaves(entry[d], d, idle), d, Tenants!Pooled \ idle, configuration)
    BY <2>1, <2>2, <1>3, <1>5, LeavesKept
  <2>4. entry'[d] = Leaves(entry[d], d, idle) /\ configuration' = configuration
    BY <1>2, <1>4, <1>5
  <2>5. entry'[d].references = entry[d].references /\ entry'[d].promise = entry[d].promise
    BY <2>4, <1>3 DEF Leaves, Session
  <2> QED BY <2>3, <2>4, <2>5
<1>6. CASE d \notin idle
  <2>1. Kept(entry[d], d, Tenants!Pooled \ idle, configuration)
    BY <1>3, <1>6, InKept
  <2> QED BY <2>1, <1>2, <1>4, <1>6
<1> QED BY <1>5, <1>6

LEMMA UpdateConfigurationInv ==
    ASSUME TenantsInv, Tenants!UpdateConfiguration
    PROVE  TenantsInv'
<1>1. /\ entry' = Tenants!Retired(Tenants!Pooled, Tenants!Unused)
      /\ pool' = Tenants!Without(Tenants!Pooled)
      /\ UNCHANGED <<closed, lease>>
      /\ configuration' = configuration + 1 /\ configuration < MaxConfigurations
  BY DEF Tenants!UpdateConfiguration
<1>2. configuration \in 1..MaxConfigurations /\ configuration' \in 1..MaxConfigurations
  BY <1>1, ServicesAssumption DEF TenantsInv, SessionsTyped, ServicesAssumption
<1> SUFFICES ASSUME NEW d \in 1..Len(entry)
             PROVE  /\ entry'[d].references = entry[d].references
                    /\ entry[d].promise = "ready" => entry'[d].promise = "ready"
                    /\ Kept(entry'[d], d, Tenants!Pooled \ Tenants!Pooled, configuration')
  BY <1>1, <1>2, RetiredEntries, PoolStep DEF TenantsInv, SessionsTyped
<1>3. /\ entry[d] \in Session /\ Kept(entry[d], d, Tenants!Pooled, configuration)
      /\ configuration \in Nat /\ configuration' \in Nat /\ configuration <= configuration'
  BY <1>1, <1>2, EntriesTyped DEF TenantsInv, SessionsKept
<1>4. entry'[d] = IF d \in Tenants!Pooled THEN Leaves(entry[d], d, Tenants!Unused) ELSE entry[d]
  BY <1>1, RetiredEntries
<1>5. CASE d \in Tenants!Pooled
  <2>1. (d \in Tenants!Unused <=> entry[d].references = 0)
    BY <1>5, PooledEntries
  <2>2. entry[d].version # configuration'
    BY <1>1, <1>3 DEF Kept, Session
  <2>3. Kept(Leaves(entry[d], d, Tenants!Unused), d, Tenants!Pooled \ Tenants!Pooled, configuration')
    BY <2>1, <2>2, <1>3, <1>5, LeavesKept
  <2>4. Leaves(entry[d], d, Tenants!Unused).references = entry[d].references
    BY <1>3 DEF Leaves, Session
  <2>5. Leaves(entry[d], d, Tenants!Unused).promise = entry[d].promise
    BY <1>3 DEF Leaves, Session
  <2> QED BY <2>3, <2>4, <2>5, <1>4, <1>5
<1>6. CASE d \notin Tenants!Pooled
  <2>1. Kept(entry[d], d, Tenants!Pooled \ Tenants!Pooled, configuration')
    BY <1>3, <1>6, OutKept
  <2> QED BY <2>1, <1>4, <1>6
<1> QED BY <1>5, <1>6

\* What is being initialised is aborted.
Aborted(s) == [s EXCEPT !.promise = IF @ = "pending" THEN "failed" ELSE @]

LEMMA AbortedKept ==
    ASSUME NEW s \in Session, NEW e, NEW pooled, NEW now \in Nat, Kept(s, e, pooled, now),
           e \in pooled, NEW closing, e \in closing <=> s.references = 0,
           NEW left, e \notin left
    PROVE  /\ Kept(Aborted(Leaves(s, e, closing)), e, left, now)
           /\ Aborted(Leaves(s, e, closing)) \in Session
           /\ Aborted(Leaves(s, e, closing)).references = s.references
           /\ s.promise = "ready" => Aborted(Leaves(s, e, closing)).promise = "ready"
<1>1. Kept(Aborted(Leaves(s, e, closing)), e, left, now)
  BY DEF Session, Kept, Leaves, Aborted
<1> QED BY <1>1 DEF Session, Leaves, Aborted

LEMMA CloseInv ==
    ASSUME TenantsInv, Tenants!Close
    PROVE  TenantsInv'
<1> DEFINE retired == Tenants!Retired(Tenants!Pooled, Tenants!Unused)
<1>1. /\ entry' = [e \in DOMAIN entry |->
                     [retired[e] EXCEPT !.promise =
                         IF e \in Tenants!Pooled /\ @ = "pending" THEN "failed" ELSE @]]
      /\ pool' = Tenants!Without(Tenants!Pooled)
      /\ UNCHANGED <<configuration, lease>> /\ closed' = TRUE
  BY DEF Tenants!Close
<1>2. configuration' \in 1..MaxConfigurations /\ closed' \in BOOLEAN
  BY <1>1 DEF TenantsInv, SessionsTyped
<1>3. ASSUME NEW d \in 1..Len(entry)
      PROVE  /\ entry'[d] \in Session
             /\ entry'[d].references = entry[d].references
             /\ entry[d].promise = "ready" => entry'[d].promise = "ready"
             /\ Kept(entry'[d], d, Tenants!Pooled \ Tenants!Pooled, configuration')
  <2>1. /\ entry[d] \in Session /\ Kept(entry[d], d, Tenants!Pooled, configuration)
        /\ configuration \in Nat
    BY EntriesTyped DEF TenantsInv, SessionsKept, SessionsTyped
  <2>2. /\ retired \in [1..Len(entry) -> Session]
        /\ retired[d] =
              IF d \in Tenants!Pooled THEN Leaves(entry[d], d, Tenants!Unused) ELSE entry[d]
    BY RetiredEntries
  <2>3. entry'[d] = [retired[d] EXCEPT !.promise =
                        IF d \in Tenants!Pooled /\ @ = "pending" THEN "failed" ELSE @]
    BY <1>1, EntriesTyped
  <2> HIDE DEF retired
  <2>4. CASE d \in Tenants!Pooled
    <3>1. d \in Tenants!Unused <=> entry[d].references = 0
      BY <2>4, PooledEntries
    <3>2. entry'[d] = Aborted(Leaves(entry[d], d, Tenants!Unused))
      BY <2>2, <2>3, <2>4 DEF Aborted
    <3> QED BY <3>1, <3>2, <2>1, <2>4, <1>1, AbortedKept
  <2>5. CASE d \notin Tenants!Pooled
    <3>1. entry'[d] = entry[d]
      BY <2>1, <2>2, <2>3, <2>5 DEF Session
    <3>2. configuration <= configuration
      BY <2>1
    <3>3. Kept(entry[d], d, Tenants!Pooled \ Tenants!Pooled, configuration)
      BY <3>2, <2>1, <2>5, OutKept
    <3> QED BY <3>1, <3>3, <2>1, <1>1
  <2> QED BY <2>4, <2>5
<1>4. entry' \in [1..Len(entry) -> Session]
  <2>1. DOMAIN entry' = 1..Len(entry) /\ entry' = [e \in 1..Len(entry) |-> entry'[e]]
    BY <1>1, EntriesTyped
  <2> QED BY <2>1, <1>3
<1> QED BY <1>1, <1>2, <1>3, <1>4, PoolStep

LEMMA ObtainInv ==
    ASSUME TenantsInv, NEW c \in Callers, Tenants!Obtain(c)
    PROVE  TenantsInv'
<1>1. /\ UNCHANGED <<entry, pool, configuration, closed>>
      /\ lease' = [lease EXCEPT ![c].stage =
                      IF entry[lease[c].entry].promise = "ready" THEN "using" ELSE "releasing"]
      /\ lease[c].stage = "waiting"
  BY DEF Tenants!Obtain
<1>2. lease \in [Callers -> Leases] /\ \A d \in Callers : lease[d].stage = "idle" <=> lease[d].entry = 0
  BY DEF TenantsInv, SessionsTyped, LeasesTyped
<1>3. \A d \in Callers :
         /\ lease'[d] \in Leases /\ lease'[d].entry = lease[d].entry
         /\ d # c => lease'[d].stage = lease[d].stage
         /\ lease'[c].stage \in {"using", "releasing"}
         /\ lease'[c].stage = "using" => entry[lease[c].entry].promise = "ready"
  BY <1>1, <1>2 DEF Leases
<1>4. SessionsTyped'
  <2>1. lease' \in [Callers -> Leases]
    BY <1>1, <1>2, <1>3
  <2>2. LeasesTyped'
    BY <2>1, <1>1, <1>2, <1>3 DEF LeasesTyped, Leases
  <2>3. PoolTyped'
    BY <1>1 DEF TenantsInv, SessionsTyped, PoolTyped, Tenants!Pooled
  <2> QED BY <2>2, <2>3, <1>1 DEF TenantsInv, SessionsTyped
<1>5. SessionsCounted'
  <2> SUFFICES ASSUME NEW d \in 1..Len(entry) PROVE entry[d].references = Cardinality(Holding(d)')
    BY <1>1 DEF SessionsCounted
  <2>1. Holding(d)' = Holding(d)
    BY <1>3, StaysCounted
  <2> QED BY <2>1 DEF TenantsInv, SessionsCounted
<1>6. SessionsKept'
  BY <1>1 DEF TenantsInv, SessionsKept, Tenants!Pooled
<1>7. UsedAreReady'
  BY <1>1, <1>3 DEF TenantsInv, UsedAreReady
<1> QED BY <1>4, <1>5, <1>6, <1>7 DEF TenantsInv

\* A session whose last holder is done with it, if it has left the pool.
Released(s) ==
    [s EXCEPT !.references = @ - 1,
              !.closing = IF s.references = 1 /\ s.retiring /\ @ = "no" THEN "due" ELSE @]

LEMMA ReleasedKept ==
    ASSUME NEW s \in Session, s.references # 0, NEW e, NEW pooled, NEW now \in Nat,
           Kept(s, e, pooled, now)
    PROVE  /\ Kept(Released(s), e, pooled, now)
           /\ Released(s) \in Session /\ Released(s).references = s.references - 1
           /\ Released(s).promise = s.promise
<1>1. Kept(Released(s), e, pooled, now)
  BY DEF Session, Kept, Released
<1>2. s.references - 1 \in Nat
  BY DEF Session
<1>3. /\ Released(s).references = s.references - 1 /\ Released(s).promise = s.promise
      /\ Released(s) \in Session
  BY <1>2 DEF Session, Released
<1> QED BY <1>1, <1>3

LEMMA HeldIsCounted ==
    ASSUME TenantsInv, NEW c \in Callers, lease[c].entry # 0
    PROVE  /\ lease[c].entry \in 1..Len(entry)
           /\ entry[lease[c].entry].references # 0
<1>1. lease[c].entry \in 1..Len(entry)
  BY EntriesTyped DEF TenantsInv, SessionsTyped, LeasesTyped, Leases
<1>2. c \in Holding(lease[c].entry)
  BY DEF Holding
<1>3. Cardinality(Holding(lease[c].entry)) # 0
  BY <1>2, CallersCounted, FS_EmptySet
<1> QED BY <1>1, <1>3 DEF TenantsInv, SessionsCounted

LEMMA ReleaseInv ==
    ASSUME TenantsInv, NEW c \in Callers, Tenants!Release(c)
    PROVE  TenantsInv'
<1> DEFINE e == lease[c].entry
           s == entry[e]
<1>1. /\ lease[c].stage \in {"using", "releasing"}
      /\ lease' = [lease EXCEPT ![c] = Tenants!NoLease]
      /\ UNCHANGED <<configuration, closed>>
      /\ pool' = IF s.references = 1 /\ s.retiring THEN Tenants!Without({e}) ELSE pool
  BY DEF Tenants!Release
<1>2. e \in 1..Len(entry) /\ s.references # 0
  <2>1. e # 0
    BY <1>1 DEF TenantsInv, SessionsTyped, LeasesTyped
  <2> QED BY <2>1, HeldIsCounted
<1>3. /\ s \in Session /\ Kept(s, e, Tenants!Pooled, configuration)
      /\ configuration \in Nat
  BY <1>2, EntriesTyped DEF TenantsInv, SessionsKept, SessionsTyped
<1>4. \A d \in 1..Len(entry) : entry'[d] = IF d = e THEN Released(s) ELSE entry[d]
  BY <1>2, <1>3, EntriesTyped DEF Tenants!Release, Released, Session
<1>5. entry' \in [1..Len(entry) -> Session]
  <2>1. DOMAIN entry' = 1..Len(entry) /\ entry' = [d \in 1..Len(entry) |-> entry'[d]]
    BY EntriesTyped DEF Tenants!Release
  <2>2. \A d \in 1..Len(entry) : entry'[d] \in Session
    BY <1>2, <1>3, <1>4, ReleasedKept, EntriesTyped
  <2> QED BY <2>1, <2>2
<1>6. entry' \in Seq(Session) /\ Len(entry') = Len(entry)
  BY <1>5, EntriesStay
<1>7. pool' = pool
  <2>1. ASSUME s.retiring PROVE \A u \in Users : pool[u] # e
    BY <2>1, <1>2, <1>3 DEF Kept, Tenants!Pooled
  <2>2. pool = [u \in Users |-> pool[u]]
    BY DEF TenantsInv, SessionsTyped, PoolTyped
  <2>3. ASSUME s.retiring PROVE Tenants!Without({e}) = pool
    BY <2>1, <2>2, <2>3 DEF Tenants!Without
  <2> QED BY <1>1, <2>3
<1>8. \A d \in Callers : lease'[d] = IF d = c THEN Tenants!NoLease ELSE lease[d]
  BY <1>1 DEF TenantsInv, SessionsTyped, LeasesTyped
<1>9. SessionsTyped'
  <2>1. lease' \in [Callers -> Leases]
    BY <1>1, EntriesTyped DEF TenantsInv, SessionsTyped, LeasesTyped, Leases, Tenants!NoLease
  <2>2. LeasesTyped'
    BY <2>1, <1>6, <1>8 DEF TenantsInv, SessionsTyped, LeasesTyped, Leases, Tenants!NoLease
  <2>3. PoolTyped'
    BY <1>6, <1>7 DEF TenantsInv, SessionsTyped, PoolTyped, Tenants!Pooled
  <2> QED BY <2>2, <2>3, <1>1, <1>6 DEF TenantsInv, SessionsTyped
<1>10. SessionsCounted'
  <2> SUFFICES ASSUME NEW d \in 1..Len(entry) PROVE entry'[d].references = Cardinality(Holding(d)')
    BY <1>6 DEF SessionsCounted
  <2>1. Cardinality(Holding(d)') = Cardinality(Holding(d)) - IF d = e THEN 1 ELSE 0
    <3>1. d \in Nat \ {0}
      BY EntriesTyped
    <3>2. lease' = [lease EXCEPT ![c] = Tenants!NoLease]
      BY <1>1
    <3> QED BY <3>1, <3>2, ReleaseCounts
  <2>2. entry[d].references = Cardinality(Holding(d)) /\ Cardinality(Holding(d)) \in Nat
    BY CallersCounted DEF TenantsInv, SessionsCounted
  <2>3. CASE d = e
    BY <2>1, <2>2, <2>3, <1>2, <1>3, <1>4, ReleasedKept
  <2>4. CASE d # e
    BY <2>1, <2>2, <2>4, <1>4
  <2> QED BY <2>3, <2>4
<1>11. SessionsKept'
  <2> SUFFICES ASSUME NEW d \in 1..Len(entry)
               PROVE  Kept(entry'[d], d, Tenants!Pooled, configuration)
    BY <1>1, <1>6, <1>7 DEF SessionsKept, Tenants!Pooled
  <2> QED BY <1>2, <1>3, <1>4, ReleasedKept DEF TenantsInv, SessionsKept
<1>12. UsedAreReady'
  <2> SUFFICES ASSUME NEW d \in Callers, lease'[d].stage = "using"
               PROVE  entry'[lease'[d].entry].promise = "ready"
    BY DEF UsedAreReady
  <2>1. d # c /\ lease'[d] = lease[d]
    BY <1>8 DEF Tenants!NoLease
  <2>2. lease[d].entry \in 1..Len(entry)
    BY <2>1, EntriesTyped DEF TenantsInv, SessionsTyped, LeasesTyped, Leases
  <2>3. entry[lease[d].entry].promise = "ready"
    BY <2>1 DEF TenantsInv, UsedAreReady
  <2> QED BY <2>1, <2>2, <2>3, <1>2, <1>3, <1>4, ReleasedKept
<1> QED BY <1>9, <1>10, <1>11, <1>12 DEF TenantsInv

\* A caller that begins to hold a session waits for it; the others go on.
LEMMA TakeTyped ==
    ASSUME TenantsInv, NEW c \in Callers, NEW joined \in Nat \ {0}, Tenants!Take(c, joined),
           Len(entry') \in Nat, Len(entry) <= Len(entry'), joined <= Len(entry')
    PROVE  /\ LeasesTyped'
           /\ \A d \in Callers : lease'[d].stage = "using" => d # c /\ lease'[d] = lease[d]
<1>1. lease' = [lease EXCEPT ![c] = [stage |-> "waiting", entry |-> joined]]
  BY DEF Tenants!Take
<1>2. lease \in [Callers -> Leases] /\ \A d \in Callers : lease[d].stage = "idle" <=> lease[d].entry = 0
  BY DEF TenantsInv, SessionsTyped, LeasesTyped
<1>3. \A d \in Callers : lease'[d] = IF d = c THEN [stage |-> "waiting", entry |-> joined] ELSE lease[d]
  BY <1>1, <1>2
<1>4. \A d \in Callers : lease'[d] \in Leases'
  BY <1>2, <1>3, EntriesTyped DEF Leases
<1>5. lease' \in [Callers -> Leases']
  BY <1>1, <1>2, <1>4
<1>6. \A d \in Callers : lease'[d].stage = "idle" <=> lease'[d].entry = 0
  BY <1>2, <1>3
<1>7. LeasesTyped'
  BY <1>5, <1>6 DEF LeasesTyped
<1> QED BY <1>3, <1>7

\* What is displaced or idle leaves the pool, for a session that is joined ...
LEMMA JoinInv ==
    ASSUME TenantsInv, NEW c \in Callers, NEW u \in Users, NEW idle \in SUBSET Tenants!Unused,
           lease[c].stage = "idle", pool[u] \notin idle \cup {0},
           entry' = [Tenants!Retired(idle, idle) EXCEPT ![pool[u]].references = @ + 1],
           pool' = Tenants!Without(idle), Tenants!Take(c, pool[u]),
           UNCHANGED <<configuration, closed>>
    PROVE  TenantsInv'
<1> DEFINE joined == pool[u]
           s == entry[joined]
           to == [s EXCEPT !.references = @ + 1]
<1>1. /\ joined \in Tenants!Pooled /\ joined \notin idle
      /\ joined \in 1..Len(entry) /\ joined \in Nat \ {0}
  BY EntriesTyped DEF TenantsInv, SessionsTyped, PoolTyped, Tenants!Pooled
<1>2. /\ s \in Session /\ Kept(s, joined, Tenants!Pooled, configuration)
      /\ configuration \in Nat
  BY <1>1, EntriesTyped DEF TenantsInv, SessionsKept, SessionsTyped
<1>3. to \in Session /\ to.references = s.references + 1 /\ to.promise = s.promise
  BY <1>2 DEF Session
<1>4. Kept(to, joined, Tenants!Pooled \ idle, configuration)
  BY <1>1, <1>2 DEF Kept, Session
<1>5. \A d \in 1..Len(entry) :
         entry'[d] = IF d = joined THEN to ELSE IF d \in idle THEN Leaves(entry[d], d, idle) ELSE entry[d]
  <2> DEFINE retired == Tenants!Retired(idle, idle)
  <2>1. /\ retired \in [1..Len(entry) -> Session]
        /\ \A d \in 1..Len(entry) : retired[d] = IF d \in idle THEN Leaves(entry[d], d, idle) ELSE entry[d]
    BY RetiredEntries
  <2>2. entry' = [retired EXCEPT ![joined] = [retired[joined] EXCEPT !.references = @ + 1]]
    OBVIOUS
  <2> HIDE DEF retired
  <2>3. retired[joined] = s
    BY <1>1, <2>1
  <2> QED BY <1>1, <2>1, <2>2, <2>3
<1>6. entry' \in [1..Len(entry) -> Session]
  <2> DEFINE retired == Tenants!Retired(idle, idle)
  <2>1. retired \in [1..Len(entry) -> Session]
    BY RetiredEntries
  <2>2. entry' = [retired EXCEPT ![joined] = [retired[joined] EXCEPT !.references = @ + 1]]
    OBVIOUS
  <2> HIDE DEF retired
  <2>3. retired[joined] \in Session
    BY <1>1, <2>1
  <2>4. [retired[joined] EXCEPT !.references = @ + 1] \in Session
    BY <2>3 DEF Session
  <2> QED BY <2>1, <2>2, <2>4
<1>7. entry' \in Seq(Session) /\ Len(entry') = Len(entry)
  BY <1>6, EntriesStay
<1>8. PoolTyped' /\ Tenants!Pooled' = Tenants!Pooled \ idle
  BY <1>7, PoolLeaves
<1>9. /\ LeasesTyped'
      /\ \A d \in Callers : lease'[d].stage = "using" => d # c /\ lease'[d] = lease[d]
  BY <1>1, <1>7, EntriesTyped, TakeTyped
<1>10. SessionsTyped'
  BY <1>7, <1>8, <1>9 DEF TenantsInv, SessionsTyped
<1>11. ASSUME NEW d \in 1..Len(entry)
       PROVE  /\ entry'[d].references = entry[d].references + IF d = joined THEN 1 ELSE 0
              /\ entry'[d].promise = entry[d].promise
              /\ Kept(entry'[d], d, Tenants!Pooled \ idle, configuration)
  <2>1. entry[d] \in Session /\ Kept(entry[d], d, Tenants!Pooled, configuration)
    BY EntriesTyped DEF TenantsInv, SessionsKept
  <2>2. CASE d = joined
    BY <2>2, <1>3, <1>4, <1>5
  <2>3. CASE d # joined /\ d \in idle
    <3>1. d \in Tenants!Pooled /\ entry[d].references = 0
      BY <2>3, PooledEntries
    <3>2. configuration <= configuration /\ d \notin Tenants!Pooled \ idle
      BY <1>2, <2>3
    <3>3. Kept(Leaves(entry[d], d, idle), d, Tenants!Pooled \ idle, configuration)
      BY <3>1, <3>2, <1>2, <2>1, <2>3, LeavesKept
    <3>4. Leaves(entry[d], d, idle).references = entry[d].references
      BY <2>1 DEF Leaves, Session
    <3>5. Leaves(entry[d], d, idle).promise = entry[d].promise
      BY <2>1 DEF Leaves, Session
    <3>6. entry[d].references + 0 = entry[d].references
      BY <2>1 DEF Session
    <3> QED BY <3>3, <3>4, <3>5, <3>6, <1>5, <2>3
  <2>4. CASE d # joined /\ d \notin idle
    <3>1. Kept(entry[d], d, Tenants!Pooled \ idle, configuration)
      BY <2>1, <2>4, InKept
    <3>2. entry[d].references + 0 = entry[d].references
      BY <2>1 DEF Session
    <3> QED BY <3>1, <3>2, <1>5, <2>4
  <2> QED BY <2>2, <2>3, <2>4
<1>12. SessionsCounted'
  <2> SUFFICES ASSUME NEW d \in 1..Len(entry) PROVE entry'[d].references = Cardinality(Holding(d)')
    BY <1>7 DEF SessionsCounted
  <2>1. d \in Nat \ {0} /\ lease[c].entry = 0
    BY EntriesTyped DEF TenantsInv, SessionsTyped, LeasesTyped
  <2>2. Cardinality(Holding(d)') = Cardinality(Holding(d)) + IF d = joined THEN 1 ELSE 0
    BY <2>1, <1>1, TakeCounts
  <2>3. entry[d].references = Cardinality(Holding(d))
    BY DEF TenantsInv, SessionsCounted
  <2> QED BY <2>2, <2>3, <1>11
<1>13. SessionsKept'
  BY <1>7, <1>8, <1>11 DEF SessionsKept
<1>14. UsedAreReady'
  <2> SUFFICES ASSUME NEW d \in Callers, lease'[d].stage = "using"
               PROVE  entry'[lease'[d].entry].promise = "ready"
    BY DEF UsedAreReady
  <2>1. lease'[d] = lease[d]
    BY <1>9
  <2>2. lease[d].entry \in 1..Len(entry)
    BY <2>1, EntriesTyped DEF TenantsInv, SessionsTyped, LeasesTyped, Leases
  <2>3. entry[lease[d].entry].promise = "ready"
    BY <2>1 DEF TenantsInv, UsedAreReady
  <2> QED BY <2>1, <2>2, <2>3, <1>11
<1> QED BY <1>10, <1>12, <1>13, <1>14 DEF TenantsInv

\* ... or for one that is begun, in the place of at most one that nobody holds.
LEMMA BeginInv ==
    ASSUME TenantsInv, NEW c \in Callers, NEW u \in Users, NEW out \in SUBSET Tenants!Unused,
           lease[c].stage = "idle", pool[u] \in out \cup {0},
           Cardinality(Tenants!Pooled \ out) < MaxSessions,
           entry' = Append(Tenants!Retired(out, out), Tenants!NewEntry),
           pool' = [Tenants!Without(out) EXCEPT ![u] = Len(entry) + 1],
           Tenants!Take(c, Len(entry) + 1), UNCHANGED <<configuration, closed>>
    PROVE  TenantsInv'
<1> DEFINE begun == Len(entry) + 1
           retired == Tenants!Retired(out, out)
<1>1. /\ retired \in [1..Len(entry) -> Session]
      /\ \A d \in 1..Len(entry) : retired[d] = IF d \in out THEN Leaves(entry[d], d, out) ELSE entry[d]
  BY RetiredEntries
<1>2. Len(entry) \in Nat /\ begun \in Nat \ {0} /\ configuration \in Nat
  BY EntriesTyped DEF TenantsInv, SessionsTyped
<1>3. retired \in Seq(Session) /\ Len(retired) = Len(entry)
  <2>1. retired \in Seq(Session)
    BY <1>1, <1>2, SeqDef
  <2>2. DOMAIN retired = 1..Len(retired) /\ Len(retired) \in Nat
    BY <2>1, LenProperties
  <2> QED BY <1>1, <1>2, <2>1, <2>2
<1>4. /\ Tenants!NewEntry \in Session /\ Tenants!NewEntry.references = 1
      /\ Tenants!NewEntry.promise = "pending"
      /\ \A pooled : begun \in pooled => Kept(Tenants!NewEntry, begun, pooled, configuration)
  BY <1>2 DEF Tenants!NewEntry, Session, Kept
<1> HIDE DEF retired
<1>5. /\ entry' \in Seq(Session) /\ Len(entry') = begun
      /\ \A d \in 1..Len(entry) : entry'[d] = retired[d]
      /\ entry'[begun] = Tenants!NewEntry
  <2>1. entry' = Append(retired, Tenants!NewEntry)
    BY DEF retired
  <2> QED BY <2>1, <1>2, <1>3, <1>4
<1>6. pool \in [Users -> 0..Len(entry)]
  BY DEF TenantsInv, SessionsTyped, PoolTyped
<1>7. \A v \in Users : pool'[v] = IF v = u THEN begun ELSE IF pool[v] \in out THEN 0 ELSE pool[v]
  BY <1>6 DEF Tenants!Without
<1>8. pool' \in [Users -> 0..begun]
  BY <1>2, <1>6, <1>7 DEF Tenants!Without
<1>9. Tenants!Pooled' = (Tenants!Pooled \ out) \cup {begun}
  BY <1>2, <1>6, <1>7 DEF Tenants!Pooled
<1>10. PoolTyped'
  <2>1. IsFiniteSet(Tenants!Pooled \ out)
    <3>1. Tenants!Pooled \ out \subseteq 1..Len(entry)
      BY PooledEntries
    <3>2. IsFiniteSet(1..Len(entry))
      BY <1>2, FS_Interval
    <3> QED BY <3>1, <3>2, FS_Subset
  <2>2. begun \notin Tenants!Pooled
    BY <1>2, <1>6 DEF Tenants!Pooled
  <2>3. Cardinality(Tenants!Pooled') = Cardinality(Tenants!Pooled \ out) + 1
    BY <2>1, <2>2, <1>9, FS_AddElement
  <2>4. Cardinality(Tenants!Pooled \ out) \in Nat
    BY <2>1, FS_CardinalityType
  <2>5. Cardinality(Tenants!Pooled') <= MaxSessions
    BY <2>3, <2>4, ServicesAssumption DEF ServicesAssumption
  <2> QED BY <2>5, <1>5, <1>8 DEF PoolTyped
<1>11. /\ LeasesTyped'
       /\ \A d \in Callers : lease'[d].stage = "using" => d # c /\ lease'[d] = lease[d]
  BY <1>2, <1>5, TakeTyped
<1>12. SessionsTyped'
  BY <1>5, <1>10, <1>11 DEF TenantsInv, SessionsTyped
<1>13. ASSUME NEW d \in 1..Len(entry)
       PROVE  /\ entry'[d].references = entry[d].references
              /\ entry'[d].promise = entry[d].promise
              /\ Kept(entry'[d], d, Tenants!Pooled', configuration)
  <2>1. entry[d] \in Session /\ Kept(entry[d], d, Tenants!Pooled, configuration) /\ d # begun
    BY <1>2, EntriesTyped DEF TenantsInv, SessionsKept
  <2>2. CASE d \in out
    <3>1. d \in Tenants!Pooled /\ entry[d].references = 0
      BY <2>2, PooledEntries
    <3>2. configuration <= configuration /\ d \notin Tenants!Pooled'
      BY <1>2, <1>9, <2>1, <2>2
    <3>3. Kept(Leaves(entry[d], d, out), d, Tenants!Pooled', configuration)
      BY <3>1, <3>2, <1>2, <2>1, <2>2, LeavesKept
    <3>4. Leaves(entry[d], d, out).references = entry[d].references
      BY <2>1 DEF Leaves, Session
    <3>5. Leaves(entry[d], d, out).promise = entry[d].promise
      BY <2>1 DEF Leaves, Session
    <3> QED BY <3>3, <3>4, <3>5, <1>1, <1>5, <2>2
  <2>3. CASE d \notin out
    <3>1. d \in Tenants!Pooled <=> d \in Tenants!Pooled'
      BY <1>9, <2>1, <2>3
    <3>2. Kept(entry[d], d, Tenants!Pooled', configuration)
      BY <3>1, <2>1, InKept
    <3> QED BY <3>2, <1>1, <1>5, <2>3
  <2> QED BY <2>2, <2>3
<1>14. SessionsCounted'
  <2> SUFFICES ASSUME NEW d \in 1..begun PROVE entry'[d].references = Cardinality(Holding(d)')
    BY <1>5 DEF SessionsCounted
  <2>1. d \in Nat \ {0} /\ lease[c].entry = 0
    BY <1>2 DEF TenantsInv, SessionsTyped, LeasesTyped
  <2>2. Cardinality(Holding(d)') = Cardinality(Holding(d)) + IF d = begun THEN 1 ELSE 0
    BY <2>1, <1>2, TakeCounts
  <2>3. CASE d = begun
    <3>1. Holding(d) = {}
      BY <2>3, <1>2 DEF Holding, TenantsInv, SessionsTyped, LeasesTyped, Leases
    <3>2. Cardinality(Holding(d)) = 0
      BY <3>1, FS_EmptySet
    <3>3. Cardinality(Holding(d)') = 1
      BY <3>2, <2>2, <2>3
    <3>4. entry'[d].references = 1
      BY <2>3, <1>4, <1>5
    <3> QED BY <3>3, <3>4
  <2>4. CASE d # begun
    <3>1. d \in 1..Len(entry)
      BY <2>4, <1>2
    <3>2. entry[d].references = Cardinality(Holding(d)) /\ Cardinality(Holding(d)) \in Nat
      BY <3>1, CallersCounted DEF TenantsInv, SessionsCounted
    <3>3. Cardinality(Holding(d)') = Cardinality(Holding(d))
      BY <3>2, <2>2, <2>4
    <3>4. entry'[d].references = entry[d].references
      BY <3>1, <1>13
    <3> QED BY <3>2, <3>3, <3>4
  <2> QED BY <2>3, <2>4
<1>15. SessionsKept'
  <2> SUFFICES ASSUME NEW d \in 1..begun PROVE Kept(entry'[d], d, Tenants!Pooled', configuration)
    BY <1>5 DEF SessionsKept
  <2>1. CASE d = begun
    BY <2>1, <1>4, <1>5, <1>9
  <2>2. CASE d # begun
    <3>1. d \in 1..Len(entry)
      BY <2>2, <1>2
    <3> QED BY <3>1, <1>13
  <2> QED BY <2>1, <2>2
<1>16. UsedAreReady'
  <2> SUFFICES ASSUME NEW d \in Callers, lease'[d].stage = "using"
               PROVE  entry'[lease'[d].entry].promise = "ready"
    BY DEF UsedAreReady
  <2>1. lease'[d] = lease[d]
    BY <1>11
  <2>2. lease[d].entry \in 1..Len(entry)
    BY <2>1, EntriesTyped DEF TenantsInv, SessionsTyped, LeasesTyped, Leases
  <2>3. entry[lease[d].entry].promise = "ready"
    BY <2>1 DEF TenantsInv, UsedAreReady
  <2> QED BY <2>1, <2>2, <2>3, <1>13
<1> QED BY <1>12, <1>14, <1>15, <1>16 DEF TenantsInv

LEMMA LeaseInv ==
    ASSUME TenantsInv, NEW c \in Callers, NEW u \in Users, Tenants!Lease(c, u)
    PROVE  TenantsInv'
<1>1. lease[c].stage = "idle" /\ UNCHANGED <<configuration, closed>>
  BY DEF Tenants!Lease
<1>2. PICK idle \in SUBSET Tenants!Unused :
         IF pool[u] \notin idle \cup {0}
         THEN /\ entry' = [Tenants!Retired(idle, idle) EXCEPT ![pool[u]].references = @ + 1]
              /\ pool' = Tenants!Without(idle)
              /\ Tenants!Take(c, pool[u])
         ELSE \E displaced \in IF Cardinality(Tenants!Pooled \ idle) < MaxSessions THEN {{}}
                               ELSE {{e} : e \in Tenants!Evictable(idle)} :
                 /\ entry' = Append(Tenants!Retired(idle \cup displaced, idle \cup displaced),
                                    Tenants!NewEntry)
                 /\ pool' = [Tenants!Without(idle \cup displaced) EXCEPT ![u] = Len(entry) + 1]
                 /\ Tenants!Take(c, Len(entry) + 1)
  BY TenantsCount DEF Tenants!Lease
<1>3. CASE pool[u] \notin idle \cup {0}
  BY <1>1, <1>2, <1>3, JoinInv
<1>4. CASE pool[u] \in idle \cup {0}
  <2>1. PICK displaced \in IF Cardinality(Tenants!Pooled \ idle) < MaxSessions THEN {{}}
                          ELSE {{e} : e \in Tenants!Evictable(idle)} :
           /\ entry' = Append(Tenants!Retired(idle \cup displaced, idle \cup displaced),
                              Tenants!NewEntry)
           /\ pool' = [Tenants!Without(idle \cup displaced) EXCEPT ![u] = Len(entry) + 1]
           /\ Tenants!Take(c, Len(entry) + 1)
    BY <1>2, <1>4
  <2> DEFINE out == idle \cup displaced
  <2>2. displaced \subseteq Tenants!Unused /\ pool[u] \in out \cup {0}
    BY <1>4 DEF Tenants!Evictable
  <2>3. Cardinality(Tenants!Pooled \ out) < MaxSessions
    <3>1. CASE Cardinality(Tenants!Pooled \ idle) < MaxSessions
      BY <3>1, <2>1
    <3>2. CASE ~(Cardinality(Tenants!Pooled \ idle) < MaxSessions)
      <4>1. PICK e \in Tenants!Unused : displaced = {e}
        BY <2>1, <3>2 DEF Tenants!Evictable
      <4>2. IsFiniteSet(Tenants!Pooled) /\ e \in Tenants!Pooled
        <5>1. IsFiniteSet(1..Len(entry))
          BY EntriesTyped, FS_Interval
        <5> QED BY <5>1, PooledEntries, FS_Subset
      <4>3. /\ IsFiniteSet(Tenants!Pooled \ {e})
            /\ Cardinality(Tenants!Pooled \ {e}) = Cardinality(Tenants!Pooled) - 1
        BY <4>2, FS_RemoveElement
      <4>4. /\ Cardinality(Tenants!Pooled \ out) \in Nat
            /\ Cardinality(Tenants!Pooled \ out) <= Cardinality(Tenants!Pooled \ {e})
        <5>1. Tenants!Pooled \ out \in SUBSET (Tenants!Pooled \ {e})
          BY <4>1
        <5> QED BY <5>1, <4>3, FS_Subset, FS_CardinalityType
      <4>5. Cardinality(Tenants!Pooled) <= MaxSessions /\ Cardinality(Tenants!Pooled) \in Nat
        BY <4>2, FS_CardinalityType DEF TenantsInv, SessionsTyped, PoolTyped
      <4> QED BY <4>3, <4>4, <4>5, ServicesAssumption DEF ServicesAssumption
    <3> QED BY <3>1, <3>2
  <2>4. out \in SUBSET Tenants!Unused
    BY <2>2
  <2> HIDE DEF out
  <2>5. /\ entry' = Append(Tenants!Retired(out, out), Tenants!NewEntry)
        /\ pool' = [Tenants!Without(out) EXCEPT ![u] = Len(entry) + 1]
    BY <2>1 DEF out
  <2> QED BY <1>1, <2>1, <2>2, <2>3, <2>4, <2>5, BeginInv
<1> QED BY <1>3, <1>4

LEMMA TenantsNextInv == TenantsInv /\ [Tenants!Next]_(Tenants!vars) => TenantsInv'
<1> SUFFICES ASSUME TenantsInv, [Tenants!Next]_(Tenants!vars) PROVE TenantsInv'
  OBVIOUS
<1>1. ASSUME NEW c \in Callers, Tenants!Obtain(c) \/ Tenants!Release(c) \/ \E u \in Users : Tenants!Lease(c, u)
      PROVE  TenantsInv'
  BY <1>1, ObtainInv, ReleaseInv, LeaseInv
<1>2. ASSUME NEW e \in DOMAIN entry,
             \/ Tenants!Initialized(e) \/ Tenants!InitializationFails(e)
             \/ Tenants!RemoveFailed(e) \/ Tenants!CloseEntry(e)
      PROVE  TenantsInv'
  <2>1. e \in 1..Len(entry)
    BY EntriesTyped
  <2> QED BY <1>2, <2>1, InitializedInv, InitializationFailsInv, RemoveFailedInv, CloseEntryInv
<1>3. CASE UNCHANGED Tenants!vars
  BY <1>3 DEF Tenants!vars, TenantsInv, SessionsTyped, PoolTyped, LeasesTyped, Leases,
              SessionsCounted, Holding, SessionsKept, UsedAreReady, Tenants!Pooled
<1> QED BY <1>1, <1>2, <1>3, UpdateConfigurationInv, EvictIdleInv, CloseInv DEF Tenants!Next

\* A leased session is open, whatever retired it since, unless the configuration
\* changed while it was being initialised; and no open session is forgotten
\* (TenantHypermailSessionProvider of packages/hypermail/src/tenant-client.ts),
\* for any users, callers and sizes of the pool.
THEOREM SessionsStaySound == Tenants!Spec => []SessionsAreSound
<1>1. Tenants!Spec => []TenantsInv
  BY TenantsInitInv, TenantsNextInv, PTL DEF Tenants!Spec
<1> QED BY <1>1, TenantsInvSuffices, PTL

-----------------------------------------------------------------------------
(* Tool calls and their journal *)

Journaled == [state : {"authorized", "executing", "verifying", "verified", "failed",
                       "unverifiable", "cancelled", "none"},
              events : 0..9, reported : BOOLEAN,
              run : {"none", "running", "completed", "failed", "cancelled"},
              activity : {"none", "open", "resolved", "attention_required"}]
Provided == [asked : 0..3, applied : BOOLEAN]
HandlerStages == {"idle", "done", "refused", "dead", "prepared", "started", "fenced", "called",
                  "failing", "verifying"}
Deliveries == [stage : {"idle", "claimed", "fenced", "reporting", "verifying"},
               mutation : Mutations, confirmed : BOOLEAN]

CallsTyped ==
    /\ call \in [Mutations -> Journaled]
    /\ authorized \in BOOLEAN
    /\ provider \in [Mutations -> Provided]
    /\ handler \in [Mutations -> HandlerStages]
    /\ executor \in [Executors -> Deliveries]
    /\ faults \in 0..MaxFaults

\* The state of the action and the number of its events go together, and who
\* finds the one knows the other.
RowSound(r, p) ==
    /\ r.state = "none" => r.events = 0 /\ p.asked = 0
    /\ r.state = "authorized" => r.events = 2 /\ p.asked = 0
    /\ r.state = "executing" => r.events = 3
    /\ r.state = "verifying" => r.events = 4
    /\ r.state \in {"verified", "failed", "unverifiable"} => r.events \in 4..6
    /\ r.state = "cancelled" => r.events \in 3..5 /\ p.asked = 0
    /\ r.activity = "resolved" => r.state \in {"verified", "cancelled"}
    /\ r.state = "verified" => p.applied = TRUE

\* The call that has started the action has it to itself until it was made.
Underway(r) == r.state \notin {"none", "authorized", "cancelled"}
HandlerSound(h, r, p) ==
    /\ h = "idle" => r.state = "none"
    /\ h \in {"started", "fenced", "called"} => Underway(r)
    /\ h \in {"started", "fenced"} => p.asked = 0
    /\ h = "done" => p.applied = TRUE
    /\ p.asked <= 1

\* So has the one delivery that has started it.
Fenced(e, m) == executor[e].stage = "fenced" /\ executor[e].mutation = m
FencedSound(m) ==
    \A e \in Executors : Fenced(e, m) =>
        /\ Underway(call[m]) /\ provider[m].asked = 0 /\ handler[m] \notin {"started", "fenced"}
        /\ \A d \in Executors : Fenced(d, m) => d = e

\* What a delivery is verifying was started once.
Past(r) == r.state \notin {"none", "authorized"}
Late(e, m) == executor[e].stage \in {"reporting", "verifying"} /\ executor[e].mutation = m
LateSound(m) == \A e \in Executors : Late(e, m) => Past(call[m])

CallsInv ==
    /\ CallsTyped
    /\ \A m \in Mutations :
          /\ RowSound(call[m], provider[m]) /\ HandlerSound(handler[m], call[m], provider[m])
          /\ FencedSound(m) /\ LateSound(m)

LEMMA CallsInvSuffices == CallsInv => JournalTellsTruth
<1> SUFFICES ASSUME CallsInv PROVE JournalTellsTruth
  OBVIOUS
<1>1. Calls!TypeOK
  BY DEF CallsInv, CallsTyped, Journaled, Provided, HandlerStages, Deliveries, Calls!TypeOK,
         Calls!Open, Calls!Settled, Calls!Ended
<1>2. ASSUME NEW m \in Mutations
      PROVE  /\ provider[m].asked <= 1
             /\ call[m].state = "verified" \/ handler[m] = "done" => provider[m].applied
             /\ call[m].state = "cancelled" => provider[m].asked = 0
             /\ call[m].activity = "resolved" => call[m].state \in {"verified", "cancelled"}
  BY DEF CallsInv, CallsTyped, RowSound, HandlerSound
<1> QED BY <1>1, <1>2 DEF JournalTellsTruth, Calls!AskedOnce, Calls!JournalTellsTruth

LEMMA CallsInitInv == Calls!Init => CallsInv
<1> SUFFICES ASSUME Calls!Init PROVE CallsInv
  OBVIOUS
<1>1. Calls!NoRow \in Journaled /\ Calls!Resting \in Deliveries /\ Calls!Resting.stage = "idle"
  BY WorkAssumption DEF WorkAssumption, Calls!NoRow, Calls!Resting, Journaled, Deliveries
<1>2. CallsTyped
  BY <1>1, WorkAssumption DEF WorkAssumption, Calls!Init, CallsTyped, Provided, HandlerStages
<1>3. ASSUME NEW m \in Mutations
      PROVE  /\ RowSound(call[m], provider[m]) /\ HandlerSound(handler[m], call[m], provider[m])
             /\ FencedSound(m) /\ LateSound(m)
  BY <1>1 DEF Calls!Init, Calls!NoRow, RowSound, HandlerSound, FencedSound, Fenced, LateSound, Late
<1> QED BY <1>2, <1>3 DEF CallsInv

\* A step that is about one action.
LEMMA CallStep ==
    ASSUME CallsInv, CallsTyped', NEW m \in Mutations,
           \A n \in Mutations \ {m} :
              /\ call'[n] = call[n] /\ provider'[n] = provider[n] /\ handler'[n] = handler[n]
              /\ \A e \in Executors : (Fenced(e, n)' => Fenced(e, n)) /\ (Late(e, n)' => Late(e, n)),
           RowSound(call'[m], provider'[m]), HandlerSound(handler'[m], call'[m], provider'[m]),
           FencedSound(m)', LateSound(m)'
    PROVE  CallsInv'
<1> SUFFICES ASSUME NEW n \in Mutations
             PROVE  /\ RowSound(call'[n], provider'[n])
                    /\ HandlerSound(handler'[n], call'[n], provider'[n])
                    /\ FencedSound(n)' /\ LateSound(n)'
  BY DEF CallsInv
<1>1. CASE n = m
  BY <1>1
<1>2. CASE n # m
  BY <1>2 DEF CallsInv, FencedSound, LateSound
<1> QED BY <1>1, <1>2

\* A step of its tool call, which leaves the deliveries alone.
LEMMA HandlerStep ==
    ASSUME CallsInv, NEW m \in Mutations,
           UNCHANGED executor, authorized' \in BOOLEAN, faults' \in 0..MaxFaults,
           NEW r \in Journaled, NEW p \in Provided, NEW h \in HandlerStages,
           call' = [call EXCEPT ![m] = r], provider' = [provider EXCEPT ![m] = p],
           handler' = [handler EXCEPT ![m] = h],
           RowSound(r, p), HandlerSound(h, r, p), Past(call[m]) => Past(r),
           \A e \in Executors : Fenced(e, m) =>
              Underway(r) /\ p.asked = 0 /\ h \notin {"started", "fenced"}
    PROVE  CallsInv'
<1>1. CallsTyped'
  BY DEF CallsInv, CallsTyped
<1>2. call'[m] = r /\ provider'[m] = p /\ handler'[m] = h
  BY DEF CallsInv, CallsTyped
<1>3. \A n \in Mutations \ {m} :
         /\ call'[n] = call[n] /\ provider'[n] = provider[n] /\ handler'[n] = handler[n]
         /\ \A e \in Executors : (Fenced(e, n)' => Fenced(e, n)) /\ (Late(e, n)' => Late(e, n))
  BY DEF CallsInv, CallsTyped, Fenced, Late
<1>4. FencedSound(m)'
  BY <1>2 DEF CallsInv, FencedSound, Fenced
<1>5. LateSound(m)'
  BY <1>2 DEF CallsInv, LateSound, Late
<1> QED BY <1>1, <1>2, <1>3, <1>4, <1>5, CallStep

\* A step of a delivery, which leaves the tool calls alone.
LEMMA DeliveryStep ==
    ASSUME CallsInv, NEW m \in Mutations, NEW e \in Executors,
           UNCHANGED <<handler, authorized>>, faults' \in 0..MaxFaults,
           NEW r \in Journaled, NEW p \in Provided, NEW x \in Deliveries,
           call' = [call EXCEPT ![m] = r], provider' = [provider EXCEPT ![m] = p],
           executor' = [executor EXCEPT ![e] = x],
           RowSound(r, p), HandlerSound(handler[m], r, p),
           Underway(call[m]) => Underway(r), Past(call[m]) => Past(r),
           x.stage \in {"reporting", "verifying"} => x.mutation = m /\ Past(r),
           p.asked # provider[m].asked => Fenced(e, m) /\ x.stage # "fenced",
           x.stage = "fenced" =>
              /\ x.mutation = m /\ Underway(r) /\ p.asked = 0
              /\ handler[m] \notin {"started", "fenced"}
              /\ \A d \in Executors : ~Fenced(d, m)
    PROVE  CallsInv'
<1>1. CallsTyped'
  BY DEF CallsInv, CallsTyped
<1>2. call'[m] = r /\ provider'[m] = p /\ executor'[e] = x
  BY DEF CallsInv, CallsTyped
<1>3. \A n \in Mutations \ {m} :
         /\ call'[n] = call[n] /\ provider'[n] = provider[n] /\ handler'[n] = handler[n]
         /\ \A d \in Executors : (Fenced(d, n)' => Fenced(d, n)) /\ (Late(d, n)' => Late(d, n))
  BY <1>2 DEF CallsInv, CallsTyped, Fenced, Late
<1>4. \A d \in Executors : Fenced(d, m)' =>
         IF d = e THEN x.stage = "fenced" /\ x.mutation = m ELSE Fenced(d, m)
  BY <1>2 DEF CallsInv, CallsTyped, Fenced
<1>5. FencedSound(m)'
  BY <1>2, <1>4 DEF CallsInv, FencedSound
<1>6. LateSound(m)'
  BY <1>2 DEF CallsInv, CallsTyped, LateSound, Late
<1> QED BY <1>1, <1>2, <1>3, <1>5, <1>6, CallStep

LEMMA CallTyped ==
    ASSUME CallsInv
    PROVE  /\ \A m \in Mutations :
                 /\ call[m] \in Journaled /\ provider[m] \in Provided /\ handler[m] \in HandlerStages
                 /\ RowSound(call[m], provider[m])
                 /\ HandlerSound(handler[m], call[m], provider[m])
           /\ \A e \in Executors : executor[e] \in Deliveries
           /\ authorized \in BOOLEAN /\ faults \in 0..MaxFaults
BY DEF CallsInv, CallsTyped

LEMMA OneTyped ==
    ASSUME CallsInv, NEW m \in Mutations
    PROVE  /\ call[m] \in Journaled /\ provider[m] \in Provided
           /\ RowSound(call[m], provider[m]) /\ HandlerSound(handler[m], call[m], provider[m])
BY DEF CallsInv, CallsTyped

\* What is written into a row is a row.
RowStates == {"authorized", "executing", "verifying", "verified", "failed",
              "unverifiable", "cancelled", "none"}
RowRuns == {"none", "running", "completed", "failed", "cancelled"}
RowActivities == {"none", "open", "resolved", "attention_required"}

Moves(r, s, n) == [r EXCEPT !.state = s, !.events = n]
MovesToEnd(r, s, n, u, y) == [r EXCEPT !.state = s, !.events = n, !.run = u, !.activity = y]
Reports(r, s, n) == [r EXCEPT !.state = s, !.reported = TRUE, !.events = n]

LEMMA Moved ==
    ASSUME NEW r \in Journaled, NEW s \in RowStates, NEW n \in 0..9
    PROVE  LET new == Moves(r, s, n)
           IN new \in Journaled /\ new.state = s /\ new.events = n /\ new.activity = r.activity
<1> DEFINE a == [r EXCEPT !.state = s]
           b == [a EXCEPT !.events = n]
<1>1. a \in Journaled /\ a.state = s /\ a.activity = r.activity
  BY DEF Journaled, RowStates
<1> HIDE DEF a
<1>2. b \in Journaled /\ b.state = s /\ b.events = n /\ b.activity = r.activity
  BY <1>1 DEF Journaled
<1> QED BY <1>2 DEF a, Moves

LEMMA MovedToEnd ==
    ASSUME NEW r \in Journaled, NEW s \in RowStates, NEW n \in 0..9, NEW u \in RowRuns,
           NEW y \in RowActivities
    PROVE  LET new == MovesToEnd(r, s, n, u, y)
           IN new \in Journaled /\ new.state = s /\ new.events = n /\ new.activity = y
<1> DEFINE a == Moves(r, s, n)
           b == [a EXCEPT !.run = u]
           c == [b EXCEPT !.activity = y]
<1>1. a \in Journaled /\ a.state = s /\ a.events = n
  BY Moved
<1> HIDE DEF a
<1>2. b \in Journaled /\ b.state = s /\ b.events = n
  BY <1>1 DEF Journaled, RowRuns
<1> HIDE DEF b
<1>3. c \in Journaled /\ c.state = s /\ c.events = n /\ c.activity = y
  BY <1>2 DEF Journaled, RowActivities
<1> QED BY <1>3 DEF a, b, Moves, MovesToEnd

LEMMA MovedReported ==
    ASSUME NEW r \in Journaled, NEW s \in RowStates, NEW n \in 0..9
    PROVE  LET new == Reports(r, s, n)
           IN new \in Journaled /\ new.state = s /\ new.events = n /\ new.activity = r.activity
<1> DEFINE a == [r EXCEPT !.state = s]
           b == [a EXCEPT !.reported = TRUE]
           c == [b EXCEPT !.events = n]
<1>1. a \in Journaled /\ a.state = s /\ a.activity = r.activity
  BY DEF Journaled, RowStates
<1> HIDE DEF a
<1>2. b \in Journaled /\ b.state = s /\ b.activity = r.activity
  BY <1>1 DEF Journaled
<1> HIDE DEF b
<1>3. c \in Journaled /\ c.state = s /\ c.events = n /\ c.activity = r.activity
  BY <1>2 DEF Journaled
<1> QED BY <1>3 DEF a, b, Reports

LEMMA CallSame ==
    ASSUME CallsInv, NEW m \in Mutations
    PROVE  call = [call EXCEPT ![m] = call[m]] /\ provider = [provider EXCEPT ![m] = provider[m]]
BY DEF CallsInv, CallsTyped

LEMMA PrepareInv == ASSUME CallsInv, NEW m \in Mutations, Calls!Prepare(m) PROVE CallsInv'
<1>1. authorized' \in BOOLEAN /\ faults' \in 0..MaxFaults /\ UNCHANGED executor /\ handler[m] = "idle"
  BY CallTyped DEF Calls!Prepare
<1>2. call[m].state = "none" /\ provider[m].asked = 0 /\ \A e \in Executors : ~Fenced(e, m)
  BY <1>1, CallTyped DEF HandlerSound, RowSound, CallsInv, FencedSound, Underway
<1>3. CASE authorized
  <2> DEFINE r == [state |-> "authorized", events |-> 2, reported |-> FALSE,
                   run |-> "running", activity |-> "open"]
  <2>1. /\ call' = [call EXCEPT ![m] = r] /\ provider' = [provider EXCEPT ![m] = provider[m]]
        /\ handler' = [handler EXCEPT ![m] = "prepared"]
    BY <1>3, CallSame DEF Calls!Prepare, Calls!Stage
  <2>2. r \in Journaled /\ RowSound(r, provider[m]) /\ HandlerSound("prepared", r, provider[m])
    BY <1>2, CallTyped DEF Journaled, RowSound, HandlerSound
  <2> QED BY <1>1, <1>2, <2>1, <2>2, CallTyped, HandlerStep DEF HandlerStages, Past
<1>4. CASE ~authorized
  <2>1. /\ call' = [call EXCEPT ![m] = call[m]] /\ provider' = [provider EXCEPT ![m] = provider[m]]
        /\ handler' = [handler EXCEPT ![m] = "refused"]
    BY <1>4, CallSame DEF Calls!Prepare, Calls!Stage
  <2>2. HandlerSound("refused", call[m], provider[m])
    BY <1>2, CallTyped DEF HandlerSound
  <2> QED BY <1>1, <1>2, <2>1, <2>2, CallTyped, HandlerStep DEF HandlerStages
<1> QED BY <1>3, <1>4

\* Nothing but how far the call is has changed.
LEMMA HandlerMoves ==
    ASSUME CallsInv, NEW m \in Mutations, UNCHANGED <<call, provider, executor, authorized>>,
           faults' \in 0..MaxFaults, NEW h \in {"fenced", "refused", "failing", "done", "dead"},
           handler' = [handler EXCEPT ![m] = h],
           h = "fenced" => handler[m] = "started", h = "done" => provider[m].applied = TRUE
    PROVE  CallsInv'
<1>1. HandlerSound(h, call[m], provider[m])
  <2>1. HandlerSound(handler[m], call[m], provider[m])
    BY OneTyped
  <2> QED BY <2>1 DEF HandlerSound
<1>2. \A e \in Executors : Fenced(e, m) =>
         Underway(call[m]) /\ provider[m].asked = 0 /\ h \notin {"started", "fenced"}
  BY DEF CallsInv, FencedSound
<1>3. /\ call' = [call EXCEPT ![m] = call[m]] /\ provider' = [provider EXCEPT ![m] = provider[m]]
      /\ authorized' \in BOOLEAN
  BY CallSame, CallTyped
<1>4. h \in HandlerStages /\ h \notin {"started"}
  BY DEF HandlerStages
<1>5. call[m] \in Journaled /\ provider[m] \in Provided /\ RowSound(call[m], provider[m])
  BY OneTyped
<1> QED BY <1>1, <1>2, <1>3, <1>4, <1>5, HandlerStep

\* The row and how far the call is; the provider is not asked.
LEMMA JournalMoves ==
    ASSUME CallsInv, NEW m \in Mutations, UNCHANGED <<provider, executor, authorized, faults>>,
           NEW r \in Journaled, NEW h \in HandlerStages,
           call' = [call EXCEPT ![m] = r], handler' = [handler EXCEPT ![m] = h],
           RowSound(r, provider[m]), HandlerSound(h, r, provider[m]), Past(r),
           \/ Underway(r) /\ h \notin {"started", "fenced"}
           \/ \A e \in Executors : ~Fenced(e, m)
    PROVE  CallsInv'
<1>1. \A e \in Executors : Fenced(e, m) =>
         Underway(r) /\ provider[m].asked = 0 /\ h \notin {"started", "fenced"}
  BY DEF CallsInv, FencedSound
<1>2. provider' = [provider EXCEPT ![m] = provider[m]] /\ authorized' \in BOOLEAN
  BY CallSame, CallTyped
<1> QED BY <1>1, <1>2, CallTyped, HandlerStep

LEMMA StartInv == ASSUME CallsInv, NEW m \in Mutations, Calls!Start(m) PROVE CallsInv'
<1>1. /\ call[m] \in Journaled /\ provider[m] \in Provided /\ handler[m] = "prepared"
      /\ RowSound(call[m], provider[m]) /\ HandlerSound(handler[m], call[m], provider[m])
      /\ UNCHANGED <<provider, executor, authorized, faults>>
  BY OneTyped DEF Calls!Start
<1>2. CASE Calls!StartFits(m)
  <2> DEFINE r == Moves(call[m], "executing", 3)
  <2>1. call[m].state = "authorized" /\ call[m].events = 2 /\ provider[m].asked = 0
    BY <1>1, <1>2 DEF Calls!StartFits, RowSound, Journaled
  <2>2. r \in Journaled /\ r.state = "executing" /\ r.events = 3 /\ r.activity = call[m].activity
    BY <1>1, Moved DEF RowStates
  <2>3. call' = [call EXCEPT ![m] = r] /\ handler' = [handler EXCEPT ![m] = "started"]
    BY <1>2, <2>1 DEF Calls!Start, Calls!StartFits, Calls!Stage, Moves
  <2> HIDE DEF r
  <2>4. RowSound(r, provider[m]) /\ HandlerSound("started", r, provider[m])
    BY <1>1, <2>1, <2>2 DEF RowSound, HandlerSound, Underway
  <2>5. \A e \in Executors : ~Fenced(e, m)
    BY <2>1 DEF CallsInv, FencedSound, Underway
  <2>6. "started" \in HandlerStages
    BY DEF HandlerStages
  <2>7. Past(r)
    BY <2>2 DEF Past
  <2> QED BY <1>1, <2>2, <2>3, <2>4, <2>5, <2>6, <2>7, JournalMoves
<1>3. CASE ~Calls!StartFits(m)
  <2>1. UNCHANGED call /\ handler' = [handler EXCEPT ![m] = "refused"]
    BY <1>3 DEF Calls!Start, Calls!Stage
  <2> QED BY <1>1, <2>1, CallTyped, HandlerMoves
<1> QED BY <1>2, <1>3

LEMMA FinalFenceInv == ASSUME CallsInv, NEW m \in Mutations, Calls!FinalFence(m) PROVE CallsInv'
<1>1. /\ call[m] \in Journaled /\ handler[m] = "started" /\ provider[m].asked = 0
      /\ RowSound(call[m], provider[m])
      /\ UNCHANGED <<provider, executor, authorized, faults>>
  BY OneTyped DEF Calls!FinalFence, HandlerSound
<1>2. CASE authorized
  <2>1. UNCHANGED call /\ handler' = [handler EXCEPT ![m] = "fenced"]
    BY <1>2 DEF Calls!FinalFence, Calls!Stage
  <2> QED BY <1>1, <2>1, CallTyped, HandlerMoves
<1>3. CASE ~authorized /\ ~Calls!Cancels(m)
  <2>1. UNCHANGED call /\ handler' = [handler EXCEPT ![m] = "refused"]
    BY <1>3 DEF Calls!FinalFence, Calls!Stage
  <2> QED BY <1>1, <2>1, CallTyped, HandlerMoves
<1>4. CASE ~authorized /\ Calls!Cancels(m)
  <2> DEFINE r == MovesToEnd(call[m], "cancelled", 5, "cancelled", "resolved")
  <2>1. r \in Journaled /\ r.state = "cancelled" /\ r.events = 5
    <3>1. "cancelled" \in RowStates /\ 5 \in 0..9 /\ "cancelled" \in RowRuns /\ "resolved" \in RowActivities
      BY DEF RowStates, RowRuns, RowActivities
    <3> QED BY <1>1, <3>1, MovedToEnd
  <2>2. call[m].events + 2 = 5
    BY <1>4 DEF Calls!Cancels
  <2>3. call' = [call EXCEPT ![m] = r] /\ handler' = [handler EXCEPT ![m] = "refused"]
    BY <1>4, <2>2 DEF Calls!FinalFence, Calls!Stage, MovesToEnd
  <2> HIDE DEF r
  <2>4. RowSound(r, provider[m]) /\ HandlerSound("refused", r, provider[m])
    BY <1>1, <2>1 DEF RowSound, HandlerSound
  <2>5. \A e \in Executors : ~Fenced(e, m)
    BY <1>1 DEF CallsInv, FencedSound
  <2>6. "refused" \in HandlerStages
    BY DEF HandlerStages
  <2>7. Past(r)
    BY <2>1 DEF Past
  <2> QED BY <1>1, <2>1, <2>3, <2>4, <2>5, <2>6, <2>7, JournalMoves
<1> QED BY <1>2, <1>3, <1>4

LEMMA FaultCounts == ASSUME CallsInv, Calls!Fault PROVE faults' \in 0..MaxFaults
<1>1. faults \in 0..MaxFaults
  BY CallTyped
<1> QED BY <1>1, WorkAssumption DEF WorkAssumption, Calls!Fault

LEMMA CallInv == ASSUME CallsInv, NEW m \in Mutations, Calls!Call(m) PROVE CallsInv'
<1>1. /\ call[m] \in Journaled /\ provider[m] \in Provided /\ RowSound(call[m], provider[m])
      /\ handler[m] = "fenced" /\ provider[m].asked = 0 /\ Underway(call[m])
      /\ UNCHANGED <<call, executor, authorized>>
  BY OneTyped DEF Calls!Call, HandlerSound
<1>2. PICK answered \in BOOLEAN :
         /\ Calls!Ask(m, answered)
         /\ handler' = [handler EXCEPT ![m] = IF answered THEN "called" ELSE "failing"]
         /\ (answered /\ UNCHANGED faults) \/ Calls!Fault
  BY DEF Calls!Call, Calls!Stage
<1>3. faults' \in 0..MaxFaults
  BY <1>2, FaultCounts, CallTyped
<1>4. PICK applied \in BOOLEAN :
         provider' = [provider EXCEPT ![m] = [asked |-> provider[m].asked + 1,
                                              applied |-> provider[m].applied \/ applied]]
  BY <1>2 DEF Calls!Ask
<1> DEFINE p == [asked |-> provider[m].asked + 1, applied |-> provider[m].applied \/ applied]
           h == IF answered THEN "called" ELSE "failing"
<1>5. p \in Provided /\ p.asked = 1
  BY <1>1 DEF Provided
<1>6. provider[m].applied = TRUE => p.applied = TRUE
  OBVIOUS
<1>7. provider' = [provider EXCEPT ![m] = p] /\ handler' = [handler EXCEPT ![m] = h]
  BY <1>2, <1>4
<1>8. call' = [call EXCEPT ![m] = call[m]]
  BY <1>1, CallSame
<1>9. h \in {"called", "failing"}
  OBVIOUS
<1> HIDE DEF p, h
<1>10. RowSound(call[m], p) /\ HandlerSound(h, call[m], p)
  BY <1>1, <1>5, <1>6, <1>9 DEF RowSound, HandlerSound, Underway
<1>11. \A e \in Executors : ~Fenced(e, m)
  BY <1>1 DEF CallsInv, FencedSound
<1>12. authorized' \in BOOLEAN /\ h \in HandlerStages
  BY <1>1, <1>9, CallTyped DEF HandlerStages
<1> QED BY <1>1, <1>3, <1>5, <1>7, <1>8, <1>10, <1>11, <1>12, HandlerStep

LEMMA VerifyingInv == ASSUME CallsInv, NEW m \in Mutations, Calls!Verifying(m) PROVE CallsInv'
<1>1. /\ call[m] \in Journaled /\ RowSound(call[m], provider[m])
      /\ HandlerSound(handler[m], call[m], provider[m])
      /\ handler[m] = "called" /\ Underway(call[m])
      /\ UNCHANGED <<provider, executor, authorized, faults>>
  BY OneTyped DEF Calls!Verifying, HandlerSound
<1>2. CASE call[m].events = 3
  <2> DEFINE r == Reports(call[m], "verifying", 4)
  <2>1. call[m].state = "executing" /\ call[m].events + 1 = 4
    BY <1>1, <1>2 DEF RowSound, Underway, Journaled
  <2>2. /\ r \in Journaled /\ r.state = "verifying" /\ r.events = 4
        /\ r.activity = call[m].activity
    BY <1>1, MovedReported DEF RowStates
  <2>3. call' = [call EXCEPT ![m] = r] /\ handler' = [handler EXCEPT ![m] = "verifying"]
    BY <1>2, <2>1 DEF Calls!Verifying, Calls!Stage, Reports
  <2> HIDE DEF r
  <2>4. RowSound(r, provider[m]) /\ HandlerSound("verifying", r, provider[m]) /\ Underway(r)
    BY <1>1, <2>1, <2>2 DEF RowSound, HandlerSound, Underway
  <2>5. "verifying" \in HandlerStages /\ Past(r)
    BY <2>2 DEF HandlerStages, Past
  <2> QED BY <1>1, <2>2, <2>3, <2>4, <2>5, JournalMoves
<1>3. CASE call[m].events # 3
  <2>1. UNCHANGED call /\ handler' = [handler EXCEPT ![m] = "failing"]
    BY <1>3 DEF Calls!Verifying, Calls!Stage
  <2> QED BY <1>1, <2>1, CallTyped, HandlerMoves
<1> QED BY <1>2, <1>3

LEMMA VerifiedInv == ASSUME CallsInv, NEW m \in Mutations, Calls!Verified(m) PROVE CallsInv'
<1>1. /\ call[m] \in Journaled /\ provider[m] \in Provided
      /\ RowSound(call[m], provider[m]) /\ HandlerSound(handler[m], call[m], provider[m])
      /\ UNCHANGED <<provider, executor, authorized, faults>>
  BY OneTyped DEF Calls!Verified
<1>2. provider[m].applied = TRUE /\ handler' = [handler EXCEPT ![m] = "done"]
  BY <1>1 DEF Calls!Verified, Calls!Stage, Provided
<1>3. CASE call[m].state = "verifying"
  <2> DEFINE r == MovesToEnd(call[m], "verified", 6, "completed", "resolved")
  <2>1. r \in Journaled /\ r.state = "verified" /\ r.events = 6
    <3>1. "verified" \in RowStates /\ 6 \in 0..9 /\ "completed" \in RowRuns /\ "resolved" \in RowActivities
      BY DEF RowStates, RowRuns, RowActivities
    <3> QED BY <1>1, <3>1, MovedToEnd
  <2>2. call[m].events + 2 = 6
    BY <1>1, <1>3 DEF RowSound
  <2>3. call' = [call EXCEPT ![m] = r]
    BY <1>3, <2>2 DEF Calls!Verified, MovesToEnd
  <2> HIDE DEF r
  <2>4. RowSound(r, provider[m]) /\ HandlerSound("done", r, provider[m]) /\ Underway(r)
    BY <1>1, <1>2, <2>1 DEF RowSound, HandlerSound, Underway
  <2>5. "done" \in HandlerStages /\ Past(r)
    BY <2>1 DEF HandlerStages, Past
  <2> QED BY <1>1, <1>2, <2>1, <2>3, <2>4, <2>5, JournalMoves
<1>4. CASE call[m].state # "verifying"
  <2>1. UNCHANGED call
    BY <1>4 DEF Calls!Verified
  <2> QED BY <1>1, <1>2, <2>1, CallTyped, HandlerMoves
<1> QED BY <1>3, <1>4

LEMMA FinishInv == ASSUME CallsInv, NEW m \in Mutations, Calls!Finish(m) PROVE CallsInv'
<1>1. /\ call[m] \in Journaled /\ RowSound(call[m], provider[m])
      /\ HandlerSound(handler[m], call[m], provider[m])
      /\ handler' = [handler EXCEPT ![m] = "refused"]
      /\ UNCHANGED <<provider, executor, authorized, faults>>
  BY OneTyped DEF Calls!Finish, Calls!Stage
<1>2. CASE call[m].state \in {"executing", "verifying"}
  <2> DEFINE n == call[m].events + 1
             r == MovesToEnd(call[m], "unverifiable", n, "failed", "attention_required")
  <2>1. n \in 4..5 /\ n \in 0..9
    BY <1>1, <1>2 DEF RowSound
  <2>2. call' = [call EXCEPT ![m] = r]
    BY <1>2 DEF Calls!Finish, MovesToEnd
  <2> HIDE DEF n
  <2>3. /\ r \in Journaled /\ r.state = "unverifiable" /\ r.events = n
        /\ r.activity = "attention_required"
    <3>1. "unverifiable" \in RowStates /\ "failed" \in RowRuns /\ "attention_required" \in RowActivities
      BY DEF RowStates, RowRuns, RowActivities
    <3> QED BY <1>1, <2>1, <3>1, MovedToEnd
  <2> HIDE DEF r
  <2>4. RowSound(r, provider[m]) /\ HandlerSound("refused", r, provider[m]) /\ Underway(r)
    BY <1>1, <2>1, <2>3 DEF RowSound, HandlerSound, Underway
  <2>5. "refused" \in HandlerStages /\ Past(r)
    BY <2>3 DEF HandlerStages, Past
  <2> QED BY <1>1, <2>2, <2>3, <2>4, <2>5, JournalMoves
<1>3. CASE call[m].state \notin {"executing", "verifying"}
  <2>1. UNCHANGED call
    BY <1>3 DEF Calls!Finish
  <2> QED BY <1>1, <2>1, CallTyped, HandlerMoves
<1> QED BY <1>2, <1>3

LEMMA NotObservedInv == ASSUME CallsInv, NEW m \in Mutations, Calls!NotObserved(m) PROVE CallsInv'
BY FaultCounts, HandlerMoves DEF Calls!NotObserved, Calls!Stage

LEMMA DieInv == ASSUME CallsInv, NEW m \in Mutations, Calls!Die(m) PROVE CallsInv'
BY FaultCounts, HandlerMoves DEF Calls!Die, Calls!Stage

\* A delivery that begins, goes on or ends, and touches nothing.
LEMMA DeliveryMoves ==
    ASSUME CallsInv, NEW e \in Executors, NEW x \in Deliveries, x.stage # "fenced",
           x.stage \in {"reporting", "verifying"} => Past(call[x.mutation]),
           UNCHANGED <<call, provider, handler, authorized>>, faults' \in 0..MaxFaults,
           executor' = [executor EXCEPT ![e] = x]
    PROVE  CallsInv'
<1>1. x.mutation \in Mutations
  BY DEF Deliveries
<1> DEFINE m == x.mutation
<1>2. /\ call[m] \in Journaled /\ provider[m] \in Provided
      /\ RowSound(call[m], provider[m]) /\ HandlerSound(handler[m], call[m], provider[m])
  BY <1>1, OneTyped
<1>3. call' = [call EXCEPT ![m] = call[m]] /\ provider' = [provider EXCEPT ![m] = provider[m]]
  BY <1>1, CallSame
<1> HIDE DEF m
<1>4. m \in Mutations /\ x.mutation = m
  BY <1>1 DEF m
<1> QED BY <1>2, <1>3, <1>4, DeliveryStep

LEMMA LeaveInv ==
    ASSUME CallsInv, NEW e \in Executors, Calls!Leave(e),
           UNCHANGED <<call, provider, handler, authorized>>, faults' \in 0..MaxFaults
    PROVE  CallsInv'
<1>1. Calls!Resting \in Deliveries /\ Calls!Resting.stage = "idle"
  BY WorkAssumption DEF WorkAssumption, Calls!Resting, Deliveries
<1> QED BY <1>1, DeliveryMoves DEF Calls!Leave

\* A delivery that ends and writes what became of the action.
LEMMA SettleInv ==
    ASSUME CallsInv, NEW e \in Executors, NEW m \in Mutations, Calls!Leave(e),
           NEW to \in {"verified", "failed", "unverifiable", "cancelled"},
           NEW outcome \in {"resolved", "attention_required"}, Calls!Settle(m, to, outcome),
           to = "cancelled" => call[m].state = "authorized",
           to # "cancelled" => call[m].state \in Calls!Open /\ Past(call[m]),
           to = "verified" => provider[m].applied = TRUE,
           outcome = "resolved" => to = "verified",
           UNCHANGED <<provider, handler, authorized>>, faults' \in 0..MaxFaults
    PROVE  CallsInv'
<1>1. /\ call[m] \in Journaled /\ provider[m] \in Provided
      /\ RowSound(call[m], provider[m]) /\ HandlerSound(handler[m], call[m], provider[m])
  BY OneTyped
<1>2. PICK n \in 0..9 : n = call[m].events + 1 /\ n \in 3..5 /\ (to # "cancelled" => n \in 4..5)
  <2>1. call[m].events \in 2..4 /\ (to # "cancelled" => call[m].events \in 3..4)
    BY <1>1 DEF RowSound, Calls!Open, Past
  <2> QED BY <2>1
<1> DEFINE a == Moves(call[m], to, n)
           r == [a EXCEPT !.activity = outcome]
<1>3. call' = [call EXCEPT ![m] = r]
  BY <1>2 DEF Calls!Settle, Moves
<1>4. to \in RowStates /\ outcome \in RowActivities
  BY DEF RowStates, RowActivities
<1>5. r \in Journaled /\ r.state = to /\ r.events = n /\ r.activity = outcome
  <2>1. a \in Journaled /\ a.state = to /\ a.events = n
    BY <1>1, <1>4, Moved
  <2> HIDE DEF a
  <2> QED BY <1>4, <2>1 DEF Journaled, RowActivities
<1> HIDE DEF r
<1>6. to = "cancelled" => provider[m].asked = 0
  BY <1>1 DEF RowSound
<1>7. RowSound(r, provider[m])
  BY <1>2, <1>5, <1>6 DEF RowSound, Calls!Open
<1>8. (Underway(call[m]) => Underway(r)) /\ Past(r)
  BY <1>5 DEF Underway, Past, Calls!Open
<1>9. handler[m] # "idle"
  BY <1>1 DEF HandlerSound, Calls!Open
<1>10. HandlerSound(handler[m], r, provider[m])
  BY <1>1, <1>8, <1>9 DEF HandlerSound
<1>11. Calls!Resting \in Deliveries /\ Calls!Resting.stage = "idle"
  BY WorkAssumption DEF WorkAssumption, Calls!Resting, Deliveries
<1>12. /\ provider' = [provider EXCEPT ![m] = provider[m]]
       /\ executor' = [executor EXCEPT ![e] = Calls!Resting]
  BY CallSame DEF Calls!Leave
<1> QED BY <1>1, <1>3, <1>5, <1>7, <1>8, <1>10, <1>11, <1>12, DeliveryStep

LEMMA ClaimInv ==
    ASSUME CallsInv, NEW e \in Executors, NEW m \in Mutations, Calls!Claim(e, m)
    PROVE  CallsInv'
<1> DEFINE x == [stage |-> IF Calls!Takes(m) THEN "claimed" ELSE "verifying",
                 mutation |-> m, confirmed |-> call[m].reported]
<1>1. call[m] \in Journaled /\ faults \in 0..MaxFaults
  BY OneTyped, CallTyped
<1>2. /\ x \in Deliveries /\ x.stage # "fenced"
      /\ x.stage \in {"reporting", "verifying"} => Past(call[x.mutation])
  BY <1>1 DEF Deliveries, Journaled, Calls!Claim, Calls!Recovers, Calls!Open, Calls!Takes, Past
<1>3. executor' = [executor EXCEPT ![e] = x] /\ UNCHANGED <<call, provider, handler, authorized, faults>>
  BY DEF Calls!Claim
<1> HIDE DEF x
<1> QED BY <1>1, <1>2, <1>3, DeliveryMoves

LEMMA FenceInv == ASSUME CallsInv, NEW e \in Executors, Calls!Fence(e) PROVE CallsInv'
<1> DEFINE m == executor[e].mutation
<1>1. m \in Mutations /\ executor[e] \in Deliveries /\ faults \in 0..MaxFaults
  BY CallTyped DEF Deliveries
<1>2. /\ executor[e].stage = "claimed" /\ UNCHANGED <<provider, handler, authorized, faults>>
      /\ \/ ~Calls!Takes(m) /\ Calls!Leave(e) /\ UNCHANGED call
         \/ /\ Calls!Takes(m) /\ Calls!Leave(e)
            /\ Calls!Settle(m, "cancelled", "attention_required")
         \/ /\ Calls!Takes(m)
            /\ call' = [call EXCEPT ![m] =
                          [call[m] EXCEPT !.state = "executing", !.events = call[m].events + 1]]
            /\ executor' = [executor EXCEPT ![e] = [executor[e] EXCEPT !.stage = "fenced"]]
  BY DEF Calls!Fence
<1> HIDE DEF m
<1>3. CASE Calls!Leave(e) /\ UNCHANGED call
  BY <1>1, <1>2, <1>3, LeaveInv
<1>4. CASE Calls!Takes(m) /\ Calls!Leave(e) /\ Calls!Settle(m, "cancelled", "attention_required")
  <2>1. call[m].state = "authorized"
    BY <1>4 DEF Calls!Takes
  <2> QED BY <1>1, <1>2, <1>4, <2>1, SettleInv
<1>5. ASSUME Calls!Takes(m),
             call' = [call EXCEPT ![m] =
                        [call[m] EXCEPT !.state = "executing", !.events = call[m].events + 1]],
             executor' = [executor EXCEPT ![e] = [executor[e] EXCEPT !.stage = "fenced"]]
      PROVE  CallsInv'
  <2> DEFINE r == Moves(call[m], "executing", 3)
             x == [executor[e] EXCEPT !.stage = "fenced"]
  <2>1. /\ call[m] \in Journaled /\ provider[m] \in Provided
        /\ RowSound(call[m], provider[m]) /\ HandlerSound(handler[m], call[m], provider[m])
    BY <1>1, OneTyped
  <2>2. call[m].state = "authorized" /\ call[m].events = 2 /\ provider[m].asked = 0
    BY <1>5, <2>1 DEF Calls!Takes, RowSound
  <2>3. call' = [call EXCEPT ![m] = r]
    BY <1>5, <2>2 DEF Moves
  <2>4. x \in Deliveries /\ x.stage = "fenced" /\ x.mutation = m
    BY <1>1 DEF Deliveries, m
  <2>5. "executing" \in RowStates /\ 3 \in 0..9
    BY DEF RowStates
  <2>6. r \in Journaled /\ r.state = "executing" /\ r.events = 3 /\ r.activity = call[m].activity
    BY <2>1, Moved DEF RowStates
  <2>7. executor' = [executor EXCEPT ![e] = x]
    BY <1>5
  <2> HIDE DEF r, x
  <2>8. /\ RowSound(r, provider[m]) /\ HandlerSound(handler[m], r, provider[m])
        /\ Underway(r) /\ Past(r)
    BY <2>1, <2>2, <2>6 DEF RowSound, HandlerSound, Underway, Past
  <2>9. handler[m] \notin {"started", "fenced"}
    BY <2>1, <2>2 DEF HandlerSound, Underway
  <2>10. \A d \in Executors : ~Fenced(d, m)
    BY <1>1, <2>2 DEF CallsInv, FencedSound, Underway
  <2>11. provider' = [provider EXCEPT ![m] = provider[m]]
    BY <1>1, <1>2, CallSame
  <2>12. UNCHANGED <<handler, authorized>> /\ faults' \in 0..MaxFaults
    BY <1>1, <1>2
  <2>13. provider[m].asked = 0
    BY <2>2
  <2> QED BY <1>1, <2>1, <2>3, <2>4, <2>6, <2>7, <2>8, <2>9, <2>10, <2>11, <2>12, <2>13, DeliveryStep
<1> QED BY <1>2, <1>3, <1>4, <1>5

LEMMA ExecuteInv == ASSUME CallsInv, NEW e \in Executors, Calls!Execute(e) PROVE CallsInv'
<1> DEFINE m == executor[e].mutation
<1>1. m \in Mutations /\ executor[e] \in Deliveries /\ faults \in 0..MaxFaults
  BY CallTyped DEF Deliveries
<1>2. Fenced(e, m) /\ UNCHANGED <<call, handler, authorized>>
  BY DEF Calls!Execute, Fenced
<1>3. PICK answered \in BOOLEAN :
         /\ Calls!Ask(m, answered)
         /\ executor' = [executor EXCEPT ![e] =
               [executor[e] EXCEPT !.stage = IF answered THEN "reporting" ELSE "verifying"]]
         /\ (answered /\ UNCHANGED faults) \/ Calls!Fault
  BY DEF Calls!Execute
<1>4. faults' \in 0..MaxFaults
  BY <1>1, <1>3, FaultCounts
<1>5. PICK applied \in BOOLEAN :
         provider' = [provider EXCEPT ![m] = [asked |-> provider[m].asked + 1,
                                              applied |-> provider[m].applied \/ applied]]
  BY <1>3 DEF Calls!Ask
<1> DEFINE p == [asked |-> provider[m].asked + 1, applied |-> provider[m].applied \/ applied]
           x == [executor[e] EXCEPT !.stage = IF answered THEN "reporting" ELSE "verifying"]
<1>6. x \in Deliveries /\ x.stage # "fenced"
  BY <1>1 DEF Deliveries
<1>7. executor' = [executor EXCEPT ![e] = x] /\ provider' = [provider EXCEPT ![m] = p]
  BY <1>3, <1>5
<1> HIDE DEF m, x
<1>8. /\ call[m] \in Journaled /\ provider[m] \in Provided
      /\ RowSound(call[m], provider[m]) /\ HandlerSound(handler[m], call[m], provider[m])
  BY <1>1, OneTyped
<1>9. Underway(call[m]) /\ provider[m].asked = 0 /\ handler[m] \notin {"started", "fenced"}
  BY <1>1, <1>2 DEF CallsInv, FencedSound
<1>10. p \in Provided /\ p.asked = 1
  BY <1>8, <1>9 DEF Provided
<1>11. provider[m].applied = TRUE => p.applied = TRUE
  OBVIOUS
<1> HIDE DEF p
<1>12. RowSound(call[m], p) /\ HandlerSound(handler[m], call[m], p)
  BY <1>8, <1>9, <1>10, <1>11 DEF RowSound, HandlerSound, Underway
<1>13. call' = [call EXCEPT ![m] = call[m]] /\ Past(call[m]) /\ x.mutation = m
  BY <1>1, <1>2, <1>9, CallSame DEF Underway, Past, x, m, Deliveries
<1> QED BY <1>1, <1>2, <1>4, <1>6, <1>7, <1>8, <1>10, <1>12, <1>13, DeliveryStep

LEMMA ReportInv == ASSUME CallsInv, NEW e \in Executors, Calls!Report(e) PROVE CallsInv'
<1> DEFINE m == executor[e].mutation
<1>1. m \in Mutations /\ executor[e] \in Deliveries /\ faults \in 0..MaxFaults
  BY CallTyped DEF Deliveries
<1>2. UNCHANGED <<provider, handler, authorized, faults>>
  BY DEF Calls!Report
<1>3. CASE call[m].state # "executing"
  <2>1. Calls!Leave(e) /\ UNCHANGED call
    BY <1>3 DEF Calls!Report
  <2> QED BY <1>1, <1>2, <2>1, LeaveInv
<1>4. CASE call[m].state = "executing"
  <2> DEFINE r == Reports(call[m], "verifying", 4)
             x == [executor[e] EXCEPT !.stage = "verifying", !.confirmed = TRUE]
  <2>1. /\ call[m] \in Journaled /\ provider[m] \in Provided
        /\ RowSound(call[m], provider[m]) /\ HandlerSound(handler[m], call[m], provider[m])
    BY <1>1, OneTyped
  <2>2. call[m].events + 1 = 4
    BY <1>4, <2>1 DEF RowSound
  <2>3. call' = [call EXCEPT ![m] = r]
    BY <1>4, <2>2 DEF Calls!Report, Reports
  <2>4. executor' = [executor EXCEPT ![e] = x]
    BY <1>4 DEF Calls!Report
  <2>5. x \in Deliveries /\ x.stage = "verifying" /\ x.mutation = m
    BY <1>1 DEF Deliveries
  <2>6. "verifying" \in RowStates /\ 4 \in 0..9
    BY DEF RowStates
  <2> HIDE DEF m, x
  <2>7. r \in Journaled /\ r.state = "verifying" /\ r.events = 4 /\ r.activity = call[m].activity
    BY <2>1, MovedReported DEF RowStates
  <2> HIDE DEF r
  <2>8. /\ RowSound(r, provider[m]) /\ HandlerSound(handler[m], r, provider[m])
        /\ Underway(call[m]) => Underway(r)
        /\ Past(r)
    BY <1>4, <2>1, <2>7 DEF RowSound, HandlerSound, Underway, Past
  <2>9. provider' = [provider EXCEPT ![m] = provider[m]]
    BY <1>1, <1>2, CallSame
  <2> QED BY <1>1, <1>2, <2>1, <2>3, <2>4, <2>5, <2>7, <2>8, <2>9, DeliveryStep
<1> QED BY <1>3, <1>4

LEMMA CompleteInv == ASSUME CallsInv, NEW e \in Executors, Calls!Complete(e) PROVE CallsInv'
<1> DEFINE m == executor[e].mutation
<1>1. m \in Mutations /\ faults \in 0..MaxFaults
  BY CallTyped DEF Deliveries
<1>2. Past(call[m]) /\ provider[m] \in Provided
  BY <1>1, OneTyped DEF CallsInv, LateSound, Late, Calls!Complete
<1>3. Calls!Leave(e) /\ UNCHANGED <<provider, handler, authorized>>
  BY DEF Calls!Complete
<1>4. \/ UNCHANGED <<call, faults>>
      \/ \E s \in {"verified", "failed", "unverifiable"}, y \in {"resolved", "attention_required"} :
            /\ call[m].state \in Calls!Open /\ Calls!Settle(m, s, y)
            /\ s = "verified" => provider[m].applied
            /\ y = "resolved" => s = "verified"
            /\ UNCHANGED faults \/ Calls!Fault
  BY DEF Calls!Complete
<1> HIDE DEF m
<1>5. CASE UNCHANGED <<call, faults>>
  BY <1>1, <1>3, <1>5, LeaveInv
<1>6. ASSUME NEW s \in {"verified", "failed", "unverifiable"},
             NEW y \in {"resolved", "attention_required"},
             call[m].state \in Calls!Open, Calls!Settle(m, s, y),
             s = "verified" => provider[m].applied, y = "resolved" => s = "verified",
             UNCHANGED faults \/ Calls!Fault
      PROVE  CallsInv'
  <2>1. faults' \in 0..MaxFaults
    BY <1>1, <1>6, FaultCounts
  <2>2. s = "verified" => provider[m].applied = TRUE
    BY <1>2, <1>6 DEF Provided
  <2>3. s # "cancelled" /\ s \in {"verified", "failed", "unverifiable", "cancelled"}
    OBVIOUS
  <2> QED BY <1>1, <1>2, <1>3, <1>6, <2>1, <2>2, <2>3, SettleInv
<1> QED BY <1>4, <1>5, <1>6

LEMMA CrashInv == ASSUME CallsInv, NEW e \in Executors, Calls!Crash(e) PROVE CallsInv'
BY FaultCounts, LeaveInv DEF Calls!Crash

LEMMA WithdrawInv == ASSUME CallsInv, Calls!Withdraw PROVE CallsInv'
<1>1. faults' \in 0..MaxFaults
  BY FaultCounts DEF Calls!Withdraw
<1>2. authorized' \in BOOLEAN /\ UNCHANGED <<call, provider, handler, executor>>
  BY DEF Calls!Withdraw
<1> QED BY <1>1, <1>2 DEF CallsInv, CallsTyped, FencedSound, Fenced, LateSound, Late

LEMMA CallsNextInv == CallsInv /\ [Calls!Next]_(Calls!vars) => CallsInv'
<1> SUFFICES ASSUME CallsInv, [Calls!Next]_(Calls!vars) PROVE CallsInv'
  OBVIOUS
<1>1. ASSUME NEW m \in Mutations, Calls!Prepare(m) \/ Calls!Handle(m) \/ Calls!Die(m)
      PROVE  CallsInv'
  BY <1>1, PrepareInv, StartInv, FinalFenceInv, CallInv, VerifyingInv, VerifiedInv,
     NotObservedInv, FinishInv, DieInv DEF Calls!Handle
<1>2. ASSUME NEW e \in Executors, Calls!Recover(e) \/ Calls!Crash(e) PROVE CallsInv'
  BY <1>2, FenceInv, ExecuteInv, ReportInv, CompleteInv, CrashInv DEF Calls!Recover
<1>3. CASE UNCHANGED Calls!vars
  BY <1>3 DEF Calls!vars, CallsInv, CallsTyped, FencedSound, Fenced, LateSound, Late
<1> QED BY <1>1, <1>2, <1>3, ClaimInv, WithdrawInv DEF Calls!Next

\* A tool call (TenantRoutedMailboxAdapter and TenantDraftServiceAdapter of
\* apps/web/src/mcp) and the recovery of policy execution that takes it for
\* interrupted work never both ask the provider, and what the journal
\* (postgres-mutation-journal.ts) and the answer claim is so: for any calls,
\* deliveries, crashes and lost answers.
THEOREM JournalKeepsTellingTruth == Calls!Spec => []JournalTellsTruth
<1>1. Calls!Spec => []CallsInv
  BY CallsInitInv, CallsNextInv, PTL DEF Calls!Spec
<1> QED BY <1>1, CallsInvSuffices, PTL

-----------------------------------------------------------------------------
(* The owner's passwords, sessions and recovery links *)

LoginRow == [state : {"none", "active", "ended"}, password : Nat]
Whose == Logins \cup {CHOOSE s \in Logins : TRUE}
Entering == [stage : {"idle", "opening", "replacing", "rotating"}, expected : Nat, session : Whose]
TokenRow == [state : {"none", "open", "consumed", "expired"}, issued : Nat]

CredentialsTyped ==
    /\ password \in Nat \ {0} /\ password <= MaxPasswords + 1
    /\ login \in [Logins -> LoginRow]
    /\ entering \in [AccessRequests -> Entering]
    /\ token \in [Recoveries -> TokenRow]

\* Who is in came in by the password of now.
LoginSound(row, now) == row.password <= now /\ (row.state = "active" => row.password = now)

\* A recovery changes the password, so every link it used up is older than that.
LinkSound(row, now) == row.issued <= now /\ (row.state = "consumed" => row.issued < now)

CredentialsInv ==
    /\ CredentialsTyped
    /\ \A s \in Logins : LoginSound(login[s], password)
    /\ \A m \in Recoveries : LinkSound(token[m], password)
    /\ \A m, n \in Recoveries :
          token[m].state = "open" /\ token[n].state = "consumed" => token[m].issued > token[n].issued

LEMMA CredentialsSuffice ==
    ASSUME CredentialsInv
    PROVE  /\ password \in 1..(MaxPasswords + 1)
           /\ login \in [Logins -> [state : {"none", "active", "ended"}, password : 0..password]]
           /\ \A r \in AccessRequests :
                 entering[r].stage \in {"idle", "opening", "replacing", "rotating"}
           /\ token \in [Recoveries -> [state : {"none", "open", "consumed", "expired"},
                                        issued : 0..password]]
           /\ Access!OldCredentialsAreDead
<1>1. password \in 1..(MaxPasswords + 1)
  BY AccessAssumption DEF AccessAssumption, CredentialsInv, CredentialsTyped
<1>2. ASSUME NEW s \in Logins
      PROVE  login[s] \in [state : {"none", "active", "ended"}, password : 0..password]
  BY DEF CredentialsInv, CredentialsTyped, LoginRow, LoginSound
<1>3. ASSUME NEW m \in Recoveries
      PROVE  token[m] \in [state : {"none", "open", "consumed", "expired"}, issued : 0..password]
  BY DEF CredentialsInv, CredentialsTyped, TokenRow, LinkSound
<1>4. /\ login \in [Logins -> [state : {"none", "active", "ended"}, password : 0..password]]
      /\ token \in [Recoveries -> [state : {"none", "open", "consumed", "expired"},
                                   issued : 0..password]]
  BY <1>2, <1>3 DEF CredentialsInv, CredentialsTyped
<1>5. \A r \in AccessRequests : entering[r].stage \in {"idle", "opening", "replacing", "rotating"}
  BY DEF CredentialsInv, CredentialsTyped, Entering
<1>6. Access!OldCredentialsAreDead
  BY DEF CredentialsInv, LoginSound, Access!OldCredentialsAreDead
<1> QED BY <1>1, <1>4, <1>5, <1>6

LEMMA CredentialsInitInv == Access!Init => CredentialsInv
<1> SUFFICES ASSUME Access!Init PROVE CredentialsInv
  OBVIOUS
<1>1. Access!NoRequest \in Entering
  BY DEF Access!NoRequest, Entering, Whose
<1>2. CredentialsTyped
  BY <1>1, AccessAssumption
     DEF AccessAssumption, Access!Init, CredentialsTyped, LoginRow, TokenRow
<1> QED BY <1>2 DEF Access!Init, CredentialsInv, LoginSound, LinkSound

\* Nobody's password, session or link has changed.
LEMMA CredentialsStay ==
    ASSUME CredentialsInv, UNCHANGED <<password, login, token>>,
           entering' \in [AccessRequests -> Entering]
    PROVE  CredentialsInv'
BY DEF CredentialsInv, CredentialsTyped

LEMMA RequestTyped ==
    ASSUME CredentialsInv, NEW r \in AccessRequests
    PROVE  /\ \A stage \in {"idle", "opening", "replacing", "rotating"}, n \in Nat, s \in Whose :
                 Access!Request(r, stage, n, s) => entering' \in [AccessRequests -> Entering]
           /\ Access!EndRequest(r) => entering' \in [AccessRequests -> Entering]
           /\ entering[r] \in Entering
<1>1. entering \in [AccessRequests -> Entering]
  BY DEF CredentialsInv, CredentialsTyped
<1>2. Access!NoRequest \in Entering
  BY DEF Access!NoRequest, Entering, Whose
<1>3. ASSUME NEW stage \in {"idle", "opening", "replacing", "rotating"}, NEW n \in Nat,
             NEW s \in Whose, Access!Request(r, stage, n, s)
      PROVE  entering' \in [AccessRequests -> Entering]
  <2>1. [stage |-> stage, expected |-> n, session |-> s] \in Entering
    BY DEF Entering
  <2> QED BY <1>1, <1>3, <2>1 DEF Access!Request
<1> QED BY <1>1, <1>2, <1>3 DEF Access!EndRequest

LEMMA SignInKeeps == ASSUME CredentialsInv, NEW r \in AccessRequests, Access!SignIn(r) PROVE CredentialsInv'
<1>1. password \in Nat /\ entering[r].session \in Whose
  BY RequestTyped DEF CredentialsInv, CredentialsTyped, Entering
<1>2. entering' \in [AccessRequests -> Entering]
  BY <1>1, RequestTyped DEF Access!SignIn
<1> QED BY <1>2, CredentialsStay DEF Access!SignIn

LEMMA AuthenticateKeeps ==
    ASSUME CredentialsInv, NEW r \in AccessRequests, NEW s \in Logins, Access!Authenticate(r, s)
    PROVE  CredentialsInv'
<1>1. password \in Nat /\ s \in Whose
  BY DEF CredentialsInv, CredentialsTyped, Whose
<1>2. entering' \in [AccessRequests -> Entering]
  BY <1>1, RequestTyped DEF Access!Authenticate
<1> QED BY <1>2, CredentialsStay DEF Access!Authenticate

\* Sessions end; the password may be another one now.
LEMMA RevokedKeeps ==
    ASSUME CredentialsInv, NEW which \in SUBSET Logins, login' = Access!Revoked(which),
           entering' \in [AccessRequests -> Entering],
           \/ UNCHANGED <<password, token>>
           \/ /\ password' = password + 1 /\ password <= MaxPasswords /\ which = Logins
              /\ UNCHANGED token
    PROVE  CredentialsInv'
<1>1. password \in Nat \ {0} /\ password' \in Nat \ {0} /\ password' <= MaxPasswords + 1
  BY AccessAssumption DEF AccessAssumption, CredentialsInv, CredentialsTyped
<1>2. ASSUME NEW s \in Logins
      PROVE  login'[s] \in LoginRow /\ LoginSound(login'[s], password')
  <2>1. login[s] \in LoginRow /\ LoginSound(login[s], password)
    BY DEF CredentialsInv, CredentialsTyped
  <2>2. login'[s] = IF s \in which /\ login[s].state = "active"
                    THEN [login[s] EXCEPT !.state = "ended"] ELSE login[s]
    BY DEF Access!Revoked
  <2>3. CASE s \in which /\ login[s].state = "active"
    <3>1. /\ [login[s] EXCEPT !.state = "ended"] \in LoginRow
          /\ [login[s] EXCEPT !.state = "ended"].state = "ended"
          /\ [login[s] EXCEPT !.state = "ended"].password = login[s].password
      BY <2>1 DEF LoginRow
    <3>2. login[s].password \in Nat /\ login[s].password <= password'
      BY <2>1, <1>1 DEF LoginRow, LoginSound
    <3> QED BY <2>2, <2>3, <3>1, <3>2 DEF LoginSound
  <2>4. CASE ~(s \in which /\ login[s].state = "active")
    <3>1. login[s].password \in Nat /\ login[s].password <= password'
      BY <2>1, <1>1 DEF LoginRow, LoginSound
    <3>2. login[s].state = "active" => password' = password
      BY <2>4
    <3> QED BY <2>1, <2>2, <2>4, <3>1, <3>2 DEF LoginSound
  <2> QED BY <2>3, <2>4
<1>3. login' \in [Logins -> LoginRow]
  <2>1. login' = [s \in Logins |-> login'[s]]
    BY DEF Access!Revoked
  <2> QED BY <1>2, <2>1
<1>4. ASSUME NEW m \in Recoveries PROVE LinkSound(token[m], password')
  BY <1>1 DEF CredentialsInv, CredentialsTyped, TokenRow, LinkSound
<1>5. UNCHANGED token
  OBVIOUS
<1> QED BY <1>1, <1>2, <1>3, <1>4, <1>5 DEF CredentialsInv, CredentialsTyped

LEMMA ReplaceKeeps == ASSUME CredentialsInv, NEW r \in AccessRequests, Access!Replace(r) PROVE CredentialsInv'
<1> DEFINE which == {entering[r].session} \cap Logins
<1>1. login' = Access!Revoked(which)
  BY DEF Access!Replace, Access!Revoked
<1>2. entering' \in [AccessRequests -> Entering]
  <2>1. entering \in [AccessRequests -> Entering] /\ entering[r] \in Entering
    BY DEF CredentialsInv, CredentialsTyped
  <2>2. [entering[r] EXCEPT !.stage = "opening"] \in Entering
    BY <2>1 DEF Entering
  <2>3. entering' = [entering EXCEPT ![r] = [entering[r] EXCEPT !.stage = "opening"]]
    BY DEF Access!Replace
  <2> QED BY <2>1, <2>2, <2>3
<1>3. UNCHANGED <<password, token>>
  BY DEF Access!Replace
<1> QED BY <1>1, <1>2, <1>3, RevokedKeeps

LEMMA RotateKeeps == ASSUME CredentialsInv, NEW r \in AccessRequests, Access!Rotate(r) PROVE CredentialsInv'
<1>1. password \in Nat /\ password + 1 \in Nat /\ entering[r].session \in Whose
  BY RequestTyped DEF CredentialsInv, CredentialsTyped, Entering
<1>2. CASE password = entering[r].expected /\ login[entering[r].session].state = "active"
  <2>1. /\ password <= MaxPasswords /\ password' = password + 1
        /\ login' = Access!Revoked(Logins) /\ UNCHANGED token
        /\ Access!Request(r, "opening", password + 1, entering[r].session)
    BY <1>2 DEF Access!Rotate
  <2>2. entering' \in [AccessRequests -> Entering]
    BY <1>1, <2>1, RequestTyped
  <2> QED BY <2>1, <2>2, RevokedKeeps
<1>3. CASE ~(password = entering[r].expected /\ login[entering[r].session].state = "active")
  <2>1. Access!EndRequest(r) /\ UNCHANGED <<password, login, token>>
    BY <1>3 DEF Access!Rotate
  <2>2. entering' \in [AccessRequests -> Entering]
    BY <2>1, RequestTyped
  <2> QED BY <2>1, <2>2, CredentialsStay
<1> QED BY <1>2, <1>3

LEMMA OpenSessionKeeps ==
    ASSUME CredentialsInv, NEW r \in AccessRequests, NEW s \in Logins, Access!OpenSession(r, s)
    PROVE  CredentialsInv'
<1>1. entering' \in [AccessRequests -> Entering] /\ UNCHANGED <<password, token>>
  BY RequestTyped DEF Access!OpenSession
<1>2. CASE ~Access!MayOpen(r)
  BY <1>1, <1>2, CredentialsStay DEF Access!OpenSession
<1>3. CASE Access!MayOpen(r)
  <2>1. login' = [login EXCEPT ![s] = [state |-> "active", password |-> password]]
    BY <1>3 DEF Access!OpenSession, Access!MayOpen
  <2>2. /\ [state |-> "active", password |-> password] \in LoginRow
        /\ LoginSound([state |-> "active", password |-> password], password)
    BY DEF CredentialsInv, CredentialsTyped, LoginRow, LoginSound
  <2> QED BY <1>1, <2>1, <2>2 DEF CredentialsInv, CredentialsTyped
<1> QED BY <1>2, <1>3

LEMMA EndSessionKeeps == ASSUME CredentialsInv, NEW s \in Logins, Access!EndSession(s) PROVE CredentialsInv'
<1>1. entering' \in [AccessRequests -> Entering] /\ UNCHANGED <<password, token>>
  BY DEF Access!EndSession, CredentialsInv, CredentialsTyped
<1> QED BY <1>1, RevokedKeeps DEF Access!EndSession

LEMMA IssueRecoveryKeeps ==
    ASSUME CredentialsInv, NEW m \in Recoveries, Access!IssueRecovery(m) PROVE CredentialsInv'
<1> DEFINE link == [state |-> "open", issued |-> password]
<1>1. token' = [token EXCEPT ![m] = link] /\ UNCHANGED <<password, login, entering>>
  BY DEF Access!IssueRecovery, Access!credentials
<1>2. password \in Nat /\ token \in [Recoveries -> TokenRow]
  BY DEF CredentialsInv, CredentialsTyped
<1>3. link \in TokenRow /\ LinkSound(link, password) /\ link.state = "open" /\ link.issued = password
  BY <1>2 DEF TokenRow, LinkSound
<1> HIDE DEF link
<1>4. CredentialsTyped'
  BY <1>1, <1>3 DEF CredentialsInv, CredentialsTyped
<1>5. \A n \in Recoveries : token'[n] = IF n = m THEN link ELSE token[n]
  BY <1>1, <1>2
<1>6. \A n \in Recoveries : LinkSound(token'[n], password')
  BY <1>1, <1>3, <1>5 DEF CredentialsInv
<1>7. ASSUME NEW n \in Recoveries, NEW k \in Recoveries, token'[n].state = "open", token'[k].state = "consumed"
      PROVE  token'[n].issued > token'[k].issued
  <2>1. k # m /\ token'[k] = token[k] /\ token[k].state = "consumed"
    BY <1>3, <1>5, <1>7
  <2>2. token[k].issued < password /\ token[k].issued \in Nat
    BY <2>1, <1>2 DEF CredentialsInv, LinkSound, TokenRow
  <2>3. CASE n = m
    BY <1>2, <1>3, <1>5, <2>1, <2>2, <2>3
  <2>4. CASE n # m
    BY <1>5, <1>7, <2>1, <2>4 DEF CredentialsInv
  <2> QED BY <2>3, <2>4
<1> QED BY <1>1, <1>4, <1>6, <1>7 DEF CredentialsInv

LEMMA ResetRecoveryKeeps ==
    ASSUME CredentialsInv, NEW m \in Recoveries, Access!ResetRecovery(m) PROVE CredentialsInv'
<1>1. /\ password <= MaxPasswords /\ password' = password + 1 /\ login' = Access!Revoked(Logins)
      /\ UNCHANGED entering
      /\ token' = [n \in Recoveries |-> IF token[n].state = "open"
                                        THEN [token[n] EXCEPT !.state = "consumed"] ELSE token[n]]
  BY DEF Access!ResetRecovery, Access!Consumes
<1>2. password \in Nat \ {0} /\ token \in [Recoveries -> TokenRow]
  BY DEF CredentialsInv, CredentialsTyped
<1>3. ASSUME NEW n \in Recoveries
      PROVE  token'[n] \in TokenRow /\ LinkSound(token'[n], password + 1) /\ token'[n].state # "open"
  <2>1. token[n] \in TokenRow /\ LinkSound(token[n], password)
    BY DEF CredentialsInv, CredentialsTyped
  <2>2. CASE token[n].state = "open"
    <3>1. token'[n] = [token[n] EXCEPT !.state = "consumed"]
      BY <1>1, <2>2
    <3>2. /\ token'[n] \in TokenRow /\ token'[n].state = "consumed"
          /\ token'[n].issued = token[n].issued
      BY <2>1, <3>1 DEF TokenRow
    <3> QED BY <1>2, <2>1, <3>2 DEF LinkSound, TokenRow
  <2>3. CASE token[n].state # "open"
    <3>1. token'[n] = token[n]
      BY <1>1, <2>3
    <3> QED BY <1>2, <2>1, <2>3, <3>1 DEF LinkSound, TokenRow
  <2> QED BY <2>2, <2>3
<1>4. token' \in [Recoveries -> TokenRow]
  BY <1>1, <1>3
\* The sessions end as if the owner had set the password.
<1>5. /\ login' \in [Logins -> LoginRow]
      /\ \A s \in Logins : LoginSound(login'[s], password')
  <2>1. ASSUME NEW s \in Logins
        PROVE  login'[s] \in LoginRow /\ LoginSound(login'[s], password')
    <3>1. login[s] \in LoginRow /\ LoginSound(login[s], password)
      BY DEF CredentialsInv, CredentialsTyped
    <3>2. login'[s] = IF login[s].state = "active" THEN [login[s] EXCEPT !.state = "ended"]
                      ELSE login[s]
      BY <1>1 DEF Access!Revoked
    <3>3. /\ login'[s] \in LoginRow /\ login'[s].state # "active"
          /\ login'[s].password = login[s].password
      BY <3>1, <3>2 DEF LoginRow
    <3> QED BY <1>1, <1>2, <3>1, <3>3 DEF LoginSound, LoginRow
  <2>2. login' = [s \in Logins |-> login'[s]]
    BY <1>1 DEF Access!Revoked
  <2> QED BY <2>1, <2>2
<1>6. password' \in Nat \ {0} /\ password' <= MaxPasswords + 1
  BY <1>1, <1>2, AccessAssumption DEF AccessAssumption
<1>7. CredentialsTyped'
  BY <1>1, <1>4, <1>5, <1>6 DEF CredentialsInv, CredentialsTyped
<1> QED BY <1>1, <1>3, <1>5, <1>7 DEF CredentialsInv

LEMMA ExpireRecoveryKeeps ==
    ASSUME CredentialsInv, NEW m \in Recoveries, Access!ExpireRecovery(m) PROVE CredentialsInv'
<1>1. /\ token' = [token EXCEPT ![m] = [token[m] EXCEPT !.state = "expired"]]
      /\ UNCHANGED <<password, login, entering>>
  BY DEF Access!ExpireRecovery, Access!credentials
<1>2. token \in [Recoveries -> TokenRow] /\ token[m] \in TokenRow /\ LinkSound(token[m], password)
  BY DEF CredentialsInv, CredentialsTyped
<1> DEFINE link == [token[m] EXCEPT !.state = "expired"]
<1>3. link \in TokenRow /\ link.state = "expired" /\ link.issued = token[m].issued
  BY <1>2 DEF TokenRow
<1>4. \A n \in Recoveries : token'[n] = IF n = m THEN link ELSE token[n]
  BY <1>1, <1>2
<1>5. token' \in [Recoveries -> TokenRow]
  BY <1>1, <1>2, <1>3
<1> HIDE DEF link
<1>6. LinkSound(link, password)
  BY <1>2, <1>3 DEF LinkSound
<1>7. CredentialsTyped'
  BY <1>1, <1>5 DEF CredentialsInv, CredentialsTyped
<1> QED BY <1>1, <1>3, <1>4, <1>6, <1>7 DEF CredentialsInv

-----------------------------------------------------------------------------
(* The delivery of recovery mail *)

Mails == Recoveries \cup {CHOOSE m \in Recoveries : TRUE}
MailRow == [state : {"none", "pending", "processing", "delivered", "failed"}, attempt : Nat,
            claimed : BOOLEAN, payload : BOOLEAN]
Sender == [stage : {"idle", "sending", "recording"}, mail : Mails, attempt : Nat,
           delivered : BOOLEAN]

\* The schedulers that are about to hand a mail over.
Sending(m) == {d \in MailSchedulers : scheduler[d].stage = "sending" /\ scheduler[d].mail = m}

MailTyped ==
    /\ mail \in [Recoveries -> MailRow]
    /\ scheduler \in [MailSchedulers -> Sender]
    /\ handed \in [Recoveries -> Nat]
    /\ mishaps \in 0..MaxMishaps

\* Each claim hands the mail over at most once.
MailSound(row, link, sent) ==
    /\ row.attempt <= MaxMailAttempts
    /\ row.payload <=> row.state \in {"pending", "processing"}
    /\ row.state = "delivered" => sent > 0
    /\ link.state = "none" => row.attempt = 0 /\ row.state = "none"
HandedSound(m) ==
    IsFiniteSet(Sending(m)) /\ handed[m] + Cardinality(Sending(m)) <= mail[m].attempt
SenderSound(d) ==
    scheduler[d].stage # "idle" =>
        /\ scheduler[d].mail \in Recoveries
        /\ scheduler[d].delivered = TRUE => handed[scheduler[d].mail] > 0

MailInv ==
    /\ MailTyped
    /\ \A m \in Recoveries : MailSound(mail[m], token[m], handed[m]) /\ HandedSound(m)
    /\ \A d \in MailSchedulers : SenderSound(d)

LEMMA MailSuffices ==
    ASSUME MailInv
    PROVE  /\ \A m \in Recoveries :
                 /\ mail[m].attempt \in 0..MaxMailAttempts
                 /\ mail[m].state \in {"none", "pending", "processing", "delivered", "failed"}
                 /\ mail[m].payload <=> mail[m].state \in {"pending", "processing"}
           /\ mishaps \in 0..MaxMishaps
           /\ Access!MailIsBounded
<1>1. ASSUME NEW m \in Recoveries
      PROVE  /\ mail[m].attempt \in 0..MaxMailAttempts /\ handed[m] <= mail[m].attempt
             /\ mail[m].state \in {"none", "pending", "processing", "delivered", "failed"}
             /\ mail[m].payload <=> mail[m].state \in {"pending", "processing"}
             /\ mail[m].state = "delivered" => handed[m] > 0
             /\ mail[m].attempt <= MaxMailAttempts
  <2>1. mail[m] \in MailRow /\ handed[m] \in Nat /\ MailSound(mail[m], token[m], handed[m])
    BY DEF MailInv, MailTyped
  <2>2. IsFiniteSet(Sending(m)) /\ handed[m] + Cardinality(Sending(m)) <= mail[m].attempt
    BY DEF MailInv, HandedSound
  <2>3. Cardinality(Sending(m)) \in Nat
    BY <2>2, FS_CardinalityType
  <2>4. mail[m].attempt \in Nat
    BY <2>1 DEF MailRow
  <2>5. handed[m] <= mail[m].attempt
    BY <2>1, <2>2, <2>3, <2>4
  <2> QED BY <2>1, <2>5, AccessAssumption DEF AccessAssumption, MailRow, MailSound
<1> QED BY <1>1 DEF MailInv, MailTyped, Access!MailIsBounded

LEMMA MailInitInv == Access!Init => MailInv
<1> SUFFICES ASSUME Access!Init PROVE MailInv
  OBVIOUS
<1>1. Access!NoDelivery \in Sender /\ Access!NoDelivery.stage = "idle"
  BY DEF Access!NoDelivery, Sender, Mails
<1>2. Access!NoMail \in MailRow /\ Access!NoMail.state = "none" /\ Access!NoMail.attempt = 0
      /\ Access!NoMail.payload = FALSE
  BY DEF Access!NoMail, MailRow
<1>3. MailTyped
  BY <1>1, <1>2, AccessAssumption DEF AccessAssumption, Access!Init, MailTyped
<1>4. ASSUME NEW m \in Recoveries PROVE MailSound(mail[m], token[m], handed[m]) /\ HandedSound(m)
  <2>1. mail[m] = Access!NoMail /\ handed[m] = 0
    BY DEF Access!Init
  <2>2. Sending(m) = {}
    BY <1>1 DEF Access!Init, Sending
  <2>3. IsFiniteSet(Sending(m)) /\ Cardinality(Sending(m)) = 0
    BY <2>2, FS_EmptySet
  <2>4. handed[m] + Cardinality(Sending(m)) <= mail[m].attempt
    BY <1>2, <2>1, <2>3
  <2> QED BY <1>2, <2>1, <2>3, <2>4, AccessAssumption DEF AccessAssumption, MailSound, HandedSound
<1>5. \A d \in MailSchedulers : SenderSound(d)
  BY <1>1 DEF Access!Init, SenderSound
<1> QED BY <1>3, <1>4, <1>5 DEF MailInv

LEMMA MailFacts ==
    ASSUME MailInv, NEW m \in Recoveries
    PROVE  /\ mail[m] \in MailRow /\ handed[m] \in Nat /\ MailSound(mail[m], token[m], handed[m])
           /\ IsFiniteSet(Sending(m)) /\ Cardinality(Sending(m)) \in Nat
           /\ handed[m] + Cardinality(Sending(m)) <= mail[m].attempt
<1>1. IsFiniteSet(Sending(m)) /\ handed[m] + Cardinality(Sending(m)) <= mail[m].attempt
  BY DEF MailInv, HandedSound
<1> QED BY <1>1, FS_CardinalityType DEF MailInv, MailTyped

\* Links come and go; none of the mail is touched.
LEMMA MailStays ==
    ASSUME MailInv, UNCHANGED <<mail, scheduler, handed>>, mishaps' \in 0..MaxMishaps,
           \A m \in Recoveries : token'[m].state = "none" => token[m].state = "none"
    PROVE  MailInv'
<1>1. \A m \in Recoveries : Sending(m)' = Sending(m)
  BY DEF Sending
<1>2. \A m \in Recoveries : HandedSound(m)'
  BY <1>1 DEF MailInv, HandedSound
<1> QED BY <1>2 DEF MailInv, MailTyped, MailSound, SenderSound

\* One row changes, and nobody claims or hands over.
LEMMA MailRowStep ==
    ASSUME MailInv, NEW m \in Recoveries, NEW row \in MailRow, mail' = [mail EXCEPT ![m] = row],
           row.attempt = mail[m].attempt, MailSound(row, token'[m], handed[m]),
           \A n \in Recoveries \ {m} : token'[n] = token[n],
           UNCHANGED handed, scheduler' \in [MailSchedulers -> Sender], mishaps' \in 0..MaxMishaps,
           \A d \in MailSchedulers : scheduler'[d] = scheduler[d] \/ scheduler'[d].stage = "idle"
    PROVE  MailInv'
<1>1. MailTyped'
  BY DEF MailInv, MailTyped
<1>2. \A n \in Recoveries : mail'[n] = IF n = m THEN row ELSE mail[n]
  BY DEF MailInv, MailTyped
<1>3. ASSUME NEW n \in Recoveries PROVE HandedSound(n)'
  <2>1. Sending(n)' \subseteq Sending(n)
    BY DEF Sending
  <2>2. IsFiniteSet(Sending(n)') /\ Cardinality(Sending(n)') <= Cardinality(Sending(n))
    BY <2>1, MailFacts, FS_Subset
  <2>3. Cardinality(Sending(n)') \in Nat
    BY <2>2, FS_CardinalityType
  <2>4. mail'[n].attempt = mail[n].attempt /\ mail[n].attempt \in Nat
    BY <1>2, MailFacts DEF MailRow
  <2>5. handed[n] + Cardinality(Sending(n)') <= mail[n].attempt
    BY <2>2, <2>3, <2>4, MailFacts
  <2> QED BY <2>2, <2>4, <2>5 DEF HandedSound
<1>4. ASSUME NEW n \in Recoveries PROVE MailSound(mail'[n], token'[n], handed'[n])
  BY <1>2, MailFacts
<1>5. \A d \in MailSchedulers : SenderSound(d)'
  BY DEF MailInv, SenderSound
<1> QED BY <1>1, <1>3, <1>4, <1>5 DEF MailInv

LEMMA IssueMailKeeps ==
    ASSUME CredentialsInv, MailInv, NEW m \in Recoveries, Access!IssueRecovery(m) PROVE MailInv'
<1> DEFINE row == [state |-> "pending", attempt |-> 0, claimed |-> FALSE, payload |-> TRUE]
           link == [state |-> "open", issued |-> password]
<1>1. /\ token[m].state = "none" /\ mail' = [mail EXCEPT ![m] = row]
      /\ token' = [token EXCEPT ![m] = link] /\ UNCHANGED <<handed, scheduler, mishaps>>
  BY DEF Access!IssueRecovery
<1>2. token'[m] = link /\ \A n \in Recoveries \ {m} : token'[n] = token[n]
  BY <1>1 DEF CredentialsInv, CredentialsTyped
<1>3. mail[m].attempt = 0
  BY <1>1, MailFacts DEF MailSound
<1>4. row \in MailRow /\ row.attempt = mail[m].attempt /\ MailSound(row, token'[m], handed[m])
  BY <1>2, <1>3, AccessAssumption DEF AccessAssumption, MailRow, MailSound
<1>5. scheduler' \in [MailSchedulers -> Sender] /\ mishaps' \in 0..MaxMishaps
  BY <1>1 DEF MailInv, MailTyped
<1> HIDE DEF row, link
<1> QED BY <1>1, <1>2, <1>4, <1>5, MailRowStep

LEMMA FailedKeeps ==
    ASSUME MailInv, NEW m \in Recoveries, Access!Failed(m), token[m].state # "none",
           UNCHANGED <<token, scheduler, handed, mishaps>>
    PROVE  MailInv'
<1> DEFINE row == [mail[m] EXCEPT !.state = "failed", !.payload = FALSE, !.claimed = FALSE]
<1>1. mail[m] \in MailRow /\ MailSound(mail[m], token[m], handed[m])
  BY MailFacts
<1>2. /\ row \in MailRow /\ row.state = "failed" /\ row.payload = FALSE
      /\ row.attempt = mail[m].attempt
  BY <1>1 DEF MailRow
<1>3. mail' = [mail EXCEPT ![m] = row]
  BY DEF Access!Failed
<1> HIDE DEF row
<1>4. MailSound(row, token[m], handed[m])
  BY <1>1, <1>2 DEF MailSound
<1>5. scheduler' \in [MailSchedulers -> Sender] /\ mishaps' \in 0..MaxMishaps
  BY DEF MailInv, MailTyped
<1> QED BY <1>2, <1>3, <1>4, <1>5, MailRowStep

LEMMA MishapCounts == ASSUME MailInv, Access!Fault PROVE mishaps' \in 0..MaxMishaps
BY AccessAssumption DEF AccessAssumption, MailInv, MailTyped, Access!Fault

LEMMA ClaimExpiresKeeps ==
    ASSUME MailInv, NEW m \in Recoveries, Access!ClaimExpires(m) PROVE MailInv'
<1> DEFINE row == [mail[m] EXCEPT !.claimed = FALSE]
<1>1. mail[m] \in MailRow /\ MailSound(mail[m], token[m], handed[m])
  BY MailFacts
<1>2. /\ row \in MailRow /\ row.state = mail[m].state /\ row.payload = mail[m].payload
      /\ row.attempt = mail[m].attempt
  BY <1>1 DEF MailRow
<1>3. mail' = [mail EXCEPT ![m] = row] /\ UNCHANGED <<token, handed>>
  BY DEF Access!ClaimExpires
<1> HIDE DEF row
<1>4. MailSound(row, token[m], handed[m])
  BY <1>1, <1>2 DEF MailSound
<1>5. Access!NoDelivery \in Sender /\ Access!NoDelivery.stage = "idle"
  BY DEF Access!NoDelivery, Sender, Mails
<1>6. PICK dead \in SUBSET MailSchedulers :
         scheduler' = [d \in MailSchedulers |-> IF d \in dead THEN Access!NoDelivery ELSE scheduler[d]]
  BY DEF Access!ClaimExpires
<1>7. /\ scheduler' \in [MailSchedulers -> Sender]
      /\ \A d \in MailSchedulers : scheduler'[d] = scheduler[d] \/ scheduler'[d].stage = "idle"
  BY <1>5, <1>6 DEF MailInv, MailTyped
<1>8. mishaps' \in 0..MaxMishaps
  BY MishapCounts DEF Access!ClaimExpires
<1> QED BY <1>2, <1>3, <1>4, <1>7, <1>8, MailRowStep

LEMMA ClaimMailKeeps ==
    ASSUME MailInv, NEW d \in MailSchedulers, NEW m \in Recoveries, Access!Claim(d, m)
    PROVE  MailInv'
<1> DEFINE row == [mail[m] EXCEPT !.state = "processing", !.attempt = mail[m].attempt + 1,
                                  !.claimed = TRUE]
           sender == [stage |-> "sending", mail |-> m, attempt |-> mail[m].attempt + 1,
                      delivered |-> FALSE]
<1>1. /\ mail[m] \in MailRow /\ MailSound(mail[m], token[m], handed[m]) /\ mail[m].attempt \in Nat
      /\ scheduler \in [MailSchedulers -> Sender] /\ mail \in [Recoveries -> MailRow]
      /\ handed \in [Recoveries -> Nat]
  BY MailFacts DEF MailRow, MailInv, MailTyped
<1>2. /\ scheduler[d].stage = "idle" /\ mail[m].attempt < MaxMailAttempts
      /\ mail[m].state \in {"pending", "processing"}
      /\ mail' = [mail EXCEPT ![m] = row] /\ scheduler' = [scheduler EXCEPT ![d] = sender]
      /\ UNCHANGED <<token, handed, mishaps>>
  BY DEF Access!Claim, Access!Claimable
<1>3. /\ row \in MailRow /\ row.state = "processing" /\ row.payload = mail[m].payload
      /\ row.attempt = mail[m].attempt + 1
  <2> DEFINE a == [mail[m] EXCEPT !.state = "processing"]
             b == [a EXCEPT !.attempt = mail[m].attempt + 1]
  <2>1. a \in MailRow /\ a.state = "processing" /\ a.payload = mail[m].payload
    BY <1>1 DEF MailRow
  <2> HIDE DEF a
  <2>2. /\ b \in MailRow /\ b.state = "processing" /\ b.payload = mail[m].payload
        /\ b.attempt = mail[m].attempt + 1
    BY <1>1, <2>1 DEF MailRow
  <2> HIDE DEF b
  <2>3. LET c == [b EXCEPT !.claimed = TRUE]
        IN /\ c \in MailRow /\ c.state = "processing" /\ c.payload = mail[m].payload
           /\ c.attempt = mail[m].attempt + 1
    BY <2>2 DEF MailRow
  <2> QED BY <2>3 DEF a, b
<1>4. sender \in Sender /\ sender.stage = "sending" /\ sender.mail = m /\ sender.delivered = FALSE
  BY <1>1 DEF Sender, Mails
<1> HIDE DEF row, sender
<1>5. MailTyped'
  BY <1>1, <1>2, <1>3, <1>4 DEF MailInv, MailTyped
<1>6. /\ \A n \in Recoveries : mail'[n] = IF n = m THEN row ELSE mail[n]
      /\ \A c \in MailSchedulers : scheduler'[c] = IF c = d THEN sender ELSE scheduler[c]
  BY <1>1, <1>2
<1>7. token[m].state # "none"
  BY <1>1, <1>2 DEF MailSound
<1>8. MailSound(row, token[m], handed[m])
  BY <1>1, <1>2, <1>3, <1>7, AccessAssumption DEF AccessAssumption, MailSound
<1>9. \A n \in Recoveries : MailSound(mail'[n], token'[n], handed'[n])
  BY <1>2, <1>6, <1>8, MailFacts
<1>10. ASSUME NEW n \in Recoveries PROVE HandedSound(n)'
  <2>1. CASE n = m
    <3>1. Sending(n)' = Sending(n) \cup {d} /\ d \notin Sending(n)
      BY <1>2, <1>4, <1>6, <2>1 DEF Sending
    <3>2. IsFiniteSet(Sending(n)') /\ Cardinality(Sending(n)') = Cardinality(Sending(n)) + 1
      BY <3>1, MailFacts, FS_AddElement
    <3>3. mail'[n].attempt = mail[n].attempt + 1 /\ mail[n].attempt \in Nat
      BY <1>1, <1>3, <1>6, <2>1
    <3>4. handed[n] + Cardinality(Sending(n)') <= mail'[n].attempt
      BY <3>2, <3>3, MailFacts
    <3> QED BY <1>2, <3>2, <3>4 DEF HandedSound
  <2>2. CASE n # m
    <3>1. Sending(n)' = Sending(n)
      BY <1>2, <1>4, <1>6, <2>2 DEF Sending
    <3>2. mail'[n] = mail[n]
      BY <1>6, <2>2
    <3> QED BY <1>2, <3>1, <3>2 DEF MailInv, HandedSound
  <2> QED BY <2>1, <2>2
<1>11. \A c \in MailSchedulers : SenderSound(c)'
  BY <1>2, <1>4, <1>6 DEF MailInv, SenderSound
<1> QED BY <1>5, <1>9, <1>10, <1>11 DEF MailInv

LEMMA DeliverKeeps ==
    ASSUME MailInv, NEW d \in MailSchedulers, Access!Deliver(d) PROVE MailInv'
<1> DEFINE m == scheduler[d].mail
<1>1. /\ scheduler[d] \in Sender /\ scheduler[d].stage = "sending" /\ m \in Recoveries
      /\ scheduler \in [MailSchedulers -> Sender] /\ handed \in [Recoveries -> Nat]
  BY DEF Access!Deliver, MailInv, MailTyped, SenderSound
<1>2. PICK delivered \in BOOLEAN, answered \in BOOLEAN :
         /\ answered => delivered
         /\ IF answered THEN UNCHANGED mishaps ELSE Access!Fault
         /\ handed' = [handed EXCEPT ![m] = handed[m] + IF delivered THEN 1 ELSE 0]
         /\ scheduler' = [scheduler EXCEPT ![d] =
               [scheduler[d] EXCEPT !.stage = "recording", !.delivered = answered]]
  BY DEF Access!Deliver
<1>3. UNCHANGED <<mail, token>>
  BY DEF Access!Deliver
<1> DEFINE sender == [scheduler[d] EXCEPT !.stage = "recording", !.delivered = answered]
<1>4. sender \in Sender /\ sender.stage = "recording" /\ sender.mail = m
  BY <1>1 DEF Sender
<1>5. sender.delivered = TRUE => answered
  BY <1>1 DEF Sender
<1>6. mishaps' \in 0..MaxMishaps
  <2>1. CASE answered
    BY <1>2, <2>1 DEF MailInv, MailTyped
  <2>2. CASE ~answered
    BY <1>2, <2>2, MishapCounts
  <2> QED BY <2>1, <2>2
<1>7. \A c \in MailSchedulers : scheduler'[c] = IF c = d THEN sender ELSE scheduler[c]
  BY <1>1, <1>2
<1>8. scheduler' \in [MailSchedulers -> Sender]
  BY <1>1, <1>2, <1>4
<1> HIDE DEF m, sender
<1>9. /\ handed' \in [Recoveries -> Nat]
      /\ \A n \in Recoveries : handed'[n] >= handed[n] /\ (n # m => handed'[n] = handed[n])
      /\ handed'[m] <= handed[m] + 1
      /\ answered => handed'[m] = handed[m] + 1
  <2> DEFINE sent == handed[m] + IF delivered THEN 1 ELSE 0
  <2>1. handed[m] \in Nat /\ sent \in Nat /\ sent >= handed[m] /\ sent <= handed[m] + 1
    BY <1>1
  <2>2. answered => sent = handed[m] + 1
    BY <1>2
  <2>3. handed' = [handed EXCEPT ![m] = sent]
    BY <1>2
  <2> HIDE DEF sent
  <2> QED BY <1>1, <2>1, <2>2, <2>3
<1>10. MailTyped'
  BY <1>3, <1>6, <1>8, <1>9 DEF MailInv, MailTyped
<1>11. ASSUME NEW n \in Recoveries
       PROVE  MailSound(mail'[n], token'[n], handed'[n]) /\ HandedSound(n)'
  <2>1. /\ MailSound(mail[n], token[n], handed[n]) /\ handed[n] \in Nat /\ handed'[n] \in Nat
        /\ handed'[n] >= handed[n]
    BY <1>9, MailFacts
  <2>2. MailSound(mail'[n], token'[n], handed'[n])
    BY <1>3, <2>1 DEF MailSound
  <2>3. HandedSound(n)'
    <3>1. CASE n = m
      <4>1. Sending(n)' = Sending(n) \ {d} /\ d \in Sending(n)
        BY <1>1, <1>4, <1>7, <3>1 DEF Sending, m
      <4>2. IsFiniteSet(Sending(n)') /\ Cardinality(Sending(n)') = Cardinality(Sending(n)) - 1
        BY <4>1, MailFacts, FS_RemoveElement
      <4>3. handed'[n] <= handed[n] + 1 /\ mail[n].attempt \in Nat /\ Cardinality(Sending(n)) \in Nat
            /\ handed[n] + Cardinality(Sending(n)) <= mail[n].attempt
        BY <1>9, <3>1, MailFacts DEF MailRow
      <4>4. handed'[n] + Cardinality(Sending(n)') <= mail[n].attempt
        BY <2>1, <4>2, <4>3
      <4> QED BY <1>3, <4>2, <4>4 DEF HandedSound
    <3>2. CASE n # m
      <4>1. Sending(n)' = Sending(n)
        BY <1>1, <1>4, <1>7, <3>2 DEF Sending, m
      <4> QED BY <1>3, <1>9, <3>2, <4>1 DEF MailInv, HandedSound
    <3> QED BY <3>1, <3>2
  <2> QED BY <2>2, <2>3
<1>12. ASSUME NEW c \in MailSchedulers PROVE SenderSound(c)'
  <2>1. CASE c = d
    <3>1. handed[m] \in Nat
      BY <1>1
    <3> QED BY <1>1, <1>4, <1>5, <1>7, <1>9, <2>1, <3>1 DEF SenderSound
  <2>2. CASE c # d
    <3>1. scheduler'[c] = scheduler[c] /\ SenderSound(c)
      BY <1>7, <2>2 DEF MailInv
    <3>2. \A n \in Recoveries : handed[n] \in Nat /\ handed'[n] \in Nat /\ handed'[n] >= handed[n]
      BY <1>1, <1>9
    <3> QED BY <3>1, <3>2 DEF SenderSound
  <2> QED BY <2>1, <2>2
<1> QED BY <1>10, <1>11, <1>12 DEF MailInv

LEMMA RecordKeeps == ASSUME MailInv, NEW d \in MailSchedulers, Access!Record(d) PROVE MailInv'
<1> DEFINE m == scheduler[d].mail
           done == scheduler[d].delivered
           terminal == done \/ scheduler[d].attempt >= MaxMailAttempts
           stands == /\ mail[m].state = "processing" /\ mail[m].claimed
                     /\ mail[m].attempt = scheduler[d].attempt
<1>1. /\ scheduler[d] \in Sender /\ m \in Recoveries /\ scheduler \in [MailSchedulers -> Sender]
      /\ done = TRUE => handed[m] > 0
  BY DEF Access!Record, MailInv, MailTyped, SenderSound
<1>2. /\ scheduler' = [scheduler EXCEPT ![d] = Access!NoDelivery]
      /\ UNCHANGED <<token, handed, mishaps>>
  BY DEF Access!Record
<1>3. Access!NoDelivery \in Sender /\ Access!NoDelivery.stage = "idle"
  BY DEF Access!NoDelivery, Sender, Mails
<1>4. /\ scheduler' \in [MailSchedulers -> Sender] /\ mishaps' \in 0..MaxMishaps
      /\ \A c \in MailSchedulers : scheduler'[c] = scheduler[c] \/ scheduler'[c].stage = "idle"
  BY <1>1, <1>2, <1>3 DEF MailInv, MailTyped
<1>5. mail[m] \in MailRow /\ MailSound(mail[m], token[m], handed[m])
  BY <1>1, MailFacts
<1>6. ASSUME NEW row \in MailRow, mail' = [mail EXCEPT ![m] = row], row.attempt = mail[m].attempt,
             row.state = "delivered" => handed[m] > 0,
             row.payload <=> row.state \in {"pending", "processing"},
             token[m].state = "none" => row.state = "none"
      PROVE  MailInv'
  <2>1. MailSound(row, token[m], handed[m])
    BY <1>5, <1>6 DEF MailSound
  <2> HIDE DEF m
  <2> QED BY <1>1, <1>2, <1>4, <1>6, <2>1, MailRowStep
<1>7. CASE stands
  <2> DEFINE to == IF done THEN "delivered" ELSE IF terminal THEN "failed" ELSE "pending"
             row == [mail[m] EXCEPT !.state = to, !.payload = ~terminal, !.claimed = FALSE]
  <2>1. mail' = [mail EXCEPT ![m] = row]
    BY <1>7 DEF Access!Record
  <2>2. /\ to \in {"pending", "delivered", "failed"}
        /\ to = "delivered" => done = TRUE
        /\ ~terminal <=> to \in {"pending", "processing"}
    BY <1>1 DEF Sender
  <2>3. token[m].state # "none"
    BY <1>5, <1>7 DEF MailSound
  <2> HIDE DEF to, m, done, terminal
  <2>4. /\ row \in MailRow /\ row.state = to /\ row.attempt = mail[m].attempt
        /\ row.payload <=> ~terminal
    <3> DEFINE a == [mail[m] EXCEPT !.state = to]
               b == [a EXCEPT !.payload = ~terminal]
               c == [b EXCEPT !.claimed = FALSE]
    <3>1. a \in MailRow /\ a.state = to /\ a.attempt = mail[m].attempt
      BY <1>5, <2>2 DEF MailRow
    <3> HIDE DEF a
    <3>2. b \in MailRow /\ b.state = to /\ b.attempt = mail[m].attempt /\ b.payload = ~terminal
      BY <3>1 DEF MailRow
    <3> HIDE DEF b
    <3>3. c \in MailRow /\ c.state = to /\ c.attempt = mail[m].attempt /\ c.payload = b.payload
      BY <3>2 DEF MailRow
    <3> QED BY <3>2, <3>3 DEF a, b
  <2> HIDE DEF row
  <2> QED BY <1>1, <1>6, <2>1, <2>2, <2>3, <2>4
<1>8. CASE ~stands
  <2>1. mail' = [mail EXCEPT ![m] = mail[m]]
    BY <1>1, <1>8 DEF Access!Record, MailInv, MailTyped
  <2> QED BY <1>1, <1>5, <1>6, <2>1 DEF MailSound
<1> QED BY <1>7, <1>8

\* A sweep gives up, or claims, what waits.
LEMMA SweepKeeps == ASSUME MailInv, NEW m \in Recoveries, Access!Sweep(m) PROVE MailInv'
<1>1. CASE Access!Purge(m)
  BY <1>1, FailedKeeps DEF Access!Purge
<1>2. CASE Access!EndLastClaim(m)
  <2>1. mail[m].state = "processing" /\ Access!Failed(m) /\ UNCHANGED <<token, scheduler, handed, mishaps>>
    BY <1>2 DEF Access!EndLastClaim, Access!LastClaimExpired
  <2>2. token[m].state # "none"
    BY <2>1, MailFacts DEF MailSound
  <2> QED BY <2>1, <2>2, FailedKeeps
<1>3. ASSUME NEW d \in MailSchedulers, Access!Claim(d, m) PROVE MailInv'
  BY <1>3, ClaimMailKeeps
<1> QED BY <1>1, <1>2, <1>3 DEF Access!Sweep

\* Sessions and links change, and the mail does not.
LEMMA LinkStepKeepsMail ==
    ASSUME CredentialsInv, MailInv, UNCHANGED <<mail, scheduler, handed, mishaps>>,
           \/ UNCHANGED token
           \/ \E m \in Recoveries : Access!ResetRecovery(m) \/ Access!ExpireRecovery(m)
    PROVE  MailInv'
<1>1. mishaps' \in 0..MaxMishaps
  BY DEF MailInv, MailTyped
<1>2. token \in [Recoveries -> TokenRow]
  BY DEF CredentialsInv, CredentialsTyped
<1>3. ASSUME NEW m \in Recoveries, NEW n \in Recoveries, Access!ResetRecovery(m)
      PROVE  token'[n].state = "none" => token[n].state = "none"
  <2>1. token'[n] = IF n \in Access!Consumes(m) /\ token[n].state = "open"
                    THEN [token[n] EXCEPT !.state = "consumed"] ELSE token[n]
    BY <1>3 DEF Access!ResetRecovery
  <2> QED BY <1>2, <2>1 DEF TokenRow
<1>4. ASSUME NEW m \in Recoveries, NEW n \in Recoveries, Access!ExpireRecovery(m)
      PROVE  token'[n].state = "none" => token[n].state = "none"
  BY <1>2, <1>4 DEF Access!ExpireRecovery, TokenRow
<1>5. \A n \in Recoveries : token'[n].state = "none" => token[n].state = "none"
  BY <1>3, <1>4
<1> QED BY <1>1, <1>5, MailStays

AccessInv == CredentialsInv /\ MailInv

\* A step of a request, a session, a link or a delivery keeps both.
LEMMA AccessNextKeeps ==
    ASSUME AccessInv, [Access!Next]_(Access!vars) PROVE AccessInv'
<1> USE DEF AccessInv
<1>1. entering \in [AccessRequests -> Entering]
  BY DEF CredentialsInv, CredentialsTyped
<1>2. ASSUME NEW r \in AccessRequests,
             \/ Access!SignIn(r) \/ Access!Replace(r) \/ Access!Rotate(r)
             \/ \E s \in Logins : Access!Authenticate(r, s) \/ Access!OpenSession(r, s)
      PROVE  AccessInv'
  <2>1. CredentialsInv'
    BY <1>2, SignInKeeps, ReplaceKeeps, RotateKeeps, AuthenticateKeeps, OpenSessionKeeps
  <2>2. UNCHANGED <<mail, scheduler, handed, mishaps, token>>
    BY <1>2 DEF Access!SignIn, Access!Replace, Access!Rotate, Access!Authenticate,
                Access!OpenSession, Access!delivery
  <2>3. MailInv'
    BY <2>2, LinkStepKeepsMail
  <2> QED BY <2>1, <2>3
<1>3. ASSUME NEW s \in Logins, Access!EndSession(s) PROVE AccessInv'
  <2>1. UNCHANGED <<mail, scheduler, handed, mishaps, token>>
    BY <1>3 DEF Access!EndSession, Access!delivery
  <2>2. MailInv'
    BY <2>1, LinkStepKeepsMail
  <2> QED BY <1>3, <2>2, EndSessionKeeps
<1>4. ASSUME NEW m \in Recoveries, Access!IssueRecovery(m) PROVE AccessInv'
  BY <1>4, IssueRecoveryKeeps, IssueMailKeeps
<1>5. ASSUME NEW m \in Recoveries, Access!ResetRecovery(m) PROVE AccessInv'
  <2>1. UNCHANGED <<mail, scheduler, handed, mishaps>>
    BY <1>5 DEF Access!ResetRecovery, Access!delivery
  <2>2. MailInv'
    BY <1>5, <2>1, LinkStepKeepsMail
  <2> QED BY <1>5, <2>2, ResetRecoveryKeeps
<1>6. ASSUME NEW m \in Recoveries, Access!ExpireRecovery(m) PROVE AccessInv'
  <2>1. UNCHANGED <<mail, scheduler, handed, mishaps>>
    BY <1>6 DEF Access!ExpireRecovery, Access!delivery
  <2>2. MailInv'
    BY <1>6, <2>1, LinkStepKeepsMail
  <2> QED BY <1>6, <2>2, ExpireRecoveryKeeps
<1>7. ASSUME UNCHANGED <<password, login, entering, token>> PROVE CredentialsInv'
  BY <1>1, <1>7, CredentialsStay
<1>8. ASSUME NEW m \in Recoveries, Access!Sweep(m) \/ Access!ClaimExpires(m) PROVE AccessInv'
  <2>1. UNCHANGED <<password, login, entering, token>>
    BY <1>8 DEF Access!Sweep, Access!Purge, Access!EndLastClaim, Access!Claim,
                Access!ClaimExpires, Access!credentials
  <2> QED BY <1>7, <1>8, <2>1, SweepKeeps, ClaimExpiresKeeps
<1>9. ASSUME NEW d \in MailSchedulers, Access!Work(d) PROVE AccessInv'
  <2>1. UNCHANGED <<password, login, entering, token>>
    BY <1>9 DEF Access!Work, Access!Deliver, Access!Record, Access!credentials
  <2>2. MailInv'
    BY <1>9, DeliverKeeps, RecordKeeps DEF Access!Work
  <2> QED BY <1>7, <2>1, <2>2
<1>10. CASE UNCHANGED Access!vars
  <2>1. UNCHANGED <<password, login, entering, token, mail, scheduler, handed, mishaps>>
    BY <1>10 DEF Access!vars, Access!credentials, Access!delivery
  <2> QED BY <1>7, <2>1, LinkStepKeepsMail
<1> QED BY <1>2, <1>3, <1>4, <1>5, <1>6, <1>8, <1>9, <1>10 DEF Access!Next

\* Whatever the owner, thieves of an old password, slow handlers and dying
\* schedulers do: old credentials open nothing, and recovery mail stays bounded
\* (AuthService and RecoveryDeliveryScheduler, packages/auth/src).
LEMMA AccessStaysSound ==
    Access!Spec => [](Access!TypeOK /\ Access!OldCredentialsAreDead /\ Access!MailIsBounded)
<1>1. Access!Init => AccessInv
  BY CredentialsInitInv, MailInitInv DEF AccessInv
<1>2. AccessInv /\ [Access!Next]_(Access!vars) => AccessInv'
  BY AccessNextKeeps
<1>3. AccessInv => Access!TypeOK /\ Access!OldCredentialsAreDead /\ Access!MailIsBounded
  BY CredentialsSuffice, MailSuffices DEF AccessInv, Access!TypeOK
<1> QED BY <1>1, <1>2, <1>3, PTL DEF Access!Spec

-----------------------------------------------------------------------------
(* The tasks of hosted agents *)

LEMMA TasksCount == \A S : Tasks!Cardinality(S) = Cardinality(S)
  BY DEF Tasks!Cardinality, Cardinality

TaskRow == [state : Tasks!States, attempts : 0..MaxClaims, holder : TaskWorkers \cup {NoOne},
            expired : BOOLEAN]
TaskWorker == [stage : {"idle", "locked", "admitted", "working", "reporting", "refused"},
               task : HostedTasks, generation : 0..MaxClaims, kind : Tasks!Kinds \cup {"none"}]
ReportRow == [task : HostedTasks, generation : 1..MaxClaims, kind : Tasks!Kinds,
              ended : 1..MaxClaims]
CommandRow == [task : HostedTasks, generation : 1..MaxClaims, kind : Tasks!Kinds]

Leased == {t \in HostedTasks : task[t].state = "leased"}
Verifying == {t \in HostedTasks : task[t].state = "awaiting_action_verification"}

\* The executors inside the transaction of a claim.
Claiming == {"locked", "admitted"}

TasksTyped ==
    /\ task \in [HostedTasks -> TaskRow]
    /\ \A t \in HostedTasks : task[t].state = "leased" <=> task[t].holder # NoOne
    /\ late \in [HostedTasks -> BOOLEAN] /\ verified \subseteq HostedTasks /\ owned \in BOOLEAN
    /\ worker \in [TaskWorkers -> TaskWorker]
    /\ troubles \in 0..MaxTroubles

\* Of two tasks that await verification one was updated before the other.
Ordered(waiting, pairs) ==
    /\ pairs \subseteq waiting \X waiting
    /\ \A s, t \in waiting : <<s, t>> \in pairs <=> (s # t /\ <<t, s>> \notin pairs)

\* The row that an executor holds stays pending, and nobody else holds it.
RowsHeld ==
    /\ \A w \in TaskWorkers : worker[w].stage \in Claiming =>
          task[worker[w].task].state = "pending" /\ task[worker[w].task].attempts < MaxClaims
    /\ \A v, w \in TaskWorkers :
          worker[v].stage \in Claiming /\ worker[w].stage \in Claiming
            /\ worker[v].task = worker[w].task => v = w

\* Whoever counted the leases holds the lock of the owner, so that its count
\* still leaves room when it stores its own lease.
RoomHeld ==
    /\ Cardinality(Leased) <= MaxLeased
    /\ \A w \in TaskWorkers : worker[w].stage = "admitted" => Cardinality(Leased) < MaxLeased
    /\ \A v, w \in TaskWorkers :
          worker[v].stage = "admitted" /\ worker[w].stage = "admitted" => v = w

TasksInv == TasksTyped /\ Ordered(Verifying, awaiting) /\ RowsHeld /\ RoomHeld

\* An attempt began, is over, and a command about it will never count.
Issued == {"working", "reporting", "refused"}
Begun(t, g) == g \in 1..MaxClaims /\ g <= task[t].attempts
Over(t, g) == task[t].attempts > g \/ (task[t].attempts = g /\ task[t].state # "leased")
Closed(q) ==
    /\ ~Tasks!Recorded(q)
    /\ \/ ~owned \/ Over(q.task, q.generation)
       \/ task[q.task].attempts = q.generation /\ task[q.task].expired

RowsSound ==
    /\ reports \subseteq ReportRow
    /\ \A r \in reports : r.ended = r.generation /\ Over(r.task, r.generation)
ReportedOnce ==
    \A r, s \in reports : r.task = s.task /\ r.generation = s.generation => r = s
StraysSound == strays \subseteq CommandRow /\ \A q \in strays : Begun(q.task, q.generation)
CommandSound(w) ==
    /\ worker[w].stage \in Issued => Begun(worker[w].task, worker[w].generation)
    /\ worker[w].stage \in {"reporting", "refused"} => worker[w].kind \in Tasks!Kinds
    /\ worker[w].stage = "refused" => Closed(Tasks!Of(w, worker[w].kind))
CommandsSound == \A w \in TaskWorkers : CommandSound(w)

ReportsInv == RowsSound /\ ReportedOnce /\ StraysSound /\ CommandsSound

LEMMA TasksInvSuffices ==
    TasksInv /\ ReportsInv => Tasks!TypeOK /\ Tasks!ConcurrencyBounded /\ ReportsAreHonest
<1> SUFFICES ASSUME TasksInv, ReportsInv
             PROVE  Tasks!TypeOK /\ Tasks!ConcurrencyBounded /\ ReportsAreHonest
  OBVIOUS
<1>1. Tasks!In("leased") = Leased /\ Tasks!In("awaiting_action_verification") = Verifying
  BY DEF Tasks!In, Leased, Verifying
<1>2. Tasks!ConcurrencyBounded
  BY <1>1, TasksCount DEF TasksInv, RoomHeld, Tasks!ConcurrencyBounded
<1>3. /\ awaiting \subseteq Verifying \X Verifying
      /\ \A s, t \in Verifying : (<<s, t>> \in awaiting) <=> (s # t /\ <<t, s>> \notin awaiting)
  BY DEF TasksInv, Ordered
<1>4. Tasks!TypeOK
  BY <1>1, <1>3 DEF TasksInv, TasksTyped, TaskRow, TaskWorker, ReportsInv, RowsSound, ReportRow,
     StraysSound, CommandRow, Tasks!TypeOK
<1>5. ReportsAreHonest
  BY DEF ReportsInv, RowsSound, ReportedOnce, CommandsSound, CommandSound, Closed,
         ReportsAreHonest, Tasks!ReportsAreHonest
<1> QED BY <1>2, <1>4, <1>5

LEMMA IdleTyped == Tasks!Idle \in TaskWorker /\ Tasks!Idle.stage = "idle"
BY WorkAssumption DEF WorkAssumption, Tasks!Idle, TaskWorker

LEMMA LeasedFinite == IsFiniteSet(Leased) /\ Cardinality(Leased) \in Nat
<1>1. IsFiniteSet(HostedTasks) /\ Leased \subseteq HostedTasks
  BY WorkAssumption DEF WorkAssumption, Leased
<1>2. IsFiniteSet(Leased)
  BY <1>1, FS_Subset
<1> QED BY <1>2, FS_CardinalityType

LEMMA TasksInitInv == Tasks!Init => TasksInv /\ ReportsInv
<1> SUFFICES ASSUME Tasks!Init PROVE TasksInv /\ ReportsInv
  OBVIOUS
<1>1. Tasks!NoTask \in TaskRow /\ Tasks!NoTask.state = "none" /\ Tasks!NoTask.holder = NoOne
  BY WorkAssumption DEF WorkAssumption, Tasks!NoTask, Tasks!States, TaskRow
<1>2. TasksTyped
  BY <1>1, IdleTyped, WorkAssumption DEF WorkAssumption, Tasks!Init, TasksTyped
<1>3. \A t \in HostedTasks : task[t].state = "none"
  BY <1>1 DEF Tasks!Init
<1>4. Leased = {} /\ Verifying = {}
  BY <1>3 DEF Leased, Verifying
<1>5. Cardinality(Leased) = 0
  BY <1>4, FS_EmptySet
<1>6. \A w \in TaskWorkers : worker[w].stage = "idle"
  BY IdleTyped DEF Tasks!Init
<1>7. RowsHeld
  BY <1>6 DEF RowsHeld, Claiming
<1>8. RoomHeld
  BY <1>5, <1>6, WorkAssumption DEF WorkAssumption, RoomHeld
<1>9. Ordered(Verifying, awaiting)
  BY <1>4 DEF Ordered, Tasks!Init
<1>10. ReportsInv
  <2>1. reports = {} /\ strays = {}
    BY DEF Tasks!Init
  <2> QED BY <1>6, <2>1 DEF ReportsInv, RowsSound, ReportedOnce, StraysSound, CommandsSound,
             CommandSound, Issued
<1> QED BY <1>2, <1>7, <1>8, <1>9, <1>10 DEF TasksInv

-----------------------------------------------------------------------------
(* What one step of a task or of an executor leaves standing *)

\* A row changes that nobody claims, no lease is added, nobody begins a claim.
LEMMA RowStep ==
    ASSUME TasksInv, NEW t \in HostedTasks, NEW row \in TaskRow,
           row.state = "leased" <=> row.holder # NoOne,
           row.state = "leased" => task[t].state = "leased",
           task' = [task EXCEPT ![t] = row],
           \/ \A w \in TaskWorkers : worker[w].stage \in Claiming => worker[w].task # t
           \/ row.state = task[t].state /\ row.attempts = task[t].attempts,
           Ordered(Verifying', awaiting'),
           late' \in [HostedTasks -> BOOLEAN], verified' \subseteq HostedTasks, owned' \in BOOLEAN,
           troubles' \in 0..MaxTroubles, worker' \in [TaskWorkers -> TaskWorker],
           \A w \in TaskWorkers : worker'[w] = worker[w] \/ worker'[w].stage \notin Claiming
    PROVE  TasksInv'
<1>1. task \in [HostedTasks -> TaskRow]
  BY DEF TasksInv, TasksTyped
<1>2. \A s \in HostedTasks : task'[s] = IF s = t THEN row ELSE task[s]
  BY <1>1
<1>3. TasksTyped'
  BY <1>1, <1>2 DEF TasksInv, TasksTyped
<1>4. RowsHeld'
  <2>1. \A w \in TaskWorkers : worker'[w].stage \in Claiming =>
           /\ worker'[w] = worker[w] /\ worker[w].task \in HostedTasks
           /\ task[worker[w].task].state = "pending" /\ task[worker[w].task].attempts < MaxClaims
    BY DEF TasksInv, TasksTyped, TaskWorker, RowsHeld
  <2>2. \A w \in TaskWorkers : worker'[w].stage \in Claiming =>
           /\ task'[worker'[w].task].state = "pending"
           /\ task'[worker'[w].task].attempts < MaxClaims
    BY <1>2, <2>1
  <2>3. \A v, w \in TaskWorkers :
           worker'[v].stage \in Claiming /\ worker'[w].stage \in Claiming
             /\ worker'[v].task = worker'[w].task => v = w
    BY <2>1 DEF TasksInv, RowsHeld
  <2> QED BY <2>2, <2>3 DEF RowsHeld
<1>5. RoomHeld'
  <2>1. Leased' \subseteq Leased
    BY <1>2 DEF Leased
  <2>2. Cardinality(Leased') <= Cardinality(Leased) /\ Cardinality(Leased') \in Nat
    <3>1. IsFiniteSet(Leased') /\ Cardinality(Leased') <= Cardinality(Leased)
      BY <2>1, LeasedFinite, FS_Subset
    <3> QED BY <3>1, FS_CardinalityType
  <2>3. \A w \in TaskWorkers : worker'[w].stage = "admitted" => worker[w].stage = "admitted"
    BY DEF Claiming
  <2>4. Cardinality(Leased) \in Nat /\ MaxLeased \in Nat
    BY LeasedFinite, WorkAssumption DEF WorkAssumption
  <2> QED BY <2>2, <2>3, <2>4 DEF TasksInv, RoomHeld
<1> QED BY <1>3, <1>4, <1>5 DEF TasksInv

\* The tasks that await verification are the same ones in the same order.
LEMMA OrderStays ==
    ASSUME TasksInv, UNCHANGED awaiting,
           \A t \in HostedTasks : task'[t].state = "awaiting_action_verification"
                                    <=> task[t].state = "awaiting_action_verification"
    PROVE  Ordered(Verifying', awaiting')
<1>1. Verifying' = Verifying
  BY DEF Verifying
<1> QED BY <1>1 DEF TasksInv

\* An executor goes idle or on with its work, and the tasks stay as they are.
LEMMA WorkerStep ==
    ASSUME TasksInv, UNCHANGED <<task, awaiting>>,
           late' \in [HostedTasks -> BOOLEAN], verified' \subseteq HostedTasks, owned' \in BOOLEAN,
           troubles' \in 0..MaxTroubles, worker' \in [TaskWorkers -> TaskWorker],
           \A w \in TaskWorkers : worker'[w] = worker[w] \/ worker'[w].stage \notin Claiming
    PROVE  TasksInv'
<1>1. PICK t \in HostedTasks : TRUE
  BY WorkAssumption DEF WorkAssumption
<1>2. task[t] \in TaskRow /\ (task[t].state = "leased" <=> task[t].holder # NoOne)
      /\ task \in [HostedTasks -> TaskRow]
  BY <1>1 DEF TasksInv, TasksTyped
<1>3. task' = [task EXCEPT ![t] = task[t]]
  BY <1>2
<1>4. Ordered(Verifying', awaiting')
  BY OrderStays
<1> QED BY <1>1, <1>2, <1>3, <1>4, RowStep

LEMMA TroubleCounts == ASSUME TasksInv, Tasks!Fault PROVE troubles' \in 0..MaxTroubles
BY WorkAssumption DEF WorkAssumption, TasksInv, TasksTyped, Tasks!Fault

LEMMA TaskFacts ==
    ASSUME TasksInv
    PROVE  /\ task \in [HostedTasks -> TaskRow] /\ worker \in [TaskWorkers -> TaskWorker]
           /\ late \in [HostedTasks -> BOOLEAN] /\ verified \subseteq HostedTasks
           /\ owned \in BOOLEAN /\ troubles \in 0..MaxTroubles
           /\ \A t \in HostedTasks : task[t] \in TaskRow
           /\ \A t \in HostedTasks : task[t].state = "leased" <=> task[t].holder # NoOne
           /\ \A w \in TaskWorkers : worker[w] \in TaskWorker /\ worker[w].task \in HostedTasks
BY DEF TasksInv, TasksTyped, TaskWorker

\* What the row of a task becomes with a new state.
LEMMA ToRow ==
    ASSUME TasksInv, NEW t \in HostedTasks, NEW state \in Tasks!States \ {"leased"},
           Tasks!To(t, state)
    PROVE  \E row \in TaskRow : /\ task' = [task EXCEPT ![t] = row] /\ row.state = state
                                /\ row.holder = NoOne /\ row.attempts = task[t].attempts
<1> DEFINE row == [task[t] EXCEPT !.state = state, !.holder = NoOne, !.expired = FALSE]
<1>1. task[t] \in TaskRow
  BY TaskFacts
<1>2. task' = [task EXCEPT ![t] = row]
  BY DEF Tasks!To
<1>3. row \in TaskRow /\ row.state = state /\ row.holder = NoOne /\ row.attempts = task[t].attempts
  BY <1>1 DEF TaskRow
<1> HIDE DEF row
<1> QED BY <1>2, <1>3

\* A task goes on to a state without a lease, from one that nobody claims it in.
LEMMA ToKeeps ==
    ASSUME TasksInv, NEW t \in HostedTasks, NEW state \in Tasks!States \ {"leased"},
           Tasks!To(t, state),
           \A w \in TaskWorkers : worker[w].stage \in Claiming => worker[w].task # t,
           Ordered(Verifying', awaiting'), UNCHANGED <<late, verified, owned>>,
           troubles' \in 0..MaxTroubles, worker' \in [TaskWorkers -> TaskWorker],
           \A w \in TaskWorkers : worker'[w] = worker[w] \/ worker'[w].stage \notin Claiming
    PROVE  TasksInv'
<1>1. PICK row \in TaskRow : /\ task' = [task EXCEPT ![t] = row] /\ row.state = state
                             /\ row.holder = NoOne /\ row.attempts = task[t].attempts
  BY ToRow
<1>2. /\ late' \in [HostedTasks -> BOOLEAN] /\ verified' \subseteq HostedTasks
      /\ owned' \in BOOLEAN
  BY TaskFacts
<1> QED BY <1>1, <1>2, RowStep

\* The state of every task after one of them moved.
LEMMA ToStates ==
    ASSUME TasksInv, NEW t \in HostedTasks, NEW state \in Tasks!States \ {"leased"},
           Tasks!To(t, state)
    PROVE  \A s \in HostedTasks : task'[s].state = IF s = t THEN state ELSE task[s].state
<1>1. PICK row \in TaskRow : task' = [task EXCEPT ![t] = row] /\ row.state = state
  BY ToRow
<1>2. task \in [HostedTasks -> TaskRow]
  BY TaskFacts
<1> QED BY <1>1, <1>2

\* A task that leaves the verification leaves the order.
LEMMA LeavesOrder ==
    ASSUME TasksInv, NEW t \in HostedTasks, awaiting' = Tasks!Without(t),
           Verifying' = Verifying \ {t}
    PROVE  Ordered(Verifying', awaiting')
<1>1. /\ awaiting \subseteq Verifying \X Verifying
      /\ \A s, u \in Verifying : <<s, u>> \in awaiting <=> (s # u /\ <<u, s>> \notin awaiting)
  BY DEF TasksInv, Ordered
<1>2. \A p \in awaiting : p[1] \in Verifying /\ p[2] \in Verifying /\ p = <<p[1], p[2]>>
  BY <1>1
<1>3. awaiting' \subseteq Verifying' \X Verifying'
  BY <1>2 DEF Tasks!Without
<1>4. ASSUME NEW s \in Verifying', NEW u \in Verifying'
      PROVE  <<s, u>> \in awaiting' <=> (s # u /\ <<u, s>> \notin awaiting')
  <2>1. s # t /\ u # t /\ s \in Verifying /\ u \in Verifying
    BY <1>4
  <2>2. (<<s, u>> \in awaiting' <=> <<s, u>> \in awaiting)
        /\ (<<u, s>> \in awaiting' <=> <<u, s>> \in awaiting)
    BY <2>1 DEF Tasks!Without
  <2> QED BY <1>1, <2>1, <2>2
<1> QED BY <1>3, <1>4 DEF Ordered

\* A task that is new to the verification comes last.
LEMMA JoinsOrder ==
    ASSUME TasksInv, NEW t \in HostedTasks \ Verifying, Verifying' = Verifying \cup {t},
           awaiting' = awaiting \cup {<<s, t>> : s \in Verifying}
    PROVE  Ordered(Verifying', awaiting')
<1>1. /\ awaiting \subseteq Verifying \X Verifying
      /\ \A s, u \in Verifying : <<s, u>> \in awaiting <=> (s # u /\ <<u, s>> \notin awaiting)
  BY DEF TasksInv, Ordered
<1>2. awaiting' \subseteq Verifying' \X Verifying'
  BY <1>1
<1>3. ASSUME NEW s, NEW u
      PROVE  <<s, u>> \in awaiting' <=> <<s, u>> \in awaiting \/ (u = t /\ s \in Verifying)
  <2>1. <<s, u>> \in {<<x, t>> : x \in Verifying} <=> \E x \in Verifying : <<s, u>> = <<x, t>>
    OBVIOUS
  <2>2. (\E x \in Verifying : <<s, u>> = <<x, t>>) <=> (u = t /\ s \in Verifying)
    OBVIOUS
  <2> QED BY <2>1, <2>2
<1>4. \A s : <<s, t>> \notin awaiting /\ <<t, s>> \notin awaiting
  BY <1>1
<1>5. ASSUME NEW s \in Verifying', NEW u \in Verifying'
      PROVE  <<s, u>> \in awaiting' <=> (s # u /\ <<u, s>> \notin awaiting')
  BY <1>1, <1>3, <1>4, <1>5
<1> QED BY <1>2, <1>5 DEF Ordered

-----------------------------------------------------------------------------
(* The steps of an executor *)

LEMMA LockKeeps ==
    ASSUME TasksInv, NEW w \in TaskWorkers, NEW t \in HostedTasks, Tasks!Lock(w, t)
    PROVE  TasksInv'
<1> DEFINE claim == [stage |-> "locked", task |-> t, generation |-> 0, kind |-> "none"]
<1>1. /\ worker[w].stage \notin Claiming /\ task[t].state = "pending" /\ task[t].attempts < MaxClaims
      /\ Tasks!RowFree(t) /\ worker' = [worker EXCEPT ![w] = claim]
      /\ UNCHANGED <<task, late, verified, owned, awaiting, troubles>>
  BY DEF Tasks!Lock, Tasks!owner, Claiming
<1>2. claim \in TaskWorker /\ claim.stage = "locked" /\ claim.task = t
  BY WorkAssumption DEF WorkAssumption, TaskWorker
<1> HIDE DEF claim
<1>3. /\ \A v \in TaskWorkers : worker'[v] = IF v = w THEN claim ELSE worker[v]
      /\ worker' \in [TaskWorkers -> TaskWorker]
  BY <1>1, <1>2, TaskFacts
<1>4. TasksTyped'
  BY <1>1, <1>3 DEF TasksInv, TasksTyped
<1>5. Leased' = Leased /\ Verifying' = Verifying
  BY <1>1 DEF Leased, Verifying
<1>6. \A v \in TaskWorkers : worker[v].stage \in Claiming => worker[v].task # t
  BY <1>1 DEF Tasks!RowFree, Claiming
<1>7. RowsHeld'
  BY <1>1, <1>2, <1>3, <1>6 DEF TasksInv, RowsHeld, Claiming
<1>8. RoomHeld'
  BY <1>2, <1>3, <1>5 DEF TasksInv, RoomHeld
<1> QED BY <1>1, <1>4, <1>5, <1>7, <1>8 DEF TasksInv

LEMMA AdmitKeeps == ASSUME TasksInv, NEW w \in TaskWorkers, Tasks!Admit(w) PROVE TasksInv'
<1> DEFINE claim == [worker[w] EXCEPT !.stage = "admitted"]
<1>1. /\ worker[w].stage = "locked" /\ Tasks!SubjectFree
      /\ Tasks!Cardinality(Tasks!In("leased")) < MaxLeased
      /\ worker' = [worker EXCEPT ![w] = claim]
      /\ UNCHANGED <<task, late, verified, owned, awaiting, troubles>>
  BY DEF Tasks!Admit, Tasks!MayCount, Tasks!owner
<1>2. claim \in TaskWorker /\ claim.stage = "admitted" /\ claim.task = worker[w].task
  BY TaskFacts DEF TaskWorker
<1> HIDE DEF claim
<1>3. /\ \A v \in TaskWorkers : worker'[v] = IF v = w THEN claim ELSE worker[v]
      /\ worker' \in [TaskWorkers -> TaskWorker]
  BY <1>1, <1>2, TaskFacts
<1>4. TasksTyped'
  BY <1>1, <1>3 DEF TasksInv, TasksTyped
<1>5. Leased' = Leased /\ Verifying' = Verifying
  BY <1>1 DEF Leased, Verifying
<1>6. RowsHeld'
  <2>1. worker[w].stage \in Claiming
    BY <1>1 DEF Claiming
  <2>2. \A v \in TaskWorkers : worker'[v].stage \in Claiming =>
           worker[v].stage \in Claiming /\ worker'[v].task = worker[v].task
    BY <1>2, <1>3, <2>1
  <2> QED BY <1>1, <2>2 DEF TasksInv, RowsHeld
<1>7. Tasks!In("leased") = Leased
  BY DEF Tasks!In, Leased
<1>8. Cardinality(Leased) < MaxLeased
  BY <1>1, <1>7, TasksCount
<1>9. \A v \in TaskWorkers : worker[v].stage # "admitted"
  BY <1>1 DEF Tasks!SubjectFree
<1>10. RoomHeld'
  BY <1>2, <1>3, <1>5, <1>8, <1>9 DEF TasksInv, RoomHeld
<1> QED BY <1>1, <1>4, <1>5, <1>6, <1>10 DEF TasksInv

\* An executor gives up, and the tasks stay as they are.
LEMMA GoesIdle ==
    ASSUME TasksInv, NEW w \in TaskWorkers, worker' = [worker EXCEPT ![w] = Tasks!Idle],
           UNCHANGED <<task, late, verified, owned, awaiting>>, troubles' \in 0..MaxTroubles
    PROVE  TasksInv'
<1>1. \A v \in TaskWorkers : worker'[v] = IF v = w THEN Tasks!Idle ELSE worker[v]
  BY TaskFacts
<1>2. worker' \in [TaskWorkers -> TaskWorker]
  BY IdleTyped, TaskFacts
<1>3. \A v \in TaskWorkers : worker'[v] = worker[v] \/ worker'[v].stage \notin Claiming
  BY <1>1, IdleTyped DEF Claiming
<1>4. /\ late' \in [HostedTasks -> BOOLEAN] /\ verified' \subseteq HostedTasks
      /\ owned' \in BOOLEAN
  BY TaskFacts
<1> QED BY <1>2, <1>3, <1>4, WorkerStep

LEMMA GivingUpKeeps ==
    ASSUME TasksInv, NEW w \in TaskWorkers, Tasks!Deny(w) \/ Tasks!Crash(w)
    PROVE  TasksInv'
<1>1. /\ worker' = [worker EXCEPT ![w] = Tasks!Idle]
      /\ UNCHANGED <<task, late, verified, owned, awaiting>>
      /\ UNCHANGED troubles \/ Tasks!Fault
  BY DEF Tasks!Deny, Tasks!Crash, Tasks!owner
<1>2. troubles' \in 0..MaxTroubles
  BY <1>1, TroubleCounts, TaskFacts
<1> QED BY <1>1, <1>2, GoesIdle

LEMMA ClaimTaskKeeps == ASSUME TasksInv, NEW w \in TaskWorkers, Tasks!Claim(w) PROVE TasksInv'
<1> DEFINE t == worker[w].task
           row == [state |-> "leased", attempts |-> task[t].attempts + 1, holder |-> w,
                   expired |-> FALSE]
           claim == [worker[w] EXCEPT !.stage = "working", !.generation = task[t].attempts + 1]
<1>1. /\ worker[w].stage = "admitted" /\ t \in HostedTasks /\ task[t] \in TaskRow
      /\ task \in [HostedTasks -> TaskRow] /\ worker \in [TaskWorkers -> TaskWorker]
      /\ worker[w] \in TaskWorker
      /\ UNCHANGED <<late, verified, owned, awaiting, troubles>>
  BY TaskFacts DEF Tasks!Claim, Tasks!owner
<1>2. CASE late[t]
  <2>1. worker' = [worker EXCEPT ![w] = Tasks!Idle] /\ UNCHANGED task
    BY <1>2 DEF Tasks!Claim
  <2>2. troubles' \in 0..MaxTroubles
    BY <1>1, TaskFacts
  <2> QED BY <1>1, <2>1, <2>2, GoesIdle
<1>3. CASE ~late[t]
  <2>1. task' = [task EXCEPT ![t] = row] /\ worker' = [worker EXCEPT ![w] = claim]
    BY <1>3 DEF Tasks!Claim
  <2>2. /\ worker[w].stage \in Claiming /\ task[t].state = "pending"
        /\ task[t].attempts < MaxClaims
    BY <1>1 DEF TasksInv, RowsHeld, Claiming
  <2>3. task[t].attempts + 1 \in 0..MaxClaims
    BY <1>1, <2>2, WorkAssumption DEF WorkAssumption, TaskRow
  <2>4. /\ row \in TaskRow /\ row.state = "leased" /\ row.holder # NoOne
    BY <2>3, WorkAssumption DEF WorkAssumption, TaskRow, Tasks!States
  <2>5. claim \in TaskWorker /\ claim.stage = "working"
    BY <1>1, <2>3 DEF TaskWorker
  <2> HIDE DEF row, claim
  <2>6. /\ \A s \in HostedTasks : task'[s] = IF s = t THEN row ELSE task[s]
        /\ \A v \in TaskWorkers : worker'[v] = IF v = w THEN claim ELSE worker[v]
        /\ task' \in [HostedTasks -> TaskRow] /\ worker' \in [TaskWorkers -> TaskWorker]
    BY <1>1, <2>1, <2>4, <2>5
  <2>7. TasksTyped'
    BY <1>1, <2>4, <2>6 DEF TasksInv, TasksTyped
  <2> HIDE DEF t
  <2>8. \A s \in HostedTasks : task'[s].state = "awaiting_action_verification"
                                  <=> task[s].state = "awaiting_action_verification"
    BY <2>2, <2>4, <2>6
  <2>9. Ordered(Verifying', awaiting')
    BY <1>1, <2>8, OrderStays
  <2>10. \A v \in TaskWorkers : worker'[v].stage \in Claiming => v # w /\ worker'[v] = worker[v]
    BY <2>5, <2>6 DEF Claiming
  <2>11. RowsHeld'
    <3>1. \A v \in TaskWorkers : v # w /\ worker[v].stage \in Claiming => worker[v].task # t
      BY <2>2 DEF TasksInv, RowsHeld, t
    <3>2. \A v \in TaskWorkers : worker[v].task \in HostedTasks
      BY TaskFacts
    <3>3. \A v \in TaskWorkers : worker'[v].stage \in Claiming =>
             worker'[v] = worker[v] /\ task'[worker'[v].task] = task[worker[v].task]
      BY <2>6, <2>10, <3>1, <3>2
    <3> QED BY <3>3 DEF TasksInv, RowsHeld
  <2>12. RoomHeld'
    <3>1. Leased' = Leased \cup {t} /\ t \notin Leased
      BY <1>1, <2>2, <2>4, <2>6 DEF Leased
    <3>2. Cardinality(Leased') = Cardinality(Leased) + 1
      BY <3>1, LeasedFinite, FS_AddElement
    <3>3. Cardinality(Leased) < MaxLeased
      BY <1>1 DEF TasksInv, RoomHeld
    <3>4. Cardinality(Leased') <= MaxLeased
      BY <3>2, <3>3, LeasedFinite, WorkAssumption DEF WorkAssumption
    <3>5. \A v \in TaskWorkers : worker'[v].stage # "admitted"
      BY <1>1, <2>10 DEF TasksInv, RoomHeld, Claiming
    <3> QED BY <3>4, <3>5 DEF RoomHeld
  <2> QED BY <2>7, <2>9, <2>11, <2>12 DEF TasksInv
<1> QED BY <1>2, <1>3

\* What becomes of an executor that reports, or gives its command up.
LEMMA ReportMoves ==
    ASSUME TasksInv, ReportsInv, NEW w \in TaskWorkers, Tasks!Report(w) \/ Tasks!Delayed(w)
    PROVE  /\ worker[w].stage \in Issued
           /\ \/ worker' = [worker EXCEPT ![w] = Tasks!Idle]
              \/ \E k \in Tasks!Kinds : Tasks!Turn(w, "reporting", k)
              \/ \E k \in Tasks!Kinds : /\ Tasks!Turn(w, "refused", k)
                                        /\ Tasks!Rejects(Tasks!Of(w, k)) /\ Tasks!Nothing
<1>1. worker[w].stage \in {"reporting", "refused"} => worker[w].kind \in Tasks!Kinds
  BY DEF ReportsInv, CommandsSound, CommandSound
<1>2. CASE Tasks!Delayed(w)
  BY <1>2 DEF Tasks!Delayed, Issued
<1>3. CASE Tasks!Report(w)
  <2>1. PICK k \in Tasks!Reportable(w) :
          \/ worker' = [worker EXCEPT ![w] = Tasks!Idle]
          \/ Tasks!Turn(w, "reporting", k)
          \/ /\ Tasks!Rejects(Tasks!Of(w, k)) /\ Tasks!Nothing
             /\ Tasks!Turn(w, "refused", k)
    BY <1>3 DEF Tasks!Report, Tasks!Told
  <2>2. worker[w].stage \in Issued /\ k \in Tasks!Kinds
    BY <1>1, <2>1 DEF Tasks!Reportable, Issued, Tasks!Kinds
  <2> QED BY <2>1, <2>2
<1> QED BY <1>2, <1>3

\* The executors after such a step.
LEMMA MovesTyped ==
    ASSUME TasksInv, ReportsInv, NEW w \in TaskWorkers, Tasks!Report(w) \/ Tasks!Delayed(w)
    PROVE  /\ worker' \in [TaskWorkers -> TaskWorker]
           /\ \A v \in TaskWorkers : worker'[v] = worker[v] \/ worker'[v].stage \notin Claiming
<1>t. worker \in [TaskWorkers -> TaskWorker] /\ worker[w] \in TaskWorker
  BY TaskFacts
<1>1. ASSUME NEW stage \in {"reporting", "refused"}, NEW k \in Tasks!Kinds
      PROVE  [stage |-> stage, task |-> worker[w].task, generation |-> worker[w].generation,
              kind |-> k] \in TaskWorker
  BY <1>t DEF TaskWorker
<1>2. PICK row \in TaskWorker : row.stage \notin Claiming /\ worker' = [worker EXCEPT ![w] = row]
  BY <1>1, IdleTyped, ReportMoves DEF Tasks!Turn, Claiming
<1> QED BY <1>t, <1>2

\* A command that counts is about the attempt that is running.
LEMMA CountsFacts ==
    ASSUME TasksInv, NEW q \in CommandRow, Tasks!Counts(q)
    PROVE  /\ q.task \in HostedTasks /\ q.generation \in 1..MaxClaims /\ q.kind \in Tasks!Kinds
           /\ owned /\ task[q.task].state = "leased" /\ ~task[q.task].expired
           /\ task[q.task].attempts = q.generation /\ ~Tasks!Recorded(q)
           /\ reports' = reports \cup {[task |-> q.task, generation |-> q.generation,
                                        kind |-> q.kind, ended |-> q.generation]}
           /\ \/ /\ \E state \in {"completed", "waiting_for_answer", "pending", "dead_letter"} :
                       Tasks!To(q.task, state)
                 /\ UNCHANGED awaiting
              \/ /\ Tasks!To(q.task, "awaiting_action_verification")
                 /\ awaiting' = awaiting \cup {<<s, q.task>> : s \in Verifying}
<1>1. q.task \in HostedTasks /\ q.generation \in 1..MaxClaims /\ q.kind \in Tasks!Kinds
  BY DEF CommandRow
<1>2. /\ owned /\ task[q.task].state = "leased" /\ ~task[q.task].expired
      /\ task[q.task].attempts = q.generation /\ ~Tasks!Recorded(q)
  BY DEF Tasks!Counts, Tasks!Holds, Tasks!Replays
<1>3. \/ /\ \E state \in {"completed", "waiting_for_answer", "pending", "dead_letter"} :
               Tasks!To(q.task, state)
         /\ UNCHANGED awaiting
      \/ /\ Tasks!To(q.task, "awaiting_action_verification")
         /\ awaiting' = awaiting \cup {<<s, q.task>> : s \in Verifying}
  BY DEF Tasks!Counts, Tasks!ReportResult, Tasks!ReportFailure, Tasks!Outcome, Tasks!In, Verifying
<1> QED BY <1>1, <1>2, <1>3 DEF Tasks!Counts

LEMMA CountsKeeps ==
    ASSUME TasksInv, NEW q \in CommandRow, Tasks!Counts(q), UNCHANGED <<late, verified, owned>>,
           troubles' \in 0..MaxTroubles, worker' \in [TaskWorkers -> TaskWorker],
           \A v \in TaskWorkers : worker'[v] = worker[v] \/ worker'[v].stage \notin Claiming
    PROVE  TasksInv'
<1> DEFINE t == q.task
<1>2. /\ t \in HostedTasks /\ task[t].state = "leased"
      /\ \A v \in TaskWorkers : worker[v].stage \in Claiming => worker[v].task # t
  BY CountsFacts DEF TasksInv, RowsHeld
<1>3. \/ /\ \E state \in {"completed", "waiting_for_answer", "pending", "dead_letter"} : Tasks!To(t, state)
         /\ UNCHANGED awaiting
      \/ /\ Tasks!To(t, "awaiting_action_verification")
         /\ awaiting' = awaiting \cup {<<s, t>> : s \in Verifying}
  BY CountsFacts
<1> HIDE DEF t
<1>4. ASSUME NEW state \in {"completed", "waiting_for_answer", "pending", "dead_letter"},
             Tasks!To(t, state), UNCHANGED awaiting
      PROVE  TasksInv'
  <2>1. state \in Tasks!States \ {"leased"} /\ state # "awaiting_action_verification"
    BY DEF Tasks!States
  <2>2. \A s \in HostedTasks : task'[s].state = IF s = t THEN state ELSE task[s].state
    BY <1>2, <1>4, <2>1, ToStates
  <2>3. Ordered(Verifying', awaiting')
    BY <1>2, <1>4, <2>1, <2>2, OrderStays
  <2> QED BY <1>2, <1>4, <2>1, <2>3, ToKeeps
<1>5. ASSUME Tasks!To(t, "awaiting_action_verification"),
             awaiting' = awaiting \cup {<<s, t>> : s \in Verifying}
      PROVE  TasksInv'
  <2>1. "awaiting_action_verification" \in Tasks!States \ {"leased"}
    BY DEF Tasks!States
  <2>2. \A s \in HostedTasks : task'[s].state = IF s = t THEN "awaiting_action_verification"
                                                         ELSE task[s].state
    BY <1>2, <1>5, <2>1, ToStates
  <2>3. t \in HostedTasks \ Verifying /\ Verifying' = Verifying \cup {t}
    BY <1>2, <2>2 DEF Verifying
  <2>4. Ordered(Verifying', awaiting')
    BY <1>5, <2>3, JoinsOrder
  <2> QED BY <1>2, <1>5, <2>1, <2>4, ToKeeps
<1> QED BY <1>3, <1>4, <1>5

LEMMA ReportKeeps ==
    ASSUME TasksInv, ReportsInv, NEW w \in TaskWorkers, Tasks!Report(w) \/ Tasks!Delayed(w)
    PROVE  TasksInv'
<1>1. /\ worker' \in [TaskWorkers -> TaskWorker]
      /\ \A v \in TaskWorkers : worker'[v] = worker[v] \/ worker'[v].stage \notin Claiming
  BY MovesTyped
<1>2. UNCHANGED <<late, verified, owned>> /\ (UNCHANGED troubles \/ Tasks!Fault)
  BY DEF Tasks!Report, Tasks!Delayed, Tasks!owner
<1>3. /\ late' \in [HostedTasks -> BOOLEAN] /\ verified' \subseteq HostedTasks
      /\ owned' \in BOOLEAN /\ troubles' \in 0..MaxTroubles
  BY <1>2, TroubleCounts, TaskFacts
<1>4. CASE UNCHANGED <<task, awaiting>>
  BY <1>1, <1>3, <1>4, WorkerStep
<1>5. ASSUME NEW k \in Tasks!Kinds, Tasks!Counts(Tasks!Of(w, k)), worker[w].stage \in Issued
      PROVE  TasksInv'
  <2>1. Tasks!Of(w, k) \in CommandRow
    BY <1>5, TaskFacts DEF Tasks!Of, Tasks!Command, CommandRow, ReportsInv, CommandsSound,
                           CommandSound, Begun
  <2> QED BY <1>1, <1>2, <1>3, <1>5, <2>1, CountsKeeps
<1>6. \/ UNCHANGED <<task, awaiting>>
      \/ \E k \in Tasks!Reportable(w) : Tasks!Counts(Tasks!Of(w, k))
  BY DEF Tasks!Report, Tasks!Delayed, Tasks!Nothing
<1>7. \A k \in Tasks!Reportable(w) : k \in Tasks!Kinds
  BY DEF ReportsInv, CommandsSound, CommandSound, Tasks!Reportable, Tasks!Kinds
<1>8. worker[w].stage \in Issued
  BY ReportMoves
<1> QED BY <1>4, <1>5, <1>6, <1>7, <1>8

LEMMA ArrivesKeeps ==
    ASSUME TasksInv, ReportsInv, NEW q \in strays, Tasks!Arrives(q) PROVE TasksInv'
<1>1. q \in CommandRow /\ UNCHANGED <<late, verified, owned, worker, troubles>>
  BY DEF Tasks!Arrives, Tasks!owner, ReportsInv, StraysSound
<1>2. /\ late' \in [HostedTasks -> BOOLEAN] /\ verified' \subseteq HostedTasks
      /\ owned' \in BOOLEAN /\ troubles' \in 0..MaxTroubles
      /\ worker' \in [TaskWorkers -> TaskWorker]
  BY <1>1, TaskFacts
<1>3. CASE Tasks!Counts(q)
  BY <1>1, <1>2, <1>3, CountsKeeps
<1>4. CASE ~Tasks!Counts(q)
  <2>1. UNCHANGED <<task, awaiting>>
    BY <1>4 DEF Tasks!Arrives, Tasks!Nothing
  <2> QED BY <1>1, <1>2, <2>1, WorkerStep
<1> QED BY <1>3, <1>4

-----------------------------------------------------------------------------
(* The steps of a task *)

LEMMA OpenTaskKeeps ==
    ASSUME TasksInv, NEW t \in HostedTasks, Tasks!Enqueue(t) \/ Tasks!Answer(t) PROVE TasksInv'
<1>1. /\ task[t].state \in {"none", "waiting_for_answer"} /\ Tasks!To(t, "pending")
      /\ UNCHANGED <<late, verified, owned, awaiting, worker, troubles>>
  BY DEF Tasks!Enqueue, Tasks!Answer, Tasks!owner
<1>2. "pending" \in Tasks!States \ {"leased"}
  BY DEF Tasks!States
<1>3. \A w \in TaskWorkers : worker[w].stage \in Claiming => worker[w].task # t
  BY <1>1 DEF TasksInv, RowsHeld
<1>4. \A s \in HostedTasks : task'[s].state = IF s = t THEN "pending" ELSE task[s].state
  BY <1>1, <1>2, ToStates
<1>5. Ordered(Verifying', awaiting')
  BY <1>1, <1>4, OrderStays
<1>6. troubles' \in 0..MaxTroubles /\ worker' \in [TaskWorkers -> TaskWorker]
  BY <1>1, TaskFacts
<1> QED BY <1>1, <1>2, <1>3, <1>5, <1>6, ToKeeps

LEMMA CloseTaskKeeps ==
    ASSUME TasksInv, NEW t \in HostedTasks, Tasks!Cancel(t) \/ Tasks!CompleteVerified(t)
    PROVE  TasksInv'
<1>1. PICK state \in {"cancelled", "completed"} :
         Tasks!To(t, state) /\ awaiting' = Tasks!Without(t)
  BY DEF Tasks!Cancel, Tasks!CompleteVerified
<1>2. /\ UNCHANGED <<late, verified, owned, worker>>
      /\ UNCHANGED troubles \/ Tasks!Fault
      /\ Tasks!RowFree(t) \/ task[t].state = "awaiting_action_verification"
  BY DEF Tasks!Cancel, Tasks!CompleteVerified, Tasks!owner
<1>3. state \in Tasks!States \ {"leased"} /\ state # "awaiting_action_verification"
  BY DEF Tasks!States
<1>4. \A w \in TaskWorkers : worker[w].stage \in Claiming => worker[w].task # t
  BY <1>2 DEF TasksInv, RowsHeld, Tasks!RowFree, Claiming
<1>5. \A s \in HostedTasks : task'[s].state = IF s = t THEN state ELSE task[s].state
  BY <1>1, <1>3, ToStates
<1>6. Verifying' = Verifying \ {t}
  BY <1>3, <1>5 DEF Verifying
<1>7. Ordered(Verifying', awaiting')
  BY <1>1, <1>6, LeavesOrder
<1>8. troubles' \in 0..MaxTroubles /\ worker' \in [TaskWorkers -> TaskWorker]
  BY <1>2, TroubleCounts, TaskFacts
<1> QED BY <1>1, <1>2, <1>3, <1>4, <1>7, <1>8, ToKeeps

LEMMA ReconcileKeeps ==
    ASSUME TasksInv, NEW t \in HostedTasks, Tasks!ReconcileExpired(t) PROVE TasksInv'
<1>1. PICK state \in {"pending", "dead_letter"} : Tasks!To(t, state)
  BY DEF Tasks!ReconcileExpired, Tasks!Outcome
<1>2. task[t].state = "leased" /\ UNCHANGED <<late, verified, owned, awaiting, worker, troubles>>
  BY DEF Tasks!ReconcileExpired, Tasks!owner
<1>3. state \in Tasks!States \ {"leased"} /\ state # "awaiting_action_verification"
  BY DEF Tasks!States
<1>4. \A w \in TaskWorkers : worker[w].stage \in Claiming => worker[w].task # t
  BY <1>2 DEF TasksInv, RowsHeld
<1>5. \A s \in HostedTasks : task'[s].state = IF s = t THEN state ELSE task[s].state
  BY <1>1, <1>3, ToStates
<1>6. Ordered(Verifying', awaiting')
  BY <1>2, <1>3, <1>5, OrderStays
<1>7. troubles' \in 0..MaxTroubles /\ worker' \in [TaskWorkers -> TaskWorker]
  BY <1>2, TaskFacts
<1> QED BY <1>1, <1>2, <1>3, <1>4, <1>6, <1>7, ToKeeps

\* A lease runs out, by itself or with the deadline of its task.
LEMMA RunOutKeeps ==
    ASSUME TasksInv, NEW t \in HostedTasks, Tasks!Expire(t) \/ Tasks!DeadlinePasses(t)
    PROVE  TasksInv'
<1>1. PICK over \in BOOLEAN : task' = [task EXCEPT ![t] = [task[t] EXCEPT !.expired = over]]
  <2>1. CASE Tasks!Expire(t)
    BY <2>1 DEF Tasks!Expire
  <2>2. CASE Tasks!DeadlinePasses(t)
    <3>1. task[t].expired \in BOOLEAN
      BY TaskFacts DEF TaskRow
    <3>2. (task[t].expired \/ task[t].state = "leased") \in BOOLEAN
      BY <3>1
    <3> QED BY <2>2, <3>2 DEF Tasks!DeadlinePasses
  <2> QED BY <2>1, <2>2
<1> DEFINE row == [task[t] EXCEPT !.expired = over]
<1>2. /\ UNCHANGED <<verified, owned, awaiting, worker>>
      /\ UNCHANGED troubles \/ Tasks!Fault
      /\ late' = late \/ late' = [late EXCEPT ![t] = TRUE]
  BY DEF Tasks!Expire, Tasks!DeadlinePasses, Tasks!owner
<1>3. task[t] \in TaskRow /\ (task[t].state = "leased" <=> task[t].holder # NoOne)
      /\ task \in [HostedTasks -> TaskRow]
  BY TaskFacts
<1>4. /\ row \in TaskRow /\ row.state = task[t].state /\ row.holder = task[t].holder
      /\ row.attempts = task[t].attempts
  BY <1>3 DEF TaskRow
<1> HIDE DEF row
<1>5. \A s \in HostedTasks : task'[s].state = task[s].state
  BY <1>1, <1>3, <1>4 DEF row
<1>6. Ordered(Verifying', awaiting')
  BY <1>2, <1>5, OrderStays
<1>7. /\ late' \in [HostedTasks -> BOOLEAN] /\ verified' \subseteq HostedTasks
      /\ owned' \in BOOLEAN /\ troubles' \in 0..MaxTroubles
      /\ worker' \in [TaskWorkers -> TaskWorker]
  BY <1>2, TroubleCounts, TaskFacts
<1>8. task' = [task EXCEPT ![t] = row]
  BY <1>1 DEF row
<1> QED BY <1>2, <1>3, <1>4, <1>6, <1>7, <1>8, RowStep

\* Actions are verified, the owner revises, or nothing happens.
LEMMA AroundTasksKeeps ==
    ASSUME TasksInv,
           \/ \E t \in HostedTasks : Tasks!VerifyActions(t)
           \/ Tasks!ReviseAuthority
           \/ UNCHANGED Tasks!vars
    PROVE  TasksInv'
<1>1. /\ UNCHANGED <<task, late, awaiting, worker>>
      /\ UNCHANGED troubles \/ Tasks!Fault
      /\ verified' = verified \/ \E t \in HostedTasks : verified' = verified \cup {t}
      /\ owned' = owned \/ owned' = FALSE
  BY DEF Tasks!VerifyActions, Tasks!ReviseAuthority, Tasks!vars, Tasks!owner
<1>2. /\ late' \in [HostedTasks -> BOOLEAN] /\ verified' \subseteq HostedTasks
      /\ owned' \in BOOLEAN /\ troubles' \in 0..MaxTroubles
      /\ worker' \in [TaskWorkers -> TaskWorker]
  BY <1>1, TroubleCounts, TaskFacts
<1> QED BY <1>1, <1>2, WorkerStep

LEMMA TasksNextKeeps ==
    ASSUME TasksInv, ReportsInv, [Tasks!Next]_(Tasks!vars) PROVE TasksInv'
<1>1. ASSUME NEW t \in HostedTasks,
             \/ Tasks!Enqueue(t) \/ Tasks!Answer(t) \/ Tasks!Cancel(t) \/ Tasks!DeadlinePasses(t)
             \/ Tasks!VerifyActions(t) \/ Tasks!Recover(t)
      PROVE  TasksInv'
  BY <1>1, OpenTaskKeeps, CloseTaskKeeps, ReconcileKeeps, RunOutKeeps, AroundTasksKeeps
     DEF Tasks!Recover
<1>2. ASSUME NEW w \in TaskWorkers, Tasks!Execute(w) \/ Tasks!Delayed(w) \/ Tasks!Crash(w)
      PROVE  TasksInv'
  BY <1>2, AdmitKeeps, ClaimTaskKeeps, ReportKeeps, GivingUpKeeps DEF Tasks!Execute
<1>3. ASSUME NEW w \in TaskWorkers, NEW t \in HostedTasks, Tasks!Lock(w, t) PROVE TasksInv'
  BY <1>3, LockKeeps
<1>4. ASSUME NEW q \in strays, Tasks!Arrives(q) PROVE TasksInv'
  BY <1>4, ArrivesKeeps
<1> QED BY <1>1, <1>2, <1>3, <1>4, AroundTasksKeeps DEF Tasks!Next

-----------------------------------------------------------------------------
(* Reports *)

\* An attempt that began stays begun, and no lease runs again.
Advanced(t) ==
    /\ task'[t].attempts \in Nat /\ task[t].attempts \in Nat
    /\ task'[t].attempts >= task[t].attempts
    /\ task'[t].attempts = task[t].attempts /\ task'[t].state = "leased" =>
          task[t].state = "leased" /\ (task[t].expired => task'[t].expired)

LEMMA ToAdvances ==
    ASSUME TasksInv, NEW t \in HostedTasks, NEW state \in Tasks!States \ {"leased"},
           Tasks!To(t, state)
    PROVE  \A s \in HostedTasks : Advanced(s)
<1>1. PICK row \in TaskRow : /\ task' = [task EXCEPT ![t] = row] /\ row.state = state
                             /\ row.holder = NoOne /\ row.attempts = task[t].attempts
  BY ToRow
<1>2. \A s \in HostedTasks : task'[s] = IF s = t THEN row ELSE task[s]
  BY <1>1, TaskFacts
<1>3. \A s \in HostedTasks : task[s].attempts \in Nat /\ task[s].expired \in BOOLEAN
  BY TaskFacts DEF TaskRow
<1> QED BY <1>1, <1>2, <1>3 DEF Advanced

LEMMA StandingAdvances ==
    ASSUME TasksInv, UNCHANGED task PROVE \A s \in HostedTasks : Advanced(s)
<1>1. \A s \in HostedTasks : task[s].attempts \in Nat
  BY TaskFacts DEF TaskRow
<1> QED BY <1>1 DEF Advanced

LEMMA CommandAdvances ==
    ASSUME TasksInv, NEW q \in CommandRow, Tasks!Counts(q)
    PROVE  \A s \in HostedTasks : Advanced(s)
<1>1. PICK state \in {"completed", "waiting_for_answer", "pending", "dead_letter",
                      "awaiting_action_verification"} : Tasks!To(q.task, state)
  BY CountsFacts
<1>2. state \in Tasks!States \ {"leased"} /\ q.task \in HostedTasks
  BY CountsFacts DEF Tasks!States
<1> QED BY <1>1, <1>2, ToAdvances

LEMMA ClaimAdvances ==
    ASSUME TasksInv, NEW w \in TaskWorkers, Tasks!Claim(w)
    PROVE  /\ \A s \in HostedTasks : Advanced(s)
           /\ \/ worker' = [worker EXCEPT ![w] = Tasks!Idle]
              \/ \E row \in TaskWorker :
                    /\ worker' = [worker EXCEPT ![w] = row]
                    /\ row.stage = "working" /\ row.task \in HostedTasks
                    /\ row.generation \in 1..MaxClaims
                    /\ row.generation = task'[row.task].attempts
<1> DEFINE t == worker[w].task
           row == [worker[w] EXCEPT !.stage = "working", !.generation = task[t].attempts + 1]
<1>t. /\ t \in HostedTasks /\ worker[w] \in TaskWorker /\ task \in [HostedTasks -> TaskRow]
      /\ \A s \in HostedTasks : task[s].attempts \in Nat
  BY TaskFacts DEF TaskRow
<1>1. CASE late[t]
  BY <1>1, StandingAdvances DEF Tasks!Claim
<1>2. CASE ~late[t]
  <2>1. /\ task' = [task EXCEPT ![t] = [state |-> "leased", attempts |-> task[t].attempts + 1,
                                        holder |-> w, expired |-> FALSE]]
        /\ worker' = [worker EXCEPT ![w] = row] /\ worker[w].stage = "admitted"
    BY <1>2 DEF Tasks!Claim
  <2>2. task[t].attempts < MaxClaims
    BY <2>1 DEF TasksInv, RowsHeld, Claiming
  <2>3. task[t].attempts + 1 \in 1..MaxClaims /\ task[t].attempts + 1 \in 0..MaxClaims
    BY <1>t, <2>2, WorkAssumption DEF WorkAssumption
  <2>6. /\ row \in TaskWorker /\ row.stage = "working" /\ row.task = t
        /\ row.generation = task[t].attempts + 1
    BY <1>t, <2>3 DEF TaskWorker
  <2> HIDE DEF row, t
  <2>4. task'[t].attempts = task[t].attempts + 1 /\ \A s \in HostedTasks : s # t => task'[s] = task[s]
    BY <1>t, <2>1
  <2>5. \A s \in HostedTasks : Advanced(s)
    BY <1>t, <2>4 DEF Advanced
  <2> QED BY <1>t, <2>1, <2>3, <2>4, <2>5, <2>6
<1> QED BY <1>1, <1>2

LEMMA RunOutAdvances ==
    ASSUME TasksInv, NEW t \in HostedTasks, Tasks!Expire(t) \/ Tasks!DeadlinePasses(t)
    PROVE  \A s \in HostedTasks : Advanced(s)
<1>t. /\ task \in [HostedTasks -> TaskRow] /\ task[t] \in TaskRow
      /\ \A s \in HostedTasks : task[s].attempts \in Nat
  BY TaskFacts DEF TaskRow
<1>1. PICK over : /\ task' = [task EXCEPT ![t] = [task[t] EXCEPT !.expired = over]]
                  /\ task[t].expired => over
  BY DEF Tasks!Expire, Tasks!DeadlinePasses
<1>2. /\ task'[t].attempts = task[t].attempts /\ task'[t].state = task[t].state
      /\ task'[t].expired = over /\ \A s \in HostedTasks : s # t => task'[s] = task[s]
  BY <1>t, <1>1 DEF TaskRow
<1> QED BY <1>t, <1>1, <1>2 DEF Advanced

\* One step of the tasks, of what is on record and of what is under way.
Commanded(w) == \* an executor reports or gives up
    /\ worker[w].stage \in Issued
    /\ \/ worker' = [worker EXCEPT ![w] = Tasks!Idle]
       \/ \E k \in Tasks!Kinds : Tasks!Turn(w, "reporting", k)
       \/ \E k \in Tasks!Kinds : /\ Tasks!Turn(w, "refused", k)
                                 /\ Tasks!Rejects(Tasks!Of(w, k)) /\ Tasks!Nothing

WorkersMove ==
    \A w \in TaskWorkers :
        \/ worker'[w] = worker[w]
        \/ worker'[w].stage \notin Issued
        \/ /\ worker'[w].stage = "working" /\ worker'[w].generation \in 1..MaxClaims
           /\ worker'[w].generation <= task'[worker'[w].task].attempts
        \/ /\ worker[w].stage \in Issued
           /\ worker'[w].task = worker[w].task /\ worker'[w].generation = worker[w].generation
           /\ worker'[w].kind \in Tasks!Kinds
           /\ \/ worker'[w].stage = "reporting"
              \/ /\ worker'[w].stage = "refused"
                 /\ Tasks!Rejects(Tasks!Of(w, worker'[w].kind)) /\ UNCHANGED <<task, reports, owned>>

RecordMoves ==
    \/ UNCHANGED reports
    \/ \E q \in CommandRow : Begun(q.task, q.generation) /\ Tasks!Counts(q)
StraysMove ==
    \A q \in strays' : q \in strays \/ (q \in CommandRow /\ Begun(q.task, q.generation))

LEMMA IssuedTyped ==
    ASSUME TasksInv, ReportsInv, NEW w \in TaskWorkers, worker[w].stage \in Issued,
           NEW k \in Tasks!Kinds
    PROVE  LET q == Tasks!Of(w, k)
           IN q \in CommandRow /\ Begun(q.task, q.generation)
<1>1. Begun(worker[w].task, worker[w].generation) /\ worker[w].task \in HostedTasks
  BY TaskFacts DEF ReportsInv, CommandsSound, CommandSound
<1>2. Tasks!Of(w, k) = [task |-> worker[w].task, generation |-> worker[w].generation, kind |-> k]
  BY DEF Tasks!Of, Tasks!Command
<1> QED BY <1>1, <1>2 DEF CommandRow, Begun

LEMMA IdleMoves ==
    ASSUME TasksInv, NEW w \in TaskWorkers, NEW row, row.stage \notin Issued,
           worker' = [worker EXCEPT ![w] = row]
    PROVE  WorkersMove
<1>1. \A v \in TaskWorkers : worker'[v] = IF v = w THEN row ELSE worker[v]
  BY TaskFacts
<1> QED BY <1>1 DEF WorkersMove

LEMMA ReportStep ==
    ASSUME TasksInv, ReportsInv, NEW w \in TaskWorkers, Tasks!Report(w) \/ Tasks!Delayed(w)
    PROVE  /\ WorkersMove /\ RecordMoves /\ StraysMove /\ UNCHANGED owned
           /\ \A s \in HostedTasks : Advanced(s)
<1>1. Commanded(w)
  BY ReportMoves DEF Commanded
<1>2. UNCHANGED owned
  BY DEF Tasks!Report, Tasks!Delayed, Tasks!owner
<1>3. WorkersMove
  <2>1. CASE worker' = [worker EXCEPT ![w] = Tasks!Idle]
    BY <2>1, IdleTyped, IdleMoves DEF Issued
  <2>2. ASSUME NEW stage \in {"reporting", "refused"}, NEW k \in Tasks!Kinds, Tasks!Turn(w, stage, k),
               stage = "refused" => Tasks!Rejects(Tasks!Of(w, k)) /\ Tasks!Nothing
        PROVE  WorkersMove
    <3>1. /\ worker'[w] = [stage |-> stage, task |-> worker[w].task,
                           generation |-> worker[w].generation, kind |-> k]
          /\ \A v \in TaskWorkers : v # w => worker'[v] = worker[v]
      BY <2>2, TaskFacts DEF Tasks!Turn
    <3>2. /\ worker'[w].stage = stage /\ worker'[w].task = worker[w].task
          /\ worker'[w].generation = worker[w].generation /\ worker'[w].kind = k
      BY <3>1
    <3>3. worker[w].stage \in Issued
      BY <1>1 DEF Commanded
    <3> QED BY <1>2, <2>2, <3>1, <3>2, <3>3 DEF WorkersMove, Tasks!Nothing
  <2> QED BY <1>1, <2>1, <2>2 DEF Commanded
<1>4. \A k \in Tasks!Reportable(w) : k \in Tasks!Kinds
  BY DEF ReportsInv, CommandsSound, CommandSound, Tasks!Reportable, Tasks!Kinds
<1>5. \A k \in Tasks!Kinds : LET q == Tasks!Of(w, k)
                             IN q \in CommandRow /\ Begun(q.task, q.generation)
  BY <1>1, IssuedTyped DEF Commanded
<1>6. \/ UNCHANGED <<task, reports>>
      \/ \E k \in Tasks!Kinds : Tasks!Counts(Tasks!Of(w, k))
  BY <1>4 DEF Tasks!Report, Tasks!Delayed, Tasks!Nothing
<1>7. RecordMoves /\ \A s \in HostedTasks : Advanced(s)
  BY <1>5, <1>6, StandingAdvances, CommandAdvances DEF RecordMoves
<1>8. StraysMove
  BY <1>5 DEF StraysMove, Tasks!Report, Tasks!Delayed
<1> QED BY <1>2, <1>3, <1>7, <1>8

LEMMA TaskSteps ==
    ASSUME TasksInv, ReportsInv, [Tasks!Next]_(Tasks!vars)
    PROVE  /\ WorkersMove /\ RecordMoves /\ StraysMove /\ (owned' => owned)
           /\ \A s \in HostedTasks : Advanced(s)
<1>1. ASSUME NEW t \in HostedTasks,
             \/ Tasks!Enqueue(t) \/ Tasks!Answer(t) \/ Tasks!Cancel(t)
             \/ Tasks!CompleteVerified(t) \/ Tasks!ReconcileExpired(t)
      PROVE  UNCHANGED <<reports, strays, worker, owned>> /\ \A s \in HostedTasks : Advanced(s)
  <2>1. PICK state \in {"pending", "cancelled", "completed", "dead_letter"} : Tasks!To(t, state)
    BY <1>1 DEF Tasks!Enqueue, Tasks!Answer, Tasks!Cancel, Tasks!CompleteVerified,
                Tasks!ReconcileExpired, Tasks!Outcome
  <2>2. state \in Tasks!States \ {"leased"}
    BY DEF Tasks!States
  <2>3. UNCHANGED <<reports, strays, worker, owned>>
    BY <1>1 DEF Tasks!Enqueue, Tasks!Answer, Tasks!Cancel, Tasks!CompleteVerified,
                Tasks!ReconcileExpired, Tasks!owner
  <2> QED BY <2>1, <2>2, <2>3, ToAdvances
<1>2. ASSUME NEW t \in HostedTasks, Tasks!Expire(t) \/ Tasks!DeadlinePasses(t)
      PROVE  UNCHANGED <<reports, strays, worker, owned>> /\ \A s \in HostedTasks : Advanced(s)
  BY <1>2, RunOutAdvances DEF Tasks!Expire, Tasks!DeadlinePasses, Tasks!owner
<1>3. ASSUME \/ \E t \in HostedTasks : Tasks!VerifyActions(t)
             \/ Tasks!ReviseAuthority \/ UNCHANGED Tasks!vars
      PROVE  /\ UNCHANGED <<reports, strays, worker>> /\ (owned' => owned)
             /\ \A s \in HostedTasks : Advanced(s)
  <2>1. UNCHANGED <<task, reports, strays, worker>> /\ (owned' => owned)
    BY <1>3 DEF Tasks!VerifyActions, Tasks!ReviseAuthority, Tasks!vars, Tasks!owner
  <2> QED BY <2>1, StandingAdvances
<1>4. ASSUME NEW w \in TaskWorkers,
             \/ Tasks!Admit(w) \/ Tasks!Deny(w) \/ Tasks!Crash(w)
             \/ \E t \in HostedTasks : Tasks!Lock(w, t)
      PROVE  /\ WorkersMove /\ UNCHANGED <<reports, strays, owned>>
             /\ \A s \in HostedTasks : Advanced(s)
  <2>1. UNCHANGED <<task, reports, strays, owned>>
    BY <1>4 DEF Tasks!Admit, Tasks!Deny, Tasks!Crash, Tasks!Lock, Tasks!owner
  <2>2. worker[w] \in TaskWorker
    BY TaskFacts
  <2>3. PICK row : row.stage \notin Issued /\ worker' = [worker EXCEPT ![w] = row]
    BY <1>4, <2>2, IdleTyped DEF Tasks!Admit, Tasks!Deny, Tasks!Crash, Tasks!Lock, Issued, TaskWorker
  <2> QED BY <2>1, <2>3, IdleMoves, StandingAdvances
<1>5. ASSUME NEW w \in TaskWorkers, Tasks!Claim(w)
      PROVE  /\ WorkersMove /\ UNCHANGED <<reports, strays, owned>>
             /\ \A s \in HostedTasks : Advanced(s)
  <2>1. UNCHANGED <<reports, strays, owned>>
    BY <1>5 DEF Tasks!Claim, Tasks!owner
  <2>2. ASSUME NEW row \in TaskWorker, worker' = [worker EXCEPT ![w] = row],
               row.stage = "working", row.task \in HostedTasks,
               row.generation \in 1..MaxClaims, row.generation = task'[row.task].attempts
        PROVE  WorkersMove
    <3>1. \A v \in TaskWorkers : worker'[v] = IF v = w THEN row ELSE worker[v]
      BY <2>2, TaskFacts
    <3>2. row.generation <= task'[row.task].attempts
      BY <2>2, WorkAssumption DEF WorkAssumption
    <3> QED BY <2>2, <3>1, <3>2 DEF WorkersMove
  <2>3. worker' = [worker EXCEPT ![w] = Tasks!Idle] => WorkersMove
    BY IdleTyped, IdleMoves DEF Issued
  <2> QED BY <1>5, <2>1, <2>2, <2>3, ClaimAdvances
<1>6. ASSUME NEW q \in strays, Tasks!Arrives(q)
      PROVE  /\ UNCHANGED <<worker, owned>> /\ RecordMoves /\ StraysMove
             /\ \A s \in HostedTasks : Advanced(s)
  <2>1. q \in CommandRow /\ Begun(q.task, q.generation)
    BY DEF ReportsInv, StraysSound
  <2>2. UNCHANGED <<worker, owned>> /\ StraysMove
    BY <1>6 DEF Tasks!Arrives, Tasks!owner, StraysMove
  <2>3. Tasks!Counts(q) \/ UNCHANGED <<task, reports>>
    BY <1>6 DEF Tasks!Arrives, Tasks!Nothing
  <2> QED BY <2>1, <2>2, <2>3, StandingAdvances, CommandAdvances DEF RecordMoves
<1>7. UNCHANGED worker => WorkersMove
  BY DEF WorkersMove
<1>8. (UNCHANGED reports => RecordMoves) /\ (UNCHANGED strays => StraysMove)
  BY DEF RecordMoves, StraysMove
<1> QED BY <1>1, <1>2, <1>3, <1>4, <1>5, <1>6, <1>7, <1>8, ReportStep
        DEF Tasks!Next, Tasks!Execute, Tasks!Recover

\* What is over stays over, and what is closed stays closed.
LEMMA Stays ==
    ASSUME NEW t, NEW g \in Nat, Advanced(t)
    PROVE  (Over(t, g) => Over(t, g)') /\ (Begun(t, g) => Begun(t, g)')
BY DEF Advanced, Over, Begun

LEMMA RecordedLater ==
    ASSUME TasksInv, ReportsInv, RecordMoves, NEW p, Tasks!Recorded(p)'
    PROVE  Tasks!Recorded(p) \/ (p \in CommandRow /\ Tasks!Counts(p))
<1>1. CASE UNCHANGED reports
  BY <1>1 DEF Tasks!Recorded
<1>2. ASSUME NEW q \in CommandRow, Tasks!Counts(q)
      PROVE  Tasks!Recorded(p) \/ p = q
  <2>1. PICK r \in reports' : Tasks!Command(r.task, r.generation, r.kind) = p
    BY DEF Tasks!Recorded
  <2>2. CASE r \in reports
    BY <2>1, <2>2 DEF Tasks!Recorded
  <2>3. CASE r = [task |-> q.task, generation |-> q.generation, kind |-> q.kind,
                  ended |-> q.generation]
    <3>1. p = [task |-> q.task, generation |-> q.generation, kind |-> q.kind]
      BY <2>1, <2>3 DEF Tasks!Command
    <3> QED BY <3>1 DEF CommandRow
  <2> QED BY <1>2, <2>2, <2>3, CountsFacts
<1> QED BY <1>1, <1>2 DEF RecordMoves

LEMMA ClosedStays ==
    ASSUME TasksInv, ReportsInv, [Tasks!Next]_(Tasks!vars), NEW q \in CommandRow, Closed(q)
    PROVE  Closed(q)'
<1>1. q.task \in HostedTasks /\ q.generation \in Nat
  BY DEF CommandRow
<1>2. Advanced(q.task) /\ (owned' => owned) /\ RecordMoves
  BY <1>1, TaskSteps
<1>3. ~Tasks!Counts(q)
  BY CountsFacts DEF Closed, Over, CommandRow
<1>4. ~Tasks!Recorded(q)'
  BY <1>2, <1>3, RecordedLater DEF Closed
<1>5. CASE Over(q.task, q.generation)
  BY <1>1, <1>2, <1>4, <1>5, Stays DEF Closed
<1>6. CASE ~owned
  BY <1>2, <1>4, <1>6 DEF Closed
<1>7. CASE task[q.task].attempts = q.generation /\ task[q.task].expired
  BY <1>1, <1>2, <1>4, <1>7 DEF Closed, Over, Advanced
<1> QED BY <1>5, <1>6, <1>7 DEF Closed

LEMMA RecordsKeep ==
    ASSUME TasksInv, ReportsInv, [Tasks!Next]_(Tasks!vars) PROVE RowsSound' /\ ReportedOnce'
<1>s. RecordMoves /\ \A s \in HostedTasks : Advanced(s)
  BY TaskSteps
<1>t. /\ reports \subseteq ReportRow
      /\ \A r \in reports : /\ r.task \in HostedTasks /\ r.generation \in Nat
                            /\ r.ended = r.generation /\ Over(r.task, r.generation)
  BY DEF ReportsInv, RowsSound, ReportRow
<1>o. \A r \in reports : Over(r.task, r.generation)'
  BY <1>s, <1>t, Stays
<1>1. CASE UNCHANGED reports
  BY <1>1, <1>t, <1>o DEF ReportsInv, RowsSound, ReportedOnce
<1>2. ASSUME NEW q \in CommandRow, Tasks!Counts(q) PROVE RowsSound' /\ ReportedOnce'
  <2> DEFINE row == [task |-> q.task, generation |-> q.generation, kind |-> q.kind,
                     ended |-> q.generation]
  <2>1. /\ reports' = reports \cup {row} /\ task[q.task].state = "leased"
        /\ task[q.task].attempts = q.generation /\ q.task \in HostedTasks
        /\ q.generation \in 1..MaxClaims /\ q.kind \in Tasks!Kinds
    BY <1>2, CountsFacts
  <2>2. row \in ReportRow /\ row.task = q.task /\ row.generation = q.generation
        /\ row.ended = q.generation
    BY <2>1 DEF ReportRow
  <2> HIDE DEF row
  <2>3. Over(q.task, q.generation)'
    <3>1. PICK state \in {"completed", "waiting_for_answer", "pending", "dead_letter",
                          "awaiting_action_verification"} : Tasks!To(q.task, state)
      BY <1>2, CountsFacts
    <3>2. state \in Tasks!States \ {"leased"}
      BY DEF Tasks!States
    <3>3. task'[q.task].state # "leased"
      BY <2>1, <3>1, <3>2, ToStates
    <3> QED BY <1>s, <2>1, <3>3 DEF Over, Advanced
  <2>4. RowsSound'
    BY <1>t, <1>o, <2>1, <2>2, <2>3 DEF RowsSound
  <2>5. \A r \in reports : ~(r.task = q.task /\ r.generation = q.generation)
    BY <1>t, <2>1 DEF Over
  <2>6. ReportedOnce'
    BY <2>1, <2>2, <2>5 DEF ReportsInv, ReportedOnce
  <2> QED BY <2>4, <2>6
<1> QED BY <1>s, <1>1, <1>2 DEF RecordMoves

\* A refused command is closed: its attempt is over, or its lease is no more.
LEMMA RefusedIsClosed ==
    ASSUME TasksInv, NEW q \in CommandRow, Begun(q.task, q.generation), Tasks!Rejects(q)
    PROVE  Closed(q)
<1>1. task[q.task].attempts \in Nat /\ q.generation \in Nat
  BY TaskFacts DEF CommandRow, TaskRow
<1>2. ~Tasks!Recorded(q) /\ ~Tasks!Holds(q)
  BY DEF Tasks!Rejects, Tasks!Replays
<1> QED BY <1>1, <1>2 DEF Begun, Closed, Over, Tasks!Holds

LEMMA CommandsKeep ==
    ASSUME TasksInv, ReportsInv, [Tasks!Next]_(Tasks!vars), NEW w \in TaskWorkers
    PROVE  CommandSound(w)'
<1>1. PICK e : e = worker'[w]
  OBVIOUS
<1> DEFINE q == [task |-> e.task, generation |-> e.generation, kind |-> e.kind]
<1>s. /\ \/ e = worker[w]
         \/ e.stage \notin Issued
         \/ e.stage = "working" /\ Begun(e.task, e.generation)'
         \/ /\ worker[w].stage \in Issued
            /\ e.task = worker[w].task /\ e.generation = worker[w].generation
            /\ e.kind \in Tasks!Kinds
            /\ \/ e.stage = "reporting"
               \/ /\ e.stage = "refused"
                  /\ Tasks!Rejects(Tasks!Of(w, e.kind)) /\ UNCHANGED <<task, reports, owned>>
      /\ \A s \in HostedTasks : Advanced(s)
  BY <1>1, TaskSteps DEF WorkersMove, Begun
<1>t. worker[w].task \in HostedTasks /\ CommandSound(w)
  BY TaskFacts DEF ReportsInv, CommandsSound
<1>q. e.task = worker[w].task /\ e.generation = worker[w].generation => Tasks!Of(w, e.kind) = q
  BY DEF Tasks!Of, Tasks!Command
<1>2. e.stage \in Issued => Begun(e.task, e.generation)'
  <2>1. ASSUME worker[w].stage \in Issued, e.task = worker[w].task,
               e.generation = worker[w].generation
        PROVE  Begun(e.task, e.generation)'
    <3>1. Begun(e.task, e.generation) /\ e.task \in HostedTasks
      BY <1>t, <2>1 DEF CommandSound
    <3>2. e.generation \in Nat
      BY <3>1 DEF Begun
    <3> QED BY <1>s, <3>1, <3>2, Stays
  <2> QED BY <1>s, <2>1
<1>3. e.stage \in {"reporting", "refused"} => e.kind \in Tasks!Kinds
  BY <1>s, <1>t DEF CommandSound, Issued
<1>4. ASSUME e.stage = "refused" PROVE Closed(q)'
  <2>1. /\ worker[w].stage \in Issued /\ e.kind \in Tasks!Kinds
        /\ e.task = worker[w].task /\ e.generation = worker[w].generation
    BY <1>s, <1>3, <1>4 DEF Issued
  <2>2. q \in CommandRow /\ Begun(q.task, q.generation) /\ Tasks!Of(w, e.kind) = q
    BY <1>q, <2>1, IssuedTyped
  <2> HIDE DEF q
  <2>3. CASE e = worker[w]
    <3>1. Closed(q)
      BY <1>t, <1>4, <2>2, <2>3 DEF CommandSound
    <3> QED BY <2>2, <3>1, ClosedStays
  <2>4. CASE Tasks!Rejects(q) /\ UNCHANGED <<task, reports, owned>>
    <3>1. Closed(q)
      BY <2>2, <2>4, RefusedIsClosed
    <3> QED BY <2>4, <3>1 DEF Closed, Over, Tasks!Recorded
  <2> QED BY <1>s, <1>4, <2>2, <2>3, <2>4 DEF Issued
<1>5. Closed(q)' => Closed(Tasks!Of(w, worker[w].kind))'
  BY <1>1 DEF Closed, Over, Tasks!Recorded, Tasks!Of, Tasks!Command
<1> HIDE DEF q
<1> QED BY <1>1, <1>2, <1>3, <1>4, <1>5 DEF CommandSound, Begun

LEMMA StraysKeep ==
    ASSUME TasksInv, ReportsInv, [Tasks!Next]_(Tasks!vars) PROVE StraysSound'
<1>1. StraysMove /\ \A s \in HostedTasks : Advanced(s)
  BY TaskSteps
<1>2. ASSUME NEW q \in strays' PROVE q \in CommandRow /\ Begun(q.task, q.generation)'
  <2>1. q \in CommandRow /\ Begun(q.task, q.generation)
    BY <1>1, <1>2 DEF StraysMove, ReportsInv, StraysSound
  <2>2. q.task \in HostedTasks /\ q.generation \in Nat
    BY <2>1 DEF CommandRow
  <2> QED BY <1>1, <2>1, <2>2, Stays
<1> QED BY <1>2 DEF StraysSound

LEMMA ReportsNextKeep ==
    ASSUME TasksInv, ReportsInv, [Tasks!Next]_(Tasks!vars) PROVE ReportsInv'
BY RecordsKeep, CommandsKeep, StraysKeep DEF ReportsInv, CommandsSound

\* No more tasks are leased than the operator allows, whichever executors claim
\* them at the same time and whatever cuts them off
\* (AgentTaskStore.claim and the guard of operational-safety.ts).
LEMMA TasksStaySound ==
    Tasks!Spec => [](Tasks!TypeOK /\ Tasks!ConcurrencyBounded /\ ReportsAreHonest)
<1>1. TasksInv /\ ReportsInv /\ [Tasks!Next]_(Tasks!vars) => TasksInv' /\ ReportsInv'
  BY TasksNextKeeps, ReportsNextKeep
<1> QED BY <1>1, TasksInvSuffices, TasksInitInv, PTL DEF Tasks!Spec

\* Whatever answers are lost, whatever is reported again and whenever a late
\* command arrives: a report ends the attempt it is about, an attempt is reported
\* once, and what an executor was refused never counts (AgentTaskStore.mutateReport).
THEOREM ReportsStayHonest == Tasks!Spec => []ReportsAreHonest
BY TasksStaySound, PTL

\* Leases and recovery mail stay within their limits: two invariants that need
\* nothing of each other (agent-task-store.ts, recovery-delivery.ts).
THEOREM WorkStaysConsistent == Access!Spec /\ Tasks!Spec => []Consistent
<1>1. ASSUME Access!TypeOK, Access!MailIsBounded, Tasks!TypeOK, Tasks!ConcurrencyBounded
      PROVE  Consistent
  BY <1>1 DEF Consistent
<1> QED BY <1>1, AccessStaysSound, TasksStaySound, PTL

-----------------------------------------------------------------------------
(* The authority of connected agents: connections, manager and grant *)

ConnectionRow == [state : Authority!States, revision : Nat]
AssignmentRow == [manager : Authority!Managers, automatic : BOOLEAN, revision : Nat]
GrantRow == [manager : Authority!Holders, state : Authority!GrantStates]

\* The bound on the changes bounds every revision.
Counted(revision, n) == 1 <= revision /\ revision <= n + 1

RevisionsTyped ==
    /\ changes \in Nat /\ changes <= MaxRevisions
    /\ connection \in [Connections -> ConnectionRow]
    /\ \A k \in Connections : Counted(connection[k].revision, changes)
    /\ assignment \in AssignmentRow /\ Counted(assignment.revision, changes)
    /\ ceiling \in Nat /\ Counted(ceiling, changes)

GrantsTyped ==
    /\ grants \in Seq(GrantRow)
    /\ reapprovals \subseteq 1..Len(grants)
    /\ fenced \in [Connections -> Nat]
    /\ \A k \in Connections : fenced[k] <= Len(grants)

Latest == grants[Len(grants)]
Approved(k) == \E r \in reapprovals : r > fenced[k] /\ grants[r].manager = k

\* A grant that is not revoked is for the manager of the mailbox; an active one
\* rests on an approval since the last reassignment or revocation.
GrantBacked ==
    grants # <<>> =>
        /\ Latest.state # "revoked" => Latest.manager = assignment.manager
        /\ Latest.state = "active" /\ Latest.manager \in Connections => Approved(Latest.manager)

SettingsInv == RevisionsTyped /\ GrantsTyped /\ GrantBacked

\* Whatever a token rests on does not change without its revision.
RevisionsAdvance ==
    /\ \A k \in Connections :
          /\ connection'[k].revision >= connection[k].revision
          /\ connection'[k].revision = connection[k].revision => connection'[k] = connection[k]
    /\ assignment'.revision >= assignment.revision
    /\ assignment'.revision = assignment.revision => assignment' = assignment
    /\ ceiling' >= ceiling

GrantsAdvance ==
    Len(grants') >= Len(grants) /\ (Len(grants') = Len(grants) => grants' = grants)

Advances == RevisionsAdvance /\ GrantsAdvance

LEMMA LastIsLatest == Authority!Last(grants) = Latest
BY DEF Authority!Last, Latest

LEMMA ChangeCounts ==
    ASSUME RevisionsTyped, Authority!Change
    PROVE  /\ changes' \in Nat /\ changes' <= MaxRevisions
           /\ \A n \in Nat : Counted(n, changes) => Counted(n, changes') /\ Counted(n + 1, changes') /\ n + 1 \in Nat
BY ServicesAssumption DEF ServicesAssumption, RevisionsTyped, Authority!Change, Counted

LEMMA GrantFacts ==
    ASSUME SettingsInv
    PROVE  /\ grants \in Seq(GrantRow) /\ Len(grants) \in Nat
           /\ reapprovals \subseteq 1..Len(grants)
           /\ fenced \in [Connections -> Nat] /\ \A k \in Connections : fenced[k] <= Len(grants)
           /\ grants # <<>> => Latest \in GrantRow
<1>1. grants \in Seq(GrantRow) /\ Len(grants) \in Nat
  BY LenProperties DEF SettingsInv, GrantsTyped
<1>2. ASSUME grants # <<>> PROVE Latest \in GrantRow
  <2>1. Len(grants) \in 1..Len(grants)
    BY <1>1, <1>2, EmptySeq
  <2> QED BY <1>1, <2>1, ElementOfSeq DEF Latest
<1> QED BY <1>1, <1>2 DEF SettingsInv, GrantsTyped

LEMMA RecordFacts ==
    ASSUME SettingsInv, NEW grant \in GrantRow, grants' = Append(grants, grant)
    PROVE  /\ grants' \in Seq(GrantRow) /\ Len(grants') = Len(grants) + 1 /\ grants' # <<>>
           /\ Latest' = grant /\ \A r \in 1..Len(grants) : grants'[r] = grants[r]
<1>1. grants \in Seq(GrantRow) /\ Len(grants) \in Nat
  BY GrantFacts
<1>2. /\ grants' \in Seq(GrantRow) /\ Len(grants') = Len(grants) + 1
      /\ \A r \in 1..Len(grants) : grants'[r] = grants[r]
      /\ grants'[Len(grants) + 1] = grant
  BY <1>1, AppendProperties
<1>3. grants' # <<>>
  BY <1>1, <1>2, EmptySeq
<1> QED BY <1>2, <1>3 DEF Latest

\* The grant stays as it is, for the same manager and on the same approvals.
LEMMA GrantStays ==
    ASSUME SettingsInv, UNCHANGED <<grants, reapprovals>>,
           fenced' \in [Connections -> Nat], \A k \in Connections : fenced'[k] <= Len(grants),
           grants # <<>> /\ Latest.state # "revoked" => Latest.manager = assignment'.manager,
           grants # <<>> /\ Latest.state = "active" /\ Latest.manager \in Connections
             => fenced'[Latest.manager] = fenced[Latest.manager]
    PROVE  GrantsTyped' /\ GrantBacked'
<1>1. GrantsTyped'
  BY DEF SettingsInv, GrantsTyped
<1>2. Latest' = Latest
  BY DEF Latest
<1>3. ASSUME grants # <<>>, Latest.state = "active", Latest.manager \in Connections
      PROVE  Approved(Latest.manager)'
  BY <1>2, <1>3 DEF SettingsInv, GrantBacked, Approved
<1> QED BY <1>1, <1>2, <1>3 DEF SettingsInv, GrantBacked

\* A revision of the grant that is not active, or for somebody who needs none
\* of the approvals kept here, or on an approval that it keeps.
LEMMA GrantRecorded ==
    ASSUME SettingsInv, NEW grant \in GrantRow, grants' = Append(grants, grant),
           grant.state # "revoked" => grant.manager = assignment'.manager,
           fenced' \in [Connections -> Nat], \A k \in Connections : fenced'[k] <= Len(grants),
           \/ UNCHANGED reapprovals
           \/ reapprovals' = reapprovals \cup {Len(grants')},
           \/ grant.state # "active"
           \/ grant.manager \notin Connections
           \/ Len(grants') \in reapprovals'
           \/ /\ grants # <<>> /\ Latest.state = "active" /\ Latest.manager = grant.manager
              /\ UNCHANGED fenced
    PROVE  GrantsTyped' /\ GrantBacked'
<1>1. /\ grants' \in Seq(GrantRow) /\ Len(grants') = Len(grants) + 1 /\ grants' # <<>>
      /\ Latest' = grant /\ \A r \in 1..Len(grants) : grants'[r] = grants[r]
  BY RecordFacts
<1>2. /\ Len(grants) \in Nat /\ reapprovals \subseteq 1..Len(grants)
  BY GrantFacts
<1>3. reapprovals' \subseteq 1..Len(grants') /\ reapprovals \subseteq reapprovals'
  <2>1. Len(grants') \in 1..Len(grants') /\ 1..Len(grants) \subseteq 1..Len(grants')
    BY <1>1, <1>2
  <2> QED BY <1>2, <2>1
<1>4. \A k \in Connections : fenced'[k] \in Nat /\ fenced'[k] <= Len(grants')
  BY <1>1, <1>2
<1>5. GrantsTyped'
  BY <1>1, <1>3, <1>4 DEF GrantsTyped
<1>6. ASSUME grant.state = "active", grant.manager \in Connections
      PROVE  Approved(grant.manager)'
  <2>1. CASE Len(grants') \in reapprovals'
    <3>1. Len(grants') > fenced'[grant.manager]
      BY <1>1, <1>2, <1>4, <1>6
    <3>2. grants'[Len(grants')].manager = grant.manager
      BY <1>1 DEF Latest
    <3> QED BY <2>1, <3>1, <3>2 DEF Approved
  <2>2. CASE /\ grants # <<>> /\ Latest.state = "active" /\ Latest.manager = grant.manager
             /\ UNCHANGED fenced
    <3>1. PICK r \in reapprovals : r > fenced[grant.manager] /\ grants[r].manager = grant.manager
      BY <1>6, <2>2 DEF SettingsInv, GrantBacked, Approved
    <3>2. grants'[r] = grants[r]
      BY <1>1, <1>2
    <3> QED BY <1>3, <2>2, <3>1, <3>2 DEF Approved
  <2> QED BY <1>6, <2>1, <2>2
<1> QED BY <1>1, <1>5, <1>6 DEF GrantBacked

LEMMA GrantsGrow ==
    ASSUME SettingsInv, UNCHANGED grants \/ \E grant \in GrantRow : grants' = Append(grants, grant)
    PROVE  GrantsAdvance
<1>1. CASE UNCHANGED grants
  BY <1>1, GrantFacts DEF GrantsAdvance
<1>2. ASSUME NEW grant \in GrantRow, grants' = Append(grants, grant) PROVE GrantsAdvance
  <2>1. Len(grants') = Len(grants) + 1 /\ Len(grants) \in Nat
    BY <1>2, RecordFacts, GrantFacts
  <2> QED BY <2>1 DEF GrantsAdvance
<1> QED BY <1>1, <1>2

\* A connection is in a new state, under a new revision.
LEMMA ConnectionRevised ==
    ASSUME RevisionsTyped, Authority!Change, NEW k \in Connections, NEW state \in Authority!States,
           connection' = [connection EXCEPT ![k] = Authority!Revised(k, state)],
           UNCHANGED <<assignment, ceiling>>
    PROVE  RevisionsTyped' /\ RevisionsAdvance
<1> DEFINE row == [state |-> state, revision |-> connection[k].revision + 1]
<1>1. /\ connection \in [Connections -> ConnectionRow] /\ connection[k] \in ConnectionRow
      /\ connection[k].revision \in Nat /\ assignment \in AssignmentRow
      /\ assignment.revision \in Nat /\ ceiling \in Nat
      /\ \A c \in Connections : Counted(connection[c].revision, changes) /\ connection[c].revision \in Nat
      /\ Counted(assignment.revision, changes) /\ Counted(ceiling, changes)
  BY DEF RevisionsTyped, ConnectionRow, AssignmentRow
<1>2. /\ changes' \in Nat /\ changes' <= MaxRevisions
      /\ \A n \in Nat : Counted(n, changes) => Counted(n, changes') /\ Counted(n + 1, changes') /\ n + 1 \in Nat
  BY ChangeCounts
<1>3. row \in ConnectionRow /\ row.revision = connection[k].revision + 1
  BY <1>1 DEF ConnectionRow
<1>4. connection' = [connection EXCEPT ![k] = row]
  BY DEF Authority!Revised
<1> HIDE DEF row
<1>5. \A c \in Connections : connection'[c] = IF c = k THEN row ELSE connection[c]
  BY <1>1, <1>4
<1>6. \A c \in Connections : Counted(connection'[c].revision, changes')
  <2>1. Counted(row.revision, changes')
    BY <1>1, <1>2, <1>3
  <2>2. \A c \in Connections : Counted(connection[c].revision, changes')
    BY <1>1, <1>2
  <2> QED BY <1>5, <2>1, <2>2 DEF Counted
<1>7. RevisionsTyped'
  <2>1. Counted(assignment'.revision, changes') /\ Counted(ceiling', changes')
    BY <1>1, <1>2
  <2>2. connection' \in [Connections -> ConnectionRow]
    BY <1>1, <1>3, <1>4
  <2> QED BY <1>1, <1>2, <1>6, <2>1, <2>2 DEF RevisionsTyped
<1>8. RevisionsAdvance
  BY <1>1, <1>3, <1>5 DEF RevisionsAdvance
<1> QED BY <1>7, <1>8

\* The mailbox has another manager or mode, under a new revision, or the
\* operator another ceiling.
LEMMA SettingRevised ==
    ASSUME RevisionsTyped, Authority!Change, UNCHANGED connection,
           \/ UNCHANGED assignment
           \/ /\ assignment' \in AssignmentRow
              /\ assignment'.revision = assignment.revision + 1,
           UNCHANGED ceiling \/ ceiling' = ceiling + 1
    PROVE  RevisionsTyped' /\ RevisionsAdvance
<1>1. /\ connection \in [Connections -> ConnectionRow]
      /\ assignment \in AssignmentRow /\ assignment.revision \in Nat /\ ceiling \in Nat
      /\ \A c \in Connections : Counted(connection[c].revision, changes) /\ connection[c].revision \in Nat
      /\ Counted(assignment.revision, changes) /\ Counted(ceiling, changes)
  BY DEF RevisionsTyped, ConnectionRow, AssignmentRow
<1>2. /\ changes' \in Nat /\ changes' <= MaxRevisions
      /\ \A n \in Nat : Counted(n, changes) => Counted(n, changes') /\ Counted(n + 1, changes') /\ n + 1 \in Nat
  BY ChangeCounts
<1>3. /\ Counted(assignment'.revision, changes') /\ Counted(ceiling', changes') /\ ceiling' \in Nat
      /\ assignment' \in AssignmentRow
      /\ \A c \in Connections : Counted(connection[c].revision, changes')
  BY <1>1, <1>2
<1>4. RevisionsTyped'
  BY <1>1, <1>2, <1>3 DEF RevisionsTyped
<1>5. RevisionsAdvance
  BY <1>1 DEF RevisionsAdvance
<1> QED BY <1>4, <1>5

LEMMA LifecycleKeeps ==
    ASSUME SettingsInv, NEW k \in Connections, NEW state \in Authority!States,
           Authority!SetLifecycle(k, state)
    PROVE  SettingsInv' /\ Advances
<1>1. RevisionsTyped' /\ RevisionsAdvance
  BY ConnectionRevised DEF SettingsInv, Authority!SetLifecycle
<1> DEFINE grant == [manager |-> k, state |-> "reapproval_required"]
<1>2. grant \in GrantRow
  BY DEF GrantRow, Authority!Holders, Authority!GrantStates
<1>3. /\ UNCHANGED <<assignment, reapprovals>>
      /\ fenced' \in [Connections -> Nat] /\ \A c \in Connections : fenced'[c] <= Len(grants)
      /\ \A c \in Connections : c # k => fenced'[c] = fenced[c]
  BY GrantFacts DEF Authority!SetLifecycle
<1>4. CASE state = "security_revoked" /\ Authority!Fences(k)
  <2>1. grants' = Append(grants, grant) /\ grants # <<>> /\ Authority!Last(grants) = [manager |-> k, state |-> "active"]
    BY <1>4 DEF Authority!SetLifecycle, Authority!Fences, Authority!Record, Authority!Granted
  <2>2. Latest.manager = k /\ Latest.state = "active"
    BY <2>1, LastIsLatest
  <2>3. grant.manager = assignment'.manager /\ grant.state # "active"
    BY <1>3, <2>1, <2>2 DEF SettingsInv, GrantBacked
  <2> HIDE DEF grant
  <2>4. GrantsTyped' /\ GrantBacked'
    BY <1>2, <1>3, <2>1, <2>3, GrantRecorded
  <2>5. GrantsAdvance
    BY <1>2, <2>1, GrantsGrow
  <2> QED BY <1>1, <2>4, <2>5 DEF SettingsInv, Advances
<1>5. CASE ~(state = "security_revoked" /\ Authority!Fences(k))
  <2>1. UNCHANGED grants
    BY <1>5 DEF Authority!SetLifecycle
  <2>2. ASSUME grants # <<>>, Latest.state = "active", Latest.manager \in Connections
        PROVE  fenced'[Latest.manager] = fenced[Latest.manager]
    <3>1. CASE state = "security_revoked"
      <4>1. Latest # [manager |-> k, state |-> "active"]
        BY <1>5, <2>2, <3>1, LastIsLatest DEF Authority!Fences, Authority!Granted
      <4>2. Latest.manager # k
        BY <2>2, <4>1, GrantFacts DEF GrantRow
      <4> QED BY <1>3, <2>2, <4>2
    <3>2. CASE state # "security_revoked"
      BY <3>2 DEF Authority!SetLifecycle
    <3> QED BY <3>1, <3>2
  <2>3. grants # <<>> /\ Latest.state # "revoked" => Latest.manager = assignment'.manager
    BY <1>3 DEF SettingsInv, GrantBacked
  <2>4. GrantsTyped' /\ GrantBacked'
    BY <1>3, <2>1, <2>2, <2>3, GrantStays
  <2>5. GrantsAdvance
    BY <2>1, GrantsGrow
  <2> QED BY <1>1, <2>4, <2>5 DEF SettingsInv, Advances
<1> QED BY <1>4, <1>5

LEMMA ReconnectKeeps ==
    ASSUME SettingsInv, NEW k \in Connections, Authority!ReconnectSecurityRevoked(k)
    PROVE  SettingsInv' /\ Advances
<1>1. "connected" \in Authority!States
  BY DEF Authority!States
<1>2. RevisionsTyped' /\ RevisionsAdvance
  BY <1>1, ConnectionRevised DEF SettingsInv, Authority!ReconnectSecurityRevoked
<1>3. UNCHANGED <<assignment, grants, reapprovals, fenced>>
  BY DEF Authority!ReconnectSecurityRevoked
<1>4. GrantsTyped' /\ GrantBacked' /\ GrantsAdvance
  BY <1>3, GrantFacts, GrantStays, GrantsGrow DEF SettingsInv, GrantBacked
<1> QED BY <1>2, <1>4 DEF SettingsInv, Advances

LEMMA CeilingKeeps ==
    ASSUME SettingsInv, Authority!ReviseCeiling PROVE SettingsInv' /\ Advances
<1>1. RevisionsTyped' /\ RevisionsAdvance
  BY SettingRevised DEF SettingsInv, Authority!ReviseCeiling
<1>2. UNCHANGED <<assignment, grants, reapprovals, fenced>>
  BY DEF Authority!ReviseCeiling
<1>3. GrantsTyped' /\ GrantBacked' /\ GrantsAdvance
  BY <1>2, GrantFacts, GrantStays, GrantsGrow DEF SettingsInv, GrantBacked
<1> QED BY <1>1, <1>3 DEF SettingsInv, Advances

\* A new manager takes the approvals of the old one away.
LEMMA AssignFacts ==
    ASSUME SettingsInv, NEW manager \in Authority!Managers, NEW automatic \in BOOLEAN,
           Authority!Assign(manager, automatic)
    PROVE  /\ RevisionsTyped' /\ RevisionsAdvance
           /\ assignment'.manager = manager /\ UNCHANGED reapprovals
           /\ fenced' \in [Connections -> Nat] /\ \A k \in Connections : fenced'[k] <= Len(grants)
           /\ manager = assignment.manager => UNCHANGED fenced
<1>1. Authority!Change /\ UNCHANGED <<connection, reapprovals, ceiling>>
  BY DEF Authority!Assign
<1> DEFINE changed == manager # assignment.manager
           row == [manager |-> manager, automatic |-> automatic /\ ~changed,
                   revision |-> assignment.revision + 1]
<1>2. assignment' = row /\ Authority!Lapse(changed)
  BY DEF Authority!Assign
<1>3. assignment.revision \in Nat
  BY DEF SettingsInv, RevisionsTyped, AssignmentRow
<1>4. row \in AssignmentRow /\ row.manager = manager /\ row.revision = assignment.revision + 1
  BY <1>3 DEF AssignmentRow
<1>5. fenced' = IF changed THEN [k \in Connections |-> Len(grants)] ELSE fenced
  BY <1>2 DEF Authority!Lapse
<1> HIDE DEF row
<1>6. RevisionsTyped' /\ RevisionsAdvance
  BY <1>1, <1>2, <1>4, SettingRevised DEF SettingsInv
<1>7. fenced' \in [Connections -> Nat] /\ \A k \in Connections : fenced'[k] <= Len(grants)
  BY <1>5, GrantFacts
<1> QED BY <1>1, <1>2, <1>4, <1>5, <1>6, <1>7

LEMMA FollowFacts ==
    ASSUME SettingsInv, NEW manager \in Authority!Managers, Authority!FollowGrant(manager)
    PROVE  \E grant \in GrantRow : /\ grants' = Append(grants, grant) /\ grant.state # "active"
                                   /\ grant.state # "revoked" => grant.manager = manager
<1>1. grants # <<>> /\ Latest \in GrantRow /\ Authority!Last(grants) = Latest
  BY GrantFacts, LastIsLatest DEF Authority!FollowGrant, Authority!Granted
<1>2. CASE manager = "none"
  <2> DEFINE grant == [manager |-> Latest.manager, state |-> "revoked"]
  <2>1. grant \in GrantRow /\ grant.state = "revoked"
    BY <1>1 DEF GrantRow, Authority!GrantStates
  <2>2. grants' = Append(grants, grant)
    BY <1>1, <1>2 DEF Authority!FollowGrant, Authority!Record
  <2> QED BY <2>1, <2>2
<1>3. CASE manager # "none"
  <2> DEFINE grant == [manager |-> manager, state |-> "reapproval_required"]
  <2>1. grant \in GrantRow /\ grant.state = "reapproval_required" /\ grant.manager = manager
    BY <1>3 DEF GrantRow, Authority!GrantStates, Authority!Managers
  <2>2. grants' = Append(grants, grant)
    BY <1>3 DEF Authority!FollowGrant, Authority!Record
  <2> QED BY <2>1, <2>2
<1> QED BY <1>2, <1>3

\* The grant follows the manager.
LEMMA FollowKeeps ==
    ASSUME SettingsInv, NEW manager \in Authority!Managers, NEW automatic \in BOOLEAN,
           Authority!Assign(manager, automatic), Authority!FollowGrant(manager)
    PROVE  SettingsInv' /\ Advances
<1>1. PICK grant \in GrantRow : /\ grants' = Append(grants, grant) /\ grant.state # "active"
                                /\ grant.state # "revoked" => grant.manager = manager
  BY FollowFacts
<1>2. /\ RevisionsTyped' /\ RevisionsAdvance
      /\ assignment'.manager = manager /\ UNCHANGED reapprovals
      /\ fenced' \in [Connections -> Nat] /\ \A k \in Connections : fenced'[k] <= Len(grants)
  BY AssignFacts
<1>3. GrantsTyped' /\ GrantBacked'
  BY <1>1, <1>2, GrantRecorded
<1>4. GrantsAdvance
  BY <1>1, GrantsGrow
<1> QED BY <1>2, <1>3, <1>4 DEF SettingsInv, Advances

\* The grant stays, and so does the manager unless it is revoked.
LEMMA AssignKeeps ==
    ASSUME SettingsInv, NEW manager \in Authority!Managers, NEW automatic \in BOOLEAN,
           Authority!Assign(manager, automatic), UNCHANGED grants,
           Authority!Granted => manager = assignment.manager \/ Authority!Matching
    PROVE  SettingsInv' /\ Advances
<1>1. /\ RevisionsTyped' /\ RevisionsAdvance
      /\ assignment'.manager = manager /\ UNCHANGED reapprovals
      /\ fenced' \in [Connections -> Nat] /\ \A k \in Connections : fenced'[k] <= Len(grants)
      /\ manager = assignment.manager => UNCHANGED fenced
  BY AssignFacts
<1>2. Authority!Last(grants)' = Latest
  BY DEF Authority!Last, Latest
<1>3. ASSUME grants # <<>>, Latest.state # "revoked"
      PROVE  Latest.manager = assignment'.manager /\ manager = assignment.manager
  <2>1. Latest.manager = assignment.manager
    BY <1>3 DEF SettingsInv, GrantBacked
  <2>2. CASE manager = assignment.manager
    BY <1>1, <2>1, <2>2
  <2>3. CASE Authority!Matching
    BY <1>1, <1>2, <1>3, <2>1, <2>3 DEF Authority!Matching, Authority!GrantMatches
  <2> QED BY <1>3, <2>2, <2>3 DEF Authority!Granted
<1>4. ASSUME grants # <<>>, Latest.state = "active", Latest.manager \in Connections
      PROVE  fenced'[Latest.manager] = fenced[Latest.manager]
  BY <1>1, <1>3, <1>4
<1>5. GrantsTyped' /\ GrantBacked'
  BY <1>1, <1>3, <1>4, GrantStays
<1>6. GrantsAdvance
  BY GrantsGrow
<1> QED BY <1>1, <1>5, <1>6 DEF SettingsInv, Advances

LEMMA AssignmentKeeps ==
    ASSUME SettingsInv, NEW manager \in Authority!Managers, NEW automatic \in BOOLEAN,
           NEW withGrant \in BOOLEAN,
           \/ Authority!SetAssignment(manager, automatic, withGrant)
           \/ Authority!ReviseAssignment(manager, automatic)
           \/ Authority!ReviseAssignmentAndFenceGrant(manager)
    PROVE  SettingsInv' /\ Advances
<1>1. CASE Authority!SetAssignment(manager, automatic, withGrant)
  <2>1. CASE Authority!FollowGrant(manager)
    BY <1>1, <2>1, FollowKeeps DEF Authority!SetAssignment
  <2>2. CASE UNCHANGED grants
    BY <1>1, <2>2, AssignKeeps DEF Authority!SetAssignment
  <2> QED BY <1>1, <2>1, <2>2 DEF Authority!SetAssignment
<1>2. CASE Authority!ReviseAssignment(manager, automatic)
  BY <1>2, AssignKeeps DEF Authority!ReviseAssignment
<1>3. CASE Authority!ReviseAssignmentAndFenceGrant(manager)
  BY <1>3, FollowKeeps DEF Authority!ReviseAssignmentAndFenceGrant
<1> QED BY <1>1, <1>2, <1>3

\* A grant is created, revised or approved for the manager of the mailbox.
LEMMA GrantKeeps ==
    ASSUME SettingsInv, NEW manager \in Authority!Holders, NEW state \in Authority!GrantStates,
           \/ Authority!CreateGrant(manager)
           \/ Authority!ReviseGrant(manager, state)
           \/ Authority!ReapproveGrant
    PROVE  SettingsInv' /\ Advances
<1>1. Authority!Change /\ UNCHANGED <<connection, assignment, ceiling, fenced>>
  BY DEF Authority!CreateGrant, Authority!ReviseGrant, Authority!ReapproveGrant
<1>2. RevisionsTyped' /\ RevisionsAdvance
  BY <1>1, SettingRevised DEF SettingsInv
<1>3. /\ fenced' \in [Connections -> Nat] /\ \A k \in Connections : fenced'[k] <= Len(grants)
      /\ grants # <<>> => Latest \in GrantRow
  BY <1>1, GrantFacts
<1>4. CASE Authority!CreateGrant(manager)
  <2> DEFINE grant == [manager |-> manager, state |-> "reapproval_required"]
  <2>1. grant \in GrantRow /\ grant.state = "reapproval_required" /\ grant.manager = manager
    BY DEF GrantRow, Authority!GrantStates
  <2>2. grants' = Append(grants, grant) /\ UNCHANGED reapprovals /\ Authority!Matching
    BY <1>4 DEF Authority!CreateGrant, Authority!Record
  <2> HIDE DEF grant
  <2>3. grants' # <<>> /\ Authority!Last(grants') = grant
    BY <2>1, <2>2, RecordFacts DEF Latest, Authority!Last
  <2>4. grant.state # "revoked" => grant.manager = assignment'.manager
    BY <2>2, <2>3 DEF Authority!Matching, Authority!GrantMatches
  <2>5. GrantsTyped' /\ GrantBacked'
    BY <1>3, <2>1, <2>2, <2>4, GrantRecorded
  <2>6. GrantsAdvance
    BY <2>1, <2>2, GrantsGrow
  <2> QED BY <1>2, <2>5, <2>6 DEF SettingsInv, Advances
<1>5. CASE Authority!ReviseGrant(manager, state)
  <2> DEFINE grant == [manager |-> manager, state |-> state]
  <2>1. grant \in GrantRow /\ grant.state = state /\ grant.manager = manager
    BY DEF GrantRow
  <2>2. /\ grants' = Append(grants, grant) /\ UNCHANGED reapprovals /\ Authority!Matching
        /\ grants # <<>>
        /\ IF Latest.state = "active" THEN manager = Latest.manager ELSE state # "active"
    BY <1>5, LastIsLatest DEF Authority!ReviseGrant, Authority!Record, Authority!Granted
  <2> HIDE DEF grant
  <2>3. grants' # <<>> /\ Authority!Last(grants') = grant
    BY <2>1, <2>2, RecordFacts DEF Latest, Authority!Last
  <2>4. grant.state # "revoked" => grant.manager = assignment'.manager
    BY <2>2, <2>3 DEF Authority!Matching, Authority!GrantMatches
  <2>5. grant.state # "active" \/ (Latest.state = "active" /\ Latest.manager = grant.manager)
    BY <2>1, <2>2
  <2>6. GrantsTyped' /\ GrantBacked'
    BY <1>1, <1>3, <2>1, <2>2, <2>4, <2>5, GrantRecorded
  <2>7. GrantsAdvance
    BY <2>1, <2>2, GrantsGrow
  <2> QED BY <1>2, <2>6, <2>7 DEF SettingsInv, Advances
<1>6. CASE Authority!ReapproveGrant
  <2> DEFINE grant == [manager |-> Latest.manager, state |-> "active"]
  <2>1. /\ grants # <<>> /\ Latest.state = "reapproval_required" /\ grants' = Append(grants, grant)
        /\ reapprovals' = reapprovals \cup {Len(grants')}
    BY <1>6, LastIsLatest DEF Authority!ReapproveGrant, Authority!Record, Authority!Granted
  <2>2. grant \in GrantRow /\ grant.manager = Latest.manager
    BY <1>3, <2>1 DEF GrantRow, Authority!GrantStates
  <2>3. grant.manager = assignment'.manager
    BY <1>1, <2>1, <2>2 DEF SettingsInv, GrantBacked
  <2> HIDE DEF grant
  <2>4. GrantsTyped' /\ GrantBacked'
    BY <1>3, <2>1, <2>2, <2>3, GrantRecorded
  <2>5. GrantsAdvance
    BY <2>1, <2>2, GrantsGrow
  <2> QED BY <1>2, <2>4, <2>5 DEF SettingsInv, Advances
<1> QED BY <1>4, <1>5, <1>6

\* The owner activates the assistant, who is no connection.
LEMMA ActivateKeeps ==
    ASSUME SettingsInv, Authority!ActivateAssistant PROVE SettingsInv' /\ Advances
<1> DEFINE foreign == Authority!Granted /\ Authority!Last(grants).manager # "mastra"
           old == [Latest EXCEPT !.state = "revoked"]
           ended == IF foreign /\ Latest.state # "revoked" THEN Append(grants, old) ELSE grants
           grant == [manager |-> "mastra", state |-> "active"]
           row == [manager |-> "mastra", automatic |-> TRUE, revision |-> assignment.revision + 1]
<1>1. /\ Authority!Change /\ UNCHANGED <<connection, ceiling>>
      /\ grants' = Append(ended, grant) /\ reapprovals' = reapprovals \cup {Len(grants')}
      /\ Authority!Lapse(assignment.manager # "mastra")
      /\ assignment' = IF assignment.manager = "mastra" /\ assignment.automatic
                       THEN assignment ELSE row
  BY LastIsLatest DEF Authority!ActivateAssistant
<1>2. /\ assignment.revision \in Nat /\ Len(grants) \in Nat /\ grants \in Seq(GrantRow)
      /\ reapprovals \subseteq 1..Len(grants)
      /\ fenced \in [Connections -> Nat] /\ \A k \in Connections : fenced[k] <= Len(grants)
      /\ grants # <<>> => Latest \in GrantRow
  BY GrantFacts DEF SettingsInv, RevisionsTyped, AssignmentRow
<1>3. row \in AssignmentRow /\ row.manager = "mastra" /\ row.revision = assignment.revision + 1
  BY <1>2 DEF AssignmentRow, Authority!Managers, Authority!Holders
<1> HIDE DEF row
<1>4. RevisionsTyped' /\ RevisionsAdvance /\ assignment'.manager = "mastra"
  BY <1>1, <1>3, SettingRevised DEF SettingsInv
<1>5. grant \in GrantRow /\ grant.manager = "mastra"
  BY DEF GrantRow, Authority!Holders, Authority!GrantStates
<1>6. ended \in Seq(GrantRow) /\ Len(ended) \in Nat /\ Len(ended) >= Len(grants)
  <2>1. CASE foreign /\ Latest.state # "revoked"
    <3>1. old \in GrantRow
      BY <1>2, <2>1 DEF Authority!Granted, GrantRow, Authority!GrantStates
    <3> HIDE DEF old
    <3>2. Append(grants, old) \in Seq(GrantRow) /\ Len(Append(grants, old)) = Len(grants) + 1
      BY <1>2, <3>1, AppendProperties
    <3> QED BY <1>2, <2>1, <3>2
  <2>2. CASE ~(foreign /\ Latest.state # "revoked")
    BY <1>2, <2>2
  <2> QED BY <2>1, <2>2
<1> HIDE DEF ended, grant
<1>7. /\ grants' \in Seq(GrantRow) /\ Len(grants') = Len(ended) + 1
      /\ grants'[Len(ended) + 1] = grant
  BY <1>1, <1>5, <1>6, AppendProperties
<1>8. Latest' = grant /\ Len(grants') \in Nat /\ Len(grants') > Len(grants)
  BY <1>2, <1>6, <1>7 DEF Latest
<1>9. /\ fenced' \in [Connections -> Nat]
      /\ \A k \in Connections : fenced'[k] <= Len(grants')
  BY <1>1, <1>2, <1>8 DEF Authority!Lapse
<1>10. reapprovals' \subseteq 1..Len(grants')
  <2>1. Len(grants') \in 1..Len(grants') /\ 1..Len(grants) \subseteq 1..Len(grants')
    BY <1>2, <1>8
  <2> QED BY <1>1, <1>2, <2>1
<1>11. GrantsTyped' /\ GrantBacked'
  BY <1>4, <1>5, <1>7, <1>8, <1>9, <1>10, ServicesAssumption
     DEF ServicesAssumption, GrantsTyped, GrantBacked
<1>12. GrantsAdvance
  BY <1>2, <1>8 DEF GrantsAdvance
<1> QED BY <1>4, <1>11, <1>12 DEF SettingsInv, Advances

LEMMA SettingsKeep == ASSUME SettingsInv, Authority!Settings PROVE SettingsInv' /\ Advances
<1>1. ASSUME NEW k \in Connections, NEW seen \in Authority!States, NEW state \in Authority!States,
             Authority!SetLifecycle(k, state) \/ Authority!ReviseConnectionLifecycle(k, seen, state)
      PROVE  SettingsInv' /\ Advances
  BY <1>1, LifecycleKeeps DEF Authority!ReviseConnectionLifecycle
<1>2. ASSUME NEW k \in Connections, Authority!ReconnectSecurityRevoked(k)
      PROVE  SettingsInv' /\ Advances
  BY <1>2, ReconnectKeeps
<1>3. ASSUME NEW m \in Authority!Managers, NEW automatic \in BOOLEAN, NEW withGrant \in BOOLEAN,
             \/ Authority!SetAssignment(m, automatic, withGrant)
             \/ Authority!ReviseAssignment(m, automatic)
             \/ Authority!ReviseAssignmentAndFenceGrant(m)
      PROVE  SettingsInv' /\ Advances
  BY <1>3, AssignmentKeeps
<1>4. "mastra" \in Authority!Holders /\ "active" \in Authority!GrantStates /\ TRUE \in BOOLEAN
      /\ "connected" \in Authority!States
  BY DEF Authority!Holders, Authority!GrantStates, Authority!States
<1>5. ASSUME NEW m \in Authority!Holders, NEW state \in Authority!GrantStates,
             \/ Authority!CreateGrant(m) \/ Authority!ReviseGrant(m, state)
             \/ Authority!ReapproveGrant
      PROVE  SettingsInv' /\ Advances
  BY <1>5, GrantKeeps
<1> QED BY <1>1, <1>2, <1>3, <1>4, <1>5, ActivateKeeps, CeilingKeeps DEF Authority!Settings

LEMMA SettingsStay ==
    ASSUME SettingsInv, UNCHANGED Authority!owner PROVE SettingsInv' /\ Advances
<1>1. UNCHANGED <<connection, assignment, grants, reapprovals, ceiling, fenced, changes>>
  BY DEF Authority!owner
<1>2. SettingsInv'
  BY <1>1 DEF SettingsInv, RevisionsTyped, GrantsTyped, GrantBacked, Latest, Approved
<1>3. Advances
  BY <1>1, GrantsGrow DEF Advances, RevisionsAdvance, SettingsInv, RevisionsTyped,
                          ConnectionRow, AssignmentRow
<1> QED BY <1>2, <1>3

LEMMA SettingsInitInv == Authority!Init => SettingsInv
<1> SUFFICES ASSUME Authority!Init PROVE SettingsInv
  OBVIOUS
<1>1. RevisionsTyped
  <2>1. assignment \in AssignmentRow /\ assignment.revision = 1
    <3>1. ASSUME NEW M, NEW A \in SUBSET BOOLEAN, NEW R \in SUBSET Nat,
                 NEW row \in [manager : M, automatic : A, revision : R]
          PROVE  row \in [manager : M, automatic : BOOLEAN, revision : Nat] /\ row.revision \in R
      BY <3>1
    <3>2. assignment \in [manager : Authority!Managers, automatic : {FALSE}, revision : {1}]
      BY DEF Authority!Init
    <3>3. {FALSE} \in SUBSET BOOLEAN /\ {1} \in SUBSET Nat
      OBVIOUS
    <3>4. assignment \in [manager : Authority!Managers, automatic : BOOLEAN, revision : Nat]
          /\ assignment.revision \in {1}
      BY <3>1, <3>2, <3>3
    <3> QED BY <3>4 DEF AssignmentRow
  <2>2. /\ connection \in [Connections -> ConnectionRow]
        /\ \A k \in Connections : connection[k].revision = 1
    BY DEF Authority!Init, Authority!States, ConnectionRow
  <2>3. ceiling = 1 /\ changes = 0
    BY DEF Authority!Init
  <2> QED BY <2>1, <2>2, <2>3, ServicesAssumption DEF ServicesAssumption, RevisionsTyped, Counted
<1>2. grants = <<>> /\ grants \in Seq(GrantRow) /\ Len(grants) = 0
  BY EmptySeq DEF Authority!Init
<1>3. GrantsTyped /\ GrantBacked
  BY <1>2 DEF Authority!Init, GrantsTyped, GrantBacked
<1> QED BY <1>1, <1>3 DEF SettingsInv

-----------------------------------------------------------------------------
(* The tokens issued on that authority *)

Vectors == Nat \X Nat \X Nat \X Nat
AccessToken == [vector : Vectors, ended : BOOLEAN, presented : Nat]
FamilyRow == [revoked : BOOLEAN, expired : BOOLEAN, tokens : Seq(AccessToken)]
ConsentRow == [stage : {"none", "asked", "coded", "ended"}, vector : Vectors]

\* Every revision that a token names was reached.
Reached(v, now) == v[1] <= now[1] /\ v[2] <= now[2] /\ v[3] <= now[3] /\ v[4] <= now[4]

\* Two presentations of one refresh token end its family.
FamilySound(f, now) ==
    /\ Len(f.tokens) <= MaxGeneration
    /\ \A g \in 1..Len(f.tokens) :
          Reached(f.tokens[g].vector, now) /\ (f.tokens[g].presented > 1 => f.revoked = TRUE)

TokensInv ==
    /\ consent \in [Connections -> ConsentRow]
    /\ family \in [Connections -> FamilyRow]
    /\ \A k \in Connections : FamilySound(family[k], Authority!Vector(k))
    \* the owner lets a client in once
    /\ \A k \in Connections : consent[k].stage # "ended" => family[k].tokens = <<>>

\* A token keeps its revisions, and nothing that ended begins again.
Continues(before, after) ==
    /\ before.revoked = TRUE => after.revoked = TRUE
    /\ Len(before.tokens) <= Len(after.tokens)
    /\ \A g \in 1..Len(before.tokens) :
          /\ after.tokens[g].vector = before.tokens[g].vector
          /\ before.tokens[g].ended = TRUE => after.tokens[g].ended = TRUE

FamiliesContinue == \A k \in Connections : Continues(family[k], family'[k])

LEMMA VectorTyped ==
    ASSUME SettingsInv, NEW k \in Connections
    PROVE  /\ Authority!Vector(k) \in Vectors
           /\ Authority!Vector(k) = <<connection[k].revision, assignment.revision, Len(grants), ceiling>>
<1>1. /\ connection[k].revision \in Nat /\ assignment.revision \in Nat /\ ceiling \in Nat
      /\ Len(grants) \in Nat
  BY GrantFacts DEF SettingsInv, RevisionsTyped, ConnectionRow, AssignmentRow
<1> QED BY <1>1 DEF Authority!Vector, Vectors

LEMMA FamilyFacts ==
    ASSUME TokensInv, NEW k \in Connections
    PROVE  /\ family[k] \in FamilyRow /\ FamilySound(family[k], Authority!Vector(k))
           /\ family[k].tokens \in Seq(AccessToken) /\ Len(family[k].tokens) \in Nat
           /\ \A g \in 1..Len(family[k].tokens) : family[k].tokens[g] \in AccessToken
           /\ DOMAIN family[k].tokens = 1..Len(family[k].tokens)
<1>1. family[k] \in FamilyRow /\ FamilySound(family[k], Authority!Vector(k))
  BY DEF TokensInv
<1>2. family[k].tokens \in Seq(AccessToken)
  BY <1>1 DEF FamilyRow
<1> QED BY <1>1, <1>2, LenProperties, ElementOfSeq

LEMMA ContinuesItself == ASSUME NEW f, Len(f.tokens) \in Nat PROVE Continues(f, f)
BY DEF Continues

\* One family changes, while its owner changes nothing.
LEMMA FamilyStep ==
    ASSUME SettingsInv, TokensInv, NEW k \in Connections, NEW f \in FamilyRow, UNCHANGED Authority!owner,
           family' = [family EXCEPT ![k] = f], consent' \in [Connections -> ConsentRow],
           FamilySound(f, Authority!Vector(k)), Continues(family[k], f),
           \A c \in Connections : consent'[c].stage # "ended" => consent[c].stage # "ended",
           consent'[k].stage # "ended" => f.tokens = <<>>
    PROVE  TokensInv' /\ FamiliesContinue
<1>1. family \in [Connections -> FamilyRow]
  BY DEF TokensInv
<1>2. \A c \in Connections : family'[c] = IF c = k THEN f ELSE family[c]
  BY <1>1
<1>3. \A c \in Connections : Authority!Vector(c)' = Authority!Vector(c)
  BY DEF Authority!owner, Authority!Vector
<1>4. FamiliesContinue
  BY <1>2, FamilyFacts, ContinuesItself DEF FamiliesContinue
<1>5. \A c \in Connections : FamilySound(family'[c], Authority!Vector(c)')
  BY <1>2, <1>3, FamilyFacts
<1>6. \A c \in Connections : consent'[c].stage # "ended" => family'[c].tokens = <<>>
  BY <1>2 DEF TokensInv
<1>7. family' \in [Connections -> FamilyRow]
  BY <1>1
<1> QED BY <1>4, <1>5, <1>6, <1>7 DEF TokensInv

\* The request changes, and the family stays as it is.
LEMMA ConsentStep ==
    ASSUME SettingsInv, TokensInv, UNCHANGED <<Authority!owner, family>>,
           consent' \in [Connections -> ConsentRow],
           \A c \in Connections : consent'[c].stage # "ended" => consent[c].stage # "ended"
    PROVE  TokensInv' /\ FamiliesContinue
<1>1. \A c \in Connections : Authority!Vector(c)' = Authority!Vector(c)
  BY DEF Authority!owner, Authority!Vector
<1>2. FamiliesContinue
  BY FamilyFacts, ContinuesItself DEF FamiliesContinue
<1>3. \A c \in Connections : FamilySound(family'[c], Authority!Vector(c)')
  BY <1>1, FamilyFacts
<1> QED BY <1>2, <1>3 DEF TokensInv

LEMMA ConsentFacts ==
    ASSUME TokensInv, NEW k \in Connections, NEW stage \in {"asked", "coded", "ended"},
           NEW vector \in Vectors, Authority!Consent(k, stage, vector)
    PROVE  /\ consent' \in [Connections -> ConsentRow]
           /\ \A c \in Connections : consent'[c].stage = IF c = k THEN stage ELSE consent[c].stage
<1> DEFINE row == [stage |-> stage, vector |-> vector]
<1>1. row \in ConsentRow /\ row.stage = stage
  BY DEF ConsentRow
<1>2. consent' = [consent EXCEPT ![k] = row] /\ consent \in [Connections -> ConsentRow]
  BY DEF Authority!Consent, TokensInv
<1> HIDE DEF row
<1> QED BY <1>1, <1>2

LEMMA AskingKeeps ==
    ASSUME SettingsInv, TokensInv, NEW k \in Connections,
           Authority!BeginConsent(k) \/ Authority!ApproveConsent(k) \/ Authority!EndConsent(k)
    PROVE  TokensInv' /\ FamiliesContinue
<1>1. Authority!NoVector \in Vectors /\ Authority!Vector(k) \in Vectors
  BY VectorTyped DEF Authority!NoVector, Vectors
<1>2. /\ consent[k].stage \in {"none", "asked", "coded"} /\ UNCHANGED <<Authority!owner, family>>
      /\ \E stage \in {"asked", "coded", "ended"}, vector \in Vectors : Authority!Consent(k, stage, vector)
  BY <1>1 DEF Authority!BeginConsent, Authority!ApproveConsent, Authority!EndConsent
<1>3. /\ consent' \in [Connections -> ConsentRow]
      /\ \A c \in Connections : consent'[c].stage # "ended" => consent[c].stage # "ended"
  BY <1>2, ConsentFacts
<1> QED BY <1>2, <1>3, ConsentStep

LEMMA ReachedFacts ==
    ASSUME SettingsInv, NEW k \in Connections
    PROVE  Reached(Authority!Vector(k), Authority!Vector(k))
<1>1. Authority!Vector(k) \in Vectors
  BY VectorTyped
<1>2. \A v \in Vectors : v[1] \in Nat /\ v[2] \in Nat /\ v[3] \in Nat /\ v[4] \in Nat
  BY DEF Vectors
<1> QED BY <1>1, <1>2 DEF Reached

\* One more token, on the authority of now.
LEMMA IssueFacts ==
    ASSUME SettingsInv, NEW k \in Connections, NEW tokens \in Seq(AccessToken)
    PROVE  LET more == Authority!Issue(k, tokens)
           IN /\ more \in Seq(AccessToken) /\ Len(more) = Len(tokens) + 1
              /\ \A g \in 1..Len(tokens) : more[g] = tokens[g]
              /\ more[Len(more)].vector = Authority!Vector(k) /\ more[Len(more)].presented = 0
<1> DEFINE fresh == [vector |-> Authority!Vector(k), ended |-> FALSE, presented |-> 0]
<1>1. fresh \in AccessToken /\ fresh.vector = Authority!Vector(k) /\ fresh.presented = 0
  BY VectorTyped DEF AccessToken
<1>2. Authority!Issue(k, tokens) = Append(tokens, fresh)
  BY DEF Authority!Issue
<1> HIDE DEF fresh
<1>3. /\ Append(tokens, fresh) \in Seq(AccessToken) /\ Len(Append(tokens, fresh)) = Len(tokens) + 1
      /\ \A g \in 1..Len(tokens) : Append(tokens, fresh)[g] = tokens[g]
      /\ Append(tokens, fresh)[Len(tokens) + 1] = fresh
  BY <1>1, AppendProperties
<1> QED BY <1>1, <1>2, <1>3

LEMMA ExchangeKeeps ==
    ASSUME SettingsInv, TokensInv, NEW k \in Connections, Authority!ExchangeCode(k)
    PROVE  TokensInv' /\ FamiliesContinue
<1> DEFINE more == Authority!Issue(k, family[k].tokens)
           f == [family[k] EXCEPT !.tokens = more]
<1>1. /\ consent[k].stage = "coded" /\ UNCHANGED Authority!owner
      /\ Authority!Consent(k, "ended", Authority!NoVector)
      /\ family' = [family EXCEPT ![k] = f]
  BY DEF Authority!ExchangeCode
<1>2. family[k].tokens = <<>> /\ Len(family[k].tokens) = 0 /\ family[k].tokens \in Seq(AccessToken)
  BY <1>1, FamilyFacts, EmptySeq DEF TokensInv
<1>3. /\ more \in Seq(AccessToken) /\ Len(more) = 1 /\ more[1].vector = Authority!Vector(k)
      /\ more[1].presented = 0
  <2>1. /\ more \in Seq(AccessToken) /\ Len(more) = Len(family[k].tokens) + 1
        /\ more[Len(more)].vector = Authority!Vector(k) /\ more[Len(more)].presented = 0
    BY <1>2, IssueFacts
  <2> HIDE DEF more
  <2>2. Len(more) = 1
    BY <1>2, <2>1
  <2> QED BY <2>1, <2>2
<1>4. family[k] \in FamilyRow
  BY FamilyFacts
<1> HIDE DEF more
<1>5. f \in FamilyRow /\ f.tokens = more /\ f.revoked = family[k].revoked
  BY <1>3, <1>4 DEF FamilyRow
<1> HIDE DEF f
<1>6. FamilySound(f, Authority!Vector(k))
  <2>1. MaxGeneration >= 1 /\ Reached(Authority!Vector(k), Authority!Vector(k))
    BY ReachedFacts, ServicesAssumption DEF ServicesAssumption
  <2>2. Len(f.tokens) = 1 /\ f.tokens = more
    BY <1>3, <1>5
  <2>3. ASSUME NEW g \in 1..Len(f.tokens)
        PROVE  Reached(f.tokens[g].vector, Authority!Vector(k)) /\ f.tokens[g].presented = 0
    <3>1. g = 1
      BY <2>2
    <3> QED BY <1>3, <2>1, <2>2, <3>1
  <2> QED BY <2>1, <2>2, <2>3 DEF FamilySound
<1>7. Continues(family[k], f)
  BY <1>2, <1>3, <1>5 DEF Continues
<1>8. Authority!NoVector \in Vectors
  BY DEF Authority!NoVector, Vectors
<1>9. /\ consent' \in [Connections -> ConsentRow]
      /\ \A c \in Connections : consent'[c].stage = IF c = k THEN "ended" ELSE consent[c].stage
  BY <1>1, <1>8, ConsentFacts
<1> QED BY <1>1, <1>5, <1>6, <1>7, <1>9, FamilyStep

\* A family that is revoked, runs out or loses an access token.
LEMMA FamilyEndsKeeps ==
    ASSUME SettingsInv, TokensInv, NEW k \in Connections,
           Authority!RevokeFamily(k) \/ Authority!ExpireFamily(k)
    PROVE  TokensInv' /\ FamiliesContinue
<1>1. /\ family[k].tokens # <<>> /\ UNCHANGED <<Authority!owner, consent>>
      /\ \/ family' = [family EXCEPT ![k] = [family[k] EXCEPT !.revoked = TRUE]]
         \/ family' = [family EXCEPT ![k] = [family[k] EXCEPT !.expired = TRUE]]
  BY DEF Authority!RevokeFamily, Authority!ExpireFamily
<1>2. /\ family[k] \in FamilyRow /\ FamilySound(family[k], Authority!Vector(k))
      /\ Len(family[k].tokens) \in Nat
  BY FamilyFacts
<1>3. PICK f \in FamilyRow : /\ family' = [family EXCEPT ![k] = f] /\ f.tokens = family[k].tokens
                             /\ family[k].revoked = TRUE => f.revoked = TRUE
  <2> DEFINE a == [family[k] EXCEPT !.revoked = TRUE]
             b == [family[k] EXCEPT !.expired = TRUE]
  <2>1. a \in FamilyRow /\ a.tokens = family[k].tokens /\ a.revoked = TRUE
    BY <1>2 DEF FamilyRow
  <2>2. b \in FamilyRow /\ b.tokens = family[k].tokens /\ b.revoked = family[k].revoked
    BY <1>2 DEF FamilyRow
  <2>3. family' = [family EXCEPT ![k] = a] \/ family' = [family EXCEPT ![k] = b]
    BY <1>1
  <2> HIDE DEF a, b
  <2> QED BY <2>1, <2>2, <2>3
<1>4. FamilySound(f, Authority!Vector(k))
  BY <1>2, <1>3 DEF FamilySound
<1>6. Continues(family[k], f)
  BY <1>2, <1>3 DEF Continues
<1>5. consent' \in [Connections -> ConsentRow] /\ consent[k].stage = "ended"
  BY <1>1 DEF TokensInv
<1> QED BY <1>1, <1>3, <1>4, <1>5, <1>6, FamilyStep

LEMMA EndAccessKeeps ==
    ASSUME SettingsInv, TokensInv, NEW k \in Connections, NEW g \in DOMAIN family[k].tokens,
           Authority!EndAccess(k, g)
    PROVE  TokensInv' /\ FamiliesContinue
<1> DEFINE old == family[k].tokens
           over == [old[g] EXCEPT !.ended = TRUE]
           rest == [old EXCEPT ![g] = over]
           f == [family[k] EXCEPT !.tokens = rest]
<1>1. /\ UNCHANGED <<Authority!owner, consent>>
      /\ family' = [family EXCEPT ![k] = f]
  BY DEF Authority!EndAccess
<1>2. /\ family[k] \in FamilyRow /\ FamilySound(family[k], Authority!Vector(k))
      /\ old \in Seq(AccessToken) /\ Len(old) \in Nat /\ g \in 1..Len(old) /\ old[g] \in AccessToken
  BY FamilyFacts
<1>3. /\ over \in AccessToken /\ over.vector = old[g].vector /\ over.presented = old[g].presented
      /\ over.ended = TRUE
  BY <1>2 DEF AccessToken
<1> HIDE DEF over
<1>4. /\ rest \in Seq(AccessToken) /\ Len(rest) = Len(old)
      /\ \A h \in 1..Len(old) : rest[h] = IF h = g THEN over ELSE old[h]
  BY <1>2, <1>3, ExceptSeq
<1> HIDE DEF rest
<1>5. f \in FamilyRow /\ f.tokens = rest /\ f.revoked = family[k].revoked
  BY <1>2, <1>4 DEF FamilyRow
<1> HIDE DEF f
<1>6. FamilySound(f, Authority!Vector(k)) /\ Continues(family[k], f)
  BY <1>2, <1>3, <1>4, <1>5 DEF FamilySound, Continues
<1>7. consent' \in [Connections -> ConsentRow] /\ consent[k].stage = "ended"
  <2>1. old # <<>>
    BY <1>2, EmptySeq
  <2> QED BY <1>1, <2>1 DEF TokensInv
<1> QED BY <1>1, <1>5, <1>6, <1>7, FamilyStep

\* What a refresh makes of the tokens: one is presented, and perhaps one issued.
LEMMA RefreshKeeps ==
    ASSUME SettingsInv, TokensInv, NEW k \in Connections, NEW g \in DOMAIN family[k].tokens,
           Authority!Refresh(k, g)
    PROVE  TokensInv' /\ FamiliesContinue
<1> DEFINE old == family[k].tokens
           shown == [old[g] EXCEPT !.presented = old[g].presented + 1]
           presented == [old EXCEPT ![g] = shown]
           more == Authority!Issue(k, presented)
           ended == [family[k] EXCEPT !.revoked = TRUE, !.tokens = presented]
           spent == [family[k] EXCEPT !.tokens = presented]
           next == [family[k] EXCEPT !.tokens = more]
           after == IF Authority!Reused(k, g) \/ ~Authority!Current(k) THEN ended
                    ELSE IF family[k].expired THEN spent ELSE next
<1>1. /\ UNCHANGED <<Authority!owner, consent>> /\ Len(family'[k].tokens) <= MaxGeneration
      /\ family' = [family EXCEPT ![k] = after]
  BY DEF Authority!Refresh
<1>2. /\ family \in [Connections -> FamilyRow]
      /\ family[k] \in FamilyRow /\ FamilySound(family[k], Authority!Vector(k))
      /\ old \in Seq(AccessToken) /\ Len(old) \in Nat /\ g \in 1..Len(old) /\ old[g] \in AccessToken
  BY FamilyFacts DEF TokensInv
<1>3. /\ shown \in AccessToken /\ shown.vector = old[g].vector /\ shown.ended = old[g].ended
      /\ shown.presented = old[g].presented + 1 /\ old[g].presented \in Nat
  BY <1>2 DEF AccessToken
<1> HIDE DEF shown
<1>4. /\ presented \in Seq(AccessToken) /\ Len(presented) = Len(old)
      /\ \A h \in 1..Len(old) : presented[h] = IF h = g THEN shown ELSE old[h]
  BY <1>2, <1>3, ExceptSeq
<1> HIDE DEF presented
<1>5. /\ more \in Seq(AccessToken) /\ Len(more) = Len(old) + 1
      /\ \A h \in 1..Len(old) : more[h] = presented[h]
      /\ more[Len(old) + 1].vector = Authority!Vector(k) /\ more[Len(old) + 1].presented = 0
  <2>1. /\ more \in Seq(AccessToken) /\ Len(more) = Len(presented) + 1
        /\ \A h \in 1..Len(presented) : more[h] = presented[h]
        /\ more[Len(more)].vector = Authority!Vector(k) /\ more[Len(more)].presented = 0
    BY <1>4, IssueFacts
  <2> HIDE DEF more
  <2> QED BY <1>4, <2>1
<1> HIDE DEF more
<1>6. /\ ended \in FamilyRow /\ ended.tokens = presented /\ ended.revoked = TRUE
      /\ spent \in FamilyRow /\ spent.tokens = presented /\ spent.revoked = family[k].revoked
      /\ next \in FamilyRow /\ next.tokens = more /\ next.revoked = family[k].revoked
  BY <1>2, <1>4, <1>5 DEF FamilyRow
<1> HIDE DEF ended, spent, next
<1>7. after \in FamilyRow /\ Len(after.tokens) <= MaxGeneration
  <2>1. after \in FamilyRow
    BY <1>6
  <2>2. family'[k] = after
    BY <1>1, <1>2
  <2> QED BY <1>1, <2>1, <2>2
<1>8. \A h \in 1..Len(old) :
         /\ presented[h].vector = old[h].vector /\ presented[h].ended = old[h].ended
         /\ more[h].vector = old[h].vector /\ more[h].ended = old[h].ended
         /\ more[h].presented = presented[h].presented
  BY <1>3, <1>4, <1>5
<1>9. Continues(family[k], after)
  <2>1. Continues(family[k], ended)
    BY <1>2, <1>4, <1>6, <1>8 DEF Continues
  <2>2. Continues(family[k], spent)
    BY <1>2, <1>4, <1>6, <1>8 DEF Continues
  <2>3. Continues(family[k], next)
    BY <1>2, <1>5, <1>6, <1>8 DEF Continues
  <2> QED BY <2>1, <2>2, <2>3
<1>10. \A h \in 1..Len(old) :
          /\ Reached(presented[h].vector, Authority!Vector(k))
          /\ Reached(more[h].vector, Authority!Vector(k))
  BY <1>2, <1>8 DEF FamilySound
<1>11. Reached(Authority!Vector(k), Authority!Vector(k))
  BY ReachedFacts
<1>12. CASE Authority!Reused(k, g) \/ ~Authority!Current(k)
  <2>1. after = ended
    BY <1>12
  <2> HIDE DEF after
  <2>2. FamilySound(after, Authority!Vector(k))
    BY <1>4, <1>6, <1>7, <1>10, <2>1 DEF FamilySound
  <2>3. consent[k].stage = "ended"
    <3>1. old # <<>>
      BY <1>2, EmptySeq
    <3> QED BY <3>1 DEF TokensInv
  <2>4. consent' \in [Connections -> ConsentRow]
    BY <1>1 DEF TokensInv
  <2> QED BY <1>1, <1>7, <1>9, <2>2, <2>3, <2>4, FamilyStep
<1>13. CASE ~(Authority!Reused(k, g) \/ ~Authority!Current(k))
  <2>1. after = spent \/ after = next
    BY <1>13
  <2> HIDE DEF after
  <2>2. old[g].presented = 0
    BY <1>2, <1>3, <1>13 DEF Authority!Reused
  <2>3. ASSUME NEW h \in 1..Len(old)
        PROVE  presented[h].presented > 1 => family[k].revoked = TRUE
    <3>1. CASE h = g
      BY <1>3, <1>4, <2>2, <3>1
    <3>2. CASE h # g
      BY <1>2, <1>4, <3>2 DEF FamilySound
    <3> QED BY <3>1, <3>2
  <2>5. ASSUME NEW h \in 1..Len(more)
        PROVE  /\ Reached(more[h].vector, Authority!Vector(k))
               /\ more[h].presented > 1 => family[k].revoked = TRUE
    <3>1. h \in 1..Len(old) \/ h = Len(old) + 1
      BY <1>2, <1>5
    <3>2. CASE h \in 1..Len(old)
      BY <1>8, <1>10, <2>3, <3>2
    <3>3. CASE h = Len(old) + 1
      <4>1. more[h].vector = Authority!Vector(k) /\ ~(more[h].presented > 1)
        BY <1>5, <3>3
      <4> QED BY <1>11, <4>1
    <3> QED BY <3>1, <3>2, <3>3
  <2>6. FamilySound(after, Authority!Vector(k))
    <3>1. CASE after = spent
      BY <1>4, <1>6, <1>7, <1>10, <2>3, <3>1 DEF FamilySound
    <3>2. CASE after = next
      BY <1>6, <1>7, <2>5, <3>2 DEF FamilySound
    <3> QED BY <2>1, <3>1, <3>2
  <2>7. consent[k].stage = "ended"
    <3>1. old # <<>>
      BY <1>2, EmptySeq
    <3> QED BY <3>1 DEF TokensInv
  <2>8. consent' \in [Connections -> ConsentRow]
    BY <1>1 DEF TokensInv
  <2> QED BY <1>1, <1>7, <1>9, <2>6, <2>7, <2>8, FamilyStep
<1> QED BY <1>12, <1>13

LEMMA TokenStepKeeps ==
    ASSUME SettingsInv, TokensInv, Authority!Tokens
    PROVE  SettingsInv' /\ Advances /\ TokensInv' /\ FamiliesContinue
<1>1. PICK k \in Connections :
         \/ Authority!BeginConsent(k) \/ Authority!ApproveConsent(k) \/ Authority!EndConsent(k)
         \/ Authority!ExchangeCode(k)
         \/ \E g \in DOMAIN family[k].tokens : Authority!Refresh(k, g) \/ Authority!EndAccess(k, g)
         \/ Authority!RevokeFamily(k) \/ Authority!ExpireFamily(k)
  BY DEF Authority!Tokens
<1>2. TokensInv' /\ FamiliesContinue
  BY <1>1, AskingKeeps, ExchangeKeeps, RefreshKeeps, EndAccessKeeps, FamilyEndsKeeps
<1>3. UNCHANGED Authority!owner
  BY <1>1 DEF Authority!BeginConsent, Authority!ApproveConsent, Authority!EndConsent,
              Authority!ExchangeCode, Authority!Refresh, Authority!EndAccess,
              Authority!RevokeFamily, Authority!ExpireFamily
<1> QED BY <1>2, <1>3, SettingsStay

LEMMA ReachedGrows ==
    ASSUME SettingsInv, SettingsInv', Advances, NEW k \in Connections, NEW v \in Vectors,
           Reached(v, Authority!Vector(k))
    PROVE  Reached(v, Authority!Vector(k)')
<1>1. /\ v[1] \in Nat /\ v[2] \in Nat /\ v[3] \in Nat /\ v[4] \in Nat
  BY DEF Vectors
<1>2. /\ connection[k].revision \in Nat /\ assignment.revision \in Nat /\ ceiling \in Nat
      /\ Len(grants) \in Nat
  BY GrantFacts DEF SettingsInv, RevisionsTyped, ConnectionRow, AssignmentRow
<1>3. /\ connection'[k].revision \in Nat /\ assignment'.revision \in Nat /\ ceiling' \in Nat
      /\ Len(grants') \in Nat
  BY LenProperties DEF SettingsInv, RevisionsTyped, GrantsTyped, ConnectionRow, AssignmentRow
<1>4. /\ connection'[k].revision >= connection[k].revision
      /\ assignment'.revision >= assignment.revision
      /\ Len(grants') >= Len(grants) /\ ceiling' >= ceiling
  BY DEF Advances, RevisionsAdvance, GrantsAdvance
<1>5. /\ v[1] <= connection[k].revision /\ v[2] <= assignment.revision /\ v[3] <= Len(grants)
      /\ v[4] <= ceiling
  BY VectorTyped DEF Reached
<1>6. Authority!Vector(k)' = <<connection'[k].revision, assignment'.revision, Len(grants'), ceiling'>>
  BY DEF Authority!Vector
<1>7. /\ v[1] <= connection'[k].revision /\ v[2] <= assignment'.revision /\ v[3] <= Len(grants')
      /\ v[4] <= ceiling'
  <2>1. \A a, b, c \in Nat : a <= b /\ c >= b => a <= c
    OBVIOUS
  <2>2. v[1] <= connection'[k].revision
    BY <1>1, <1>2, <1>3, <1>4, <1>5, <2>1
  <2>3. v[2] <= assignment'.revision
    BY <1>1, <1>2, <1>3, <1>4, <1>5, <2>1
  <2>4. v[3] <= Len(grants')
    BY <1>1, <1>2, <1>3, <1>4, <1>5, <2>1
  <2>5. v[4] <= ceiling'
    BY <1>1, <1>2, <1>3, <1>4, <1>5, <2>1
  <2> QED BY <2>2, <2>3, <2>4, <2>5
<1> QED BY <1>6, <1>7 DEF Reached

\* The owner's settings change, and consents and families stay as they are.
LEMMA SettingsKeepTokens ==
    ASSUME SettingsInv, TokensInv, SettingsInv', Advances, UNCHANGED <<consent, family>>
    PROVE  TokensInv' /\ FamiliesContinue
<1>1. FamiliesContinue
  BY FamilyFacts, ContinuesItself DEF FamiliesContinue
<1>2. ASSUME NEW k \in Connections PROVE FamilySound(family'[k], Authority!Vector(k)')
  <2>1. /\ FamilySound(family[k], Authority!Vector(k))
        /\ \A g \in 1..Len(family[k].tokens) : family[k].tokens[g].vector \in Vectors
    BY FamilyFacts DEF AccessToken
  <2>2. \A g \in 1..Len(family[k].tokens) : Reached(family[k].tokens[g].vector, Authority!Vector(k)')
    BY <2>1, ReachedGrows DEF FamilySound
  <2> QED BY <2>1, <2>2 DEF FamilySound
<1> QED BY <1>1, <1>2 DEF TokensInv

AuthorityInv == SettingsInv /\ TokensInv

LEMMA AuthorityNextKeeps ==
    ASSUME AuthorityInv, [Authority!Next]_(Authority!vars)
    PROVE  AuthorityInv' /\ Advances /\ FamiliesContinue
<1> USE DEF AuthorityInv
<1>1. CASE Authority!Settings
  <2>1. UNCHANGED <<consent, family>>
    BY <1>1 DEF Authority!Settings, Authority!SetLifecycle, Authority!ReviseConnectionLifecycle,
                Authority!ReconnectSecurityRevoked, Authority!SetAssignment,
                Authority!ReviseAssignment, Authority!ReviseAssignmentAndFenceGrant,
                Authority!Assign, Authority!CreateGrant, Authority!ReviseGrant,
                Authority!ActivateAssistant, Authority!ReapproveGrant, Authority!ReviseCeiling
  <2>2. SettingsInv' /\ Advances
    BY <1>1, SettingsKeep
  <2> QED BY <2>1, <2>2, SettingsKeepTokens
<1>2. CASE Authority!Tokens
  BY <1>2, TokenStepKeeps
<1>3. CASE UNCHANGED Authority!vars
  <2>1. UNCHANGED <<Authority!owner, consent, family>>
    BY <1>3 DEF Authority!vars
  <2>2. SettingsInv' /\ Advances
    BY <2>1, SettingsStay
  <2> QED BY <2>1, <2>2, SettingsKeepTokens
<1> QED BY <1>1, <1>2, <1>3 DEF Authority!Next

LEMMA AuthorityInitInv == Authority!Init => AuthorityInv
<1> SUFFICES ASSUME Authority!Init PROVE AuthorityInv
  OBVIOUS
<1>1. <<>> \in Seq(AccessToken) /\ Len(<<>>) = 0
  BY EmptySeq
<1> DEFINE none == [stage |-> "none", vector |-> Authority!NoVector]
           f == [revoked |-> FALSE, expired |-> FALSE, tokens |-> <<>>]
<1>2. none \in ConsentRow /\ f \in FamilyRow /\ f.tokens = <<>>
  BY <1>1 DEF ConsentRow, FamilyRow, Vectors, Authority!NoVector
<1>3. consent = [k \in Connections |-> none] /\ family = [k \in Connections |-> f]
  BY DEF Authority!Init
<1> HIDE DEF none, f
<1>4. TokensInv
  <2>1. \A k \in Connections : family[k].tokens = <<>>
    BY <1>2, <1>3
  <2>2. \A k \in Connections : FamilySound(family[k], Authority!Vector(k))
    BY <1>1, <2>1, ServicesAssumption DEF ServicesAssumption, FamilySound
  <2> QED BY <1>2, <1>3, <2>1, <2>2 DEF TokensInv
<1> QED BY <1>4, SettingsInitInv DEF AuthorityInv

LEMMA AuthoritySuffices ==
    ASSUME AuthorityInv
    PROVE  Authority!TypeOK /\ Authority!AccessNeedsApproval /\ Authority!ReuseEndsFamily
<1> USE DEF AuthorityInv
<1>1. Authority!TypeOK
  <2>1. \A n \in Nat : Counted(n, changes) => n \in 1..(MaxRevisions + 1)
    BY ServicesAssumption DEF ServicesAssumption, SettingsInv, RevisionsTyped, Counted
  <2>2. /\ connection \in [Connections -> ConnectionRow]
        /\ \A k \in Connections : connection[k].revision \in 1..(MaxRevisions + 1)
        /\ assignment \in AssignmentRow /\ assignment.revision \in 1..(MaxRevisions + 1)
        /\ ceiling \in 1..(MaxRevisions + 1)
    BY <2>1 DEF SettingsInv, RevisionsTyped, ConnectionRow, AssignmentRow
  <2>3. connection \in [Connections -> [state : Authority!States, revision : 1..(MaxRevisions + 1)]]
    <3>1. \A k \in Connections :
             connection[k] \in [state : Authority!States, revision : 1..(MaxRevisions + 1)]
      BY <2>2 DEF ConnectionRow
    <3> QED BY <2>2, <3>1
  <2>4. assignment \in [manager : Authority!Managers, automatic : BOOLEAN,
                        revision : 1..(MaxRevisions + 1)]
    BY <2>2 DEF AssignmentRow
  <2>5. /\ grants \in Seq([manager : Authority!Holders, state : Authority!GrantStates])
        /\ reapprovals \subseteq DOMAIN grants
        /\ \A k \in Connections : fenced[k] <= Len(grants)
    BY GrantFacts, LenProperties DEF GrantRow
  <2>6. changes \in 0..MaxRevisions
    BY ServicesAssumption DEF ServicesAssumption, SettingsInv, RevisionsTyped
  <2>7. \A k \in Connections : /\ consent[k].stage \in {"none", "asked", "coded", "ended"}
                               /\ Len(family[k].tokens) <= MaxGeneration
    BY FamilyFacts DEF TokensInv, ConsentRow, FamilySound
  <2> QED BY <2>2, <2>3, <2>4, <2>5, <2>6, <2>7 DEF Authority!TypeOK
<1>2. Authority!AccessNeedsApproval
  <2> SUFFICES ASSUME NEW k \in Connections, Authority!Current(k)
               PROVE  /\ connection[k].state = "connected" /\ assignment.manager = k
                      /\ \E r \in reapprovals : r > fenced[k] /\ grants[r].manager = k
    BY DEF Authority!AccessNeedsApproval, Authority!Accepted
  <2>1. grants # <<>> /\ Latest = [manager |-> k, state |-> "active"]
    BY LastIsLatest DEF Authority!Current, Authority!Granted
  <2>2. Latest.manager = k /\ Latest.state = "active"
    BY <2>1
  <2> QED BY <2>1, <2>2 DEF Authority!Current, SettingsInv, GrantBacked, Approved
<1>3. Authority!ReuseEndsFamily
  BY FamilyFacts DEF FamilySound, Authority!ReuseEndsFamily, Authority!Accepted
<1> QED BY <1>1, <1>2, <1>3

\* What a token rests on, as long as its revisions are those of now.
LEMMA RefusalStands ==
    ASSUME AuthorityInv, AuthorityInv', Advances, FamiliesContinue, NEW k \in Connections,
           NEW g \in DOMAIN family[k].tokens, Authority!Accepted(k, g)'
    PROVE  Authority!Accepted(k, g)
<1> DEFINE before == family[k].tokens[g]
           after == family'[k].tokens[g]
<1>1. /\ Len(family[k].tokens) \in Nat /\ g \in 1..Len(family[k].tokens) /\ before \in AccessToken
      /\ family[k] \in FamilyRow /\ FamilySound(family[k], Authority!Vector(k))
  BY FamilyFacts DEF AuthorityInv
<1>2. Continues(family[k], family'[k])
  BY DEF FamiliesContinue
<1>3. /\ after.vector = before.vector /\ (before.ended = TRUE => after.ended = TRUE)
      /\ family[k].revoked = TRUE => family'[k].revoked = TRUE
  BY <1>1, <1>2 DEF Continues
<1>4. /\ ~after.ended /\ ~family'[k].revoked /\ Authority!Current(k)'
      /\ after.vector = Authority!Vector(k)'
  BY DEF Authority!Accepted
<1>5. ~before.ended /\ ~family[k].revoked
  BY <1>1, <1>3, <1>4 DEF AccessToken, FamilyRow
<1>6. /\ connection[k].revision \in Nat /\ assignment.revision \in Nat /\ ceiling \in Nat
      /\ Len(grants) \in Nat
      /\ connection'[k].revision \in Nat /\ assignment'.revision \in Nat /\ ceiling' \in Nat
      /\ Len(grants') \in Nat
  BY LenProperties DEF AuthorityInv, SettingsInv, RevisionsTyped, GrantsTyped, ConnectionRow, AssignmentRow
<1>7. /\ Authority!Vector(k) = <<connection[k].revision, assignment.revision, Len(grants), ceiling>>
      /\ Authority!Vector(k)' = <<connection'[k].revision, assignment'.revision, Len(grants'), ceiling'>>
  BY DEF Authority!Vector
<1>8. Reached(before.vector, Authority!Vector(k))
  BY <1>1 DEF FamilySound
<1>9. before.vector = <<connection'[k].revision, assignment'.revision, Len(grants'), ceiling'>>
  BY <1>3, <1>4, <1>7
<1>10. /\ connection'[k].revision <= connection[k].revision
       /\ assignment'.revision <= assignment.revision
       /\ Len(grants') <= Len(grants) /\ ceiling' <= ceiling
  BY <1>7, <1>8, <1>9 DEF Reached
<1>11. /\ connection'[k].revision >= connection[k].revision
       /\ assignment'.revision >= assignment.revision
       /\ Len(grants') >= Len(grants) /\ ceiling' >= ceiling
  BY DEF Advances, RevisionsAdvance, GrantsAdvance
<1>12. /\ connection'[k].revision = connection[k].revision
       /\ assignment'.revision = assignment.revision
       /\ Len(grants') = Len(grants) /\ ceiling' = ceiling
  BY <1>6, <1>10, <1>11
<1>13. connection'[k] = connection[k] /\ assignment' = assignment /\ grants' = grants
  BY <1>12 DEF Advances, RevisionsAdvance, GrantsAdvance
<1>14. Authority!Current(k)
  BY <1>4, <1>13 DEF Authority!Current, Authority!Granted, Authority!Last
<1>15. before.vector = Authority!Vector(k)
  BY <1>7, <1>9, <1>12
<1> QED BY <1>5, <1>14, <1>15 DEF Authority!Accepted


\* Old credentials, links, grants and refresh tokens open nothing any more: what
\* is accepted rests on the password, the approval and the revisions of now
\* (AuthService, the agent manager and grant stores, and OAuthService).
THEOREM AccessStaysCurrent == Access!Spec /\ Authority!Spec => []AccessIsCurrent
<1>1. AuthorityInv /\ [Authority!Next]_(Authority!vars) => AuthorityInv'
  BY AuthorityNextKeeps
<1>2. AuthorityInv => Authority!TypeOK /\ Authority!AccessNeedsApproval /\ Authority!ReuseEndsFamily
  BY AuthoritySuffices
<1>3. Authority!Spec => [](Authority!TypeOK /\ Authority!AccessNeedsApproval /\ Authority!ReuseEndsFamily)
  BY <1>1, <1>2, AuthorityInitInv, PTL DEF Authority!Spec
<1>4. ASSUME Access!TypeOK, Access!OldCredentialsAreDead, Authority!TypeOK,
             Authority!AccessNeedsApproval, Authority!ReuseEndsFamily
      PROVE  AccessIsCurrent
  BY <1>4 DEF AccessIsCurrent
<1> QED BY <1>3, <1>4, AccessStaysSound, PTL

\* An access token that was once refused stays refused, whatever the owner
\* reconnects, assigns or approves later: every such change has a revision that
\* the token does not name (verifyAccess() of apps/web/src/oauth/service.ts).
THEOREM RefusalIsFinal == Authority!Spec => RefusedStaysRefused
<1>1. AuthorityInv /\ [Authority!Next]_(Authority!vars) => AuthorityInv'
  BY AuthorityNextKeeps
<1> DEFINE Stands == \A k \in Connections : \A g \in DOMAIN family[k].tokens :
                        ~Authority!Accepted(k, g) => ~Authority!Accepted(k, g)'
<1>2. ASSUME AuthorityInv, [Authority!Next]_(Authority!vars) PROVE Stands
  <2>1. AuthorityInv' /\ Advances /\ FamiliesContinue
    BY <1>2, AuthorityNextKeeps
  <2> QED BY <1>2, <2>1, RefusalStands
<1>3. AuthorityInv /\ [Authority!Next]_(Authority!vars) => [Stands]_(Authority!vars)
  BY <1>2
<1>4. [][Stands]_(Authority!vars) => RefusedStaysRefused
  BY DEF RefusedStaysRefused, Authority!RefusedStaysRefused
<1> HIDE DEF Stands
<1> QED BY <1>1, <1>3, <1>4, AuthorityInitInv, PTL DEF Authority!Spec

-----------------------------------------------------------------------------
(* The history of an activity *)

LEMMA HistoryCounts == \A S : History!Cardinality(S) = Cardinality(S)
  BY DEF History!Cardinality, Cardinality

HistoryTyped ==
    /\ activity \in [state : History!ActivityStates, revision : Nat]
    /\ activity.revision <= MaxRevision
    /\ runs \in Seq(History!Runs) /\ Len(runs) <= MaxRuns
    /\ work \in [Actions -> History!Rows]
    /\ evidence \subseteq Actions
    /\ events \in Seq(History!Events) /\ Len(events) <= MaxEvents
    /\ memory \subseteq Actions \X (History!Failures \cup {"verified"})

EventsOf(a) == {i \in 1..Len(events) : events[i] = History!Event(a, TRUE)}
MemoriesOf(a) == {m \in memory : m[1] = a}
Remembered == {"verified", "failed", "unverifiable"}

\* What is verified has its evidence, one event written with it and one memory.
OnRecord(a) ==
    /\ work[a].state = "verified" <=> a \in evidence
    /\ IsFiniteSet(EventsOf(a)) /\ Cardinality(EventsOf(a)) = IF a \in evidence THEN 1 ELSE 0
    /\ MemoriesOf(a) = IF work[a].state \in Remembered THEN {<<a, work[a].state>>} ELSE {}

\* What is retried was given up before.
Follows(row) ==
    row.retryOf # NoAction =>
        /\ work[row.retryOf].state \in {"failed", "unverifiable"}
        /\ row.attempt = work[row.retryOf].attempt + 1

\* What the prior run must be for a continuation of it.
Continuable(prior, trigger) ==
    /\ prior.state = "completed"
    /\ \/ prior.outcome = "question_asked" /\ trigger = "question_answer"
       \/ prior.outcome = "failed" /\ trigger = "retry"

\* A run that continues another comes right after it.
Continued(i) ==
    runs[i].continues # 0 =>
        runs[i].continues = i - 1 /\ Continuable(runs[i - 1], runs[i].trigger)

RunsContinued == \A i \in 1..Len(runs) : Continued(i)
ActionsSound == \A a \in Actions : OnRecord(a) /\ Follows(work[a])

HistoryInv == HistoryTyped /\ RunsContinued /\ ActionsSound

LEMMA HistoryFacts ==
    ASSUME HistoryInv
    PROVE  /\ activity.state \in History!ActivityStates /\ activity.revision \in Nat
           /\ runs \in Seq(History!Runs) /\ Len(runs) \in Nat /\ Len(runs) <= MaxRuns
           /\ \A r \in 1..Len(runs) : runs[r] \in History!Runs
           /\ \A a \in Actions : work[a] \in History!Rows
           /\ events \in Seq(History!Events) /\ Len(events) \in Nat
           /\ MaxRuns \in Nat /\ MaxEvents \in Nat /\ MaxRevision \in Nat
BY LenProperties, ElementOfSeq, ServicesAssumption
   DEF ServicesAssumption, HistoryInv, HistoryTyped

LEMMA HistorySuffices == HistoryInv => HistoryAgrees
<1> SUFFICES ASSUME HistoryInv PROVE HistoryAgrees
  OBVIOUS
<1>1. History!TypeOK
  <2>1. activity \in [state : History!ActivityStates, revision : 0..MaxRevision]
    BY HistoryFacts DEF HistoryInv, HistoryTyped
  <2> QED BY <2>1 DEF HistoryInv, HistoryTyped, History!TypeOK
<1>2. History!VerifiedIsOnRecord
  <2> SUFFICES ASSUME NEW a \in Actions
               PROVE  /\ (work[a].state = "verified") = (a \in evidence)
                      /\ History!Cardinality(EventsOf(a)) = IF a \in evidence THEN 1 ELSE 0
                      /\ {m \in memory : m[1] = a} =
                            IF work[a].state \in {"verified", "failed", "unverifiable"}
                            THEN {<<a, work[a].state>>} ELSE {}
    BY DEF History!VerifiedIsOnRecord, EventsOf
  <2>1. OnRecord(a)
    BY DEF HistoryInv, ActionsSound
  <2>2. Cardinality(EventsOf(a)) = IF a \in evidence THEN 1 ELSE 0
    BY <2>1 DEF OnRecord
  <2>3. (work[a].state = "verified") = (a \in evidence)
    BY <2>1 DEF OnRecord
  <2>4. {m \in memory : m[1] = a} = IF work[a].state \in {"verified", "failed", "unverifiable"}
                                    THEN {<<a, work[a].state>>} ELSE {}
    BY <2>1 DEF OnRecord, MemoriesOf, Remembered
  <2> QED BY <2>2, <2>3, <2>4, HistoryCounts
<1>3. History!RetriesFollowFailure
  BY DEF HistoryInv, ActionsSound, Follows, History!RetriesFollowFailure
<1>4. History!ContinuedOnce
  BY DEF HistoryInv, RunsContinued, Continued, Continuable, History!ContinuedOnce
<1> QED BY <1>1, <1>2, <1>3, <1>4 DEF HistoryAgrees

LEMMA HistoryInitInv == History!Init => HistoryInv
<1> SUFFICES ASSUME History!Init PROVE HistoryInv
  OBVIOUS
<1> DEFINE none == [state |-> "none", retryOf |-> NoAction, attempt |-> 0]
<1>1. none \in History!Rows /\ none.state = "none" /\ none.retryOf = NoAction
  BY DEF History!Rows
<1>2. /\ work = [a \in Actions |-> none] /\ runs = <<>> /\ events = <<>> /\ evidence = {}
      /\ memory = {} /\ activity = [state |-> "none", revision |-> 0]
  BY DEF History!Init
<1> HIDE DEF none
<1>3. /\ runs \in Seq(History!Runs) /\ Len(runs) = 0
      /\ events \in Seq(History!Events) /\ Len(events) = 0
  BY <1>2, EmptySeq
<1>4. HistoryTyped
  BY <1>1, <1>2, <1>3, ServicesAssumption
     DEF ServicesAssumption, HistoryTyped, History!ActivityStates
<1>5. RunsContinued
  BY <1>3 DEF RunsContinued
<1>6. ASSUME NEW a \in Actions PROVE OnRecord(a) /\ Follows(work[a])
  <2>1. work[a] = none
    BY <1>2
  <2>2. EventsOf(a) = {}
    BY <1>3 DEF EventsOf
  <2>3. IsFiniteSet(EventsOf(a)) /\ Cardinality(EventsOf(a)) = 0
    BY <2>2, FS_EmptySet
  <2>4. MemoriesOf(a) = {}
    BY <1>2 DEF MemoriesOf
  <2> QED BY <1>1, <1>2, <2>1, <2>3, <2>4 DEF OnRecord, Follows, Remembered
<1> QED BY <1>4, <1>5, <1>6 DEF HistoryInv, ActionsSound

-----------------------------------------------------------------------------
(* The steps of the activity and its runs *)

LEMMA RecordStays ==
    ASSUME HistoryInv, UNCHANGED <<work, evidence, events, memory>> PROVE ActionsSound'
<1>1. \A a \in Actions : OnRecord(a) /\ Follows(work[a])
  BY DEF HistoryInv, ActionsSound
<1>2. \A a \in Actions : EventsOf(a)' = EventsOf(a) /\ MemoriesOf(a)' = MemoriesOf(a)
  BY DEF EventsOf, MemoriesOf
<1>3. ASSUME NEW a \in Actions PROVE OnRecord(a)'
  BY <1>1, <1>2 DEF OnRecord
<1>4. ASSUME NEW a \in Actions PROVE Follows(work[a])'
  BY <1>1 DEF Follows
<1> QED BY <1>3, <1>4 DEF ActionsSound

LEMMA ActivityKeeps ==
    ASSUME HistoryInv, UNCHANGED <<runs, work, evidence, events, memory>>,
           activity' \in [state : History!ActivityStates, revision : Nat],
           activity'.revision <= MaxRevision
    PROVE  HistoryInv'
<1>1. HistoryTyped' /\ RunsContinued'
  BY DEF HistoryInv, HistoryTyped, RunsContinued, Continued
<1>2. ActionsSound'
  BY RecordStays
<1> QED BY <1>1, <1>2 DEF HistoryInv

LEMMA ActivityStepKeeps ==
    ASSUME HistoryInv, History!CreateActivity \/ History!TransitionActivity PROVE HistoryInv'
<1>1. /\ UNCHANGED <<runs, work, evidence, events, memory>>
      /\ activity' \in [state : History!ActivityStates, revision : Nat]
      /\ activity'.revision <= MaxRevision
  <2>1. CASE History!CreateActivity
    BY <2>1, ServicesAssumption DEF ServicesAssumption, History!CreateActivity, History!ActivityStates
  <2>2. CASE History!TransitionActivity
    <3>1. PICK to \in History!Lawful(activity.state) :
             activity' = [state |-> to, revision |-> activity.revision + 1]
      BY <2>2, Zenon DEF History!TransitionActivity
    <3>2. to \in History!ActivityStates
      BY <3>1 DEF History!Lawful, History!ActivityStates
    <3>3. activity.revision \in Nat /\ activity.revision < MaxRevision /\ MaxRevision \in Nat
      BY <2>2, HistoryFacts DEF History!TransitionActivity
    <3> QED BY <2>2, <3>1, <3>2, <3>3 DEF History!TransitionActivity
  <2> QED BY <2>1, <2>2
<1> QED BY <1>1, ActivityKeeps

LEMMA RunsKeep ==
    ASSUME HistoryInv, UNCHANGED <<activity, work, evidence, events, memory>>,
           runs' \in Seq(History!Runs), Len(runs') <= MaxRuns, RunsContinued'
    PROVE  HistoryInv'
<1>1. HistoryTyped'
  BY DEF HistoryInv, HistoryTyped
<1>2. ActionsSound'
  BY RecordStays
<1> QED BY <1>1, <1>2 DEF HistoryInv

LEMMA InsertRunKeeps ==
    ASSUME HistoryInv, NEW trigger \in History!Triggers, NEW prior \in Nat,
           History!InsertRun(trigger, prior),
           prior # 0 => prior = Len(runs) /\ Continuable(runs[prior], trigger)
    PROVE  HistoryInv'
<1> DEFINE run == [state |-> "created", outcome |-> "none", trigger |-> trigger,
                   continues |-> prior]
<1>1. /\ UNCHANGED <<activity, work, evidence, events, memory>> /\ Len(runs) < MaxRuns
      /\ runs' = Append(runs, run)
  BY DEF History!InsertRun
<1>2. run \in History!Runs /\ run.trigger = trigger /\ run.continues = prior
  BY DEF History!Runs
<1> HIDE DEF run
<1>3. runs \in Seq(History!Runs) /\ Len(runs) \in Nat /\ MaxRuns \in Nat
  BY HistoryFacts
<1>4. /\ runs' \in Seq(History!Runs) /\ Len(runs') = Len(runs) + 1
      /\ \A i \in 1..Len(runs) : runs'[i] = runs[i]
      /\ runs'[Len(runs) + 1] = run
  BY <1>1, <1>2, <1>3, AppendProperties
<1>5. Len(runs') <= MaxRuns
  BY <1>1, <1>3, <1>4
<1>6. ASSUME NEW i \in 1..Len(runs') PROVE Continued(i)'
  <2>1. CASE i \in 1..Len(runs)
    <3>1. Continued(i) /\ runs'[i] = runs[i]
      BY <1>4, <2>1 DEF HistoryInv, RunsContinued
    <3>2. i > 1 => runs'[i - 1] = runs[i - 1]
      BY <1>3, <1>4, <2>1
    <3>3. runs[i].continues = i - 1 /\ runs[i].continues # 0 => i > 1
      BY <1>3, <2>1
    <3> QED BY <3>1, <3>2, <3>3 DEF Continued
  <2>2. CASE i = Len(runs) + 1
    <3>1. runs'[i].trigger = trigger /\ runs'[i].continues = prior
      BY <1>2, <1>4, <2>2
    <3>2. prior # 0 => prior = i - 1 /\ runs'[i - 1] = runs[prior]
      BY <1>3, <1>4, <2>2
    <3> QED BY <3>1, <3>2 DEF Continued
  <2> QED BY <1>3, <1>4, <2>1, <2>2
<1> QED BY <1>1, <1>4, <1>5, <1>6, RunsKeep DEF RunsContinued

LEMMA SetRunKeeps ==
    ASSUME HistoryInv, NEW r \in 1..Len(runs), NEW to \in {"running", "completed"},
           NEW outcome \in History!Outcomes \cup {"none"}, runs[r].state # "completed",
           History!SetRun(r, to, outcome)
    PROVE  HistoryInv'
<1> DEFINE a == [runs[r] EXCEPT !.state = to]
           run == [a EXCEPT !.outcome = outcome]
<1>1. runs \in Seq(History!Runs) /\ runs[r] \in History!Runs /\ Len(runs) \in Nat /\ Len(runs) <= MaxRuns
  BY HistoryFacts
<1>2. /\ run \in History!Runs /\ run.trigger = runs[r].trigger
      /\ run.continues = runs[r].continues
  BY <1>1 DEF History!Runs
<1>3. UNCHANGED <<activity, work, evidence, events, memory>> /\ runs' = [runs EXCEPT ![r] = run]
  BY <1>1 DEF History!SetRun
<1> HIDE DEF a, run
<1>4. /\ runs' \in Seq(History!Runs) /\ Len(runs') = Len(runs)
      /\ \A i \in 1..Len(runs) : runs'[i] = IF i = r THEN run ELSE runs[i]
  BY <1>1, <1>2, <1>3, ExceptSeq
<1>5. ASSUME NEW i \in 1..Len(runs') PROVE Continued(i)'
  <2>1. /\ Continued(i) /\ runs'[i].trigger = runs[i].trigger
        /\ runs'[i].continues = runs[i].continues
    BY <1>2, <1>4 DEF HistoryInv, RunsContinued
  <2>2. CASE runs[i].continues = 0
    BY <2>1, <2>2 DEF Continued
  <2>3. CASE runs[i].continues # 0
    <3>1. i - 1 # 0 /\ runs[i - 1].state = "completed"
      BY <2>1, <2>3 DEF Continued, Continuable
    <3>2. i - 1 \in 1..Len(runs) /\ i - 1 # r
      BY <1>1, <1>4, <3>1
    <3>3. runs'[i - 1] = runs[i - 1]
      BY <1>4, <3>2
    <3> QED BY <2>1, <3>1, <3>3 DEF Continued
  <2> QED BY <2>2, <2>3
<1> QED BY <1>1, <1>3, <1>4, <1>5, RunsKeep DEF RunsContinued

LEMMA RunStepKeeps ==
    ASSUME HistoryInv,
           \/ History!CreateRun
           \/ \E r \in 1..Len(runs) :
                 History!CreateContinuation(r) \/ History!StartRun(r) \/ History!CompleteRun(r)
    PROVE  HistoryInv'
<1>1. CASE History!CreateRun
  BY <1>1, InsertRunKeeps DEF History!CreateRun, History!Triggers
<1>2. ASSUME NEW r \in 1..Len(runs), History!CreateContinuation(r) PROVE HistoryInv'
  <2>1. r = Len(runs) /\ runs[r].state = "completed" /\ r \in Nat
    BY <1>2, HistoryFacts DEF History!CreateContinuation, History!Continues
  <2>2. PICK trigger \in {"question_answer", "retry"} :
           History!InsertRun(trigger, r) /\ Continuable(runs[r], trigger)
    BY <1>2, <2>1 DEF History!CreateContinuation, Continuable
  <2>3. trigger \in History!Triggers
    BY DEF History!Triggers
  <2> QED BY <2>1, <2>2, <2>3, InsertRunKeeps
<1>3. ASSUME NEW r \in 1..Len(runs), History!StartRun(r) PROVE HistoryInv'
  BY <1>3, SetRunKeeps DEF History!StartRun
<1>4. ASSUME NEW r \in 1..Len(runs), History!CompleteRun(r) PROVE HistoryInv'
  BY <1>4, SetRunKeeps DEF History!CompleteRun
<1> QED BY <1>1, <1>2, <1>3, <1>4

-----------------------------------------------------------------------------
(* The steps of an action *)

\* An action moves that was not given up; its own row and its records are
\* looked at by each step, all others stay as they are.
LEMMA ActionStep ==
    ASSUME HistoryInv, NEW a \in Actions, NEW row \in History!Rows,
           work' = [work EXCEPT ![a] = row], UNCHANGED <<activity, runs>>,
           work[a].state \notin {"failed", "unverifiable"},
           Follows(row),
           evidence' \subseteq Actions, \A b \in Actions \ {a} : b \in evidence' <=> b \in evidence,
           events' \in Seq(History!Events), Len(events') <= MaxEvents,
           \A b \in Actions \ {a} : EventsOf(b)' = EventsOf(b),
           memory' \subseteq Actions \X (History!Failures \cup {"verified"}),
           \A b \in Actions \ {a} : MemoriesOf(b)' = MemoriesOf(b),
           OnRecord(a)'
    PROVE  HistoryInv'
<1>1. work \in [Actions -> History!Rows]
  BY DEF HistoryInv, HistoryTyped
<1>2. \A b \in Actions : work'[b] = IF b = a THEN row ELSE work[b]
  BY <1>1
<1>3. HistoryTyped'
  BY <1>1 DEF HistoryInv, HistoryTyped
<1>4. RunsContinued'
  BY DEF HistoryInv, RunsContinued, Continued
<1>5. ASSUME NEW b \in Actions PROVE OnRecord(b)'
  <2>1. CASE b = a
    BY <2>1
  <2>2. CASE b # a
    BY <1>2, <2>2 DEF HistoryInv, ActionsSound, OnRecord
  <2> QED BY <2>1, <2>2
<1>6. ASSUME NEW b \in Actions PROVE Follows(work[b])'
  <2>1. \A c \in Actions \ {a} : work'[c] = work[c]
    BY <1>2
  <2>2. work'[b].retryOf # NoAction =>
           /\ work'[b].retryOf \in Actions \ {a}
           /\ work[work'[b].retryOf].state \in {"failed", "unverifiable"}
           /\ work'[b].attempt = work[work'[b].retryOf].attempt + 1
    <3>1. work'[b] \in History!Rows /\ Follows(work'[b])
      BY <1>1, <1>2 DEF HistoryInv, ActionsSound
    <3> QED BY <3>1 DEF Follows, History!Rows
  <2> QED BY <2>1, <2>2 DEF Follows
<1> QED BY <1>3, <1>4, <1>5, <1>6 DEF HistoryInv, ActionsSound

LEMMA InsertKeeps ==
    ASSUME HistoryInv, NEW a \in Actions, NEW prior \in Actions \cup {NoAction}, NEW n \in Nat,
           History!Insert(a, prior, n),
           prior = NoAction \/ (work[prior].state \in {"failed", "unverifiable"}
                                /\ n = work[prior].attempt + 1)
    PROVE  HistoryInv'
<1> DEFINE row == [state |-> "authorized", retryOf |-> prior, attempt |-> n]
<1>1. /\ work[a].state = "none" /\ work' = [work EXCEPT ![a] = row]
      /\ UNCHANGED <<activity, runs, evidence, events, memory>>
  BY DEF History!Insert
<1>2. /\ row \in History!Rows /\ row.state = "authorized" /\ Follows(row)
  BY DEF History!Rows, History!Open, Follows
<1> HIDE DEF row
<1>3. /\ evidence \subseteq Actions /\ events \in Seq(History!Events)
      /\ Len(events) <= MaxEvents /\ memory \subseteq Actions \X (History!Failures \cup {"verified"})
      /\ work \in [Actions -> History!Rows]
  BY DEF HistoryInv, HistoryTyped
<1>4. \A b \in Actions : EventsOf(b)' = EventsOf(b) /\ MemoriesOf(b)' = MemoriesOf(b)
  BY <1>1 DEF EventsOf, MemoriesOf
<1>5. OnRecord(a)'
  <2>1. OnRecord(a)
    BY DEF HistoryInv, ActionsSound
  <2>2. work'[a].state = "authorized"
    BY <1>1, <1>2, <1>3
  <2> QED BY <1>1, <1>4, <2>1, <2>2 DEF OnRecord, Remembered
<1> QED BY <1>1, <1>2, <1>3, <1>4, <1>5, ActionStep

\* The row of an action with its new state.
LEMMA SetFacts ==
    ASSUME HistoryInv, NEW a \in Actions,
           NEW to \in History!Open \cup History!Failures \cup {"verified"}, History!SetAction(a, to)
    PROVE  /\ \E row \in History!Rows : work' = [work EXCEPT ![a] = row] /\ Follows(row)
           /\ work'[a].state = to /\ UNCHANGED <<activity, runs>>
<1> DEFINE row == [work[a] EXCEPT !.state = to]
<1>1. /\ work' = [work EXCEPT ![a] = row] /\ UNCHANGED <<activity, runs>>
      /\ work \in [Actions -> History!Rows] /\ work[a] \in History!Rows /\ Follows(work[a])
  BY DEF History!SetAction, HistoryInv, HistoryTyped, ActionsSound
<1>2. /\ row \in History!Rows /\ row.state = to /\ row.retryOf = work[a].retryOf
      /\ row.attempt = work[a].attempt
  BY <1>1 DEF History!Rows
<1> HIDE DEF row
<1>3. Follows(row)
  BY <1>1, <1>2 DEF Follows
<1> QED BY <1>1, <1>2, <1>3

\* The action goes on, and nothing is recorded.
LEMMA MovesKeeps ==
    ASSUME HistoryInv, NEW a \in Actions, work[a].state \in History!Open,
           NEW to \in {"executing", "verifying", "cancelled"}, History!SetAction(a, to),
           UNCHANGED <<evidence, events, memory>>
    PROVE  HistoryInv'
<1>1. to \in History!Open \cup History!Failures \cup {"verified"}
  BY DEF History!Open, History!Failures
<1>2. PICK row \in History!Rows : work' = [work EXCEPT ![a] = row] /\ Follows(row)
  BY <1>1, SetFacts
<1>3. work'[a].state = to /\ UNCHANGED <<activity, runs>>
  BY <1>1, SetFacts
<1>4. /\ evidence \subseteq Actions /\ events \in Seq(History!Events)
      /\ Len(events) <= MaxEvents /\ memory \subseteq Actions \X (History!Failures \cup {"verified"})
  BY DEF HistoryInv, HistoryTyped
<1>5. \A b \in Actions : EventsOf(b)' = EventsOf(b) /\ MemoriesOf(b)' = MemoriesOf(b)
  BY DEF EventsOf, MemoriesOf
<1>6. work[a].state \notin {"verified", "failed", "unverifiable"}
  BY DEF History!Open
<1>7. OnRecord(a)'
  BY <1>3, <1>5, <1>6 DEF HistoryInv, ActionsSound, OnRecord, Remembered
<1> QED BY <1>2, <1>3, <1>4, <1>5, <1>6, <1>7, ActionStep

\* Whom the memories are of when one is added.
LEMMA Memorized ==
    ASSUME HistoryInv, NEW a \in Actions, NEW to, memory' = memory \cup {<<a, to>>},
           MemoriesOf(a) = {}
    PROVE  /\ MemoriesOf(a)' = {<<a, to>>}
           /\ \A b \in Actions \ {a} : MemoriesOf(b)' = MemoriesOf(b)
<1>1. \A m : m \in memory' <=> m \in memory \/ m = <<a, to>>
  OBVIOUS
<1>2. MemoriesOf(a)' = {<<a, to>>}
  BY <1>1 DEF MemoriesOf
<1>3. ASSUME NEW b \in Actions \ {a} PROVE MemoriesOf(b)' = MemoriesOf(b)
  BY <1>1 DEF MemoriesOf
<1> QED BY <1>2, <1>3

LEMMA FailKeeps == ASSUME HistoryInv, NEW a \in Actions, History!FailAction(a) PROVE HistoryInv'
<1>1. PICK to \in History!Failures :
         /\ History!SetAction(a, to)
         /\ memory' = IF to = "cancelled" THEN memory ELSE memory \cup {<<a, to>>}
  BY DEF History!FailAction
<1>2. work[a].state \in History!Open /\ UNCHANGED <<evidence, events>>
  BY DEF History!FailAction
<1>3. CASE to = "cancelled"
  BY <1>1, <1>2, <1>3, MovesKeeps
<1>4. CASE to # "cancelled"
  <2>1. to \in History!Open \cup History!Failures \cup {"verified"} /\ to \in Remembered
        /\ to # "verified"
    BY <1>4 DEF Remembered, History!Failures
  <2>2. PICK row \in History!Rows : work' = [work EXCEPT ![a] = row] /\ Follows(row)
    BY <1>1, <2>1, SetFacts
  <2>3. work'[a].state = to /\ UNCHANGED <<activity, runs>>
    BY <1>1, <2>1, SetFacts
  <2>4. work[a].state \notin {"verified", "failed", "unverifiable"}
    BY <1>2 DEF History!Open
  <2>5. OnRecord(a)
    BY DEF HistoryInv, ActionsSound
  <2>6. MemoriesOf(a) = {} /\ a \notin evidence
    BY <2>4, <2>5 DEF OnRecord, Remembered
  <2>7. memory' = memory \cup {<<a, to>>}
    BY <1>1, <1>4
  <2>8. /\ MemoriesOf(a)' = {<<a, to>>}
        /\ \A b \in Actions \ {a} : MemoriesOf(b)' = MemoriesOf(b)
    BY <2>6, <2>7, Memorized
  <2>9. \A b \in Actions : EventsOf(b)' = EventsOf(b)
    BY <1>2 DEF EventsOf
  <2>10. OnRecord(a)'
    BY <1>2, <2>1, <2>3, <2>5, <2>6, <2>8, <2>9 DEF OnRecord
  <2>11. /\ evidence \subseteq Actions /\ events \in Seq(History!Events)
         /\ Len(events) <= MaxEvents
         /\ memory' \subseteq Actions \X (History!Failures \cup {"verified"})
    BY <2>7 DEF HistoryInv, HistoryTyped
  <2> QED BY <1>2, <2>2, <2>3, <2>4, <2>8, <2>9, <2>10, <2>11, ActionStep
<1> QED BY <1>3, <1>4

\* The events of each action when one is appended.
LEMMA Appended ==
    ASSUME HistoryInv, NEW of \in Actions \cup {NoAction}, NEW proven \in BOOLEAN,
           events' = Append(events, History!Event(of, proven)), Len(events) < MaxEvents
    PROVE  /\ events' \in Seq(History!Events) /\ Len(events') <= MaxEvents
           /\ \A b \in Actions :
                 EventsOf(b)' = IF proven /\ b = of THEN EventsOf(b) \cup {Len(events) + 1}
                                ELSE EventsOf(b)
           /\ Len(events) + 1 \notin EventsOf(of)
<1> DEFINE e == History!Event(of, proven)
<1>7. e \in History!Events /\ \A b \in Actions : e = History!Event(b, TRUE) <=> proven /\ b = of
  BY DEF History!Event, History!Events
<1> HIDE DEF e
<1>1. events \in Seq(History!Events) /\ Len(events) \in Nat /\ MaxEvents \in Nat
  BY HistoryFacts
<1>2. /\ events' \in Seq(History!Events) /\ Len(events') = Len(events) + 1
      /\ \A i \in 1..Len(events) : events'[i] = events[i]
      /\ events'[Len(events) + 1] = e
  BY <1>1, <1>7, AppendProperties DEF e
<1>3. Len(events') <= MaxEvents
  BY <1>1, <1>2
<1>4. 1..Len(events') = 1..Len(events) \cup {Len(events) + 1}
      /\ Len(events) + 1 \notin 1..Len(events)
  BY <1>1, <1>2
<1>5. ASSUME NEW b \in Actions
      PROVE  EventsOf(b)' = IF proven /\ b = of THEN EventsOf(b) \cup {Len(events) + 1}
                            ELSE EventsOf(b)
  <2> DEFINE mark == History!Event(b, TRUE)
  <2>1. e = mark <=> proven /\ b = of
    BY <1>7
  <2> HIDE DEF mark
  <2>2. EventsOf(b) = {i \in 1..Len(events) : events[i] = mark}
        /\ EventsOf(b)' = {i \in 1..Len(events') : events'[i] = mark}
    BY DEF EventsOf, mark, History!Event
  <2> QED BY <1>2, <1>4, <2>1, <2>2
<1>6. Len(events) + 1 \notin EventsOf(of)
  BY <1>4 DEF EventsOf
<1> QED BY <1>2, <1>3, <1>5, <1>6

LEMMA VerifyKeeps == ASSUME HistoryInv, NEW a \in Actions, History!VerifyAction(a) PROVE HistoryInv'
<1>1. /\ work[a].state = "verifying" /\ Len(events) < MaxEvents /\ History!SetAction(a, "verified")
      /\ evidence' = evidence \cup {a} /\ events' = Append(events, History!Event(a, TRUE))
      /\ memory' = memory \cup {<<a, "verified">>}
  BY DEF History!VerifyAction, History!Verifiable
<1>2. PICK row \in History!Rows : work' = [work EXCEPT ![a] = row] /\ Follows(row)
  BY <1>1, SetFacts
<1>3. work'[a].state = "verified" /\ UNCHANGED <<activity, runs>>
  BY <1>1, SetFacts
<1>4. OnRecord(a)
  BY DEF HistoryInv, ActionsSound
<1>5. /\ MemoriesOf(a) = {} /\ a \notin evidence /\ IsFiniteSet(EventsOf(a))
      /\ Cardinality(EventsOf(a)) = 0
  BY <1>1, <1>4 DEF OnRecord, Remembered
<1>6. /\ MemoriesOf(a)' = {<<a, "verified">>}
      /\ \A b \in Actions \ {a} : MemoriesOf(b)' = MemoriesOf(b)
  BY <1>1, <1>5, Memorized
<1>7. /\ events' \in Seq(History!Events) /\ Len(events') <= MaxEvents
      /\ \A b \in Actions \ {a} : EventsOf(b)' = EventsOf(b)
      /\ Len(events) + 1 \notin EventsOf(a) /\ EventsOf(a)' = EventsOf(a) \cup {Len(events) + 1}
  BY <1>1, Appended
<1>8. IsFiniteSet(EventsOf(a)') /\ Cardinality(EventsOf(a)') = 1
  <2>1. IsFiniteSet(EventsOf(a)') /\ Cardinality(EventsOf(a)') = Cardinality(EventsOf(a)) + 1
    BY <1>5, <1>7, FS_AddElement
  <2> QED BY <1>5, <2>1
<1>9. OnRecord(a)'
  BY <1>1, <1>3, <1>6, <1>8 DEF OnRecord, Remembered
<1>10. /\ evidence' \subseteq Actions
       /\ memory' \subseteq Actions \X (History!Failures \cup {"verified"})
  BY <1>1 DEF HistoryInv, HistoryTyped
<1> QED BY <1>1, <1>2, <1>3, <1>6, <1>7, <1>9, <1>10, ActionStep

LEMMA AppendKeeps == ASSUME HistoryInv, History!AppendEvent PROVE HistoryInv'
<1>1. /\ UNCHANGED <<activity, runs, work, evidence, memory>> /\ Len(events) < MaxEvents
  BY DEF History!AppendEvent
<1>2. PICK of \in Actions \cup {NoAction} : events' = Append(events, History!Event(of, FALSE))
  BY DEF History!AppendEvent
<1>3. /\ events' \in Seq(History!Events) /\ Len(events') <= MaxEvents
      /\ \A a \in Actions : EventsOf(a)' = EventsOf(a)
  BY <1>1, <1>2, Appended
<1>4. HistoryTyped' /\ RunsContinued'
  BY <1>1, <1>3 DEF HistoryInv, HistoryTyped, RunsContinued, Continued
<1>5. ASSUME NEW a \in Actions PROVE OnRecord(a)' /\ Follows(work[a])'
  <2>1. OnRecord(a) /\ Follows(work[a])
    BY DEF HistoryInv, ActionsSound
  <2>2. MemoriesOf(a)' = MemoriesOf(a)
    BY <1>1 DEF MemoriesOf
  <2>3. OnRecord(a)'
    BY <1>1, <1>3, <2>1, <2>2 DEF OnRecord
  <2>4. Follows(work[a])'
    BY <1>1, <2>1 DEF Follows
  <2> QED BY <2>3, <2>4
<1> QED BY <1>4, <1>5 DEF HistoryInv, ActionsSound

LEMMA HistoryNextKeeps == ASSUME HistoryInv, [History!Next]_(History!vars) PROVE HistoryInv'
<1>1. ASSUME NEW a \in Actions, History!AuthorizeAction(a) PROVE HistoryInv'
  BY <1>1, InsertKeeps DEF History!AuthorizeAction
<1>2. ASSUME NEW a \in Actions, NEW prior \in Actions, History!RetryAction(a, prior) PROVE HistoryInv'
  <2>1. work[prior].attempt + 1 \in Nat
    BY HistoryFacts DEF History!Rows
  <2> QED BY <1>2, <2>1, InsertKeeps DEF History!RetryAction, History!MayRetry
<1>3. ASSUME NEW a \in Actions, History!StartAction(a) \/ History!ReportAction(a) PROVE HistoryInv'
  <2>1. work[a].state \in History!Open /\ UNCHANGED <<evidence, events, memory>>
        /\ \E to \in {"executing", "verifying", "cancelled"} : History!SetAction(a, to)
    BY <1>3 DEF History!StartAction, History!ReportAction, History!Open
  <2> QED BY <2>1, MovesKeeps
<1>4. CASE UNCHANGED History!vars
  <2>1. UNCHANGED <<activity, runs, work, evidence, events, memory>>
    BY <1>4 DEF History!vars
  <2>2. HistoryTyped' /\ RunsContinued'
    BY <2>1 DEF HistoryInv, HistoryTyped, RunsContinued, Continued
  <2> QED BY <2>1, <2>2, RecordStays DEF HistoryInv
<1> QED BY <1>1, <1>2, <1>3, <1>4, ActivityStepKeeps, RunStepKeeps, VerifyKeeps, FailKeeps, AppendKeeps
        DEF History!Next

\* The records of runs, actions, evidence, events and memories agree, however
\* callers race and repeat themselves, whatever runs and events they write beside
\* them, for any activity (AgentWorkStore of packages/db/src/agent-work-store.ts).
THEOREM HistoryStaysAgreed == History!Spec => []HistoryAgrees
<1>1. HistoryInv /\ [History!Next]_(History!vars) => HistoryInv'
  BY HistoryNextKeeps
<1> QED BY <1>1, HistorySuffices, HistoryInitInv, PTL DEF History!Spec
=============================================================================

-------------------------- MODULE OwnerObservations --------------------------
(***************************************************************************)
(* How what the owner says reaches the observations that models are given: *)
(* MailboxOwnerMemoryInputs (apps/worker/src/mailbox-memory-inputs.ts)     *)
(* goes, before a model is asked, through the owner's statements in the    *)
(* order of their acceptance (packages/db/src/conversation-store.ts), adds *)
(* each to its thread and has the thread observed at once                  *)
(* (MastraSourceHistory of packages/agent/src/index.ts), under a lock of   *)
(* the owner that is held by a session of the database.                    *)
(*                                                                         *)
(* A statement is stamped when its transaction begins and is seen when it  *)
(* commits.  Moments are counted by these.  The gate that waits for events *)
(* of the mailbox is in Conversations and AgentWork; observing a thread is *)
(* outside src/ and takes what was saved there since it was last observed. *)
(***************************************************************************)
EXTENDS Naturals, Sequences, FiniteSetsExt

CONSTANTS
    MaxSources,    \* bound: statements, numbered as they are begun
    Thread,        \* the thread of each
    Preparers,     \* evaluations and turns that prepare a model's input
    PageSize,      \* statements in a page
    MaxLosses      \* bound: sessions that the database ends while they hold the lock

VARIABLES
    source,        \* statements: [state, created, said]
    moment,
    saved,         \* messages of the threads: "absent", "new" or "old", that is observed
    observed,      \* history: what was observed at a time, in the order of the times
    lock,          \* who holds the advisory lock of the owner
    prep,          \* preparers
    losses

vars == <<source, moment, saved, observed, lock, prep, losses>>

Nobody == "nobody"
Sources == 1..MaxSources
\* What is left of the page that was read, whether that was full, and its last.
Outside(stage, cutoff, due) ==
    [stage |-> stage, cutoff |-> cutoff, due |-> due, page |-> {}, full |-> FALSE, cursor |-> 0,
     lost |-> FALSE]

Init ==
    /\ source = [s \in Sources |-> [state |-> "unsaid", created |-> 0, said |-> 0]]
    /\ moment = 0
    /\ saved = [s \in Sources |-> "absent"]
    /\ observed = <<>>
    /\ lock = Nobody
    /\ prep = [p \in Preparers |-> Outside("idle", 0, {})]
    /\ losses = 0

-----------------------------------------------------------------------------
(* The owner *)

Tick == moment' = moment + 1

Say(s) ==
    /\ source[s].state = "unsaid" /\ \A t \in 1..(s - 1) : source[t].state # "unsaid"
    /\ Tick
    /\ source' = [source EXCEPT ![s] = [state |-> "open", created |-> moment + 1, said |-> 0]]
    /\ UNCHANGED <<saved, observed, lock, prep, losses>>

Commit(s) ==
    /\ source[s].state = "open"
    /\ Tick
    /\ source' = [source EXCEPT ![s] =
           [state |-> "said", created |-> source[s].created, said |-> moment + 1]]
    /\ UNCHANGED <<saved, observed, lock, prep, losses>>

Said == {s \in Sources : source[s].state = "said"}

-----------------------------------------------------------------------------
(* Preparing *)

At(p, stage) == prep[p].stage = stage
Go(p, stage) == prep' = [prep EXCEPT ![p].stage = stage]
Current(p) == Min(prep[p].page)

\* The claim of a turn or the start of a run is the cutoff; the lock may take long.
Begin(p) ==
    /\ prep[p].stage \in {"idle", "deferred", "done"}
    /\ prep' = [prep EXCEPT ![p] = Outside("waiting", moment, Said)]
    /\ UNCHANGED <<source, moment, saved, observed, lock, losses>>

\* A deferred run is run again under its first cutoff.
Deferred(p) == Outside("deferred", prep[p].cutoff, prep[p].due)

Resume(p) ==
    /\ At(p, "deferred")
    /\ Go(p, "waiting")
    /\ UNCHANGED <<source, moment, saved, observed, lock, losses>>

Lock(p) ==
    /\ At(p, "waiting") /\ lock = Nobody
    /\ lock' = p
    /\ Go(p, "reading")
    /\ UNCHANGED <<source, moment, saved, observed, losses>>

\* readOwnerSources(): what follows the cursor and is not after the cutoff.
Accepted(p) ==
    {s \in Said : s > prep[p].cursor /\ source[s].created <= prep[p].cutoff}

FirstPage(p) == {s \in Accepted(p) : Cardinality({t \in Accepted(p) : t < s}) < PageSize}

ReadPage(p) ==
    /\ At(p, "reading")
    /\ prep' = [prep EXCEPT ![p] =
           [@ EXCEPT !.page = FirstPage(p), !.full = Cardinality(FirstPage(p)) = PageSize,
                     !.cursor = IF FirstPage(p) = {} THEN prep[p].cursor ELSE Max(FirstPage(p)),
                     !.stage = "appending"]]
    /\ UNCHANGED <<source, moment, saved, observed, lock, losses>>

\* append(): a message that is there is not saved again, which would make it new.
Add(p) ==
    /\ At(p, "appending") /\ prep[p].page # {}
    /\ Go(p, IF saved[Current(p)] = "absent" THEN "saving" ELSE "observing")
    /\ UNCHANGED <<source, moment, saved, observed, lock, losses>>

Save(p) ==
    /\ At(p, "saving")
    /\ saved' = [saved EXCEPT ![Current(p)] = "new"]
    /\ Go(p, "observing")
    /\ UNCHANGED <<source, moment, observed, lock, losses>>

\* observe(): everything new in the thread.
Observe(p) ==
    LET fresh == {s \in Sources : Thread[s] = Thread[Current(p)] /\ saved[s] = "new"}
    IN /\ At(p, "observing")
       /\ observed' = IF fresh = {} THEN observed ELSE Append(observed, fresh)
       /\ saved' = [s \in Sources |-> IF s \in fresh THEN "old" ELSE saved[s]]
       /\ prep' = [prep EXCEPT ![p] =
              [@ EXCEPT !.stage = "appending", !.page = prep[p].page \ {Current(p)}]]
       /\ UNCHANGED <<source, moment, lock, losses>>

Unlock(p) == lock' = IF lock = p THEN Nobody ELSE lock

\* A page that is not full is the last.
NextPage(p) ==
    /\ At(p, "appending") /\ prep[p].page = {} /\ prep[p].full
    /\ Go(p, "reading")
    /\ UNCHANGED <<source, moment, saved, observed, lock, losses>>

\* To unlock through a session that was lost is an error.
Finish(p) ==
    /\ At(p, "appending") /\ prep[p].page = {} /\ ~prep[p].full
    /\ Unlock(p)
    /\ prep' = [prep EXCEPT ![p] =
           IF prep[p].lost THEN Deferred(p) ELSE Outside("done", 0, prep[p].due)]
    /\ UNCHANGED <<source, moment, saved, observed, losses>>

\* Any error, or the death of the worker.
Fail(p) ==
    /\ prep[p].stage \notin {"idle", "deferred", "done"}
    /\ Unlock(p)
    /\ prep' = [prep EXCEPT ![p] = Deferred(p)]
    /\ UNCHANGED <<source, moment, saved, observed, losses>>

\* The database ends the session; the preparer learns of it when it unlocks.
LoseSession(p) ==
    /\ losses < MaxLosses /\ lock = p
    /\ losses' = losses + 1
    /\ lock' = Nobody
    /\ prep' = [prep EXCEPT ![p].lost = TRUE]
    /\ UNCHANGED <<source, moment, saved, observed>>

Next ==
    \/ \E s \in Sources : Say(s) \/ Commit(s)
    \/ \E p \in Preparers :
          \/ Begin(p) \/ Resume(p) \/ Lock(p) \/ ReadPage(p) \/ Add(p) \/ Save(p) \/ Observe(p)
          \/ NextPage(p) \/ Finish(p) \/ Fail(p) \/ LoseSession(p)

Spec == Init /\ [][Next]_vars

-----------------------------------------------------------------------------
(* Properties *)

TypeOK ==
    /\ \A s \in Sources : source[s].state \in {"unsaid", "open", "said"}
    /\ saved \in [Sources -> {"absent", "new", "old"}]
    /\ lock \in Preparers \cup {Nobody}
    /\ \A p \in Preparers : prep[p].cutoff <= moment

\* What the owner said knowing of an earlier statement is observed after it, or
\* with it and in their order, and nothing is observed again: corrections stand
\* ("later corrections in other threads must be applied later", mailbox-memory-inputs.ts:42).
CorrectionsComeLater ==
    \A i, j \in DOMAIN observed : i < j =>
        \A s \in observed[i], t \in observed[j] : s # t /\ source[t].said >= source[s].created

\* A model is asked only when everything said before has been observed.
PreparedIsComplete ==
    \A p \in Preparers : At(p, "done") => prep[p].due \subseteq UNION Range(observed)
=============================================================================

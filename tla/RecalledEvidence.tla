-------------------------- MODULE RecalledEvidence --------------------------
(***************************************************************************)
(* What the evaluation of a mail is told from memory:                      *)
(* boundedMailboxMemoryEvidence() of packages/agent/src/index.ts, which    *)
(* goes through what the memory service recalled, decides who speaks in    *)
(* each entry, and keeps whole entries up to a number and a length.        *)
(*                                                                         *)
(* An entry is a piece of a mail or of an event of the mailbox.  Its       *)
(* context was written by Hypermail when it was retained; its envelope is  *)
(* what its text reads as, which in a mail the sender chooses.             *)
(***************************************************************************)
EXTENDS Naturals, Sequences, SequencesExt

CONSTANTS
    Entries,       \* [id, context, envelope, byOwner, length]
    MaxRecalled,   \* bound: entries of one answer
    MaxEntries,    \* MAILBOX_MEMORY_MAX_ENTRIES
    MaxLength      \* MAILBOX_MEMORY_MAX_CONTEXT_CHARS

VARIABLES
    recalled,      \* the answer of the memory service
    reached,       \* the entry the loop is at
    kept,          \* result: indices of recalled, with their provenance
    length         \* serializedLength

vars == <<recalled, reached, kept, length>>

\* MAILBOX_EVENT_PROVENANCE, by examples.
Classification(kind) ==
    CASE kind \in {"action_approved", "question_answered"} -> "user"
      [] kind \in {"mailbox_action_verified"} -> "technical"
      [] kind \in {"draft_created", "draft_edited"} -> "draft"
      [] OTHER -> "none"

Answers == UNION {[1..n -> Entries] : n \in 0..MaxRecalled}

Init ==
    /\ recalled \in Answers
    /\ reached = 1
    /\ kept = <<>>
    /\ length = 2

\* The kind of event an entry is, if its context agrees with its envelope.
Type(entry) ==
    IF Classification(entry.envelope) # "none" /\ entry.context = entry.envelope
    THEN entry.envelope ELSE "none"

Provenance(entry) ==
    LET class == Classification(Type(entry))
    IN IF class = "user" \/ (class = "draft" /\ entry.byOwner) THEN "user"
       ELSE IF class \in {"technical", "draft"} THEN "technical"
       ELSE "mail"

Entry == recalled[reached]
Separator == IF kept = <<>> THEN 0 ELSE 1
Known == \E i \in DOMAIN kept : recalled[kept[i].at].id = Entry.id
TooLong == length + Entry.length + Separator > MaxLength
Going == reached <= Len(recalled) /\ Len(kept) < MaxEntries

Keep ==
    /\ Going /\ ~Known /\ ~TooLong
    /\ kept' = Append(kept, [at |-> reached, provenance |-> Provenance(Entry)])
    /\ length' = length + Entry.length + Separator
    /\ reached' = reached + 1
    /\ UNCHANGED recalled

\* A later, shorter entry may still have room.
PassOver ==
    /\ Going /\ (Known \/ TooLong)
    /\ reached' = reached + 1
    /\ UNCHANGED <<recalled, kept, length>>

Next == Keep \/ PassOver

Spec == Init /\ [][Next]_vars

-----------------------------------------------------------------------------
(* Properties *)

TypeOK ==
    /\ reached \in 1..(Len(recalled) + 1)
    /\ Len(kept) <= MaxEntries
    /\ \A i \in DOMAIN kept : kept[i].at \in 1..(reached - 1)

\* Only what the owner did speaks as the owner: a mail never does, whatever its
\* text imitates, nor an event whose text came in a piece that cannot be read.
OwnerSpeaks ==
    \A i \in DOMAIN kept :
        LET entry == recalled[kept[i].at]
        IN kept[i].provenance = "user" =>
              \/ Classification(entry.context) = "user"
              \/ Classification(entry.context) = "draft" /\ entry.byOwner

\* What is kept is within its length and tells nothing twice; what is left out
\* is known already or would not fit even now.
KeptIsEnough ==
    ~Going =>
        LET ids == {recalled[kept[i].at].id : i \in DOMAIN kept}
        IN /\ length <= MaxLength
           /\ \A i, j \in DOMAIN kept : recalled[kept[i].at].id = recalled[kept[j].at].id => i = j
           /\ Len(kept) < MaxEntries =>
                 \A i \in DOMAIN recalled :
                    \/ recalled[i].id \in ids
                    \/ length + recalled[i].length + Separator > MaxLength

\* The length that is counted is that of the brackets, the entries and what is
\* between them.
LengthIsWhole ==
    kept # <<>> =>
        length = FoldLeft(LAMBDA sum, k : sum + recalled[k.at].length + 1, 1, kept)
=============================================================================

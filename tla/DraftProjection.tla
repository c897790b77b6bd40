--------------------------- MODULE DraftProjection ---------------------------
(***************************************************************************)
(* What the memory learns of a draft: the bounded evidence that            *)
(* packages/db/src/draft-memory-projection.ts makes of its fields, with    *)
(* mailboxMemoryTextEvidence() of mailbox-memory-event-store.ts.           *)
(*                                                                         *)
(* A character is what it weighs: its bytes in UTF-8, which the limits of  *)
(* a text are about, and its bytes in JSON, which the limit of the whole   *)
(* is about and which escapes make larger.  The recipients are one         *)
(* number, the bytes that all fields but the two texts take.               *)
(***************************************************************************)
EXTENDS Integers, Sequences, SequencesExt, FiniteSetsExt

CONSTANTS
    SubjectTexts, BodyTexts,  \* texts, sequences of [bytes, encoded], both positive
    Fixed,         \* what the other fields of a draft take
    SubjectLimit, BodyLimit, ProjectionLimit

VARIABLES
    draft,         \* the canonical fields
    projection,    \* the texts as they will be kept
    stage,         \* the text that is being fitted; "start"; "kept" or "refused"
    low, high,     \* what is left of the binary search
    best           \* result in fitEvidence()

vars == <<draft, projection, stage, low, high, best>>

DraftTexts == {"body", "subject"}
Plus(c, d) == c + d
Bytes(text) == FoldLeft(Plus, 0, [i \in DOMAIN text |-> text[i].bytes])

\* utf8Prefix(): a character is kept whole or not at all.
Prefix(text, limit) ==
    SubSeq(text, 1, Max({n \in 0..Len(text) : Bytes(SubSeq(text, 1, n)) <= limit}))

\* mailboxMemoryTextEvidence()
TextEvidence(text, limit) ==
    [text |-> Prefix(text, limit), truncated |-> Prefix(text, limit) # text]

EvidencePrefixUntold(evidence, limit) ==   \* a fault: does not tell that it cut
    [text |-> Prefix(evidence.text, limit), truncated |-> evidence.truncated]

\* evidencePrefix()
EvidencePrefix(evidence, limit) ==
    [text |-> Prefix(evidence.text, limit),
     truncated |-> evidence.truncated \/ Prefix(evidence.text, limit) # evidence.text]

\* encodedBytes(): "false" is a byte longer than "true".
EncodedText(evidence) ==
    FoldLeft(Plus, IF evidence.truncated THEN 0 ELSE 1,
             [i \in DOMAIN evidence.text |-> evidence.text[i].encoded])
Encoded(p) == draft.fixed + EncodedText(p.subject) + EncodedText(p.body)
Fits(p) == Encoded(p) <= ProjectionLimit

Candidate(key, limit) == [projection EXCEPT ![key] = EvidencePrefix(@, limit)]

Drafts == [subject : SubjectTexts, body : BodyTexts, fixed : Fixed]

Init ==
    /\ draft \in Drafts
    /\ projection = [subject |-> TextEvidence(draft.subject, SubjectLimit),
                     body |-> TextEvidence(draft.body, BodyLimit)]
    /\ stage = "start"
    /\ low = 0 /\ high = 0
    /\ best = projection

\* fitEvidence() begins.
Fit(key) ==
    /\ ~Fits(projection)
    /\ stage' = key
    /\ low' = 0 /\ high' = Bytes(projection[key].text)
    /\ best' = Candidate(key, 0)
    /\ UNCHANGED <<draft, projection>>

Probe ==
    LET middle == (low + high) \div 2
        candidate == Candidate(stage, middle)
    IN /\ stage \in DraftTexts /\ low <= high
       /\ IF Fits(candidate)
          THEN best' = candidate /\ low' = middle + 1 /\ UNCHANGED high
          ELSE high' = middle - 1 /\ UNCHANGED <<best, low>>
       /\ UNCHANGED <<draft, projection, stage>>

\* draftMemoryProjection(): the body gives way first, then the subject.
Fitted ==
    /\ stage \in DraftTexts /\ low > high
    /\ projection' = best
    /\ stage' = IF stage = "body" THEN "bodyFitted" ELSE "subjectFitted"
    /\ UNCHANGED <<draft, low, high, best>>

Conclude ==
    /\ stage \in {"start", "bodyFitted", "subjectFitted"}
    /\ Fits(projection) \/ stage = "subjectFitted"
    /\ stage' = IF Fits(projection) THEN "kept" ELSE "refused"
    /\ UNCHANGED <<draft, projection, low, high, best>>

Next ==
    \/ stage = "start" /\ Fit("body")
    \/ stage = "bodyFitted" /\ Fit("subject")
    \/ Probe \/ Fitted \/ Conclude

-----------------------------------------------------------------------------
(* Properties *)

TypeOK ==
    /\ draft \in Drafts
    /\ stage \in DraftTexts \cup {"start", "bodyFitted", "subjectFitted", "kept", "refused"}
    /\ low \in Nat /\ high \in Int

\* What is kept of a text is a beginning of it, and says whether it is all.
KeptIsTrue ==
    \A key \in DraftTexts :
        /\ IsPrefix(projection[key].text, draft[key])
        /\ projection[key].truncated <=> projection[key].text # draft[key]

\* A projection that is kept fits its budget, and could hold no character more
\* of the body beside the subject it began with, nor any of the subject unless
\* the body is gone: the binary search over bytes, which may fall inside a
\* character, finds the longest beginnings.
KeptIsLongest ==
    stage = "kept" =>
        LET whole == TextEvidence(draft.subject, SubjectLimit)
            Longer(key, bound) ==
                {e \in {TextEvidence(draft[key], l) : l \in 0..bound} :
                    Len(e.text) > Len(projection[key].text)}
        IN /\ Fits(projection)
           /\ \A e \in Longer("body", BodyLimit) : ~Fits([subject |-> whole, body |-> e])
           /\ \A e \in Longer("subject", SubjectLimit) :
                 projection.body.text = <<>> /\ ~Fits([projection EXCEPT !.subject = e])
=============================================================================

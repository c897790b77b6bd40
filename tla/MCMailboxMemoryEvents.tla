---------------------- MODULE MCMailboxMemoryEvents ----------------------
(* Instances of MailboxMemoryEvents for TLC. *)
EXTENDS MailboxMemoryEvents, TLC

CONSTANTS mail, w1, w2
\* An email with one attachment: two documents.
MCEvents == {mail}
MCParts == mail :> 2
MCWorkers == {w1, w2}
OneWorker == {w1}
==========================================================================

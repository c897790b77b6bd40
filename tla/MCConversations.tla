------------------------- MODULE MCConversations --------------------------
(* Instances of Conversations for TLC: a message to a mailbox and one to    *)
(* the global conversation, or two global ones, of which the second can be  *)
(* committed before the first.                                              *)
EXTENDS Conversations, TLC

CONSTANTS r1, r2, m1, c1, c2
MCRequests == {r1, r2}
MCMailboxes == {m1}
MCConsumers == {c1, c2}
MCScopes == {(r1 :> m1) @@ (r2 :> Global), (r1 :> Global) @@ (r2 :> Global)}
============================================================================

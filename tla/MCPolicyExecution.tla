------------------------ MODULE MCPolicyExecution ------------------------
(* Model values and small instances of PolicyExecution for TLC. *)
EXTENDS PolicyExecution, TLC

CONSTANTS a1, a2, m1, v1, e1, e2

\* One action of any folder, flag or new-draft kind, raced by two executors.
OneAccountOf == a1 :> m1
OneActivityOf == a1 :> v1
AnyKindOf == a1 :> {"archive", "mark_read", "draft_create"}

\* Two archives of one mailbox share its safety window.
TwoAccountOf == a1 :> m1 @@ a2 :> m1
TwoActivityOf == a1 :> v1 @@ a2 :> v1
TwoArchives == a1 :> {"archive"} @@ a2 :> {"archive"}

JustArchive == a1 :> {"archive"}
JustDraftEdit == a1 :> {"draft_edit"}

ExecutorSymmetry == Permutations(Executors)
============================================================================

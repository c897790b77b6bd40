----------------------------- MODULE OwnerAccess -----------------------------
(***************************************************************************)
(* The owner's own way in, as the checks and the proofs of the services    *)
(* around it take it: Access with names that are free beside theirs.       *)
(***************************************************************************)
EXTENDS Naturals

CONSTANTS
    Logins,           \* identities of the owner's sessions
    AccessRequests,   \* sign-ins, re-authentications and rotations
    Recoveries,       \* recovery tokens, each with its mail
    MailSchedulers,   \* schedulers of recovery mail
    MaxMailAttempts,  \* claims of one recovery mail
    MaxPasswords,     \* bound: passwords set
    MaxMishaps        \* bound: failed deliveries, crashes, claims that run out

ASSUME AccessAssumption ==
    MaxMailAttempts \in Nat /\ MaxPasswords \in Nat /\ MaxMishaps \in Nat

VARIABLES password, login, entering, token, mail, scheduler, handed, mishaps

access == <<password, login, entering, token, mail, scheduler, handed, mishaps>>

Access == INSTANCE Access
          WITH Sessions <- Logins, Requests <- AccessRequests, Schedulers <- MailSchedulers,
               MaxAttempts <- MaxMailAttempts, MaxChanges <- MaxPasswords,
               MaxFaults <- MaxMishaps,
               session <- login, request <- entering, faults <- mishaps
=============================================================================

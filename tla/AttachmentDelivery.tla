-------------------------- MODULE AttachmentDelivery --------------------------
(***************************************************************************)
(* The download of an attachment: Hypermail writes it to a file of the     *)
(* shared directory, the web process opens that file and pipes it to the   *)
(* client, under a lease of the tenant's session, and removes the file and *)
(* gives the lease back afterwards (packages/hypermail/src/attachments.ts, *)
(* apps/web/src/attachments, streamResponse of apps/web/src/server.ts).    *)
(*                                                                         *)
(* What identifies the file is left out: nobody else exchanges it here.    *)
(* The pool of sessions is TenantSessions.                                 *)
(***************************************************************************)
EXTENDS Naturals, FiniteSets

CONSTANTS Downloads, MaxDeaths       \* MaxDeaths: a bound

VARIABLES
    up,        \* the web process accepts requests
    download,  \* what the process knows of each
    file,      \* what Hypermail wrote for it
    deaths

vars == <<up, download, file, deaths>>

Stages == {"idle", "asked", "fetching", "checking", "opening", "sending", "cleaning",
           "releasing", "over"}
Pending == Stages \ {"idle", "over"}

Init ==
    /\ up = TRUE
    /\ download = [d \in Downloads |-> [stage |-> "idle", client |-> "there", lease |-> FALSE,
                                        heard |-> FALSE, sent |-> FALSE]]
    /\ file = [d \in Downloads |-> "none"]
    /\ deaths = 0

Become(d, next) == download' = [download EXCEPT ![d] = next]
At(d, stage) == download[d].stage = stage
Move(d, stage) == Become(d, [download[d] EXCEPT !.stage = stage])

-----------------------------------------------------------------------------

\* Refused by the routes or the service, or the rows of the scope are looked up.
Ask(d) ==
    /\ up /\ At(d, "idle")
    /\ Move(d, "over") \/ Move(d, "asked")
    /\ UNCHANGED <<up, file, deaths>>

\* No such attachment, no session to lease, or a lease.
Lease(d) ==
    /\ At(d, "asked")
    /\ \/ Move(d, "over")
       \/ Become(d, [download[d] EXCEPT !.stage = "fetching", !.lease = TRUE])
    /\ UNCHANGED <<up, file, deaths>>

\* read_attachment answers a path, or fails, also after the file was written.
Fetch(d) ==
    /\ At(d, "fetching")
    /\ \/ Move(d, "releasing") /\ UNCHANGED file
       \/ /\ Move(d, "releasing") \/ Move(d, "checking")
          /\ file' = [file EXCEPT ![d] = "kept"]
    /\ UNCHANGED <<up, deaths>>

\* AttachmentStream.open(): the one look at the signal.
Check(d) ==
    /\ At(d, "checking")
    /\ Move(d, IF download[d].client = "gone" THEN "releasing" ELSE "opening")
    /\ UNCHANGED <<up, file, deaths>>

\* The file cannot be opened; is too large and removed, if it can be; or is
\* sent, by a response that listens for the client from now on.
Open(d) ==
    /\ At(d, "opening")
    /\ \/ Move(d, "releasing") /\ UNCHANGED file
       \/ Move(d, "releasing") /\ file' = [file EXCEPT ![d] = "removed"]
       \/ /\ Become(d, [download[d] EXCEPT !.stage = "sending", !.sent = TRUE,
                                           !.heard = download[d].client = "there"])
          /\ UNCHANGED file
    /\ UNCHANGED <<up, deaths>>

\* The last byte is sent, one too many is read, or reading fails.
Finish(d) ==
    /\ At(d, "sending") /\ download[d].client = "there"
    /\ Move(d, "cleaning")
    /\ UNCHANGED <<up, file, deaths>>

\* The request is aborted: who listens for it stops at once.
Disconnect(d) ==
    /\ download[d].stage \in Pending /\ download[d].client = "there"
    /\ Become(d, [download[d] EXCEPT !.client = "gone",
                                     !.stage = IF @ = "sending" THEN "cleaning" ELSE @])
    /\ UNCHANGED <<up, file, deaths>>

\* cleanup(): the file first, and the lease also when that fails.
Clean(d) ==
    /\ At(d, "cleaning")
    /\ Move(d, "releasing")
    /\ file' = [file EXCEPT ![d] = "removed"] \/ file' = [file EXCEPT ![d] = "stuck"]
    /\ UNCHANGED <<up, deaths>>

Release(d) ==
    /\ At(d, "releasing")
    /\ Become(d, [download[d] EXCEPT !.stage = "over", !.lease = FALSE])
    /\ UNCHANGED <<up, file, deaths>>

Die ==
    /\ up /\ deaths < MaxDeaths
    /\ deaths' = deaths + 1
    /\ up' = FALSE
    /\ download' = [d \in Downloads |->
           IF download[d].stage \notin Pending THEN download[d]
           ELSE [download[d] EXCEPT !.stage = "over", !.lease = FALSE, !.sent = FALSE]]
    /\ UNCHANGED file

\* cleanupAttachmentOrphans(), before requests are accepted: the files that are
\* old enough, up to a number.
Start ==
    /\ ~up
    /\ up' = TRUE
    /\ \E swept \in SUBSET {d \in Downloads : file[d] \in {"kept", "stuck"}} :
          file' = [d \in Downloads |-> IF d \in swept THEN "removed" ELSE file[d]]
    /\ UNCHANGED <<download, deaths>>

-----------------------------------------------------------------------------
Serve(d) ==
    \/ Lease(d) \/ Fetch(d) \/ Check(d) \/ Open(d) \/ Finish(d) \/ Clean(d) \/ Release(d)

Next == Die \/ Start \/ \E d \in Downloads : Ask(d) \/ Serve(d) \/ Disconnect(d)

\* What is awaited answers, and a client that stays takes what it is sent.
Fairness == \A d \in Downloads : WF_vars(Serve(d))

Spec == Init /\ [][Next]_vars

-----------------------------------------------------------------------------
(* Properties *)

TypeOK ==
    /\ up \in BOOLEAN /\ deaths \in 0..MaxDeaths
    /\ file \in [Downloads -> {"none", "kept", "stuck", "removed"}]
    /\ download \in [Downloads -> [stage : Stages, client : {"there", "gone"},
                                   lease : BOOLEAN, heard : BOOLEAN, sent : BOOLEAN]]

\* A download that is over holds no session; what was sent in part or whole left
\* no file but one that could not be removed; nothing reads a file that is gone.
GivenBack ==
    \A d \in Downloads :
        /\ At(d, "over") => ~download[d].lease
        /\ At(d, "over") /\ download[d].sent => file[d] # "kept"
        /\ At(d, "sending") => download[d].lease /\ file[d] = "kept"

\* A download ends, whenever its client leaves but for the moment in which its
\* file is being opened.
Underway(d) ==
    /\ download[d].stage \in Pending
    /\ At(d, "sending") => download[d].heard
DownloadsEnd == \A d \in Downloads : Underway(d) ~> ~Underway(d)

\* What the comment on AttachmentStream says: the file is deleted on completion,
\* failure, or cancellation.  One who left while the file was opened is never
\* heard, and a file that is not sent is left to the next start.
SourceIsDeleted ==
    \A d \in Downloads :
        At(d, "sending") /\ download[d].client = "gone" ~> file[d] = "removed" \/ ~up
==============================================================================

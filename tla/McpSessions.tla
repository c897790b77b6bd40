---------------------------- MODULE McpSessions ----------------------------
(***************************************************************************)
(* The sessions of the public MCP endpoint: createPublicMcpHttpHandler()   *)
(* (apps/web/src/mcp/http.ts).                                             *)
(*                                                                         *)
(* The handler is one thread, and a step is what runs between two awaits.  *)
(* A session is named for the request that initializes it.  That a token   *)
(* is verified is in AgentAuthority; here a request has passed that, and   *)
(* what can go wrong is that sessions, reservations and counters change    *)
(* while it waits for the reaping, its body, the connection of the server  *)
(* or the tool.                                                            *)
(***************************************************************************)
EXTENDS Naturals, FiniteSets

CONSTANTS
    Initializes, Calls, Deletes,    \* requests, by what they ask for
    Identity,                       \* Identity[r]: who asks
    MaxSessions, MaxInflight, MaxPerSession

VARIABLES
    request,      \* where each request is, on which session, whether it holds a
                  \* reservation, came to a closed session (late), is aborted
    session,      \* the sessions
    listed,       \* sessions: those that have an id
    aged,         \* those that nobody has touched for the time to live
    pending,      \* pendingSessions
    inflight,     \* by session
    total,        \* totalInflight
    shuttingDown

vars == <<request, session, listed, aged, pending, inflight, total, shuttingDown>>

Requests == Initializes \cup Calls \cup Deletes

Init ==
    /\ request = [r \in Requests |-> [stage |-> "new", session |-> "none",
                                      reserved |-> FALSE, late |-> FALSE, aborted |-> FALSE]]
    /\ session = [s \in Initializes |-> "none"]
    /\ listed = {}
    /\ aged = {}
    /\ pending = 0
    /\ inflight = [s \in Initializes |-> 0]
    /\ total = 0
    /\ shuttingDown = FALSE

On(s) == {r \in Requests : request[r].stage = "serving" /\ request[r].session = s}

\* closeSession() of several: they leave the map, and their requests' signals
\* are aborted.  A session that is closed already is left as it is.
Close(closing) ==
    LET closed == {s \in closing : session[s] = "open"} IN
    /\ session' = [s \in Initializes |-> IF s \in closed THEN "closed" ELSE session[s]]
    /\ listed' = listed \ closed
Aborts(r, closing) ==
    request[r].stage = "serving" /\ request[r].session \in closing
                                 /\ session[request[r].session] = "open"

\* The request goes on to a stage, and the requests of closing sessions are
\* aborted.
Becomes(r, next, closing) ==
    request' = [x \in Requests |->
                  LET now == IF x = r THEN next ELSE request[x]
                  IN IF Aborts(x, closing) THEN [now EXCEPT !.aborted = TRUE] ELSE now]

-----------------------------------------------------------------------------

\* verifyAccess(), then reap().
Reap(r) ==
    /\ request[r].stage = "new"
    /\ Close(listed \cap aged)
    /\ Becomes(r, [request[r] EXCEPT !.stage = "reaped"], listed \cap aged)
    /\ UNCHANGED <<aged, pending, inflight, total, shuttingDown>>

\* A session id is that of a session of the same identity, or the request is
\* refused before its body is read.
Lookup(r) ==
    /\ request[r].stage = "reaped"
    /\ \/ /\ ~shuttingDown /\ r \in Initializes
          /\ Becomes(r, [request[r] EXCEPT !.stage = "reading"], {})
       \/ \E s \in listed :
             /\ ~shuttingDown /\ r \notin Initializes /\ Identity[s] = Identity[r]
             /\ Becomes(r, [request[r] EXCEPT !.stage = "reading", !.session = s], {})
       \/ Becomes(r, [request[r] EXCEPT !.stage = "refused"], {})
    /\ UNCHANGED <<session, listed, aged, pending, inflight, total, shuttingDown>>

\* A place is reserved for a new session, and its server is being connected.
Full == Cardinality(listed) + pending >= MaxSessions
Reserve(r) ==
    /\ request[r].stage = "reading" /\ r \in Initializes
    /\ IF Full
       THEN /\ Becomes(r, [request[r] EXCEPT !.stage = "refused"], {})
            /\ UNCHANGED <<session, pending>>
       ELSE /\ Becomes(r, [request[r] EXCEPT !.stage = "connecting", !.session = r,
                                             !.reserved = TRUE], {})
            /\ session' = [session EXCEPT ![r] = "open"]
            /\ pending' = pending + 1
    /\ UNCHANGED <<listed, aged, inflight, total, shuttingDown>>

\* The server does not connect, or too much is under way: the reservation is
\* given back and the session that it was for is closed.
GiveUp(r) ==
    LET closing == IF request[r].reserved THEN {request[r].session} ELSE {} IN
    /\ pending' = IF request[r].reserved THEN pending - 1 ELSE pending
    /\ Close(closing)
    /\ Becomes(r, [request[r] EXCEPT !.stage = "refused", !.reserved = FALSE], closing)
    /\ UNCHANGED <<aged, inflight, total, shuttingDown>>

ConnectFails(r) == request[r].stage = "connecting" /\ GiveUp(r)

\* The session was looked up before the body was read and may be closed by now.
Admitted(r) == IF r \in Initializes THEN request[r].stage = "connecting"
                                    ELSE request[r].stage = "reading"
Busy(s) == inflight[s] >= MaxPerSession \/ total >= MaxInflight
TooMany(r) == Admitted(r) /\ Busy(request[r].session) /\ GiveUp(r)
Serve(r) ==
    LET s == request[r].session IN
    /\ Admitted(r) /\ ~Busy(s)
    /\ Becomes(r, [request[r] EXCEPT !.stage = "serving", !.late = (session[s] = "closed")], {})
    /\ aged' = aged \ {s}
    /\ inflight' = [inflight EXCEPT ![s] = @ + 1]
    /\ total' = total + 1
    /\ UNCHANGED <<session, listed, pending, shuttingDown>>

\* onsessioninitialized: the session has an id and takes its reserved place.
Initialized(r) ==
    /\ request[r].stage = "serving" /\ request[r].reserved
    /\ listed' = listed \cup {r}
    /\ aged' = aged \ {r}
    /\ pending' = pending - 1
    /\ Becomes(r, [request[r] EXCEPT !.reserved = FALSE], {})
    /\ UNCHANGED <<session, inflight, total, shuttingDown>>

\* handleRequest() returns or throws.  A session that got no id is closed, and
\* so is one that is deleted.
ClosesOnlyDeleted(r) == IF r \in Deletes THEN {request[r].session} ELSE {}
                                     \* a fault: a session without an id is left
Closes(r) ==
    IF r \in Deletes \/ request[r].reserved THEN {request[r].session} ELSE {}
Finish(r) ==
    LET s == request[r].session IN
    /\ request[r].stage = "serving"
    /\ inflight' = [inflight EXCEPT ![s] = @ - 1]
    /\ total' = total - 1
    /\ pending' = IF request[r].reserved THEN pending - 1 ELSE pending
    /\ Close(Closes(r))
    /\ Becomes(r, [request[r] EXCEPT !.stage = "done", !.reserved = FALSE], Closes(r))
    /\ UNCHANGED <<aged, shuttingDown>>

\* The body is too long, or no JSON.
BodyFails(r) ==
    /\ request[r].stage = "reading"
    /\ Becomes(r, [request[r] EXCEPT !.stage = "refused"], {})
    /\ UNCHANGED <<session, listed, aged, pending, inflight, total, shuttingDown>>

TimePasses(s) ==
    /\ session[s] = "open" /\ s \notin aged
    /\ aged' = aged \cup {s}
    /\ UNCHANGED <<request, session, listed, pending, inflight, total, shuttingDown>>

\* close()
Shutdown ==
    /\ ~shuttingDown /\ shuttingDown' = TRUE
    /\ Close(Initializes)
    /\ request' = [r \in Requests |-> IF Aborts(r, Initializes)
                                      THEN [request[r] EXCEPT !.aborted = TRUE] ELSE request[r]]
    /\ UNCHANGED <<aged, pending, inflight, total>>

Step(r) ==
    \/ Reap(r) \/ Lookup(r) \/ BodyFails(r) \/ Reserve(r) \/ ConnectFails(r)
    \/ TooMany(r) \/ Serve(r) \/ Initialized(r) \/ Finish(r)

Next ==
    \/ \E r \in Requests : Step(r)
    \/ \E s \in Initializes : TimePasses(s)
    \/ Shutdown

Spec == Init /\ [][Next]_vars

-----------------------------------------------------------------------------

TypeOK ==
    /\ request \in [Requests -> [stage : {"new", "reaped", "reading", "connecting", "serving",
                                          "done", "refused"},
                                 session : Initializes \cup {"none"},
                                 reserved : BOOLEAN, late : BOOLEAN, aborted : BOOLEAN]]
    /\ session \in [Initializes -> {"none", "open", "closed"}]
    /\ listed \subseteq Initializes /\ aged \subseteq Initializes
    /\ pending \in Nat /\ inflight \in [Initializes -> Nat] /\ total \in Nat
    /\ shuttingDown \in BOOLEAN

\* Requests that wait between check and use do not exceed the bounds together,
\* and every reservation and every request under way is counted once.
LimitsHold ==
    /\ Cardinality(listed) + pending <= MaxSessions
    /\ pending = Cardinality({r \in Requests : request[r].reserved})
    /\ total = Cardinality({r \in Requests : request[r].stage = "serving"})
    /\ total <= MaxInflight
    /\ \A s \in Initializes : inflight[s] = Cardinality(On(s)) /\ inflight[s] <= MaxPerSession

\* A session that is open can be reaped, or its request still holds its place;
\* and the map holds no session that is closed.  close() excepts neither.
NoSessionIsLost ==
    shuttingDown \/ \A s \in Initializes :
        /\ session[s] = "open" => s \in listed \/ request[s].reserved
        /\ s \in listed => session[s] = "open"

\* A request is served on a session of its own identity, and its signal is
\* aborted when that session is closed, unless it came after that.
ServedByOwnSession ==
    \A r \in Requests : request[r].stage = "serving" =>
        /\ Identity[request[r].session] = Identity[r]
        /\ session[request[r].session] = "closed" => request[r].aborted \/ request[r].late
=============================================================================

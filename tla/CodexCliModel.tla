---------------------------- MODULE CodexCliModel ----------------------------
(***************************************************************************)
(* The model provider that runs the Codex CLI, one process at a time:      *)
(* CodexCliModel (apps/worker/src/codex-cli-model.ts).                     *)
(*                                                                         *)
(* Evaluation of mail and conversations share one instance.  Each caller   *)
(* gives a signal that it aborts when its own time is up                   *)
(* (packages/agent/src/index.ts:187, apps/worker/src/conversations.ts:78), *)
(* also while the call still waits for the ones before it.  What the CLI   *)
(* prints is left out but for whether it is too much, and whether it reads *)
(* as an answer.  That removing the directory fails is left out, and so is *)
(* the death of the worker, after which nobody looks for what was left. A  *)
(* call that is cut off twice starts two kill timers, of which one is      *)
(* cleared (codex-cli-model.ts:165-171); the other asks a process that has *)
(* ended, and the model has one.                                           *)
(***************************************************************************)
EXTENDS Naturals, Sequences, FiniteSets

CONSTANT Calls         \* calls of doGenerate() and doStream()

VARIABLES
    line,              \* calls in the order they were made: the chain `pending`
    call

vars == <<line, call>>

Results == {"none", "text", "AbortError", "CODEX_CLI_OUTPUT_LIMIT", "CODEX_CLI_EXIT", "error"}
Alive == {"runs", "asked", "killed"}      \* asked to end (SIGTERM), then killed

Init ==
    /\ line = <<>>
    /\ call = [c \in Calls |-> [stage |-> "idle", signal |-> "none", aborted |-> FALSE,
                                over |-> FALSE, grace |-> FALSE, child |-> "none",
                                directory |-> FALSE, result |-> "none"]]

Become(c, next) == call' = [call EXCEPT ![c] = next]

\* What ends the try block: the directory is removed whatever was thrown.
Leave(c, result) ==
    [call[c] EXCEPT !.stage = "leaving", !.result = result, !.grace = FALSE,
                    !.child = IF @ = "none" THEN @ ELSE "ended"]

-----------------------------------------------------------------------------

Generate(c) ==
    /\ call[c].stage = "idle"
    /\ line' = Append(line, c)
    /\ Become(c, [call[c] EXCEPT !.stage = "waiting"])

\* singleFlight(): the next follows the last however that ended.
Follows(i) == i > 1 => call[line[i - 1]].stage = "done"

\* Tools, a part that is not text, or a directory that cannot be made.
Refused(i) == Become(line[i], [call[line[i]] EXCEPT !.stage = "done", !.result = "error"])

Begin(i) ==
    /\ Follows(i) /\ call[line[i]].stage = "waiting"
    /\ \/ Refused(i)
       \/ Become(line[i], [call[line[i]] EXCEPT !.stage = "made", !.directory = TRUE])
    /\ UNCHANGED line

\* A call that was aborted while it waited starts no process.  A process that
\* cannot be started is known at once, or by an event.
Spawn(c) ==
    /\ call[c].stage = "made"
    /\ IF call[c].signal # "none" THEN Become(c, Leave(c, "AbortError"))
       ELSE \/ Become(c, Leave(c, "error"))
            \/ \E child \in {"runs", "fails"} :
                  Become(c, [call[c] EXCEPT !.stage = "running", !.child = child])
    /\ UNCHANGED line

\* SIGTERM, and a timer for SIGKILL.
Asked(now) == [now EXCEPT !.child = IF @ = "runs" THEN "asked" ELSE @, !.grace = TRUE]

\* The caller's time is up, or it does not want the answer any more.
Abort(c) ==
    /\ call[c].stage \notin {"idle", "done"} /\ call[c].signal = "none"
    /\ Become(c, IF call[c].stage = "running"
                 THEN Asked([call[c] EXCEPT !.signal = "in time", !.aborted = TRUE])
                 ELSE [call[c] EXCEPT !.signal = IF call[c].stage \in {"waiting", "made"}
                                                 THEN "in time" ELSE "late"])
    /\ UNCHANGED line

\* append(): one chunk more than maxOutputBytes.
PrintsTooMuch(c) ==
    /\ call[c].child \in Alive \ {"killed"} /\ ~call[c].over
    /\ Become(c, Asked([call[c] EXCEPT !.over = TRUE]))
    /\ UNCHANGED line

GraceEnds(c) ==
    /\ call[c].grace
    /\ Become(c, [call[c] EXCEPT !.grace = FALSE,
                                 !.child = IF @ \in Alive THEN "killed" ELSE @])
    /\ UNCHANGED line

\* The process ends and its output is closed: by itself, as asked, or killed.
\* An abort counts before too much output, and both before the exit code.
Close(c) ==
    /\ call[c].child \in Alive
    /\ \E code \in IF call[c].child = "killed" THEN {1} ELSE {0, 1} :
          Become(c, IF call[c].aborted THEN Leave(c, "AbortError")
                    ELSE IF call[c].over THEN Leave(c, "CODEX_CLI_OUTPUT_LIMIT")
                    ELSE IF code # 0 THEN Leave(c, "CODEX_CLI_EXIT")
                    ELSE [call[c] EXCEPT !.stage = "read", !.child = "ended", !.grace = FALSE])
    /\ UNCHANGED line

ErrorEvent(c) ==
    /\ call[c].child = "fails"
    /\ Become(c, Leave(c, "error"))
    /\ UNCHANGED line

\* The events tell of a failure or lack an answer, or the text is returned.
Read(c) ==
    /\ call[c].stage = "read"
    /\ \E result \in {"error", "text"} : Become(c, Leave(c, result))
    /\ UNCHANGED line

Remove(c) ==
    /\ call[c].stage = "leaving"
    /\ Become(c, [call[c] EXCEPT !.stage = "done", !.directory = FALSE])
    /\ UNCHANGED line

-----------------------------------------------------------------------------
Work(c) == Spawn(c) \/ ErrorEvent(c) \/ Read(c) \/ Remove(c)

Next ==
    \/ \E i \in 1..Len(line) : Begin(i)
    \/ \E c \in Calls : \/ Generate(c) \/ Work(c) \/ Abort(c) \/ PrintsTooMuch(c)
                        \/ GraceEnds(c) \/ Close(c)

\* The CLI need not end by itself, nor when asked to.  Callers' timeouts and the
\* timer run out, and what is killed ends.
Fairness ==
    /\ WF_vars(\E i \in 1..Len(line) : Begin(i))
    /\ \A c \in Calls : /\ WF_vars(Work(c)) /\ WF_vars(Abort(c)) /\ WF_vars(GraceEnds(c))
                        /\ WF_vars(call[c].child = "killed" /\ Close(c))

Spec == Init /\ [][Next]_vars

-----------------------------------------------------------------------------
(* Properties *)

TypeOK ==
    /\ line \in Seq(Calls)
    /\ \A c \in Calls :
          /\ call[c].stage \in {"idle", "waiting", "made", "running", "read", "leaving", "done"}
          /\ call[c].signal \in {"none", "in time", "late"}
          /\ {call[c].aborted, call[c].over, call[c].grace, call[c].directory} \subseteq BOOLEAN
          /\ call[c].child \in Alive \cup {"none", "fails", "ended"}
          /\ call[c].result \in Results

\* However aborts, too much output and exits meet: one process and one directory
\* at a time, none when its call has ended, and no answer for a call that was
\* aborted in time or whose output was cut.
AnswersAreWhole ==
    /\ Cardinality({c \in Calls : call[c].directory \/ call[c].child \in Alive}) <= 1
    /\ \A c \in Calls : call[c].stage = "done" =>
          /\ ~call[c].directory /\ ~call[c].grace /\ call[c].child \in {"none", "ended"}
          /\ (call[c].signal = "in time" \/ call[c].over) => call[c].result # "text"

\* No process that hangs or ignores SIGTERM holds up the calls behind it for ever.
Underway(c) == call[c].stage \notin {"idle", "done"}
CallsEnd == \A c \in Calls : Underway(c) ~> ~Underway(c)
==============================================================================

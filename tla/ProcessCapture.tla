--------------------------- MODULE ProcessCapture ---------------------------
(***************************************************************************)
(* run_capture of outboard-core: spawn a one-shot plugin, feed its stdin   *)
(* and drain its stdout and stderr on three threads, poll for its exit     *)
(* until the timeout, then join the threads.                               *)
(*                                                                         *)
(* The plugin is any program: it writes, reads its input, exits when it    *)
(* likes or never, and, if MayFork, starts a descendant that inherits its  *)
(* three streams.  Bytes are counted in units; a pipe holds Capacity of    *)
(* them.                                                                   *)
(***************************************************************************)
EXTENDS Naturals

CONSTANTS
    Capacity,    \* units an operating-system pipe holds
    MaxOutput,   \* bound: units the plugin writes to each stream
    Inputs,      \* sizes of input to consider; 0 is input: None
    MayFork      \* the plugin may start a descendant

ASSUME CaptureAssumption ==
    /\ Capacity \in Nat \ {0}
    /\ MaxOutput \in Nat
    /\ Inputs \subseteq Nat
    /\ MayFork \in BOOLEAN

Stream == {"stdout", "stderr"}
Process == {"child", "descendant"}

VARIABLES
    caller,       \* where run_capture is
    expires,      \* the timeout is short enough to elapse
    late,         \* the timeout has elapsed
    outcome,      \* what run_capture returned
    drain,        \* the two reader threads
    captured,     \* units they have read
    feed,         \* the stdin thread
    inputLeft,    \* units it has yet to write
    inPipe,       \* units in the stdin pipe
    pipe,         \* units in the output pipes
    written,      \* units ever written to them
    alive,        \* processes that hold the plugin's streams
    forked,       \* the descendant has been started
    reaped        \* the child has been waited for

callerVars == <<caller, expires, late, outcome>>
threadVars == <<drain, captured, feed, inputLeft>>
pipeVars == <<inPipe, pipe, written>>
processVars == <<alive, forked, reaped>>
vars == <<callerVars, threadVars, pipeVars, processVars>>

CallerState == {"start", "polling", "joinStdin", "joinStdout", "joinStderr", "returned"}

TypeOK ==
    /\ caller \in CallerState
    /\ expires \in BOOLEAN
    /\ late \in BOOLEAN
    /\ outcome \in {"none", "ok", "timeout", "stdin_error", "spawn_error"}
    /\ drain \in [Stream -> {"reading", "done"}]
    /\ captured \in [Stream -> 0 .. MaxOutput]
    /\ feed \in {"none", "writing", "done", "broken"}
    /\ inputLeft \in Nat
    /\ inPipe \in 0 .. Capacity
    /\ pipe \in [Stream -> 0 .. Capacity]
    /\ written \in [Stream -> 0 .. MaxOutput]
    /\ alive \subseteq Process
    /\ forked \in BOOLEAN
    /\ reaped \in BOOLEAN

Init ==
    /\ caller = "start"
    /\ expires \in BOOLEAN
    /\ late = FALSE
    /\ outcome = "none"
    /\ drain = [s \in Stream |-> "reading"]
    /\ captured = [s \in Stream |-> 0]
    /\ \E n \in Inputs :
          /\ inputLeft = n
          /\ feed = IF n = 0 THEN "none" ELSE "writing"
    /\ inPipe = 0
    /\ pipe = [s \in Stream |-> 0]
    /\ written = [s \in Stream |-> 0]
    /\ alive = {}
    /\ forked = FALSE
    /\ reaped = FALSE

(***************************************************************************)
(* The plugin.                                                             *)
(***************************************************************************)
Write(s) ==
    /\ alive # {}
    /\ written[s] < MaxOutput /\ pipe[s] < Capacity
    /\ written' = [written EXCEPT ![s] = @ + 1]
    /\ pipe' = [pipe EXCEPT ![s] = @ + 1]
    /\ UNCHANGED <<callerVars, threadVars, inPipe, processVars>>

ReadInput ==
    /\ alive # {} /\ inPipe > 0
    /\ inPipe' = inPipe - 1
    /\ UNCHANGED <<callerVars, threadVars, pipe, written, processVars>>

Fork ==
    /\ MayFork /\ "child" \in alive /\ ~forked
    /\ alive' = Process
    /\ forked' = TRUE
    /\ UNCHANGED <<callerVars, threadVars, pipeVars, reaped>>

Exit(p) ==
    /\ p \in alive
    /\ alive' = alive \ {p}
    /\ UNCHANGED <<callerVars, threadVars, pipeVars, forked, reaped>>

Plugin ==
    \/ \E s \in Stream : Write(s)
    \/ ReadInput
    \/ Fork
    \/ \E p \in Process : Exit(p)

(***************************************************************************)
(* The threads.                                                            *)
(***************************************************************************)
Spawned == caller # "start"

\* Mutant of DrainEnabled: read the pipes only once the child is waited for.
DrainAfterWait == caller \notin {"start", "polling"}
\* The reader threads run from the spawn on.
DrainEnabled == Spawned

\* read_to_end: to the end of the file, which is when nobody is left to write.
DrainThread(s) ==
    /\ DrainEnabled /\ drain[s] = "reading"
    /\ \/ /\ pipe[s] > 0
          /\ pipe' = [pipe EXCEPT ![s] = @ - 1]
          /\ captured' = [captured EXCEPT ![s] = @ + 1]
          /\ UNCHANGED drain
       \/ /\ pipe[s] = 0 /\ alive = {}
          /\ drain' = [drain EXCEPT ![s] = "done"]
          /\ UNCHANGED <<pipe, captured>>
    /\ UNCHANGED <<callerVars, feed, inputLeft, inPipe, written, processVars>>

\* write_all and flush; a pipe that nobody can read is broken.
FeedThread ==
    /\ Spawned /\ feed = "writing"
    /\ \/ /\ inputLeft > 0 /\ alive # {} /\ inPipe < Capacity
          /\ inputLeft' = inputLeft - 1
          /\ inPipe' = inPipe + 1
          /\ UNCHANGED feed
       \/ /\ inputLeft > 0 /\ alive = {}
          /\ feed' = "broken"
          /\ UNCHANGED <<inputLeft, inPipe>>
       \/ /\ inputLeft = 0
          /\ feed' = "done"
          /\ UNCHANGED <<inputLeft, inPipe>>
    /\ UNCHANGED <<callerVars, drain, captured, pipe, written, processVars>>

(***************************************************************************)
(* The caller.                                                             *)
(***************************************************************************)
Return(o) == caller' = "returned" /\ outcome' = o

Spawn ==
    /\ caller = "start"
    /\ \/ caller' = "polling" /\ alive' = {"child"} /\ UNCHANGED outcome
       \/ Return("spawn_error") /\ UNCHANGED alive
    /\ UNCHANGED <<expires, late, threadVars, pipeVars, forked, reaped>>

\* try_wait finds the child ended, which reaps it.
PollExited ==
    /\ caller = "polling" /\ "child" \notin alive
    /\ caller' = "joinStdin"
    /\ reaped' = TRUE
    /\ UNCHANGED <<expires, late, outcome, threadVars, pipeVars, alive, forked>>

\* Mutant of PollExpired: give up on the child without killing it.
LeaveRunning ==
    /\ expires
    /\ caller = "polling" /\ "child" \in alive
    /\ caller' = "joinStdin"
    /\ late' = TRUE
    /\ UNCHANGED <<expires, outcome, threadVars, pipeVars, processVars>>
\* The timeout: kill, then wait.
PollExpired ==
    /\ expires
    /\ caller = "polling" /\ "child" \in alive
    /\ caller' = "joinStdin"
    /\ late' = TRUE
    /\ alive' = alive \ {"child"}
    /\ reaped' = TRUE
    /\ UNCHANGED <<expires, outcome, threadVars, pipeVars, forked>>

\* The stdin thread's error counts only for a child that ended by itself.
JoinStdin ==
    /\ caller = "joinStdin" /\ feed # "writing"
    /\ IF feed = "broken" /\ ~late
       THEN Return("stdin_error")
       ELSE caller' = "joinStdout" /\ UNCHANGED outcome
    /\ UNCHANGED <<expires, late, threadVars, pipeVars, processVars>>

JoinStdout ==
    /\ caller = "joinStdout" /\ drain["stdout"] = "done"
    /\ caller' = "joinStderr"
    /\ UNCHANGED <<expires, late, outcome, threadVars, pipeVars, processVars>>

\* Mutant of StderrJoined: return without the second join.
StderrIgnored == TRUE
StderrJoined == drain["stderr"] = "done"

JoinStderr ==
    /\ caller = "joinStderr" /\ StderrJoined
    /\ Return(IF late THEN "timeout" ELSE "ok")
    /\ UNCHANGED <<expires, late, threadVars, pipeVars, processVars>>

Caller ==
    \/ Spawn \/ PollExited \/ PollExpired
    \/ JoinStdin \/ JoinStdout \/ JoinStderr

Threads == FeedThread \/ \E s \in Stream : DrainThread(s)

Idle == caller = "returned" /\ UNCHANGED vars

Next == Plugin \/ Threads \/ Caller \/ Idle

\* Threads run and the caller polls; the plugin need do nothing.
Fairness ==
    /\ WF_vars(Caller)
    /\ WF_vars(FeedThread)
    /\ \A s \in Stream : WF_vars(DrainThread(s))

Spec == Init /\ [][Next]_vars /\ Fairness

\* A plugin that does all it has to do: read its input, write its output,
\* exit once it has.
PluginFinishes ==
    /\ inPipe = 0 /\ (feed = "writing" => inputLeft = 0)
    /\ \A s \in Stream : written[s] = MaxOutput
    /\ Exit("child")

PluginWorks ==
    /\ WF_vars(ReadInput)
    /\ \A s \in Stream : WF_vars(Write(s))
    /\ WF_vars(PluginFinishes)

(***************************************************************************)
(* Properties.                                                             *)
(***************************************************************************)
\* Every unit the plugin wrote, and no more, is in the result, whether it
\* ended or was killed, however full its pipes were (AGENT_TESTING, 13:
\* "complete captured output up to termination").
OutputComplete ==
    outcome \in {"ok", "timeout"} => captured = written

\* run_capture leaves no child behind, not even a zombie, when it returns after
\* the exit or after the timeout (process.rs 105-109).  The error of try_wait
\* itself, which returns without a kill or a wait, does not occur here.
ChildReaped ==
    caller = "returned" /\ outcome # "spawn_error" => reaped /\ "child" \notin alive

\* No descendant keeps the plugin's streams for ever: the joins wait for it
\* without a bound (process.rs 111).
StreamsReleased == <>[]("descendant" \notin alive)

\* A timeout that elapses ends run_capture, whatever the child does (README:
\* "timeout-bounded"; process.rs 98-111), if its streams are released.
TimeoutReturns ==
    StreamsReleased => ((caller # "start" /\ expires) ~> (caller = "returned"))

\* A plugin that does its work is never blocked by its host, whatever the
\* sizes of input, output and pipes, so that run_capture returns without a
\* timeout too (README: "deadlock-resistant"; process.rs 81-95).
PressureReturns ==
    PluginWorks /\ StreamsReleased => ((caller # "start") ~> (caller = "returned"))
=============================================================================

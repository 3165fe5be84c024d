----------------------------- MODULE SyncServer -----------------------------
(***************************************************************************)
(* serve_worker of the outboard crate: one thread that reads a host frame, *)
(* runs the handler for it and writes the answers itself, waiting for room *)
(* in stdout.  Whatever it cannot write ends it.                           *)
(***************************************************************************)
EXTENDS WorkerTransport

CONSTANTS
    Plugins,          \* executables a run considers
    MaxEvents,        \* bound: events one invocation emits
    HandlerFaults,    \* subset of {"panic", "cancel_error", "stray_output", "crash"}
    OversizeResults   \* requests whose result may exceed the frame limit

\* As in AsyncServer: the executable at the path against the resolved plugin.
Plugin == [worker : BOOLEAN, same : BOOLEAN, protocol : BOOLEAN, accepts : BOOLEAN]

ASSUME SyncServerAssumption ==
    /\ Plugins \subseteq Plugin
    /\ MaxEvents \in Nat
    /\ HandlerFaults \subseteq {"panic", "cancel_error", "stray_output", "crash"}
    /\ OversizeResults \subseteq RequestId

VARIABLES
    plugin,    \* the executable
    phase,     \* where serve_worker is
    answer,    \* the frame it is writing or has written last
    job,       \* the request the handler works on
    emitted,   \* events of each request
    result     \* how its handler ended

serverVars == <<plugin, phase, answer, job, emitted, result>>

Phase == {"hello", "loop", "partial", "writing", "working", "returning", "exited"}

ServerTypeOK ==
    /\ plugin \in Plugins
    /\ phase \in Phase
    /\ answer \in PluginFrame
    /\ job \in RequestId \cup {None}
    /\ emitted \in [RequestId -> 0 .. MaxEvents]
    /\ result \in [RequestId -> {"none", "finished", "error", "panicked"}]

ServerInit ==
    /\ plugin \in Plugins
    /\ phase = "hello"
    /\ answer = Control("hello")
    /\ job = None
    /\ emitted = [i \in RequestId |-> 0]
    /\ result = [i \in RequestId |-> "none"]

Answers(f) == phase' = "writing" /\ answer' = f

(***************************************************************************)
(* Reading.                                                                *)
(***************************************************************************)
\* The first frame.
ReadHello ==
    /\ child = "running" /\ phase = "hello"
    /\ stdin # <<>> /\ Head(stdin).type # "torn"
    /\ stdin' = Tail(stdin)
    /\ IF Head(stdin).type = "hello" /\ plugin.accepts
       THEN Answers(Control("hello"))
       ELSE phase' = "returning" /\ UNCHANGED answer
    /\ UNCHANGED <<plugin, job, emitted, result, stdout, stdinOpen, stdoutOpen, child,
                   killed>>

\* Frames are read between invocations.
\* Mutant of Reading: and while the handler works.
AlsoWhileWorking == phase \in {"loop", "working"}
Reading == phase = "loop"

Receive(t) ==
    /\ child = "running" /\ Reading
    /\ stdin # <<>> /\ Head(stdin).type = t
    /\ stdin' = Tail(stdin)
    /\ UNCHANGED <<plugin, emitted, result, stdout, stdinOpen, stdoutOpen, child, killed>>

LoopHello == Receive("hello") /\ Answers(ForRequest("error", None)) /\ UNCHANGED job

LoopPing ==
    Receive("ping") /\ Answers(WithNonce("pong", Head(stdin).nonce)) /\ UNCHANGED job

LoopShutdown == Receive("shutdown") /\ Answers(Control("shutdown_ack")) /\ UNCHANGED job

\* handler.cancel, between two invocations.
LoopCancel ==
    /\ Receive("cancel")
    /\ \/ UNCHANGED <<phase, answer>>
       \/ "cancel_error" \in HandlerFaults /\ Answers(ForRequest("error", Head(stdin).id))
    /\ UNCHANGED job

LoopInvoke ==
    /\ Receive("invoke")
    /\ Answers(ForRequest("started", Head(stdin).id))
    /\ job' = Head(stdin).id

\* Half a frame: read_exact waits for the rest, and takes it from the next
\* frames until what it has is no frame.
ReadTorn ==
    /\ child = "running"
    /\ \/ phase \in {"hello", "loop"} /\ stdin # <<>> /\ Head(stdin).type = "torn"
       \/ phase = "partial" /\ stdin # <<>>
    /\ stdin' = Tail(stdin)
    /\ phase' \in {"partial"} \cup (IF phase = "partial" THEN {"returning"} ELSE {})
    /\ UNCHANGED <<plugin, answer, job, emitted, result, stdout, stdinOpen, stdoutOpen,
                   child, killed>>

ReadEof ==
    /\ child = "running" /\ phase \in {"hello", "loop", "partial"} /\ StdinAtEof
    /\ phase' = "returning"
    /\ UNCHANGED <<plugin, answer, job, emitted, result, transportVars>>

(***************************************************************************)
(* Writing.                                                                *)
(***************************************************************************)
AfterAnswer(f) ==
    CASE f.type \in {"started", "event"} -> "working"
      [] f.type = "shutdown_ack" -> "returning"
      [] OTHER -> "loop"

\* A result the frame limit may refuse.
TooLarge(f) == f.type = "finished" /\ f.id \in OversizeResults

WriteAnswer ==
    /\ child = "running" /\ phase = "writing"
    /\ PluginWrites(answer)
    /\ phase' = AfterAnswer(answer)
    /\ UNCHANGED <<plugin, answer, job, emitted, result, stdin, stdinOpen, stdoutOpen,
                   child, killed>>

\* What to do when an answer cannot be written: ? for the server's own, an
\* error to the handler for an event.
\* Mutant of AfterFailure: the server's answers are dropped like events.
AnswersDropped(f) == AfterAnswer(f)
AfterFailure(f) == IF f.type = "event" THEN "working" ELSE "returning"

AnswerFails ==
    /\ child = "running" /\ phase = "writing"
    /\ TooLarge(answer) \/ ~stdoutOpen
    /\ phase' = AfterFailure(answer)
    /\ UNCHANGED <<plugin, answer, job, emitted, result, transportVars>>

(***************************************************************************)
(* The handler.                                                            *)
(***************************************************************************)
HandlerEvent ==
    /\ child = "running" /\ phase = "working" /\ emitted[job] < MaxEvents
    /\ emitted' = [emitted EXCEPT ![job] = @ + 1]
    /\ Answers(ForRequest("event", job))
    /\ UNCHANGED <<plugin, job, result, transportVars>>

HandlerReturn ==
    /\ child = "running" /\ phase = "working"
    /\ \E r \in {"finished", "error"} :
          /\ result' = [result EXCEPT ![job] = r]
          /\ Answers(ForRequest(r, job))
    /\ job' = None
    /\ UNCHANGED <<plugin, emitted, transportVars>>

\* A panic unwinds serve_worker and the plugin's main.
HandlerPanic ==
    /\ "panic" \in HandlerFaults
    /\ child = "running" /\ phase = "working"
    /\ result' = [result EXCEPT ![job] = "panicked"]
    /\ job' = None
    /\ phase' = "returning"
    /\ UNCHANGED <<plugin, answer, emitted, transportVars>>

StrayOutput ==
    /\ "stray_output" \in HandlerFaults
    /\ child = "running" /\ phase = "working"
    /\ PluginWrites(Control("malformed"))
    /\ UNCHANGED <<serverVars, stdin, stdinOpen, stdoutOpen, child, killed>>

(***************************************************************************)
(* The end of the process.                                                 *)
(***************************************************************************)
ProcessEnds ==
    /\ child' = "exited"
    /\ phase' = "exited"
    /\ job' = None
    /\ stdin' = <<>>
    /\ UNCHANGED <<plugin, answer, emitted, result, stdout, stdinOpen, stdoutOpen, killed>>

ServeReturns == child = "running" /\ phase = "returning" /\ ProcessEnds

ProcessKilled ==
    /\ child = "running"
    /\ killed \/ "crash" \in HandlerFaults
    /\ ProcessEnds

ServerLoop ==
    \/ ReadHello \/ LoopHello \/ LoopPing \/ LoopShutdown \/ LoopCancel \/ LoopInvoke
    \/ ReadTorn \/ ReadEof \/ WriteAnswer \/ AnswerFails \/ ServeReturns

ServerNext ==
    \/ ServerLoop
    \/ HandlerEvent \/ HandlerReturn \/ HandlerPanic \/ StrayOutput
    \/ ProcessKilled
=============================================================================

---------------------------- MODULE AsyncServer ----------------------------
(***************************************************************************)
(* serve_worker of outboard-tokio: the loop that reads host frames, the    *)
(* JoinSet of handler tasks, and the writer task that owns stdout and is   *)
(* fed by an unbounded channel.                                            *)
(*                                                                         *)
(* The handler is the plugin author's code.  It may emit events, return    *)
(* Ok or Err at any time, look at its cancellation token or not; what else *)
(* it can do is switched on by HandlerFaults.                              *)
(***************************************************************************)
EXTENDS WorkerTransport

CONSTANTS
    Plugins,          \* executables a run considers
    MaxEvents,        \* bound: events one task emits
    HandlerFaults,    \* subset of {"panic", "cancel_error", "stray_output", "crash"}
    OversizeResults,  \* requests whose result may exceed the frame limit
    Leaky             \* requests whose handler hands its context to a task of its own

\* The executable now at the resolved path, against the plugin as it was
\* resolved: worker, the resolved manifest lists worker mode; same, the
\* executable still has that manifest; protocol, its protocol version meets
\* the host's ^1.0; accepts, its validate_hello accepts the host's hello.
Plugin == [worker : BOOLEAN, same : BOOLEAN, protocol : BOOLEAN, accepts : BOOLEAN]

ASSUME ServerAssumption ==
    /\ Plugins \subseteq Plugin
    /\ MaxEvents \in Nat
    /\ HandlerFaults \subseteq {"panic", "cancel_error", "stray_output", "crash"}
    /\ OversizeResults \subseteq RequestId
    /\ Leaky \subseteq RequestId

VARIABLES
    plugin,          \* the executable
    phase,           \* where serve_worker is
    serverPending,   \* keys of the map of cancellation tokens
    cancelled,       \* those whose token is cancelled
    task,            \* the handler task of each request in the JoinSet
    emitted,         \* events the task has sent
    result,          \* how the request's last task ended
    cancelId,        \* the request handler.cancel is being awaited for
    outq,            \* the channel to the writer task
    writerTask       \* the writer task

serverVars == <<plugin, phase, serverPending, cancelled, task, emitted, result,
                cancelId, outq, writerTask>>

Phase == {"hello", "loop", "partial", "cancelling", "draining", "closing",
          "failed", "exited"}

\* A task has yet to return, or has sent its terminal frame and has yet to
\* take the pending lock to remove its entry.
TaskState == {"none", "running", "returned"}

LiveTasks == {i \in RequestId : task[i] # "none"}

ServerTypeOK ==
    /\ plugin \in Plugins
    /\ phase \in Phase
    /\ serverPending \subseteq RequestId
    /\ cancelled \subseteq RequestId
    /\ task \in [RequestId -> TaskState]
    /\ emitted \in [RequestId -> 0 .. MaxEvents]
    /\ result \in [RequestId -> {"none", "finished", "error", "panicked"}]
    /\ cancelId \in RequestId \cup {None}
    /\ outq \in Seq(PluginFrame)
    /\ writerTask \in {"running", "done", "failed"}

ServerInit ==
    /\ plugin \in Plugins
    /\ phase = "hello"
    /\ serverPending = {}
    /\ cancelled = {}
    /\ task = [i \in RequestId |-> "none"]
    /\ emitted = [i \in RequestId |-> 0]
    /\ result = [i \in RequestId |-> "none"]
    /\ cancelId = None
    /\ outq = <<>>
    /\ writerTask = "running"

\* tx.send: lost, like every error of it, once the writer task has ended.
SendTo(q, f) == IF writerTask = "running" THEN Append(q, f) ELSE q
Send(f) == outq' = SendTo(outq, f)

(***************************************************************************)
(* The handshake.                                                          *)
(***************************************************************************)
ServeHello ==
    /\ child = "running" /\ phase = "hello"
    /\ stdin # <<>> /\ Head(stdin).type = "hello" /\ plugin.accepts
    /\ stdin' = Tail(stdin)
    /\ \/ PluginWrites(Control("hello")) /\ phase' = "loop"
       \/ ~stdoutOpen /\ phase' = "failed" /\ UNCHANGED stdout
    /\ UNCHANGED <<plugin, serverPending, cancelled, task, emitted, result, cancelId,
                   outq, writerTask, stdinOpen, stdoutOpen, child, killed>>

\* ExpectedHello, or validate_hello refuses: serve_worker returns its error
\* and the plugin says nothing.
RefuseHello ==
    /\ child = "running" /\ phase = "hello"
    /\ stdin # <<>> /\ Head(stdin).type # "torn"
    /\ Head(stdin).type = "hello" => ~plugin.accepts
    /\ stdin' = Tail(stdin)
    /\ phase' = "failed"
    /\ UNCHANGED <<plugin, serverPending, cancelled, task, emitted, result, cancelId,
                   outq, writerTask, stdout, stdinOpen, stdoutOpen, child, killed>>

(***************************************************************************)
(* The read loop.                                                          *)
(***************************************************************************)
Receive(t) ==
    /\ child = "running" /\ phase = "loop"
    /\ stdin # <<>> /\ Head(stdin).type = t
    /\ stdin' = Tail(stdin)

LoopHello ==
    /\ Receive("hello")
    /\ Send(ForRequest("error", None))
    /\ UNCHANGED <<plugin, phase, serverPending, cancelled, task, emitted, result,
                   cancelId, writerTask, stdout, stdinOpen, stdoutOpen, child, killed>>

LoopPing ==
    /\ Receive("ping")
    /\ Send(WithNonce("pong", Head(stdin).nonce))
    /\ UNCHANGED <<plugin, phase, serverPending, cancelled, task, emitted, result,
                   cancelId, writerTask, stdout, stdinOpen, stdoutOpen, child, killed>>

\* token.cancel(), for a request that has a token.
\* Mutant of TokenCancelled: the handler's hook alone is told.
TokenLeft(i) == cancelled
TokenCancelled(i) == cancelled \cup ({i} \cap serverPending)

\* The token first, then the handler's own hook, which the loop awaits.
LoopCancel ==
    /\ Receive("cancel")
    /\ cancelId' = Head(stdin).id
    /\ cancelled' = TokenCancelled(Head(stdin).id)
    /\ phase' = "cancelling"
    /\ UNCHANGED <<plugin, serverPending, task, emitted, result, outq, writerTask,
                   stdout, stdinOpen, stdoutOpen, child, killed>>

\* handler.cancel returns an error.
\* Mutant of CancelHookFails: every cancel is answered with an error.
CancelAnswers == TRUE
CancelHookFails == "cancel_error" \in HandlerFaults

CancelReturns ==
    /\ child = "running" /\ phase = "cancelling"
    /\ \/ UNCHANGED outq
       \/ CancelHookFails /\ Send(ForRequest("error", cancelId))
    /\ phase' = "loop"
    /\ cancelId' = None
    /\ UNCHANGED <<plugin, serverPending, cancelled, task, emitted, result, writerTask,
                   transportVars>>

LoopShutdown ==
    /\ Receive("shutdown")
    /\ cancelled' = serverPending
    /\ phase' = "draining"
    /\ UNCHANGED <<plugin, serverPending, task, emitted, result, cancelId, outq,
                   writerTask, stdout, stdinOpen, stdoutOpen, child, killed>>

\* tasks.join_next() has returned None.
\* Mutant of AllJoined: acknowledge without joining.
NobodyJoined == TRUE
AllJoined == LiveTasks = {}

\* Every task has been joined: acknowledge, leave the loop, drop tx.
DrainDone ==
    /\ child = "running" /\ phase = "draining"
    /\ AllJoined
    /\ Send(Control("shutdown_ack"))
    /\ phase' = "closing"
    /\ UNCHANGED <<plugin, serverPending, cancelled, task, emitted, result, cancelId,
                   writerTask, transportVars>>

\* The request id is already active.
\* Mutant of IsActive: no check for an active id.
NeverActive(i) == FALSE
IsActive(i) == i \in serverPending

LoopInvoke ==
    /\ Receive("invoke")
    /\ LET i == Head(stdin).id
       IN \/ /\ IsActive(i)
             /\ Send(ForRequest("error", i))
             /\ UNCHANGED <<serverPending, cancelled, task, emitted, result>>
          \/ /\ ~IsActive(i)
             /\ serverPending' = serverPending \cup {i}
             /\ cancelled' = cancelled \ {i}
             /\ Send(ForRequest("started", i))
             /\ task' = [task EXCEPT ![i] = "running"]
             /\ emitted' = [emitted EXCEPT ![i] = 0]
             /\ result' = [result EXCEPT ![i] = "none"]
    /\ UNCHANGED <<plugin, phase, cancelId, writerTask, stdout, stdinOpen, stdoutOpen,
                   child, killed>>

\* A torn frame leaves read_exact waiting for the bytes that never came ...
ReadTorn ==
    /\ child = "running" /\ phase \in {"hello", "loop"}
    /\ stdin # <<>> /\ Head(stdin).type = "torn"
    /\ stdin' = Tail(stdin)
    /\ phase' = "partial"
    /\ UNCHANGED <<plugin, serverPending, cancelled, task, emitted, result, cancelId,
                   outq, writerTask, stdout, stdinOpen, stdoutOpen, child, killed>>

\* ... and takes them from the next frames, until it has enough to find
\* that they are no frame.
ReadPartial ==
    /\ child = "running" /\ phase = "partial"
    /\ stdin # <<>>
    /\ stdin' = Tail(stdin)
    /\ phase' \in {"partial", "failed"}
    /\ UNCHANGED <<plugin, serverPending, cancelled, task, emitted, result, cancelId,
                   outq, writerTask, stdout, stdinOpen, stdoutOpen, child, killed>>

\* reader.read()? at the end of the input: serve_worker returns the error.
ReadEof ==
    /\ child = "running" /\ phase \in {"hello", "loop", "partial"}
    /\ StdinAtEof
    /\ phase' = "failed"
    /\ UNCHANGED <<plugin, serverPending, cancelled, task, emitted, result, cancelId,
                   outq, writerTask, transportVars>>

(***************************************************************************)
(* Handler tasks.                                                          *)
(***************************************************************************)
\* context.progress or context.output; also from a clone of the context
\* that outlives its task.
TaskEvent(i) ==
    /\ child = "running"
    /\ task[i] = "running" \/ (i \in Leaky /\ result[i] # "none")
    /\ emitted[i] < MaxEvents
    /\ emitted' = [emitted EXCEPT ![i] = @ + 1]
    /\ Send(ForRequest("event", i))
    /\ UNCHANGED <<plugin, phase, serverPending, cancelled, task, result, cancelId,
                   writerTask, transportVars>>

\* The handler returns, and its task sends the outcome it returned.
TaskReturn(i) ==
    /\ child = "running" /\ task[i] = "running"
    /\ \E r \in {"finished", "error"} :
          /\ result' = [result EXCEPT ![i] = r]
          /\ Send(ForRequest(r, i))
    /\ task' = [task EXCEPT ![i] = "returned"]
    /\ UNCHANGED <<plugin, phase, serverPending, cancelled, emitted, cancelId,
                   writerTask, transportVars>>

\* task_pending.remove(&id).
\* Mutant of Released: the entry is left behind.
NotReleased(i) == serverPending
Released(i) == serverPending \ {i}

TaskRemove(i) ==
    /\ child = "running" /\ task[i] = "returned"
    /\ serverPending' = Released(i)
    /\ task' = [task EXCEPT ![i] = "none"]
    /\ UNCHANGED <<plugin, phase, cancelled, emitted, result, cancelId, outq,
                   writerTask, transportVars>>

\* The handler panics: the JoinSet swallows the JoinError.
TaskPanic(i) ==
    /\ "panic" \in HandlerFaults
    /\ child = "running" /\ task[i] = "running"
    /\ task' = [task EXCEPT ![i] = "none"]
    /\ result' = [result EXCEPT ![i] = "panicked"]
    /\ UNCHANGED <<plugin, phase, serverPending, cancelled, emitted, cancelId, outq,
                   writerTask, transportVars>>

\* Handler code prints to stdout, between two frames.
StrayOutput ==
    /\ "stray_output" \in HandlerFaults
    /\ child = "running" /\ LiveTasks # {}
    /\ PluginWrites(Control("malformed"))
    /\ UNCHANGED <<serverVars, stdin, stdinOpen, stdoutOpen, child, killed>>

(***************************************************************************)
(* The writer task.                                                        *)
(***************************************************************************)
\* A result the frame limit may refuse.
TooLarge(f) == f.type = "finished" /\ f.id \in OversizeResults

WriterWrites ==
    /\ child = "running" /\ writerTask = "running"
    /\ outq # <<>>
    /\ PluginWrites(Head(outq))
    /\ outq' = Tail(outq)
    /\ UNCHANGED <<plugin, phase, serverPending, cancelled, task, emitted, result,
                   cancelId, writerTask, stdin, stdinOpen, stdoutOpen, child, killed>>

\* FrameError::TooLarge or a broken pipe ends the task and the channel with it.
WriterFails ==
    /\ child = "running" /\ writerTask = "running"
    /\ outq # <<>> /\ (TooLarge(Head(outq)) \/ ~stdoutOpen)
    /\ writerTask' = "failed"
    /\ outq' = <<>>
    /\ UNCHANGED <<plugin, phase, serverPending, cancelled, task, emitted, result,
                   cancelId, transportVars>>

\* rx.recv() returns None: the channel is empty and every sender dropped.
WriterEnds ==
    /\ child = "running" /\ writerTask = "running"
    /\ phase = "closing" /\ outq = <<>>
    /\ \A i \in Leaky : result[i] = "none"
    /\ writerTask' = "done"
    /\ UNCHANGED <<plugin, phase, serverPending, cancelled, task, emitted, result,
                   cancelId, outq, transportVars>>

(***************************************************************************)
(* The end of the process, by returning from serve_worker or by force.     *)
(* What was written to stdout stays in the pipe.                           *)
(***************************************************************************)
ProcessEnds ==
    /\ child' = "exited"
    /\ phase' = "exited"
    /\ stdin' = <<>>
    /\ serverPending' = {}
    /\ cancelled' = {}
    /\ task' = [i \in RequestId |-> "none"]
    /\ cancelId' = None
    /\ outq' = <<>>
    /\ writerTask' = IF writerTask = "running" THEN "done" ELSE writerTask
    /\ UNCHANGED <<plugin, emitted, result, stdout, stdinOpen, stdoutOpen, killed>>

ServeReturns ==
    /\ child = "running"
    /\ \/ phase = "closing" /\ writerTask # "running"
       \/ phase = "failed"
    /\ ProcessEnds

ProcessKilled ==
    /\ child = "running"
    /\ killed \/ "crash" \in HandlerFaults
    /\ ProcessEnds

(***************************************************************************)
(* The server's steps.  Fairness: the runtime keeps running every task     *)
(* that can run.                                                           *)
(***************************************************************************)
ReadLoop ==
    \/ ServeHello \/ RefuseHello
    \/ LoopHello \/ LoopPing \/ LoopCancel \/ CancelReturns
    \/ LoopShutdown \/ DrainDone \/ LoopInvoke
    \/ ReadTorn \/ ReadPartial \/ ReadEof

WriterLoop == WriterWrites \/ WriterFails \/ WriterEnds

HandlerTask(i) == TaskEvent(i) \/ TaskReturn(i) \/ TaskRemove(i) \/ TaskPanic(i)

ServerNext ==
    \/ ReadLoop
    \/ WriterLoop
    \/ \E i \in RequestId : HandlerTask(i)
    \/ StrayOutput
    \/ ServeReturns
    \/ ProcessKilled
=============================================================================

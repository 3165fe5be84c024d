---------------------------- MODULE AsyncWorker ----------------------------
(***************************************************************************)
(* A host's WorkerClient and the plugin's serve_worker over the two pipes  *)
(* of the child process.                                                   *)
(***************************************************************************)
EXTENDS AsyncClient, AsyncServer

vars == <<transportVars, clientVars, serverVars>>

TypeOK == TransportTypeOK /\ ClientTypeOK /\ ServerTypeOK

Init == TransportInit /\ ClientInit /\ ServerInit

\* spawn_with_interfaces_timeout against the executable at the path.
SpawnStep ==
    \/ SpawnRefused
    \/ Spawn(plugin.worker)
    \/ Handshake(plugin.same, plugin.protocol)

Client ==
    /\ \/ SpawnStep
       \/ ClientOwner
       \/ OwnerCalls
       \/ ReaderTask
       \/ \E i \in RequestId : Invoker(i) \/ Caller(i) \/ CallerChooses(i)
       \/ HostCrash
    /\ UNCHANGED serverVars

Server == ServerNext /\ UNCHANGED clientVars

\* Everything has come to its end.
Finished ==
    /\ ClientGone
    /\ child # "running"
    /\ ~ReaderRuns
    /\ \A i \in RequestId : invocation[i] \notin {"registering", "open", "drained"}

Stop == Finished /\ UNCHANGED vars

Next == Client \/ Server \/ Stop

(***************************************************************************)
(* Fairness.  Tokio runs what is ready, the operating system delivers a    *)
(* kill, timers fire, callers await what they called; an owner need call   *)
(* nothing, and a handler need come back only once its token is cancelled. *)
(***************************************************************************)
HostFairness ==
    /\ WF_vars((SpawnStep \/ ClientOwner) /\ UNCHANGED serverVars)
    /\ WF_vars(ReaderTask /\ UNCHANGED serverVars)
    /\ \A i \in RequestId :
          /\ WF_vars(Invoker(i) /\ UNCHANGED serverVars)
          /\ WF_vars(Caller(i) /\ UNCHANGED serverVars)

WorkerFairness ==
    /\ WF_vars(ReadLoop /\ UNCHANGED clientVars)
    /\ WF_vars(WriterLoop /\ UNCHANGED clientVars)
    /\ WF_vars(ServeReturns /\ UNCHANGED clientVars)
    /\ WF_vars(killed /\ ProcessKilled /\ UNCHANGED clientVars)
    /\ \A i \in RequestId :
          /\ WF_vars(i \in cancelled /\ TaskReturn(i) /\ UNCHANGED clientVars)
          /\ WF_vars(TaskRemove(i) /\ UNCHANGED clientVars)

Spec == Init /\ [][Next]_vars /\ HostFairness /\ WorkerFairness

\* Handlers that come back in any case.
HandlersReturn ==
    \A i \in RequestId : WF_vars(TaskReturn(i) /\ UNCHANGED clientVars)

SpecHandlersReturn == Spec /\ HandlersReturn

(***************************************************************************)
(* Safety.                                                                 *)
(***************************************************************************)
\* What the server has said and the reader task has not taken yet.
Wire == stdout \o outq

\* A failed cancel hook of i, which the worker answers with an error frame of
\* its own, beside the handler's outcome (lib.rs 564-570).
HookMayFail(i) == i \in cancelAsked /\ "cancel_error" \in HandlerFaults

\* No reply finds its caller unregistered: as long as the reader task runs,
\* every frame under way to an open invocation has an entry in pending to go
\* to (lib.rs 283 before 285-291; 247-249 only after the terminal frame),
\* unless its own handler talks on after its outcome.  Other requests may.
RepliesHaveRecipients ==
    ReaderRuns =>
        \A k \in 1 .. Len(Wire) :
            LET i == request_id(Wire[k])
            IN /\ i # None /\ invocation[i] \in {"registering", "open"}
               /\ i \notin Leaky /\ ~HookMayFail(i)
               => i \in clientPending

\* The caller has had the terminal frame.
Resolved == {"finished", "errored", "drained", "spent"}

\* Per request one of Finished and Error, once (README, "Persistent worker
\* model": plugin -> Finished(id, result) | Error(id, error)), whatever the
\* handlers of other requests do.
OneTerminal ==
    \A i \in RequestId :
        LET coming == inbox[i] \o Wire
            ends == {k \in 1 .. Len(coming) : Terminal(coming[k]) /\ coming[k].id = i}
        IN ~HookMayFail(i) =>
               /\ \A j, k \in ends : j = k
               /\ invocation[i] \in Resolved => ends = {}

\* A transcript is Started, then events, then at most one terminal frame,
\* which ends the invocation (README, "Persistent worker model").
TranscriptOrder ==
    \A i \in RequestId :
        LET t == transcript[i]
        IN \A k \in 1 .. Len(t) :
              /\ t[k] = "started" <=> k = 1
              /\ t[k] \in {"finished", "error"}
                    => k = Len(t) /\ invocation[i] \in Resolved

\* ChannelClosed is never a lost reply: finish() returns it only when the
\* reader task has come to the end of the stream (lib.rs 254, 425).
ClosedMeansStreamEnded ==
    \A i \in RequestId : invocation[i] = "closed" => ~ReaderRuns

\* Once shutdown has its acknowledgement every invocation still open already
\* has its outcome in its channel: the reader task may be aborted and pending
\* never cleared, and nobody waits for ever (lib.rs 342-367, 572-579) but the
\* caller of a handler that panicked.  The outcome is the last frame there,
\* unless its own handler talks on.
ShutdownDelivers ==
    clientPhase \in {"reaping", "killing", "shut"} =>
        \A i \in RequestId :
            invocation[i] = "open" /\ result[i] # "panicked" =>
                \E k \in 1 .. Len(inbox[i]) :
                    /\ Terminal(inbox[i][k])
                    /\ k = Len(inbox[i]) \/ i \in Leaky \/ HookMayFail(i)

(***************************************************************************)
(* Liveness.                                                               *)
(***************************************************************************)
\* finish() returns (README, "Persistent worker model": every invocation ends
\* in Finished or Error).
InvocationResolves ==
    \A i \in RequestId : (invocation[i] = "open") ~> (invocation[i] # "open")

\* The ways in which a request is left without an answer by a worker that
\* goes on: its handler panics (lib.rs 602, 549); a result over the frame
\* limit, its own or another's, ends the writer task (lib.rs 540); the reader
\* task has given up on a malformed frame before the request is made (lib.rs
\* 234-237, 283); it goes into the rest of a frame whose write was dropped
\* half way (lib.rs 296).
Silenced(i) ==
    \/ result[i] = "panicked"
    \/ writerTask = "failed" /\ stdoutOpen
    \/ reader = "stopped" /\ invocation[i] = "unused"
    \/ phase = "partial"

\* If handlers come back, finish() returns for every request that is not
\* silenced, whatever else happens: crashes, stray output, timeouts, Drop,
\* shutdown, full pipes (lib.rs 236-255, 404-427).
ResolvesUnlessSilenced ==
    HandlersReturn =>
        \A i \in RequestId :
            []~Silenced(i) => ((invocation[i] = "open") ~> (invocation[i] # "open"))

\* The same after cancel(), of handlers that only come back when they are
\* cancelled (lib.rs 386-393, 561-571).
CancelResolves ==
    \A i \in RequestId :
        []~Silenced(i) => ((i \in cancelAsked) ~> (invocation[i] # "open"))

\* A context that outlived its handler keeps the writer task, which
\* serve_worker awaits once it has acknowledged a shutdown (lib.rs 623).
WriterHeld == phase = "closing" /\ \E i \in Leaky : result[i] # "none"

\* shutdown() returns, and so do spawn and ping; and their writes, which no
\* timeout covers, find room again, as the worker reads on until it ends or has
\* acknowledged a shutdown (lib.rs 310-315, 333-338, 515-560).
OwnerReturns ==
    /\ (clientPhase \in {"spawned", "handshake", "pinging", "acking", "reaping", "killing"})
          ~> (clientPhase = "ready" \/ ClientGone)
    /\ (Len(stdin) = PipeCapacity)
          ~> (Len(stdin) < PipeCapacity \/ child # "running" \/ WriterHeld)

\* A finish() called after next_event() has handed out the terminal frame does
\* not wait for ever: the sender it waits for goes with the entry in pending
\* (lib.rs 247-249, 254, 400-402, 425).
DrainedReturns ==
    \A i \in RequestId : (invocation[i] = "drained") ~> (invocation[i] # "drained")

\* No client, no worker: however the client ended, its process ends
\* (README: "dropping the client still retains the process boundary"), unless
\* the host died while the worker waited for such a context.
NoOrphan == ClientGone ~> (child # "running" \/ (clientPhase = "crashed" /\ WriterHeld))

(***************************************************************************)
(* The abstract service.                                                   *)
(***************************************************************************)
\* An invoke that has not written its request is still idle: the worker
\* cannot know of it.
CallOf(i) ==
    CASE invocation[i] \in {"unused", "registering"} -> "idle"
      [] invocation[i] \in {"rejected", "abandoned"} -> "gone"
      [] invocation[i] \in {"drained", "spent"} ->
             IF transcript[i][Len(transcript[i])] = "finished" THEN "finished" ELSE "errored"
      [] OTHER -> invocation[i]

WorkOf(i) ==
    IF result[i] \in {"finished", "error"} THEN result[i]
    ELSE IF task[i] # "none" THEN "running" ELSE "none"

LinkState ==
    IF clientPhase = "shut" THEN "shut"
    ELSE IF reader \in {"stopped", "aborted"} \/ clientPhase = "crashed" THEN "lost" ELSE "up"

Service == INSTANCE WorkerService
    WITH Request <- RequestId,
         call <- [i \in RequestId |-> CallOf(i)],
         work <- [i \in RequestId |-> WorkOf(i)],
         link <- LinkState

\* The client and the server together keep the promise of WorkerService:
\* every step of theirs is one of its steps or none (lib.rs 137-427, 515-625).
KeepsPromise == Service!Spec
=============================================================================

----------------------------- MODULE SyncClient -----------------------------
(***************************************************************************)
(* WorkerClient of the outboard crate: one owner, whose methods all take   *)
(* &mut self or the client itself, and one reader thread that forwards     *)
(* every frame of the worker's stdout, and the error that ends it, through *)
(* an unbounded channel.                                                   *)
(***************************************************************************)
EXTENDS WorkerTransport

CONSTANTS
    MaxCancels,    \* bound: calls of cancel
    HostFaults     \* subset of {"timeout", "host_crash", "oversize"}

ASSUME SyncClientAssumption ==
    /\ MaxCancels \in Nat
    /\ HostFaults \subseteq {"timeout", "host_crash", "oversize"}

VARIABLES
    call,         \* the method the owner is in
    frame,        \* the frame it is writing or has written last
    ending,       \* what the call comes to once the child is reaped
    nextId,       \* WorkerClient::next_id
    cancels,      \* calls of cancel so far
    pings,        \* calls of ping so far
    pinged,       \* history of each nonce: no ping yet, one under way, the last
                  \* one Ok and none failed, or one that failed
    outcome,      \* what invoke returned, for each request
    transcript,   \* the frames invoke has collected
    rx,           \* the channel from the reader thread
    thread,       \* the reader thread
    reaped        \* the child has been waited for

clientVars == <<call, frame, ending, nextId, cancels, pings, pinged, outcome,
                transcript, rx, thread, reaped>>

\* failed is a spawn that returned an error, leaked one whose hello could not
\* be written, crashed a host process that died.
Gone == {"failed", "leaked", "shut", "dropped", "crashed"}
Call == Gone \cup {"start", "writing", "handshake", "ready", "invoking", "pinging",
                   "acking", "waiting", "joining"}

\* The error that ends the reader thread: the end of the stream, or bytes that
\* are no frame.
Eof == Control("eof")
ReadError(f) == f.type \in {"eof", "malformed"}
Received == PluginFrame \cup {Eof}

ClientTypeOK ==
    /\ call \in Call
    /\ frame \in HostFrame
    /\ ending \in {"none", "failed", "shut", "dropped"}
    /\ nextId \in 1 .. MaxRequests + 1
    /\ cancels \in 0 .. MaxCancels
    /\ pings \in 0 .. MaxPings
    /\ pinged \in [Nonce -> {"none", "open", "ok", "failed"}]
    /\ outcome \in [RequestId -> {"none", "finished", "errored", "closed", "rejected"}]
    /\ transcript \in [RequestId -> Seq(PluginFrame)]
    /\ rx \in Seq(Received)
    /\ thread \in {"none", "reading", "done"}
    /\ reaped \in BOOLEAN

ClientInit ==
    /\ call = "start"
    /\ frame = Control("hello")
    /\ ending = "none"
    /\ nextId = 1
    /\ cancels = 0
    /\ pings = 0
    /\ pinged = [n \in Nonce |-> "none"]
    /\ outcome = [i \in RequestId |-> "none"]
    /\ transcript = [i \in RequestId |-> <<>>]
    /\ rx = <<>>
    /\ thread = "none"
    /\ reaped = FALSE

(***************************************************************************)
(* The reader thread.                                                      *)
(***************************************************************************)
\* Whether or not a call waits for a frame.
ThreadReads == thread = "reading"

\* The Receiver is dropped with the client, or by the ? of a failed hello.
ReceiverDropped == call = "leaked"

\* reader_tx.send.
\* Mutant of Forwarded: a channel for one frame, and what does not fit is lost.
DropsWhenFull(f) == IF rx = <<>> THEN <<f>> ELSE rx
Forwarded(f) == Append(rx, f)

ThreadForwards ==
    /\ ThreadReads /\ stdout # <<>>
    /\ stdout' = Tail(stdout)
    /\ rx' = IF ReceiverDropped THEN rx ELSE Forwarded(Head(stdout))
    /\ LET ends == ReceiverDropped \/ ReadError(Head(stdout))
       IN /\ thread' = IF ends THEN "done" ELSE "reading"
          /\ stdoutOpen' = ~ends
    /\ UNCHANGED <<call, frame, ending, nextId, cancels, pings, pinged, outcome,
                   transcript, reaped, stdin, stdinOpen, child, killed>>

ThreadEof ==
    /\ ThreadReads /\ StdoutAtEof
    /\ rx' = IF ReceiverDropped THEN rx ELSE Append(rx, Eof)
    /\ thread' = "done"
    /\ stdoutOpen' = FALSE
    /\ UNCHANGED <<call, frame, ending, nextId, cancels, pings, pinged, outcome,
                   transcript, reaped, stdin, stdout, stdinOpen, child, killed>>

ReaderThread == ThreadForwards \/ ThreadEof

(***************************************************************************)
(* The end of a client: kill, wait, join.                                  *)
(***************************************************************************)
KillAndReap(e) ==
    /\ killed' = TRUE
    /\ call' = "waiting"
    /\ ending' = e

Wait ==
    /\ call = "waiting" /\ child = "exited"
    /\ reaped' = TRUE
    /\ call' = "joining"
    /\ UNCHANGED <<frame, ending, nextId, cancels, pings, pinged, outcome, transcript,
                   rx, thread, transportVars>>

\* Mutant of Joined: the thread is left behind.
NotJoined == TRUE
Joined == thread = "done"

Join ==
    /\ call = "joining" /\ Joined
    /\ call' = ending
    /\ UNCHANGED <<frame, ending, nextId, cancels, pings, pinged, outcome, transcript,
                   rx, thread, reaped, transportVars>>

(***************************************************************************)
(* spawn_with_interfaces_timeout.                                          *)
(***************************************************************************)
\* No worker mode, or the operating system does not start the executable.
SpawnRefused ==
    /\ call = "start"
    /\ call' = "failed"
    /\ UNCHANGED <<frame, ending, nextId, cancels, pings, pinged, outcome, transcript,
                   rx, thread, reaped, transportVars>>

\* The thread is started and the hello is written next.
Spawn(supported) ==
    /\ call = "start" /\ supported
    /\ child' = "running"
    /\ thread' = "reading"
    /\ call' = "writing"
    /\ UNCHANGED <<frame, ending, nextId, cancels, pings, pinged, outcome, transcript,
                   rx, reaped, stdin, stdout, stdinOpen, stdoutOpen, killed>>

\* The first frame: hello, with the manifest and a protocol the host takes.
Handshake(sameManifest, protocolAccepted) ==
    /\ call = "handshake" /\ rx # <<>>
    /\ rx' = Tail(rx)
    /\ IF Head(rx).type = "hello" /\ sameManifest /\ protocolAccepted
       THEN call' = "ready" /\ UNCHANGED <<ending, killed>>
       ELSE KillAndReap("failed")
    /\ UNCHANGED <<frame, nextId, cancels, pings, pinged, outcome, transcript, thread,
                   reaped, stdin, stdout, stdinOpen, stdoutOpen, child>>

\* recv_control returns Timeout or ChannelClosed.
NothingReceived == rx = <<>> /\ (thread = "done" \/ "timeout" \in HostFaults)

HandshakeFails ==
    /\ call = "handshake" /\ NothingReceived
    /\ KillAndReap("failed")
    /\ UNCHANGED <<frame, nextId, cancels, pings, pinged, outcome, transcript, rx,
                   thread, reaped, stdin, stdout, stdinOpen, stdoutOpen, child>>

(***************************************************************************)
(* A method call writes one frame, waiting for room in the pipe.           *)
(***************************************************************************)
Writes(f) ==
    /\ call = "ready"
    /\ call' = "writing"
    /\ frame' = f

CallInvoke ==
    /\ nextId \in RequestId
    /\ Writes(ForRequest("invoke", nextId))
    /\ nextId' = nextId + 1
    /\ UNCHANGED <<ending, cancels, pings, pinged, outcome, transcript, rx, thread,
                   reaped, transportVars>>

\* Of a request that was made: the ids come from transcripts.
CallCancel ==
    /\ cancels < MaxCancels
    /\ \E i \in RequestId : i < nextId /\ Writes(ForRequest("cancel", i))
    /\ cancels' = cancels + 1
    /\ UNCHANGED <<ending, nextId, pings, pinged, outcome, transcript, rx, thread,
                   reaped, transportVars>>

\* The nonce is the caller's, one it has used before or not.
CallPing ==
    /\ pings < MaxPings
    /\ \E n \in Nonce :
          /\ Writes(WithNonce("ping", n))
          /\ pinged' = [pinged EXCEPT ![n] = IF @ = "failed" THEN @ ELSE "open"]
    /\ pings' = pings + 1
    /\ UNCHANGED <<ending, nextId, cancels, outcome, transcript, rx, thread,
                   reaped, transportVars>>

CallShutdown ==
    /\ Writes(Control("shutdown"))
    /\ UNCHANGED <<ending, nextId, cancels, pings, pinged, outcome, transcript, rx,
                   thread, reaped, transportVars>>

\* ping returns.
PingReturns(r) ==
    pinged' = [pinged EXCEPT ![frame.nonce] = IF @ = "open" THEN r ELSE @]

AfterWrite(f) ==
    CASE f.type = "hello" -> "handshake"
      [] f.type = "invoke" -> "invoking"
      [] f.type = "ping" -> "pinging"
      [] f.type = "shutdown" -> "acking"
      [] OTHER -> "ready"

WriteFrame ==
    /\ call = "writing"
    /\ HostWrites(frame)
    /\ call' = AfterWrite(frame)
    /\ UNCHANGED <<frame, ending, nextId, cancels, pings, pinged, outcome, transcript,
                   rx, thread, reaped, stdout, stdinOpen, stdoutOpen, child, killed>>

\* A hello that cannot be written leaves the child as it is, and a shutdown
\* that cannot drops the client; the other calls just return the error.
WriteError ==
    /\ call = "writing"
    /\ HostWriteFails \/ (frame.type = "invoke" /\ "oversize" \in HostFaults)
    /\ \/ /\ frame.type = "hello"
          /\ call' = "leaked"
          /\ stdinOpen' = FALSE
          /\ UNCHANGED <<ending, pinged, outcome, killed>>
       \/ /\ frame.type = "shutdown"
          /\ KillAndReap("dropped")
          /\ UNCHANGED <<pinged, outcome, stdinOpen>>
       \/ /\ frame.type \notin {"hello", "shutdown"}
          /\ call' = "ready"
          /\ outcome' = IF frame.type = "invoke"
                        THEN [outcome EXCEPT ![frame.id] = "rejected"] ELSE outcome
          /\ IF frame.type = "ping" THEN PingReturns("failed") ELSE UNCHANGED pinged
          /\ UNCHANGED <<ending, stdinOpen, killed>>
    /\ UNCHANGED <<frame, nextId, cancels, pings, transcript, rx, thread, reaped,
                   stdin, stdout, stdoutOpen, child>>

(***************************************************************************)
(* invoke, which waits without a timeout.                                  *)
(***************************************************************************)
InvokeReturns(o) ==
    /\ outcome' = [outcome EXCEPT ![frame.id] = o]
    /\ call' = "ready"

\* The worker's error for this request.
\* Mutant of OwnError: for any request.
AnyError(f) == f.type = "error"
OwnError(f) == f.type = "error" /\ f.id = frame.id

\* Everything that does not end the call, whoever it is for, is an event.
InvokeRecv ==
    /\ call = "invoking" /\ rx # <<>>
    /\ LET f == Head(rx)
           finished == f = ForRequest("finished", frame.id)
       IN /\ transcript' = IF ReadError(f) \/ OwnError(f) THEN transcript
                           ELSE [transcript EXCEPT ![frame.id] = Append(@, f)]
          /\ \/ ReadError(f) /\ InvokeReturns("closed")
             \/ finished /\ InvokeReturns("finished")
             \/ OwnError(f) /\ InvokeReturns("errored")
             \/ ~ReadError(f) /\ ~finished /\ ~OwnError(f) /\ UNCHANGED <<call, outcome>>
    /\ rx' = Tail(rx)
    /\ UNCHANGED <<frame, ending, nextId, cancels, pings, pinged, thread, reaped,
                   transportVars>>

InvokeDisconnected ==
    /\ call = "invoking" /\ rx = <<>> /\ thread = "done"
    /\ InvokeReturns("closed")
    /\ UNCHANGED <<frame, ending, nextId, cancels, pings, pinged, transcript, rx, thread,
                   reaped, transportVars>>

(***************************************************************************)
(* ping and shutdown.                                                      *)
(***************************************************************************)
\* The pong for this ping.
\* Mutant of OwnPong: any pong.
AnyPong(f) == f.type = "pong"
OwnPong(f) == f.type = "pong" /\ f.nonce = frame.nonce

PingRecv ==
    /\ call = "pinging" /\ rx # <<>>
    /\ LET f == Head(rx)
           fails == f.type = "error" \/ ReadError(f)
       IN \/ OwnPong(f) /\ PingReturns("ok") /\ call' = "ready"
          \/ fails /\ PingReturns("failed") /\ call' = "ready"
          \/ ~OwnPong(f) /\ ~fails /\ UNCHANGED <<call, pinged>>
    /\ rx' = Tail(rx)
    /\ UNCHANGED <<frame, ending, nextId, cancels, pings, outcome, transcript, thread,
                   reaped, transportVars>>

PingFails ==
    /\ call = "pinging" /\ NothingReceived
    /\ PingReturns("failed")
    /\ call' = "ready"
    /\ UNCHANGED <<frame, ending, nextId, cancels, pings, outcome, transcript,
                   rx, thread, reaped, transportVars>>

\* The acknowledgement: wait for the child without a timeout.  An error of
\* any request: drop the client.
ShutdownRecv ==
    /\ call = "acking" /\ rx # <<>>
    /\ LET f == Head(rx)
           fails == f.type = "error" \/ ReadError(f)
       IN \/ fails /\ KillAndReap("dropped")
          \/ /\ f.type = "shutdown_ack"
             /\ call' = "waiting" /\ ending' = "shut" /\ UNCHANGED killed
          \/ ~fails /\ f.type # "shutdown_ack" /\ UNCHANGED <<call, ending, killed>>
    /\ rx' = Tail(rx)
    /\ UNCHANGED <<frame, nextId, cancels, pings, pinged, outcome, transcript, thread,
                   reaped, stdin, stdout, stdinOpen, stdoutOpen, child>>

ShutdownFails ==
    /\ call = "acking" /\ NothingReceived
    /\ KillAndReap("dropped")
    /\ UNCHANGED <<frame, nextId, cancels, pings, pinged, outcome, transcript, rx,
                   thread, reaped, stdin, stdout, stdinOpen, stdoutOpen, child>>

Drop ==
    /\ call = "ready"
    /\ KillAndReap("dropped")
    /\ UNCHANGED <<frame, nextId, cancels, pings, pinged, outcome, transcript, rx,
                   thread, reaped, stdin, stdout, stdinOpen, stdoutOpen, child>>

\* The host process dies.
HostCrash ==
    /\ "host_crash" \in HostFaults
    /\ call \notin Gone \cup {"start"}
    /\ call' = "crashed"
    /\ rx' = <<>>
    /\ thread' = "done"
    /\ stdinOpen' = FALSE
    /\ stdoutOpen' = FALSE
    /\ UNCHANGED <<frame, ending, nextId, cancels, pings, pinged, outcome, transcript,
                   reaped, stdin, stdout, child, killed>>

(***************************************************************************)
(* The client's steps: those of a call that is under way, and new calls.   *)
(***************************************************************************)
OwnerStep ==
    \/ WriteFrame \/ WriteError \/ HandshakeFails
    \/ InvokeRecv \/ InvokeDisconnected
    \/ PingRecv \/ PingFails \/ ShutdownRecv \/ ShutdownFails
    \/ Wait \/ Join

OwnerCalls == CallInvoke \/ CallCancel \/ CallPing \/ CallShutdown \/ Drop
=============================================================================

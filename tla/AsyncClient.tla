---------------------------- MODULE AsyncClient ----------------------------
(***************************************************************************)
(* WorkerClient and Invocation of outboard-tokio: the handshake at spawn,  *)
(* concurrent invokes over one writer, the reader task that routes frames  *)
(* to their invocations by id, ping, shutdown, and Drop.                   *)
(*                                                                         *)
(* Rust's borrows order the client's methods: invoke takes &self, so many  *)
(* run at once; ping takes &mut self, shutdown and Drop the client itself, *)
(* so none of them overlaps an invoke that has not returned.  Invocations  *)
(* outlive the client.                                                     *)
(***************************************************************************)
EXTENDS WorkerTransport

CONSTANT
    HostFaults     \* what the host and its callers may do, of MayDo

\* Timers run out, the host dies, futures are dropped, in the middle of a write
\* too, requests are too large, callers use next_event.
MayDo == {"timeout", "host_crash", "abandon", "torn", "oversize", "next_event"}
ASSUME ClientAssumption == HostFaults \subseteq MayDo

VARIABLES
    clientPhase,    \* where the owner of the client is
    nextId,         \* ClientInner::next_id
    clientPending,  \* keys of ClientInner::pending
    invocation,     \* each request as its caller sees it
    inbox,          \* the channel from the reader task to the invocation
    transcript,     \* types of the frames the caller has received
    cancelAsked,    \* invocations whose caller has sent Cancel
    globalq,        \* the channel of frames without an id
    pings,          \* the nonces of the pings sent, in order
    reader,         \* the reader task
    readerId        \* the id it is about to remove from pending

clientVars == <<clientPhase, nextId, clientPending, invocation, inbox, transcript,
                cancelAsked, globalq, pings, reader, readerId>>

\* "failed" is a spawn that returned an error; "shut" a shutdown that
\* returned Ok; "dropped" a client dropped, by a shutdown that failed or by
\* its owner; "crashed" a host process that died.
ClientPhase == {"start", "spawned", "handshake", "ready", "pinging", "acking",
                "reaping", "killing", "shut", "dropped", "failed", "crashed"}

\* finished, errored and closed are what finish() returns: Ok, the worker's
\* error, ChannelClosed.  rejected is an invoke that returned an error.  In
\* drained next_event() has handed out the terminal frame; a finish() after
\* that returns ChannelClosed: spent.
InvocationState == {"unused", "registering", "open", "finished", "errored",
                    "closed", "drained", "spent", "rejected", "abandoned"}

ClientTypeOK ==
    /\ clientPhase \in ClientPhase
    /\ nextId \in 1 .. MaxRequests + 1
    /\ clientPending \subseteq RequestId
    /\ invocation \in [RequestId -> InvocationState]
    /\ inbox \in [RequestId -> Seq(PluginFrame)]
    /\ transcript \in [RequestId -> Seq(PluginType)]
    /\ cancelAsked \subseteq RequestId
    /\ globalq \in Seq(PluginFrame)
    /\ pings \in Seq(Nonce) /\ Len(pings) <= MaxPings
    /\ reader \in {"none", "read", "remove", "stopped", "aborted"}
    /\ readerId \in RequestId \cup {None}

ClientInit ==
    /\ clientPhase = "start"
    /\ nextId = 1
    /\ clientPending = {}
    /\ invocation = [i \in RequestId |-> "unused"]
    /\ inbox = [i \in RequestId |-> <<>>]
    /\ transcript = [i \in RequestId |-> <<>>]
    /\ cancelAsked = {}
    /\ globalq = <<>>
    /\ pings = <<>>
    /\ reader = "none"
    /\ readerId = None

\* The client value is gone, and global_rx with it.
ClientGone == clientPhase \in {"shut", "dropped", "failed", "crashed"}

\* No invoke holds &self.
Unborrowed == \A i \in RequestId : invocation[i] # "registering"

ReaderRuns == reader \in {"read", "remove"}

(***************************************************************************)
(* spawn_with_interfaces_timeout.  Every error drops the Child, which      *)
(* kill_on_drop kills, and both pipes.                                     *)
(***************************************************************************)
SpawnFails ==
    /\ clientPhase' = "failed"
    /\ killed' = TRUE
    /\ stdinOpen' = FALSE
    /\ stdoutOpen' = FALSE
    /\ UNCHANGED <<nextId, clientPending, invocation, inbox, transcript, cancelAsked,
                   globalq, pings, reader, readerId, stdin, child>>

\* No worker mode, or the operating system does not start the executable.
SpawnRefused ==
    /\ clientPhase = "start"
    /\ clientPhase' = "failed"
    /\ UNCHANGED <<nextId, clientPending, invocation, inbox, transcript, cancelAsked,
                   globalq, pings, reader, readerId, transportVars>>

Spawn(supported) ==
    /\ clientPhase = "start" /\ supported
    /\ child' = "running"
    /\ clientPhase' = "spawned"
    /\ UNCHANGED <<nextId, clientPending, invocation, inbox, transcript, cancelAsked,
                   globalq, pings, reader, readerId, stdin, stdout, stdinOpen,
                   stdoutOpen, killed>>

WriteHello ==
    /\ clientPhase = "spawned"
    /\ \/ /\ HostWrites(Control("hello"))
          /\ clientPhase' = "handshake"
          /\ UNCHANGED <<nextId, clientPending, invocation, inbox, transcript,
                         cancelAsked, globalq, pings, reader, readerId, stdout,
                         stdinOpen, stdoutOpen, child, killed>>
       \/ HostWriteFails /\ SpawnFails /\ UNCHANGED stdout

\* The first frame: hello, with the manifest and a protocol the host takes.
Handshake(sameManifest, protocolAccepted) ==
    /\ clientPhase = "handshake" /\ stdout # <<>>
    /\ stdout' = Tail(stdout)
    /\ IF Head(stdout).type = "hello" /\ sameManifest /\ protocolAccepted
       THEN /\ clientPhase' = "ready"
            /\ reader' = "read"
            /\ UNCHANGED <<nextId, clientPending, invocation, inbox, transcript,
                           cancelAsked, globalq, pings, readerId, stdin, stdinOpen,
                           stdoutOpen, child, killed>>
       ELSE SpawnFails

\* The end of the stream, or the control timeout.
HandshakeFails ==
    /\ clientPhase = "handshake"
    /\ StdoutAtEof \/ "timeout" \in HostFaults
    /\ SpawnFails
    /\ UNCHANGED stdout

(***************************************************************************)
(* invoke: take an id, register it, then write.                            *)
(***************************************************************************)
InvokeRegister ==
    /\ clientPhase = "ready" /\ nextId \in RequestId
    /\ nextId' = nextId + 1
    /\ clientPending' = clientPending \cup {nextId}
    /\ invocation' = [invocation EXCEPT ![nextId] = "registering"]
    /\ UNCHANGED <<clientPhase, inbox, transcript, cancelAsked, globalq, pings, reader,
                   readerId, transportVars>>

InvokeWrite(i) ==
    /\ invocation[i] = "registering"
    /\ HostWrites(ForRequest("invoke", i))
    /\ invocation' = [invocation EXCEPT ![i] = "open"]
    /\ UNCHANGED <<clientPhase, nextId, clientPending, inbox, transcript, cancelAsked,
                   globalq, pings, reader, readerId, stdout, stdinOpen, stdoutOpen,
                   child, killed>>

\* The write fails, or the request is over the frame limit: unregister.
InvokeFails(i) ==
    /\ invocation[i] = "registering"
    /\ HostWriteFails \/ "oversize" \in HostFaults
    /\ invocation' = [invocation EXCEPT ![i] = "rejected"]
    /\ clientPending' = clientPending \ {i}
    /\ UNCHANGED <<clientPhase, nextId, inbox, transcript, cancelAsked, globalq, pings,
                   reader, readerId, transportVars>>

\* The caller drops the future of invoke before the write is done.
InvokeDropped(i) ==
    /\ invocation[i] = "registering"
    /\ invocation' = [invocation EXCEPT ![i] = "abandoned"]
    /\ \/ "abandon" \in HostFaults /\ UNCHANGED stdin
       \/ "torn" \in HostFaults /\ HostWrites(Control("torn"))
    /\ UNCHANGED <<clientPhase, nextId, clientPending, inbox, transcript, cancelAsked,
                   globalq, pings, reader, readerId, stdout, stdinOpen, stdoutOpen,
                   child, killed>>

(***************************************************************************)
(* Invocation.                                                             *)
(***************************************************************************)
Cancel(i) ==
    /\ invocation[i] \in {"open", "drained"} /\ i \notin cancelAsked
    /\ HostWrites(ForRequest("cancel", i))
    /\ cancelAsked' = cancelAsked \cup {i}
    /\ UNCHANGED <<clientPhase, nextId, clientPending, invocation, inbox, transcript,
                   globalq, pings, reader, readerId, stdout, stdinOpen, stdoutOpen,
                   child, killed>>

\* What a frame makes of the invocation.
\* Mutant of Outcome: an error is taken for one more event.
OnlyFinishedEnds(f) == IF f.type = "finished" THEN "finished" ELSE "open"
Outcome(f) ==
    CASE f.type = "finished" -> "finished"
      [] f.type = "error" -> "errored"
      [] OTHER -> "open"

\* What becomes of an invocation when its caller is gone.
Dropped(state) ==
    CASE state \in {"registering", "open"} -> "abandoned"
      [] state = "drained" -> "spent"
      [] OTHER -> state

\* One turn of finish(): the next frame, or None once the channel is empty
\* and its only sender, the entry in pending, is gone.
FinishRecv(i) ==
    /\ invocation[i] = "open" /\ inbox[i] # <<>>
    /\ LET f == Head(inbox[i])
       IN /\ transcript' = [transcript EXCEPT ![i] = Append(@, f.type)]
          /\ invocation' = [invocation EXCEPT ![i] = Outcome(f)]
    /\ inbox' = [inbox EXCEPT ![i] = Tail(@)]
    /\ UNCHANGED <<clientPhase, nextId, clientPending, cancelAsked, globalq, pings,
                   reader, readerId, transportVars>>

FinishClosed(i) ==
    /\ invocation[i] \in {"open", "drained"} /\ inbox[i] = <<>> /\ i \notin clientPending
    /\ invocation' = [invocation EXCEPT ![i] = IF @ = "open" THEN "closed" ELSE "spent"]
    /\ UNCHANGED <<clientPhase, nextId, clientPending, inbox, transcript, cancelAsked,
                   globalq, pings, reader, readerId, transportVars>>

\* next_event(): what it hands out is not kept for finish().  Frames before the
\* terminal one are received as in FinishRecv.
NextEvent(i) ==
    /\ "next_event" \in HostFaults
    /\ invocation[i] = "open" /\ inbox[i] # <<>> /\ Terminal(Head(inbox[i]))
    /\ transcript' = [transcript EXCEPT ![i] = Append(@, Head(inbox[i]).type)]
    /\ invocation' = [invocation EXCEPT ![i] = "drained"]
    /\ inbox' = [inbox EXCEPT ![i] = Tail(@)]
    /\ UNCHANGED <<clientPhase, nextId, clientPending, cancelAsked, globalq, pings,
                   reader, readerId, transportVars>>

\* The caller drops the Invocation: its receiver goes, its entry stays.
InvocationDropped(i) ==
    /\ "abandon" \in HostFaults
    /\ invocation[i] \in {"open", "drained"}
    /\ invocation' = [invocation EXCEPT ![i] = Dropped(@)]
    /\ inbox' = [inbox EXCEPT ![i] = <<>>]
    /\ UNCHANGED <<clientPhase, nextId, clientPending, transcript, cancelAsked, globalq,
                   pings, reader, readerId, transportVars>>

(***************************************************************************)
(* The reader task.                                                        *)
(***************************************************************************)
\* Mutant of Cleared: pending is left as it is when the stream ends.
NothingCleared == clientPending
\* pending.clear().
Cleared == {}

\* The loop is left: pending.clear(), and the read end and global_tx drop.
ReaderBreaks ==
    /\ reader' = "stopped"
    /\ clientPending' = Cleared
    /\ stdoutOpen' = FALSE
    /\ UNCHANGED <<globalq, inbox, readerId>>

\* tx.send(frame) to an invocation that still has its receiver.
Delivered(i, f) ==
    IF i \in clientPending /\ invocation[i] \in {"registering", "open", "drained"}
    THEN [inbox EXCEPT ![i] = Append(@, f)]
    ELSE inbox

\* The frames after which the entry in pending goes.
\* Mutants of EndsEntry: Started ends the entry too; only Finished does.
OnlyFinishedRemoves(f) == f.type = "finished"
AllButEventsEnd(f) == f.type # "event"
EndsEntry(f) == Terminal(f)

ReaderRoute ==
    /\ reader = "read" /\ stdout # <<>>
    /\ stdout' = Tail(stdout)
    /\ LET f == Head(stdout)
           i == request_id(f)
       IN \/ /\ i # None
             /\ inbox' = Delivered(i, f)
             /\ reader' = IF EndsEntry(f) THEN "remove" ELSE "read"
             /\ readerId' = IF EndsEntry(f) THEN i ELSE None
             /\ UNCHANGED <<clientPending, globalq, stdoutOpen>>
          \/ /\ i = None /\ f.type # "malformed" /\ ~ClientGone
             /\ globalq' = Append(globalq, f)
             /\ UNCHANGED <<inbox, reader, readerId, clientPending, stdoutOpen>>
          \/ /\ i = None /\ (f.type = "malformed" \/ ClientGone)
             /\ ReaderBreaks
    /\ UNCHANGED <<clientPhase, nextId, invocation, transcript, cancelAsked, pings,
                   stdin, stdinOpen, child, killed>>

ReaderRemove ==
    /\ reader = "remove"
    /\ clientPending' = clientPending \ {readerId}
    /\ reader' = "read"
    /\ readerId' = None
    /\ UNCHANGED <<clientPhase, nextId, invocation, inbox, transcript, cancelAsked,
                   globalq, pings, transportVars>>

ReaderEof ==
    /\ reader = "read" /\ StdoutAtEof
    /\ ReaderBreaks
    /\ UNCHANGED <<clientPhase, nextId, invocation, transcript, cancelAsked, pings,
                   stdin, stdout, stdinOpen, child, killed>>

(***************************************************************************)
(* ping.                                                                   *)
(***************************************************************************)
\* The nonce is the caller's, one it has used before or not.
PingWrite ==
    /\ clientPhase = "ready" /\ Unborrowed /\ Len(pings) < MaxPings
    /\ \E n \in Nonce :
          /\ HostWrites(WithNonce("ping", n))
          /\ pings' = Append(pings, n)
    /\ clientPhase' = "pinging"
    /\ UNCHANGED <<nextId, clientPending, invocation, inbox, transcript, cancelAsked,
                   globalq, reader, readerId, stdout, stdinOpen, stdoutOpen, child,
                   killed>>

\* Own pong or an error ends the wait; anything else is skipped.
PingRecv ==
    /\ clientPhase = "pinging" /\ globalq # <<>>
    /\ LET f == Head(globalq)
           ends == (f.type = "pong" /\ f.nonce = pings[Len(pings)]) \/ f.type = "error"
       IN clientPhase' = IF ends THEN "ready" ELSE "pinging"
    /\ globalq' = Tail(globalq)
    /\ UNCHANGED <<nextId, clientPending, invocation, inbox, transcript, cancelAsked,
                   pings, reader, readerId, transportVars>>

PingFails ==
    /\ clientPhase = "pinging"
    /\ (globalq = <<>> /\ ~ReaderRuns) \/ "timeout" \in HostFaults
    /\ clientPhase' = "ready"
    /\ UNCHANGED <<nextId, clientPending, invocation, inbox, transcript, cancelAsked,
                   globalq, pings, reader, readerId, transportVars>>

(***************************************************************************)
(* shutdown and Drop.                                                      *)
(***************************************************************************)
\* Mutant of ClientDropped: no kill.
DroppedAlive ==
    /\ clientPhase' = "dropped"
    /\ globalq' = <<>>
    /\ UNCHANGED <<nextId, clientPending, invocation, inbox, transcript, cancelAsked,
                   pings, reader, readerId, transportVars>>
\* Drop for WorkerClient: start_kill.
ClientDropped ==
    /\ clientPhase' = "dropped"
    /\ killed' = TRUE
    /\ globalq' = <<>>
    /\ UNCHANGED <<nextId, clientPending, invocation, inbox, transcript, cancelAsked,
                   pings, reader, readerId, stdin, stdout, stdinOpen, stdoutOpen, child>>

ShutdownWrite ==
    /\ clientPhase = "ready" /\ Unborrowed
    /\ \/ /\ HostWrites(Control("shutdown"))
          /\ clientPhase' = "acking"
          /\ UNCHANGED <<nextId, clientPending, invocation, inbox, transcript,
                         cancelAsked, globalq, pings, reader, readerId, stdout,
                         stdinOpen, stdoutOpen, child, killed>>
       \/ HostWriteFails /\ ClientDropped

ShutdownRecv ==
    /\ clientPhase = "acking" /\ globalq # <<>>
    /\ \/ /\ Head(globalq).type # "error"
          /\ clientPhase' = IF Head(globalq).type = "shutdown_ack"
                            THEN "reaping" ELSE "acking"
          /\ globalq' = Tail(globalq)
          /\ UNCHANGED <<nextId, clientPending, invocation, inbox, transcript,
                         cancelAsked, pings, reader, readerId, transportVars>>
       \/ Head(globalq).type = "error" /\ ClientDropped

\* ChannelClosed or the timeout, while waiting for the acknowledgement.
ShutdownFails ==
    /\ clientPhase = "acking"
    /\ (globalq = <<>> /\ ~ReaderRuns) \/ "timeout" \in HostFaults
    /\ ClientDropped

\* child.wait() returns: abort the reader task, drop the client.
Reap ==
    /\ clientPhase = "reaping" /\ child = "exited"
    /\ clientPhase' = "shut"
    /\ reader' = IF ReaderRuns THEN "aborted" ELSE reader
    /\ readerId' = None
    /\ stdoutOpen' = FALSE
    /\ globalq' = <<>>
    /\ UNCHANGED <<nextId, clientPending, invocation, inbox, transcript, cancelAsked,
                   pings, stdin, stdout, stdinOpen, child, killed>>

\* Mutant of ReapTimeout: no kill before the second wait.
WaitForever ==
    /\ "timeout" \in HostFaults
    /\ clientPhase = "reaping"
    /\ clientPhase' = "killing"
    /\ UNCHANGED <<nextId, clientPending, invocation, inbox, transcript, cancelAsked,
                   globalq, pings, reader, readerId, transportVars>>
\* The child did not end in time: kill it and wait again.
ReapTimeout ==
    /\ "timeout" \in HostFaults
    /\ clientPhase = "reaping"
    /\ clientPhase' = "killing"
    /\ killed' = TRUE
    /\ UNCHANGED <<nextId, clientPending, invocation, inbox, transcript, cancelAsked,
                   globalq, pings, reader, readerId, stdin, stdout, stdinOpen,
                   stdoutOpen, child>>

KillReap ==
    /\ clientPhase = "killing" /\ child = "exited"
    /\ ClientDropped

Drop == clientPhase = "ready" /\ Unborrowed /\ ClientDropped

\* The host process dies: the pipes close, nobody sends a kill signal.
HostCrash ==
    /\ "host_crash" \in HostFaults
    /\ clientPhase \notin {"start", "failed", "crashed"}
    /\ clientPhase' = "crashed"
    /\ invocation' = [i \in RequestId |-> Dropped(invocation[i])]
    /\ inbox' = [i \in RequestId |-> <<>>]
    /\ clientPending' = {}
    /\ globalq' = <<>>
    /\ reader' = IF ReaderRuns THEN "aborted" ELSE reader
    /\ readerId' = None
    /\ stdinOpen' = FALSE
    /\ stdoutOpen' = FALSE
    /\ UNCHANGED <<nextId, transcript, cancelAsked, pings, stdin, stdout, child, killed>>

(***************************************************************************)
(* The client's steps, by who takes them.                                  *)
(***************************************************************************)
ReaderTask == ReaderRoute \/ ReaderRemove \/ ReaderEof

ClientOwner ==
    \/ WriteHello \/ HandshakeFails
    \/ PingRecv \/ PingFails
    \/ ShutdownRecv \/ ShutdownFails \/ Reap \/ ReapTimeout \/ KillReap

OwnerCalls == InvokeRegister \/ PingWrite \/ ShutdownWrite \/ Drop

Invoker(i) == InvokeWrite(i) \/ InvokeFails(i)

Caller(i) == FinishRecv(i) \/ FinishClosed(i)

CallerChooses(i) == Cancel(i) \/ NextEvent(i) \/ InvokeDropped(i) \/ InvocationDropped(i)
=============================================================================

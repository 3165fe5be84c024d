-------------------------- MODULE WorkerTransport --------------------------
(***************************************************************************)
(* The wire between a host and a worker plugin: the frames of              *)
(* outboard-protocol and the two pipes of the child process.               *)
(*                                                                         *)
(* A pipe is a FIFO of whole frames that holds at most PipeCapacity of     *)
(* them; a writer that finds it full waits.  A frame's payload is left     *)
(* out: what the code decides on is its type, its request id and, for      *)
(* ping and pong, the nonce.                                               *)
(***************************************************************************)
EXTENDS Naturals, Sequences

CONSTANTS
    MaxRequests,    \* bound: request ids are 1 .. MaxRequests
    MaxPings,       \* bound: nonces are 1 .. MaxPings
    PipeCapacity    \* frames an operating-system pipe holds

ASSUME TransportAssumption ==
    /\ MaxRequests \in Nat \ {0}
    /\ MaxPings \in Nat
    /\ PipeCapacity \in Nat \ {0}

RequestId == 1 .. MaxRequests

\* Option::None of a frame's id, and the nonce of a frame that has none.
None == 0

Nonce == 1 .. MaxPings

\* HostFrame.  "torn" is what is left of a frame whose write was given up
\* half way: bytes that the reader cannot tell from the start of a frame.
HostType == {"hello", "invoke", "cancel", "ping", "shutdown", "torn"}

HostFrame ==
    {f \in [type : HostType, id : RequestId \cup {None}, nonce : Nonce \cup {None}] :
        f.type \in {"invoke", "cancel"} => f.id \in RequestId}

\* PluginFrame.  "event" stands for Progress and Output, which every reader
\* of the code treats alike; "malformed" for bytes that are no frame.
PluginType == {"hello", "started", "event", "finished", "error", "pong",
               "shutdown_ack", "malformed"}

PluginFrame == [type : PluginType, id : RequestId \cup {None}, nonce : Nonce \cup {None}]

\* A frame with neither id nor nonce, one for a request, and a ping or pong.
Control(t) == [type |-> t, id |-> None, nonce |-> None]
ForRequest(t, i) == [type |-> t, id |-> i, nonce |-> None]
WithNonce(t, n) == [type |-> t, id |-> None, nonce |-> n]

\* PluginFrame::request_id.
request_id(f) ==
    IF f.type \in {"started", "event", "finished", "error"} THEN f.id ELSE None

\* The frames that end a request.
Terminal(f) == f.type \in {"finished", "error"}

(***************************************************************************)
(* The child process and its pipes.                                        *)
(***************************************************************************)
VARIABLES
    stdin,        \* host to plugin
    stdout,       \* plugin to host
    stdinOpen,    \* the host still holds the write end of stdin
    stdoutOpen,   \* the host still holds the read end of stdout
    child,        \* "none" before spawn, then "running", then "exited"
    killed        \* the host has sent the child a kill signal

transportVars == <<stdin, stdout, stdinOpen, stdoutOpen, child, killed>>

TransportTypeOK ==
    /\ stdin \in Seq(HostFrame)
    /\ Len(stdin) <= PipeCapacity
    /\ stdout \in Seq(PluginFrame)
    /\ Len(stdout) <= PipeCapacity
    /\ stdinOpen \in BOOLEAN
    /\ stdoutOpen \in BOOLEAN
    /\ child \in {"none", "running", "exited"}
    /\ killed \in BOOLEAN

TransportInit ==
    /\ stdin = <<>>
    /\ stdout = <<>>
    /\ stdinOpen = TRUE
    /\ stdoutOpen = TRUE
    /\ child = "none"
    /\ killed = FALSE

\* FramedWriter::write from the host: the frame goes into the pipe whole,
\* once there is room.  It fails when the child is gone.
HostWrites(f) ==
    /\ child = "running"
    /\ stdinOpen
    /\ Len(stdin) < PipeCapacity
    /\ stdin' = Append(stdin, f)

HostWriteFails == child = "exited"

\* The plugin's side of the same.  It fails when the read end is closed.
\* Mutant of StdoutHasRoom: a writer that does not wait for room.
NeverWaits == TRUE
StdoutHasRoom == Len(stdout) < PipeCapacity
PluginWrites(f) ==
    /\ stdoutOpen
    /\ StdoutHasRoom
    /\ stdout' = Append(stdout, f)

\* FrameError::UnexpectedEof as the plugin and as the host see it.
\* Mutant of StdinAtEof: the end of the input taken for no input yet.
KeepsReading == FALSE
StdinAtEof == stdin = <<>> /\ ~stdinOpen
StdoutAtEof == stdout = <<>> /\ child = "exited"
=============================================================================

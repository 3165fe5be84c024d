------------------------- MODULE SyncServerAnyHost -------------------------
(***************************************************************************)
(* serve_worker of the outboard crate against a host that keeps no rule of *)
(* the protocol.                                                           *)
(***************************************************************************)
EXTENDS SyncServer, AnyHost

vars == <<transportVars, serverVars, sent>>

TypeOK == TransportTypeOK /\ ServerTypeOK /\ sent \in 0 .. MaxSends

Init == HostInit /\ ServerInit

Host == AnyHostNext /\ UNCHANGED serverVars

Server == ServerNext /\ UNCHANGED sent

Next == Host \/ Server

\* The server's thread runs, and handlers come back.  The host owes nothing.
ServerFairness ==
    /\ WF_vars(ServerLoop /\ UNCHANGED sent)
    /\ WF_vars(HandlerReturn /\ UNCHANGED sent)

Spec == Init /\ [][Next]_vars /\ ServerFairness

(***************************************************************************)
(* Properties.                                                             *)
(***************************************************************************)
\* What the host has not read yet, and what is being written.
Wire == IF phase = "writing" THEN Append(stdout, answer) ELSE stdout

\* Frames of a request whose handler is still at work.
Open(f) == f.type \in {"started", "event"}

\* One invocation at a time, whatever ids the host reuses: from Started to
\* its terminal frame nothing else is on the wire, no pong, no error, no
\* other request, stray output aside (ARCHITECTURE: "the synchronous worker
\* API is intentionally sequential"; worker.rs 395-409).
Sequential ==
    \A k \in 1 .. Len(Wire) - 1 :
        /\ Open(Wire[k]) =>
              \/ Wire[k + 1].type = "malformed"
              \/ Wire[k + 1].id = Wire[k].id /\ Wire[k + 1].type \in {"event", "finished", "error"}
        /\ Wire[k + 1].type \in {"event", "finished"} =>
              \/ Wire[k].type = "malformed"
              \/ Wire[k].id = Wire[k + 1].id /\ Open(Wire[k])

\* A host that has closed both pipes leaves no worker (worker.rs 377: ?).
HostGoneWorkerGone == (~stdinOpen /\ ~stdoutOpen) ~> (child = "exited")
=============================================================================

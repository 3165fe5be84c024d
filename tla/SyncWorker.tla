----------------------------- MODULE SyncWorker -----------------------------
(***************************************************************************)
(* The synchronous WorkerClient and the synchronous serve_worker over the  *)
(* two pipes of the child process.                                         *)
(***************************************************************************)
EXTENDS SyncClient, SyncServer, FiniteSets

vars == <<transportVars, clientVars, serverVars>>

TypeOK == TransportTypeOK /\ ClientTypeOK /\ ServerTypeOK

Init == TransportInit /\ ClientInit /\ ServerInit

\* spawn_with_interfaces_timeout against the executable at the path.
SpawnStep ==
    \/ SpawnRefused
    \/ Spawn(plugin.worker)
    \/ Handshake(plugin.same, plugin.protocol)

Client ==
    /\ SpawnStep \/ OwnerStep \/ OwnerCalls \/ ReaderThread \/ HostCrash
    /\ UNCHANGED serverVars

Server == ServerNext /\ UNCHANGED clientVars

Stop == call \in Gone /\ child # "running" /\ thread # "reading" /\ UNCHANGED vars

Next == Client \/ Server \/ Stop

\* Threads run, a kill is delivered, timers fire, a handler comes back; the
\* owner need call nothing.
Spec ==
    /\ Init /\ [][Next]_vars
    /\ WF_vars((SpawnStep \/ OwnerStep) /\ UNCHANGED serverVars)
    /\ WF_vars(ReaderThread /\ UNCHANGED serverVars)
    /\ WF_vars(ServerLoop /\ UNCHANGED clientVars)
    /\ WF_vars(HandlerReturn /\ UNCHANGED clientVars)
    /\ WF_vars(killed /\ ProcessKilled /\ UNCHANGED clientVars)

(***************************************************************************)
(* Safety.                                                                 *)
(***************************************************************************)
\* The transcript of an invoke that returned Ok holds every frame of its own
\* request, each once and in order, and of others no more than late pongs and
\* the errors of cancels (worker.rs 203-228).
TranscriptComplete ==
    \A i \in RequestId : outcome[i] = "finished" =>
        LET whole == transcript[i]
            own == {k \in 1 .. Len(whole) : request_id(whole[k]) = i}
        IN /\ Cardinality(own) = emitted[i] + 2
           /\ \A k \in own :
                 /\ whole[k].type = "started" <=> \A m \in own : k <= m
                 /\ whole[k].type = "finished" <=> k = Len(whole)
           /\ \A k \in (1 .. Len(whole)) \ own : whole[k].type \in {"pong", "error"}

\* What the server has said and the owner has not looked at yet.
Coming == rx \o (IF phase = "writing" THEN Append(stdout, answer) ELSE stdout)

\* A ping that returned Ok was answered: its pong is not still to come, so the
\* late pong of another ping was not taken for it (worker.rs 241).  The caller
\* chooses the nonce; one whose pings have all returned Ok may be used again,
\* but after a ping that failed, by a timeout or by somebody's error, its late
\* pong answers the next ping with the same nonce.
PingIsFresh ==
    \A n \in Nonce : pinged[n] = "ok" =>
        /\ \A k \in 1 .. Len(stdin) : stdin[k] # WithNonce("ping", n)
        /\ \A k \in 1 .. Len(Coming) : Coming[k] # WithNonce("pong", n)

\* A client that ended, by an error of spawn, by shutdown or by Drop, leaves
\* neither a child nor a zombie nor a thread (worker.rs 133-164, 257-261,
\* 265-273); a hello that cannot be written is the one way to leak them.
NothingLeft ==
    call \in {"shut", "dropped"} \/ (call = "failed" /\ ending = "failed")
        => reaped /\ thread = "done"

(***************************************************************************)
(* Liveness.                                                               *)
(***************************************************************************)
\* Every call returns, whatever the handler does short of never coming back:
\* however full the pipes, neither side waits for the other for ever, and a
\* panic or a result over the frame limit ends the worker, and the call with
\* it (worker.rs 111-120, 403-407).
CallsReturn == (call \notin {"start", "ready"} \cup Gone) ~> (call \in {"ready"} \cup Gone)

(***************************************************************************)
(* The abstract service.                                                   *)
(***************************************************************************)
\* The request whose invoke is under way.
Invoking(i) == call = "invoking" /\ frame.id = i

\* The host dies with the call that is under way.
CallOf(i) ==
    IF Invoking(i) THEN "open"
    ELSE IF outcome[i] = "rejected" \/ (call = "crashed" /\ outcome[i] = "none") THEN "gone"
    ELSE IF outcome[i] = "none" THEN "idle"
    ELSE outcome[i]

WorkOf(i) ==
    IF result[i] \in {"finished", "error"} THEN result[i]
    ELSE IF job = i THEN "running" ELSE "none"

LinkState ==
    IF call = "shut" THEN "shut"
    ELSE IF thread = "done" \/ call = "crashed" THEN "lost" ELSE "up"

Service == INSTANCE WorkerService
    WITH Request <- RequestId,
         call <- [i \in RequestId |-> CallOf(i)],
         work <- [i \in RequestId |-> WorkOf(i)],
         link <- LinkState

\* The sequential client and server keep the promise of the concurrent ones
\* (worker.rs 185-262, 376-411).
KeepsPromise == Service!Spec
=============================================================================

--------------------------- MODULE ServerAnyHost ---------------------------
(***************************************************************************)
(* serve_worker of outboard-tokio against a host that keeps no rule of the *)
(* protocol.  What holds here the server owes to nobody but itself.        *)
(***************************************************************************)
EXTENDS AsyncServer, AnyHost

vars == <<transportVars, serverVars, sent>>

TypeOK == TransportTypeOK /\ ServerTypeOK /\ sent \in 0 .. MaxSends

Init == HostInit /\ ServerInit

Host == AnyHostNext /\ UNCHANGED serverVars

Server == ServerNext /\ UNCHANGED sent

Next == Host \/ Server

Spec == Init /\ [][Next]_vars

(***************************************************************************)
(* Properties.                                                             *)
(***************************************************************************)
\* Everything the server has said and the host has not read yet.
Wire == stdout \o outq

\* The pending map holds exactly the requests with a task in the JoinSet,
\* panicked ones aside: an id is refused as duplicate_request only while its
\* own handler is still there (lib.rs 583-596, 615-616).
PendingMatchesTasks ==
    /\ LiveTasks \subseteq serverPending
    /\ \A i \in serverPending \ LiveTasks : result[i] = "panicked"

\* A frame from a context that its handler let outlive its task.
Late(f) == f.type = "event" /\ f.id \in Leaky

\* ShutdownAck promises that the work is over: once it is queued no handler
\* is left, and nothing is queued or written after it but what contexts
\* still say that outlive their handler (lib.rs 572-579: join every task,
\* then acknowledge, then break).
AckIsLast ==
    \A k \in 1 .. Len(Wire) :
        Wire[k].type = "shutdown_ack" =>
            /\ LiveTasks = {}
            /\ phase \in {"closing", "exited"}
            /\ \A m \in (k + 1) .. Len(Wire) : Late(Wire[m])

\* Reusing an id never mixes two invocations on the wire: after Finished the
\* id is silent until its next Started, an Error or a context that outlives
\* its handler aside, and a second Started comes only after the first one's
\* terminal frame (lib.rs 602-617: the terminal frame is sent before the id
\* is given back).
SessionsSeparate ==
    \A j, k \in 1 .. Len(Wire) :
        /\ j < k
        /\ request_id(Wire[j]) # None
        /\ request_id(Wire[j]) = request_id(Wire[k])
        /\ \A m \in (j + 1) .. (k - 1) : request_id(Wire[m]) # request_id(Wire[j])
        => /\ Wire[j].type = "finished" =>
                 Wire[k].type \in {"started", "error"} \/ Late(Wire[k])
           /\ Wire[k].type = "started" => Terminal(Wire[j]) \/ Late(Wire[j])
=============================================================================

-------------------------- MODULE SyncWorkerProofs --------------------------
(***************************************************************************)
(* What the synchronous client and server guarantee together, for any      *)
(* number of requests, pings and cancels, any pipe capacity, any handler   *)
(* and any faults.                                                         *)
(***************************************************************************)
EXTENDS SyncWorker, FiniteSetTheorems, TLAPS

(***************************************************************************)
(* The inductive invariant, part by part.                                  *)
(***************************************************************************)
\* The frame belongs to the call that wrote it.
FrameOfCall ==
    /\ frame.type = "ping" => frame.nonce \in Nonce
    /\ frame.type = "invoke" => frame.id = nextId - 1
    /\ call = "start" => frame.type = "hello"
    /\ call = "pinging" => frame.type = "ping"
    /\ call = "invoking" => frame.type = "invoke"

\* A client that waits for its child knows what it will come to.
EndingKnown ==
    /\ call \in {"waiting", "joining"} => ending # "none"
    /\ call \in {"start", "writing", "handshake", "ready", "invoking", "pinging", "acking",
                 "leaked"} => ending = "none"

\* Before the spawn there is no child and no reader, and the reader outlives
\* neither Join nor the host.
ReaderOfCall ==
    /\ call = "start" => thread = "none" /\ child = "none"
    /\ call \in {"shut", "dropped", "crashed"} => thread = "done"
    /\ call = "failed" /\ ending = "failed" => thread = "done"
    /\ call = "joining" => reaped
    /\ call \in {"shut", "dropped"} \/ (call = "failed" /\ ending = "failed") => reaped
    /\ reaped => child = "exited"

\* The server holds a job from Started to the terminal frame, and a job is
\* not over.
JobOfPhase ==
    /\ phase \in {"hello", "loop", "partial", "exited"} => job = None
    /\ phase = "working" => job \in RequestId
    /\ phase = "writing" =>
          job = IF answer.type \in {"started", "event"} THEN answer.id ELSE None
    /\ phase = "writing" /\ answer.type \in {"started", "event"} => job \in RequestId
    /\ job # None => result[job] = "none"
    /\ child = "exited" => phase = "exited"
    /\ child = "none" => phase = "hello"

\* A call has returned for every id given out but the one under way.
Under(i) == call \in {"writing", "invoking"} /\ frame.type = "invoke" /\ frame.id = i

OutcomeOfCall ==
    \A i \in RequestId :
        /\ i >= nextId => outcome[i] = "none"
        /\ Under(i) => outcome[i] = "none"
        /\ i < nextId /\ ~Under(i) /\ call # "crashed" => outcome[i] # "none"

\* An id the worker has not been given yet.
Fresh(i) == result[i] = "none" /\ job # i

InvokeOnce ==
    /\ \A i \in RequestId : i >= nextId => Fresh(i)
    /\ call = "writing" /\ frame.type = "invoke" => Fresh(frame.id)
    /\ \A k \in 1 .. Len(stdin) : stdin[k].type = "invoke" =>
          /\ Fresh(stdin[k].id)
          /\ stdin[k].id < nextId
          /\ ~(call = "writing" /\ frame.type = "invoke" /\ frame.id = stdin[k].id)
          /\ \A m \in 1 .. Len(stdin) :
                stdin[m].type = "invoke" /\ stdin[m].id = stdin[k].id => m = k

\* A cancel names a request whose call has returned.
CancelIsLate ==
    /\ call = "writing" /\ frame.type = "cancel" => outcome[frame.id] # "none"
    /\ \A k \in 1 .. Len(stdin) : stdin[k].type = "cancel" => outcome[stdin[k].id] # "none"

\* A terminal frame says what the handler came to; an error may also be the
\* cancel hook's, of a request whose call has returned.
Honest(f) ==
    /\ f.type = "finished" /\ f.id \in RequestId => result[f.id] = "finished"
    /\ f.type = "error" /\ f.id \in RequestId => result[f.id] = "error" \/ outcome[f.id] # "none"

ComingHonest ==
    /\ \A k \in 1 .. Len(rx) : Honest(rx[k])
    /\ \A k \in 1 .. Len(stdout) : Honest(stdout[k])
    /\ phase = "writing" => Honest(answer)

\* The error that ends the stream is forwarded by a reader that stops.
ErrorEnds == \A k \in 1 .. Len(rx) : ReadError(rx[k]) => thread = "done"

Inv ==
    /\ TypeOK /\ FrameOfCall /\ EndingKnown /\ ReaderOfCall /\ JobOfPhase
    /\ OutcomeOfCall /\ InvokeOnce /\ CancelIsLate /\ ComingHonest /\ ErrorEnds

(***************************************************************************)
(* The nonces.  A ping is written once, read once and answered once, and   *)
(* the owner makes the next one when it has returned: of a nonce whose     *)
(* pings have not failed there is at most one ping or pong on its way, and *)
(* none unless its call is under way.                                      *)
(***************************************************************************)
NoncesIn(q, t) == {q[k].nonce : k \in {m \in 1 .. Len(q) : q[m].type = t}}

Heard == NoncesIn(rx, "pong")
Said == NoncesIn(stdout, "pong")
Answering == IF phase = "writing" /\ answer.type = "pong" THEN {answer.nonce} ELSE {}
Asked == NoncesIn(stdin, "ping")
Asking == IF call = "writing" /\ frame.type = "ping" THEN {frame.nonce} ELSE {}

Failed == {n \in Nonce : pinged[n] = "failed"}
AtRest == {n \in Nonce : pinged[n] \in {"none", "ok"}}

\* Only a nonce of F comes twice, in one queue or in two places.
Distinct(q, t, F) ==
    \A j, k \in 1 .. Len(q) :
        j < k /\ q[j].type = t /\ q[k].type = t /\ q[j].nonce = q[k].nonce => q[j].nonce \in F

Apart(S, T, F) == \A n \in S : n \in T => n \in F

NoncesOnce ==
    /\ Distinct(rx, "pong", Failed)
    /\ Distinct(stdout, "pong", Failed)
    /\ Distinct(stdin, "ping", Failed)
    /\ Apart(AtRest, Heard, Failed)
    /\ Apart(AtRest \cup Heard, Said, Failed)
    /\ Apart(AtRest \cup Heard \cup Said, Answering, Failed)
    /\ Apart(AtRest \cup Heard \cup Said \cup Answering, Asked, Failed)
    /\ Apart(AtRest \cup Heard \cup Said \cup Answering \cup Asked, Asking, Failed)

\* A ping that has not returned is the owner's call.
OpenOfCall ==
    \A n \in Nonce : pinged[n] = "open" =>
        \/ call = "crashed"
        \/ call \in {"writing", "pinging"} /\ frame.type = "ping" /\ frame.nonce = n

(***************************************************************************)
(* Types.                                                                  *)
(***************************************************************************)
\* The frames the two sides build.
LEMMA FrameType ==
    /\ \A t \in PluginType : Control(t) \in PluginFrame
    /\ \A t \in PluginType, i \in RequestId \cup {None} : ForRequest(t, i) \in PluginFrame
    /\ \A t \in PluginType, n \in Nonce \cup {None} : WithNonce(t, n) \in PluginFrame
BY DEF Control, ForRequest, WithNonce, PluginFrame, None

LEMMA HostFrameType ==
    /\ Control("hello") \in HostFrame /\ Control("shutdown") \in HostFrame
    /\ \A i \in RequestId : ForRequest("invoke", i) \in HostFrame
    /\ \A i \in RequestId : ForRequest("cancel", i) \in HostFrame
    /\ \A n \in Nonce : WithNonce("ping", n) \in HostFrame
BY DEF Control, ForRequest, WithNonce, HostFrame, HostType, None

\* What the reader thread sends on, the error that ends it included.
LEMMA ReceivedType ==
    /\ PluginFrame \subseteq Received
    /\ Eof \in Received
    /\ \A f \in Received : ~ReadError(f) => f \in PluginFrame
    /\ ReadError(Eof)
    /\ \A f \in Received : f.type \in PluginType \cup {"eof"}
BY DEF Received, ReadError, Eof, Control, PluginFrame

\* The head and the tail of a queue, by index.
LEMMA TailFacts ==
    ASSUME NEW S, NEW q \in Seq(S), q # <<>>
    PROVE  /\ Len(q) \in Nat \ {0}
           /\ Head(q) = q[1] /\ Head(q) \in S
           /\ Tail(q) \in Seq(S)
           /\ Len(Tail(q)) = Len(q) - 1
           /\ \A k \in 1 .. Len(Tail(q)) : Tail(q)[k] = q[k + 1] /\ k + 1 \in 1 .. Len(q)
OBVIOUS

LEMMA AppendFacts ==
    ASSUME NEW S, NEW q \in Seq(S), NEW f \in S
    PROVE  /\ Len(q) \in Nat
           /\ Append(q, f) \in Seq(S)
           /\ Len(Append(q, f)) = Len(q) + 1
           /\ \A k \in 1 .. Len(q) : Append(q, f)[k] = q[k]
           /\ Append(q, f)[Len(q) + 1] = f
OBVIOUS

LEMMA EmptyFacts ==
    /\ \A S : <<>> \in Seq(S)
    /\ Len(<<>>) = 0
OBVIOUS

LEMMA TypeInit == Init => TypeOK
<1> SUFFICES ASSUME Init PROVE TypeOK
  OBVIOUS
<1> USE TransportAssumption
<1>1. TransportTypeOK
  <2>1. stdin \in Seq(HostFrame) /\ stdout \in Seq(PluginFrame)
    BY EmptyFacts DEF Init, TransportInit
  <2>2. Len(stdin) <= PipeCapacity /\ Len(stdout) <= PipeCapacity
    BY EmptyFacts DEF Init, TransportInit
  <2>3. stdinOpen \in BOOLEAN /\ stdoutOpen \in BOOLEAN /\ killed \in BOOLEAN
    BY Zenon DEF Init, TransportInit
  <2> QED BY <2>1, <2>2, <2>3 DEF Init, TransportInit, TransportTypeOK
<1>2. ClientTypeOK
  <2>1. rx \in Seq(Received) /\ transcript \in [RequestId -> Seq(PluginFrame)]
    BY EmptyFacts DEF Init, ClientInit
  <2>2. reaped \in BOOLEAN
    BY Zenon DEF Init, ClientInit
  <2>3. frame \in HostFrame
    BY HostFrameType DEF Init, ClientInit
  <2>4. /\ call \in Call /\ nextId \in 1 .. MaxRequests + 1 /\ ending = "none"
        /\ cancels \in 0 .. MaxCancels /\ pings \in 0 .. MaxPings
    BY SyncClientAssumption DEF Init, ClientInit, Call, RequestId
  <2>5. pinged \in [Nonce -> {"none", "open", "ok", "failed"}] /\ thread = "none"
    BY DEF Init, ClientInit
  <2>6. outcome \in [RequestId -> {"none", "finished", "errored", "closed", "rejected"}]
    BY DEF Init, ClientInit
  <2> QED BY <2>1, <2>2, <2>3, <2>4, <2>5, <2>6 DEF ClientTypeOK
<1>3. ServerTypeOK
  <2>1. answer \in PluginFrame
    BY FrameType DEF Init, ServerInit, PluginType
  <2> QED BY <2>1, SyncServerAssumption DEF Init, ServerInit, ServerTypeOK, Phase, None
<1> QED BY <1>1, <1>2, <1>3 DEF TypeOK

LEMMA ClientTypeStep ==
    TypeOK /\ FrameOfCall /\ EndingKnown /\ Client => TypeOK'
<1> SUFFICES ASSUME TypeOK, FrameOfCall, EndingKnown, Client PROVE TypeOK'
  OBVIOUS
<1> USE TransportAssumption, SyncClientAssumption
<1>0. ServerTypeOK'
  BY DEF Client, serverVars, TypeOK, ServerTypeOK
<1>1. CASE SpawnRefused \/ Wait \/ Join \/ InvokeDisconnected \/ PingFails
  <2>1. TransportTypeOK'
    BY <1>1 DEF SpawnRefused, Wait, Join, InvokeDisconnected, PingFails, transportVars, TypeOK,
                TransportTypeOK
  <2>2. CASE SpawnRefused \/ Wait
    BY <1>0, <2>1, <2>2 DEF SpawnRefused, Wait, TypeOK, ClientTypeOK, Call, Gone
  <2>5. CASE PingFails
    <3>1. pinged' \in [Nonce -> {"none", "open", "ok", "failed"}]
      BY <2>5 DEF PingFails, PingReturns, TypeOK, ClientTypeOK
    <3> QED BY <1>0, <2>1, <2>5, <3>1 DEF PingFails, TypeOK, ClientTypeOK, Call
  <2>3. CASE Join
    BY <1>0, <2>1, <2>3 DEF Join, TypeOK, ClientTypeOK, Call, Gone, EndingKnown
  <2>4. CASE InvokeDisconnected
    BY <1>0, <2>1, <2>4 DEF InvokeDisconnected, InvokeReturns, TypeOK, ClientTypeOK, Call
  <2> QED BY <1>1, <2>2, <2>3, <2>4, <2>5
<1>2. CASE HandshakeFails \/ ShutdownFails \/ Drop
  BY <1>0, <1>2 DEF HandshakeFails, ShutdownFails, Drop, KillAndReap,
     TypeOK, TransportTypeOK, ClientTypeOK, Call, Gone
<1>3. ASSUME NEW b, Spawn(b) PROVE TypeOK'
  BY <1>0, <1>3 DEF Spawn, TypeOK, TransportTypeOK, ClientTypeOK, Call
<1>4. ASSUME NEW a, NEW b, Handshake(a, b) PROVE TypeOK'
  <2>1. rx' \in Seq(Received)
    BY <1>4, TailFacts DEF Handshake, TypeOK, ClientTypeOK
  <2> QED BY <1>0, <1>4, <2>1 DEF Handshake, KillAndReap, TypeOK, TransportTypeOK, ClientTypeOK,
                                  Call
<1>5. CASE CallInvoke
  <2>1. frame' \in HostFrame
    BY <1>5, HostFrameType DEF CallInvoke, Writes
  <2>2. nextId' \in 1 .. MaxRequests + 1
    BY <1>5 DEF CallInvoke, RequestId
  <2> QED BY <1>0, <1>5, <2>1, <2>2 DEF CallInvoke, Writes, transportVars, TypeOK,
                                        TransportTypeOK, ClientTypeOK, Call
<1>6. CASE CallCancel
  <2>1. frame' \in HostFrame
    BY <1>6, HostFrameType DEF CallCancel, Writes
  <2> QED BY <1>0, <1>6, <2>1 DEF CallCancel, Writes, transportVars, TypeOK,
                                  TransportTypeOK, ClientTypeOK, Call
<1>7. CASE CallPing
  <2>1. pinged' \in [Nonce -> {"none", "open", "ok", "failed"}]
    BY <1>7 DEF CallPing, TypeOK, ClientTypeOK
  <2>2. frame' \in HostFrame
    BY <1>7, HostFrameType DEF CallPing, Writes
  <2> QED BY <1>0, <1>7, <2>1, <2>2 DEF CallPing, Writes, transportVars, TypeOK,
                                  TransportTypeOK, ClientTypeOK, Call
<1>8. CASE CallShutdown
  BY <1>0, <1>8, HostFrameType DEF CallShutdown, Writes, transportVars, TypeOK,
                                   TransportTypeOK, ClientTypeOK, Call
<1>9. CASE WriteFrame
  <2>1. stdin' \in Seq(HostFrame) /\ Len(stdin') <= PipeCapacity
    BY <1>9 DEF WriteFrame, HostWrites, TypeOK, TransportTypeOK, ClientTypeOK
  <2>2. AfterWrite(frame) \in Call
    BY DEF AfterWrite, Call
  <2> QED BY <1>0, <1>9, <2>1, <2>2 DEF WriteFrame, TypeOK, TransportTypeOK, ClientTypeOK
<1>10. CASE WriteError
  <2>1. call' \in Call
    BY <1>10 DEF WriteError, KillAndReap, Call, Gone
  <2>2. outcome' \in [RequestId -> {"none", "finished", "errored", "closed", "rejected"}]
    BY <1>10 DEF WriteError, KillAndReap, TypeOK, ClientTypeOK
  <2>3. pinged' \in [Nonce -> {"none", "open", "ok", "failed"}]
    BY <1>10 DEF WriteError, PingReturns, TypeOK, ClientTypeOK
  <2> QED BY <1>0, <1>10, <2>1, <2>2, <2>3 DEF WriteError, KillAndReap, TypeOK, TransportTypeOK,
                                         ClientTypeOK, Gone
<1>11. CASE InvokeRecv
  <2>1. rx' \in Seq(Received) /\ Head(rx) \in Received
    BY <1>11, TailFacts DEF InvokeRecv, TypeOK, ClientTypeOK
  <2>2. transcript' \in [RequestId -> Seq(PluginFrame)]
    <3>1. CASE transcript' = transcript
      BY <3>1 DEF TypeOK, ClientTypeOK
    <3>2. CASE /\ ~ReadError(Head(rx))
               /\ transcript' = [transcript EXCEPT ![frame.id] = Append(@, Head(rx))]
      <4>1. Head(rx) \in PluginFrame
        BY <2>1, <3>2, ReceivedType
      <4>2. frame.id \in RequestId
        BY <1>11 DEF InvokeRecv, FrameOfCall, TypeOK, ClientTypeOK, HostFrame
      <4>3. transcript[frame.id] \in Seq(PluginFrame)
        BY <4>2 DEF TypeOK, ClientTypeOK
      <4>4. Append(transcript[frame.id], Head(rx)) \in Seq(PluginFrame)
        BY <4>1, <4>3
      <4> QED BY <3>2, <4>2, <4>4 DEF TypeOK, ClientTypeOK
    <3> QED BY <1>11, <3>1, <3>2 DEF InvokeRecv
  <2>3. /\ outcome' \in [RequestId -> {"none", "finished", "errored", "closed", "rejected"}]
        /\ call' \in Call
    BY <1>11 DEF InvokeRecv, InvokeReturns, TypeOK, ClientTypeOK, Call
  <2> QED BY <1>0, <1>11, <2>1, <2>2, <2>3 DEF InvokeRecv, transportVars, TypeOK,
                                               TransportTypeOK, ClientTypeOK
<1>12. CASE PingRecv
  <2>1. rx' \in Seq(Received)
    BY <1>12, TailFacts DEF PingRecv, TypeOK, ClientTypeOK
  <2>2. pinged' \in [Nonce -> {"none", "open", "ok", "failed"}]
    BY <1>12 DEF PingRecv, PingReturns, TypeOK, ClientTypeOK
  <2> QED BY <1>0, <1>12, <2>1, <2>2 DEF PingRecv, transportVars, TypeOK, TransportTypeOK,
                                         ClientTypeOK, Call
<1>13. CASE ShutdownRecv
  <2>1. rx' \in Seq(Received)
    BY <1>13, TailFacts DEF ShutdownRecv, TypeOK, ClientTypeOK
  <2> QED BY <1>0, <1>13, <2>1 DEF ShutdownRecv, KillAndReap, TypeOK, TransportTypeOK,
                                   ClientTypeOK, Call
<1>14. CASE ThreadForwards
  <2>1. /\ stdout' \in Seq(PluginFrame) /\ Len(stdout') <= PipeCapacity
        /\ Head(stdout) \in PluginFrame
    BY <1>14, TailFacts DEF ThreadForwards, TypeOK, TransportTypeOK
  <2>2. rx' \in Seq(Received)
    BY <1>14, <2>1, ReceivedType DEF ThreadForwards, Forwarded, TypeOK, ClientTypeOK
  <2>3. stdoutOpen' \in BOOLEAN
    BY <1>14, Zenon DEF ThreadForwards
  <2> QED BY <1>0, <1>14, <2>1, <2>2, <2>3 DEF ThreadForwards, TypeOK, TransportTypeOK,
                                               ClientTypeOK
<1>15. CASE ThreadEof
  <2>1. rx' \in Seq(Received)
    BY <1>15, ReceivedType DEF ThreadEof, TypeOK, ClientTypeOK
  <2> QED BY <1>0, <1>15, <2>1 DEF ThreadEof, TypeOK, TransportTypeOK, ClientTypeOK
<1>16. CASE HostCrash
  BY <1>0, <1>16, EmptyFacts DEF HostCrash, TypeOK, TransportTypeOK, ClientTypeOK, Call, Gone
<1> QED
  BY <1>1, <1>2, <1>3, <1>4, <1>5, <1>6, <1>7, <1>8, <1>9, <1>10, <1>11, <1>12, <1>13, <1>14,
     <1>15, <1>16
  DEF Client, SpawnStep, OwnerStep, OwnerCalls, ReaderThread

LEMMA ServerTypeStep == TypeOK /\ Server => TypeOK'
<1> SUFFICES ASSUME TypeOK, Server PROVE TypeOK'
  OBVIOUS
<1> USE TransportAssumption, SyncServerAssumption
<1>0. ClientTypeOK'
  BY DEF Server, clientVars, TypeOK, ClientTypeOK
<1>1. ASSUME stdin # <<>>
      PROVE  /\ Head(stdin) \in HostFrame
             /\ Tail(stdin) \in Seq(HostFrame)
             /\ Len(Tail(stdin)) <= PipeCapacity
  BY <1>1, TailFacts DEF TypeOK, TransportTypeOK
<1>2. CASE ReadHello
  <2>1. answer' \in PluginFrame
    BY <1>2, FrameType DEF ReadHello, Answers, PluginType, TypeOK, ServerTypeOK
  <2> QED BY <1>0, <1>1, <1>2, <2>1 DEF ReadHello, Answers, TypeOK, TransportTypeOK,
                                        ServerTypeOK, Phase
<1>3. CASE LoopHello \/ LoopShutdown
  <2>1. answer' \in PluginFrame
    BY <1>3, FrameType DEF LoopHello, LoopShutdown, Answers, PluginType
  <2> QED BY <1>0, <1>1, <1>3, <2>1 DEF LoopHello, LoopShutdown, Receive, Answers, TypeOK,
                                        TransportTypeOK, ServerTypeOK, Phase
<1>4. CASE LoopPing
  <2>1. answer' \in PluginFrame
    BY <1>1, <1>4, FrameType DEF LoopPing, Receive, Answers, PluginType, HostFrame
  <2> QED BY <1>0, <1>1, <1>4, <2>1 DEF LoopPing, Receive, Answers, TypeOK, TransportTypeOK,
                                        ServerTypeOK, Phase
<1>5. CASE LoopCancel
  <2>1. answer' \in PluginFrame
    BY <1>1, <1>5, FrameType DEF LoopCancel, Receive, Answers, PluginType, HostFrame, TypeOK,
                                 ServerTypeOK
  <2> QED BY <1>0, <1>1, <1>5, <2>1 DEF LoopCancel, Receive, Answers, TypeOK, TransportTypeOK,
                                        ServerTypeOK, Phase
<1>6. CASE LoopInvoke
  <2>1. Head(stdin).id \in RequestId
    BY <1>1, <1>6 DEF LoopInvoke, Receive, HostFrame
  <2>2. answer' \in PluginFrame
    BY <1>6, <2>1, FrameType DEF LoopInvoke, Answers, PluginType
  <2> QED BY <1>0, <1>1, <1>6, <2>1, <2>2 DEF LoopInvoke, Receive, Answers, TypeOK,
                                              TransportTypeOK, ServerTypeOK, Phase
<1>7. CASE ReadTorn \/ ReadEof
  BY <1>0, <1>1, <1>7 DEF ReadTorn, ReadEof, transportVars, TypeOK, TransportTypeOK,
                          ServerTypeOK, Phase
<1>8. CASE WriteAnswer
  <2>1. stdout' \in Seq(PluginFrame) /\ Len(stdout') <= PipeCapacity
    BY <1>8 DEF WriteAnswer, PluginWrites, StdoutHasRoom, TypeOK, TransportTypeOK, ServerTypeOK
  <2>2. AfterAnswer(answer) \in Phase
    BY DEF AfterAnswer, Phase
  <2> QED BY <1>0, <1>8, <2>1, <2>2 DEF WriteAnswer, TypeOK, TransportTypeOK, ServerTypeOK
<1>9. CASE AnswerFails
  BY <1>0, <1>9 DEF AnswerFails, AfterFailure, transportVars, TypeOK, TransportTypeOK,
                    ServerTypeOK, Phase
<1>10. CASE HandlerEvent
  <2>1. answer' \in PluginFrame
    BY <1>10, FrameType DEF HandlerEvent, Answers, PluginType, TypeOK, ServerTypeOK
  <2>2. emitted' \in [RequestId -> 0 .. MaxEvents]
    <3>1. CASE job \in RequestId
      <4>1. emitted[job] \in 0 .. MaxEvents /\ emitted[job] < MaxEvents
        BY <1>10, <3>1 DEF HandlerEvent, TypeOK, ServerTypeOK
      <4>2. emitted[job] + 1 \in 0 .. MaxEvents
        BY <4>1
      <4> QED BY <1>10, <3>1, <4>2 DEF HandlerEvent, TypeOK, ServerTypeOK
    <3>2. CASE job \notin RequestId
      BY <1>10, <3>2 DEF HandlerEvent, TypeOK, ServerTypeOK
    <3> QED BY <3>1, <3>2
  <2> QED BY <1>0, <1>10, <2>1, <2>2 DEF HandlerEvent, Answers, transportVars, TypeOK,
                                         TransportTypeOK, ServerTypeOK, Phase
<1>11. CASE HandlerReturn
  <2>1. PICK r \in {"finished", "error"} :
            /\ result' = [result EXCEPT ![job] = r]
            /\ Answers(ForRequest(r, job))
    BY <1>11 DEF HandlerReturn
  <2>2. answer' \in PluginFrame
    BY <2>1, FrameType DEF Answers, PluginType, TypeOK, ServerTypeOK
  <2>3. result' \in [RequestId -> {"none", "finished", "error", "panicked"}]
    BY <2>1 DEF TypeOK, ServerTypeOK
  <2> QED BY <1>0, <1>11, <2>1, <2>2, <2>3 DEF HandlerReturn, Answers, transportVars, TypeOK,
                                               TransportTypeOK, ServerTypeOK, Phase, None
<1>12. CASE HandlerPanic
  BY <1>0, <1>12 DEF HandlerPanic, transportVars, TypeOK, TransportTypeOK, ServerTypeOK,
                     Phase, None
<1>13. CASE StrayOutput
  <2>1. Control("malformed") \in PluginFrame
    BY FrameType DEF PluginType
  <2>2. stdout' \in Seq(PluginFrame) /\ Len(stdout') <= PipeCapacity
    BY <1>13, <2>1 DEF StrayOutput, PluginWrites, StdoutHasRoom, TypeOK, TransportTypeOK
  <2> QED BY <1>0, <1>13, <2>2 DEF StrayOutput, serverVars, TypeOK, TransportTypeOK,
                                   ServerTypeOK
<1>14. CASE ProcessEnds
  BY <1>0, <1>14, EmptyFacts DEF ProcessEnds, TypeOK, TransportTypeOK, ServerTypeOK, Phase, None
<1> QED
  BY <1>2, <1>3, <1>4, <1>5, <1>6, <1>7, <1>8, <1>9, <1>10, <1>11, <1>12, <1>13, <1>14
  DEF Server, ServerNext, ServerLoop, ServeReturns, ProcessKilled

(***************************************************************************)
(* The client's own bookkeeping.                                           *)
(***************************************************************************)
LEMMA FrameStep == TypeOK /\ FrameOfCall /\ [Next]_vars => FrameOfCall'
<1> SUFFICES ASSUME TypeOK, FrameOfCall, [Next]_vars PROVE FrameOfCall'
  OBVIOUS
<1> USE DEF FrameOfCall
<1>1. CASE UNCHANGED <<frame, pings, nextId>> /\ call' \notin {"start", "pinging", "invoking"}
  BY <1>1
<1>2. CASE UNCHANGED <<frame, pings, nextId, call>>
  BY <1>2
<1>3. CASE Server \/ UNCHANGED vars
  BY <1>2, <1>3 DEF Server, clientVars, vars
<1>4. CASE ReaderThread
  BY <1>2, <1>4 DEF ReaderThread, ThreadForwards, ThreadEof
<1>5. CASE SpawnRefused \/ Wait \/ Join \/ HandshakeFails \/ ShutdownFails \/ Drop \/ PingFails
           \/ InvokeDisconnected \/ HostCrash
  <2>1. CASE Join
    BY <2>1 DEF Join, TypeOK, ClientTypeOK
  <2> QED BY <1>1, <1>5, <2>1 DEF SpawnRefused, Wait, HandshakeFails, ShutdownFails, Drop,
             PingFails, InvokeDisconnected, InvokeReturns, HostCrash, KillAndReap
<1>6. ASSUME NEW b, Spawn(b) PROVE FrameOfCall'
  BY <1>1, <1>6 DEF Spawn
<1>7. ASSUME NEW a, NEW b, Handshake(a, b) PROVE FrameOfCall'
  BY <1>1, <1>7 DEF Handshake, KillAndReap
<1>8. CASE CallInvoke
  BY <1>8 DEF CallInvoke, Writes, ForRequest, TypeOK, ClientTypeOK
<1>9. CASE CallCancel
  BY <1>9 DEF CallCancel, Writes, ForRequest
<1>10. CASE CallPing
  BY <1>10 DEF CallPing, Writes, WithNonce, TypeOK, ClientTypeOK
<1>11. CASE CallShutdown
  BY <1>11 DEF CallShutdown, Writes, Control
<1>12. CASE WriteFrame
  BY <1>12 DEF WriteFrame, AfterWrite
<1>13. CASE WriteError
  BY <1>1, <1>13 DEF WriteError, KillAndReap
<1>14. CASE InvokeRecv
  BY <1>14 DEF InvokeRecv, InvokeReturns
<1>15. CASE PingRecv
  BY <1>15 DEF PingRecv
<1>16. CASE ShutdownRecv
  BY <1>1, <1>16 DEF ShutdownRecv, KillAndReap
<1> QED
  BY <1>3, <1>4, <1>5, <1>6, <1>7, <1>8, <1>9, <1>10, <1>11, <1>12, <1>13, <1>14, <1>15, <1>16
  DEF Next, Client, Stop, SpawnStep, OwnerStep, OwnerCalls

LEMMA EndingStep == TypeOK /\ EndingKnown /\ [Next]_vars => EndingKnown'
<1> SUFFICES ASSUME TypeOK, EndingKnown, [Next]_vars PROVE EndingKnown'
  OBVIOUS
<1> USE DEF EndingKnown
<1>1. CASE Server \/ UNCHANGED vars
  BY <1>1 DEF Server, clientVars, vars
<1>2. CASE ReaderThread
  BY <1>2 DEF ReaderThread, ThreadForwards, ThreadEof
<1>3. CASE SpawnRefused \/ Wait \/ HandshakeFails \/ ShutdownFails \/ Drop \/ PingFails
  BY <1>3 DEF SpawnRefused, Wait, HandshakeFails, ShutdownFails, Drop, PingFails, KillAndReap
<1>4. CASE Join
  BY <1>4 DEF Join, TypeOK, ClientTypeOK
<1>5. ASSUME NEW b, Spawn(b) PROVE EndingKnown'
  BY <1>5 DEF Spawn
<1>6. ASSUME NEW a, NEW b, Handshake(a, b) PROVE EndingKnown'
  BY <1>6 DEF Handshake, KillAndReap
<1>7. CASE OwnerCalls
  BY <1>3, <1>7 DEF OwnerCalls, CallInvoke, CallCancel, CallPing, CallShutdown, Writes
<1>8. CASE WriteFrame
  BY <1>8 DEF WriteFrame, AfterWrite
<1>9. CASE WriteError
  BY <1>9 DEF WriteError, KillAndReap
<1>10. CASE InvokeRecv \/ InvokeDisconnected
  BY <1>10 DEF InvokeRecv, InvokeDisconnected, InvokeReturns
<1>11. CASE PingRecv \/ HostCrash
  BY <1>11 DEF PingRecv, HostCrash
<1>12. CASE ShutdownRecv
  BY <1>12 DEF ShutdownRecv, KillAndReap
<1> QED
  BY <1>1, <1>2, <1>3, <1>4, <1>5, <1>6, <1>7, <1>8, <1>9, <1>10, <1>11, <1>12
  DEF Next, Client, Stop, SpawnStep, OwnerStep

LEMMA ReaderStep ==
    TypeOK /\ EndingKnown /\ ReaderOfCall /\ [Next]_vars => ReaderOfCall'
<1> SUFFICES ASSUME TypeOK, EndingKnown, ReaderOfCall, [Next]_vars PROVE ReaderOfCall'
  OBVIOUS
<1> USE DEF ReaderOfCall
<1>1. CASE Server
  <2>1. UNCHANGED <<call, ending, thread, reaped>>
    BY <1>1 DEF Server, clientVars
  <2>2. child' = child \/ (child = "running" /\ child' = "exited")
    BY <1>1 DEF Server, ServerNext, ServerLoop, ReadHello, LoopHello, LoopPing, LoopShutdown,
       LoopCancel, LoopInvoke, Receive, ReadTorn, ReadEof, WriteAnswer, AnswerFails, ServeReturns,
       HandlerEvent, HandlerReturn, HandlerPanic, StrayOutput, ProcessKilled, ProcessEnds,
       transportVars
  <2> QED BY <2>1, <2>2
<1>2. CASE UNCHANGED vars
  BY <1>2 DEF vars, clientVars, transportVars
<1>3. CASE ReaderThread
  BY <1>3 DEF ReaderThread, ThreadForwards, ThreadEof, ThreadReads
<1>4. CASE SpawnRefused \/ Wait \/ HandshakeFails \/ ShutdownFails \/ Drop \/ PingFails
  BY <1>4 DEF SpawnRefused, Wait, HandshakeFails, ShutdownFails, Drop, PingFails, KillAndReap,
              EndingKnown, transportVars
<1>5. CASE Join
  BY <1>5 DEF Join, Joined, EndingKnown, transportVars, TypeOK, ClientTypeOK
<1>6. ASSUME NEW b, Spawn(b) PROVE ReaderOfCall'
  BY <1>6 DEF Spawn
<1>7. ASSUME NEW a, NEW b, Handshake(a, b) PROVE ReaderOfCall'
  BY <1>7 DEF Handshake, KillAndReap
<1>8. CASE OwnerCalls
  BY <1>4, <1>8 DEF OwnerCalls, CallInvoke, CallCancel, CallPing, CallShutdown, Writes,
                    transportVars
<1>9. CASE WriteFrame
  BY <1>9 DEF WriteFrame, AfterWrite
<1>10. CASE WriteError
  BY <1>10 DEF WriteError, KillAndReap
<1>11. CASE InvokeRecv \/ InvokeDisconnected
  BY <1>11 DEF InvokeRecv, InvokeDisconnected, InvokeReturns, transportVars
<1>12. CASE PingRecv \/ HostCrash
  BY <1>12 DEF PingRecv, HostCrash, transportVars
<1>13. CASE ShutdownRecv
  BY <1>13 DEF ShutdownRecv, KillAndReap
<1> QED
  BY <1>1, <1>2, <1>3, <1>4, <1>5, <1>6, <1>7, <1>8, <1>9, <1>10, <1>11, <1>12, <1>13
  DEF Next, Client, Stop, SpawnStep, OwnerStep

(***************************************************************************)
(* The server's job.                                                       *)
(***************************************************************************)
LEMMA JobStep == TypeOK /\ ReaderOfCall /\ InvokeOnce /\ JobOfPhase /\ [Next]_vars => JobOfPhase'
<1> SUFFICES ASSUME TypeOK, ReaderOfCall, InvokeOnce, JobOfPhase, [Next]_vars
             PROVE  JobOfPhase'
  OBVIOUS
<1> USE DEF JobOfPhase
<1>0. None \notin RequestId
  BY DEF None, RequestId
<1>1. CASE Client
  <2>1. UNCHANGED serverVars
    BY <1>1 DEF Client
  <2>2. CASE UNCHANGED child
    BY <2>1, <2>2 DEF serverVars
  <2>3. ASSUME NEW b, Spawn(b) PROVE JobOfPhase'
    BY <2>1, <2>3 DEF Spawn, serverVars
  <2> QED
    BY <1>1, <2>2, <2>3 DEF Client, SpawnStep, OwnerStep, OwnerCalls, ReaderThread, SpawnRefused,
       Handshake, WriteFrame, WriteError, HandshakeFails, InvokeRecv, InvokeDisconnected,
       PingRecv, PingFails, ShutdownRecv, ShutdownFails, Wait, Join, CallInvoke, CallCancel,
       CallPing, CallShutdown, Drop, ThreadForwards, ThreadEof, HostCrash, transportVars
<1>2. CASE UNCHANGED vars
  BY <1>2 DEF vars, serverVars, transportVars
<1>3. CASE ReadHello
  BY <1>3 DEF ReadHello, Answers, Control
<1>4. CASE LoopHello \/ LoopPing \/ LoopShutdown \/ LoopCancel
  BY <1>4 DEF LoopHello, LoopPing, LoopShutdown, LoopCancel, Receive, Reading, Answers, Control,
              ForRequest, WithNonce
<1>5. CASE LoopInvoke
  <2>1. Head(stdin).id \in RequestId /\ Head(stdin) = stdin[1] /\ 1 \in 1 .. Len(stdin)
    BY <1>5, TailFacts DEF LoopInvoke, Receive, TypeOK, TransportTypeOK, HostFrame
  <2>2. result[Head(stdin).id] = "none"
    BY <1>5, <2>1 DEF InvokeOnce, Fresh, LoopInvoke, Receive
  <2> QED BY <1>0, <1>5, <2>1, <2>2 DEF LoopInvoke, Receive, Answers, ForRequest
<1>6. CASE ReadTorn \/ ReadEof
  BY <1>6 DEF ReadTorn, ReadEof, transportVars
<1>7. CASE WriteAnswer
  BY <1>7 DEF WriteAnswer, AfterAnswer
<1>8. CASE AnswerFails
  BY <1>8 DEF AnswerFails, AfterFailure, transportVars
<1>9. CASE HandlerEvent
  BY <1>9 DEF HandlerEvent, Answers, ForRequest, transportVars
<1>10. CASE HandlerReturn
  BY <1>10 DEF HandlerReturn, Answers, ForRequest, transportVars
<1>11. CASE HandlerPanic \/ StrayOutput
  BY <1>11 DEF HandlerPanic, StrayOutput, serverVars, transportVars
<1>12. CASE ProcessEnds
  BY <1>12 DEF ProcessEnds
<1> QED
  BY <1>1, <1>2, <1>3, <1>4, <1>5, <1>6, <1>7, <1>8, <1>9, <1>10, <1>11, <1>12
  DEF Next, Server, Stop, ServerNext, ServerLoop, ServeReturns, ProcessKilled

(***************************************************************************)
(* Every id is given out once and its call returns once.                   *)
(***************************************************************************)
\* The request of the frame the owner is writing.
LEMMA FrameIds ==
    ASSUME TypeOK
    PROVE  /\ frame.type \in {"invoke", "cancel"} => frame.id \in RequestId
           /\ nextId \in Nat /\ RequestId \subseteq Nat /\ None \notin RequestId
           /\ pings \in Nat
BY TransportAssumption DEF TypeOK, ClientTypeOK, HostFrame, RequestId, None

LEMMA OutcomeStep ==
    TypeOK /\ FrameOfCall /\ OutcomeOfCall /\ [Next]_vars => OutcomeOfCall'
<1> SUFFICES ASSUME TypeOK, FrameOfCall, OutcomeOfCall, [Next]_vars PROVE OutcomeOfCall'
  OBVIOUS
<1> USE FrameIds DEF OutcomeOfCall, Under
<1>1. CASE UNCHANGED <<frame, nextId, outcome>> /\ call \notin {"writing", "invoking", "crashed"}
           /\ call' \notin {"writing", "invoking"}
  BY <1>1
<1>2. CASE UNCHANGED <<frame, nextId, outcome, call>>
  BY <1>2
<1>3. CASE Server \/ UNCHANGED vars
  BY <1>2, <1>3 DEF Server, clientVars, vars
<1>4. CASE ReaderThread
  BY <1>2, <1>4 DEF ReaderThread, ThreadForwards, ThreadEof
<1>5. CASE SpawnRefused \/ Wait \/ Join \/ HandshakeFails \/ ShutdownFails \/ Drop \/ PingFails
  <2>1. CASE Join
    BY <1>1, <2>1 DEF Join, TypeOK, ClientTypeOK
  <2> QED BY <1>1, <1>5, <2>1 DEF SpawnRefused, Wait, HandshakeFails, ShutdownFails, Drop,
             PingFails, KillAndReap
<1>6. ASSUME NEW b, Spawn(b) PROVE OutcomeOfCall'
  BY <1>6 DEF Spawn, FrameOfCall
<1>7. ASSUME NEW a, NEW b, Handshake(a, b) PROVE OutcomeOfCall'
  BY <1>1, <1>7 DEF Handshake, KillAndReap
<1>8. CASE CallInvoke
  BY <1>8 DEF CallInvoke, Writes, ForRequest
<1>9. CASE CallCancel \/ CallPing \/ CallShutdown
  BY <1>9 DEF CallCancel, CallPing, CallShutdown, Writes, ForRequest, WithNonce, Control
<1>10. CASE WriteFrame
  BY <1>10 DEF WriteFrame, AfterWrite
<1>11. CASE WriteError
  <2>1. CASE frame.type = "invoke"
    <3>1. /\ outcome' = [outcome EXCEPT ![frame.id] = "rejected"]
          /\ call' = "ready" /\ UNCHANGED <<frame, nextId>> /\ frame.id = nextId - 1
      BY <1>11, <2>1 DEF WriteError, FrameOfCall
    <3> QED BY <1>11, <2>1, <3>1 DEF WriteError, TypeOK, ClientTypeOK
  <2>2. CASE frame.type # "invoke"
    BY <1>11, <2>2 DEF WriteError, KillAndReap
  <2> QED BY <2>1, <2>2
<1>12. ASSUME NEW o \in {"closed", "finished", "errored"}, call = "invoking", InvokeReturns(o),
              UNCHANGED <<frame, nextId>>
       PROVE  OutcomeOfCall'
  <2>1. frame.type = "invoke" /\ frame.id = nextId - 1 /\ frame.id \in RequestId
    BY <1>12 DEF FrameOfCall
  <2> QED BY <1>12, <2>1 DEF InvokeReturns, TypeOK, ClientTypeOK
<1>13. CASE InvokeRecv \/ InvokeDisconnected
  BY <1>2, <1>12, <1>13 DEF InvokeRecv, InvokeDisconnected
<1>14. CASE PingRecv
  BY <1>1, <1>14 DEF PingRecv
<1>15. CASE ShutdownRecv
  BY <1>1, <1>2, <1>15 DEF ShutdownRecv, KillAndReap
<1>16. CASE HostCrash
  BY <1>16 DEF HostCrash
<1> QED
  BY <1>3, <1>4, <1>5, <1>6, <1>7, <1>8, <1>9, <1>10, <1>11, <1>13, <1>14, <1>15, <1>16
  DEF Next, Client, Stop, SpawnStep, OwnerStep, OwnerCalls

\* No call returns twice.
LEMMA OutcomeKept ==
    ASSUME Inv, [Next]_vars, NEW i \in RequestId, outcome[i] # "none"
    PROVE  outcome'[i] # "none"
<1> USE FrameIds DEF Inv
<1>1. CASE UNCHANGED outcome
  BY <1>1
<1>2. ASSUME NEW j \in RequestId, NEW o \in {"closed", "finished", "errored", "rejected"},
             outcome' = [outcome EXCEPT ![j] = o]
      PROVE  outcome'[i] # "none"
  BY <1>2 DEF TypeOK, ClientTypeOK
<1>3. CASE WriteError
  BY <1>1, <1>2, <1>3 DEF WriteError
<1>4. CASE InvokeRecv \/ InvokeDisconnected
  <2>1. frame.id \in RequestId
    BY <1>4 DEF InvokeRecv, InvokeDisconnected, FrameOfCall
  <2> QED BY <1>1, <1>2, <1>4, <2>1 DEF InvokeRecv, InvokeDisconnected, InvokeReturns
<1>5. CASE Server \/ UNCHANGED vars
  BY <1>1, <1>5 DEF Server, clientVars, vars
<1> QED
  BY <1>1, <1>3, <1>4, <1>5 DEF Next, Client, Stop, SpawnStep, OwnerStep, OwnerCalls,
     ReaderThread, SpawnRefused, Spawn, Handshake, WriteFrame, HandshakeFails, PingRecv,
     PingFails, ShutdownRecv, ShutdownFails, Wait, Join, CallInvoke, CallCancel,
     CallPing, CallShutdown, Drop, ThreadForwards, ThreadEof, HostCrash

\* The handler's steps: an id that was never given to the worker stays so,
\* and what a handler came to stays.
LEMMA ResultStep ==
    ASSUME Inv, [Next]_vars
    PROVE  /\ \A i \in RequestId : result[i] # "none" => result'[i] = result[i]
           /\ \A i \in RequestId : Fresh(i) /\ ~LoopInvoke => Fresh(i)'
<1> USE FrameIds DEF Inv, Fresh
<1>1. CASE UNCHANGED <<result, job>>
  BY <1>1
<1>2. CASE UNCHANGED result /\ job' = None
  BY <1>2
<1>3. CASE LoopInvoke
  BY <1>3 DEF LoopInvoke, Receive
<1>4. ASSUME NEW r, phase = "working", result' = [result EXCEPT ![job] = r], job' = None
      PROVE  /\ \A i \in RequestId : result[i] # "none" => result'[i] = result[i]
             /\ \A i \in RequestId : Fresh(i) => Fresh(i)'
  <2>1. job \in RequestId /\ result[job] = "none"
    BY <1>4 DEF JobOfPhase
  <2>2. \A i \in RequestId : i # job => result'[i] = result[i]
    BY <1>4, <2>1 DEF TypeOK, ServerTypeOK
  <2> QED BY <1>4, <2>1, <2>2
<1>5. CASE HandlerReturn \/ HandlerPanic
  BY <1>4, <1>5 DEF HandlerReturn, HandlerPanic
<1>6. CASE ProcessEnds
  BY <1>2, <1>6 DEF ProcessEnds
<1>7. CASE Client \/ UNCHANGED vars
  BY <1>1, <1>7 DEF Client, vars, serverVars
<1> QED
  BY <1>1, <1>3, <1>5, <1>6, <1>7 DEF Next, Server, Stop, ServerNext, ServerLoop, ReadHello,
     LoopHello, LoopPing, LoopShutdown, LoopCancel, Receive, ReadTorn, ReadEof, WriteAnswer,
     AnswerFails, ServeReturns, HandlerEvent, StrayOutput, ProcessKilled, serverVars

(***************************************************************************)
(* What a step may put into the three queues.                              *)
(***************************************************************************)
LEMMA StdinMembers ==
    ASSUME TypeOK, [Next]_vars
    PROVE  \A k \in 1 .. Len(stdin') :
              \/ \E m \in 1 .. Len(stdin) : stdin'[k] = stdin[m]
              \/ WriteFrame /\ stdin'[k] = frame
<1> USE DEF TypeOK, TransportTypeOK, ClientTypeOK
<1>1. CASE UNCHANGED stdin
  BY <1>1
<1>2. CASE stdin # <<>> /\ stdin' = Tail(stdin)
  BY <1>2, TailFacts
<1>3. CASE WriteFrame
  <2>1. stdin' = Append(stdin, frame)
    BY <1>3 DEF WriteFrame, HostWrites
  <2>2. \A k \in 1 .. Len(stdin') : k \in 1 .. Len(stdin) \/ k = Len(stdin) + 1
    BY <2>1, AppendFacts
  <2> QED BY <1>3, <2>1, <2>2, AppendFacts
<1>4. CASE stdin' = <<>>
  BY <1>4, EmptyFacts
<1>5. CASE Client
  BY <1>1, <1>3, <1>5
  DEF Client, SpawnStep, OwnerStep, OwnerCalls, ReaderThread, SpawnRefused, Spawn, Handshake,
      WriteError, HandshakeFails, InvokeRecv, InvokeDisconnected, PingRecv, PingFails,
      ShutdownRecv, ShutdownFails, Wait, Join, CallInvoke, CallCancel, CallPing, CallShutdown,
      Drop, ThreadForwards, ThreadEof, HostCrash, transportVars
<1>6. CASE Server
  BY <1>1, <1>2, <1>4, <1>6
  DEF Server, ServerNext, ServerLoop, ReadHello, LoopHello, LoopPing, LoopShutdown, LoopCancel,
      LoopInvoke, Receive, ReadTorn, ReadEof, WriteAnswer, AnswerFails, ServeReturns,
      HandlerEvent, HandlerReturn, HandlerPanic, StrayOutput, ProcessKilled, ProcessEnds,
      transportVars
<1> QED BY <1>1, <1>5, <1>6 DEF Next, Stop, vars, transportVars

LEMMA StdoutMembers ==
    ASSUME TypeOK, [Next]_vars
    PROVE  \A k \in 1 .. Len(stdout') :
              \/ \E m \in 1 .. Len(stdout) : stdout'[k] = stdout[m]
              \/ WriteAnswer /\ stdout'[k] = answer
              \/ stdout'[k] = Control("malformed")
<1> USE DEF TypeOK, TransportTypeOK, ServerTypeOK
<1>1. CASE UNCHANGED stdout
  BY <1>1
<1>2. CASE ThreadForwards
  BY <1>2, TailFacts DEF ThreadForwards
<1>3. ASSUME NEW f \in PluginFrame, stdout' = Append(stdout, f)
      PROVE  \A k \in 1 .. Len(stdout') :
                (\E m \in 1 .. Len(stdout) : stdout'[k] = stdout[m]) \/ stdout'[k] = f
  <2>1. \A k \in 1 .. Len(stdout') : k \in 1 .. Len(stdout) \/ k = Len(stdout) + 1
    BY <1>3, AppendFacts
  <2> QED BY <1>3, <2>1, AppendFacts
<1>4. CASE WriteAnswer
  BY <1>3, <1>4 DEF WriteAnswer, PluginWrites
<1>5. CASE StrayOutput
  BY <1>3, <1>5, FrameType DEF StrayOutput, PluginWrites, PluginType
<1>6. CASE Client
  BY <1>1, <1>2, <1>6
  DEF Client, SpawnStep, OwnerStep, OwnerCalls, ReaderThread, SpawnRefused, Spawn, Handshake,
      WriteFrame, WriteError, HandshakeFails, InvokeRecv, InvokeDisconnected, PingRecv,
      PingFails, ShutdownRecv, ShutdownFails, Wait, Join, CallInvoke, CallCancel, CallPing,
      CallShutdown, Drop, ThreadEof, HostCrash, transportVars
<1>7. CASE Server
  BY <1>1, <1>4, <1>5, <1>7
  DEF Server, ServerNext, ServerLoop, ReadHello, LoopHello, LoopPing, LoopShutdown, LoopCancel,
      LoopInvoke, Receive, ReadTorn, ReadEof, AnswerFails, ServeReturns, HandlerEvent,
      HandlerReturn, HandlerPanic, ProcessKilled, ProcessEnds, transportVars
<1> QED BY <1>1, <1>6, <1>7 DEF Next, Stop, vars, transportVars

LEMMA RxMembers ==
    ASSUME TypeOK, [Next]_vars
    PROVE  \A k \in 1 .. Len(rx') :
              \/ \E m \in 1 .. Len(rx) : rx'[k] = rx[m]
              \/ /\ \E m \in 1 .. Len(stdout) : rx'[k] = stdout[m]
                 /\ ReadError(rx'[k]) => thread' = "done"
              \/ rx'[k] = Eof /\ thread' = "done"
<1> USE DEF TypeOK, TransportTypeOK, ClientTypeOK
<1>1. CASE UNCHANGED rx
  BY <1>1
<1>2. CASE rx # <<>> /\ rx' = Tail(rx)
  BY <1>2, TailFacts
<1>3. ASSUME NEW f \in Received, rx' = Append(rx, f)
      PROVE  \A k \in 1 .. Len(rx') : (\E m \in 1 .. Len(rx) : rx'[k] = rx[m]) \/ rx'[k] = f
  <2>1. \A k \in 1 .. Len(rx') : k \in 1 .. Len(rx) \/ k = Len(rx) + 1
    BY <1>3, AppendFacts
  <2> QED BY <1>3, <2>1, AppendFacts
<1>4. CASE ThreadForwards
  <2>1. /\ Head(stdout) = stdout[1] /\ 1 \in 1 .. Len(stdout) /\ Head(stdout) \in PluginFrame
        /\ ReadError(Head(stdout)) => thread' = "done"
    BY <1>4, TailFacts DEF ThreadForwards
  <2>2. CASE rx' = Append(rx, Head(stdout))
    BY <1>3, <2>1, <2>2, ReceivedType
  <2> QED BY <1>1, <1>4, <2>2 DEF ThreadForwards, Forwarded
<1>5. CASE ThreadEof
  BY <1>1, <1>3, <1>5, ReceivedType DEF ThreadEof
<1>6. CASE HostCrash
  BY <1>6, EmptyFacts DEF HostCrash
<1>7. CASE Client
  BY <1>1, <1>2, <1>4, <1>5, <1>6, <1>7
  DEF Client, SpawnStep, OwnerStep, OwnerCalls, ReaderThread, SpawnRefused, Spawn, Handshake,
      WriteFrame, WriteError, HandshakeFails, InvokeRecv, InvokeDisconnected, PingRecv,
      PingFails, ShutdownRecv, ShutdownFails, Wait, Join, CallInvoke, CallCancel, CallPing,
      CallShutdown, Drop
<1> QED BY <1>1, <1>7 DEF Next, Stop, Server, vars, clientVars

(***************************************************************************)
(* The invariants that speak of frames on their way.                       *)
(***************************************************************************)
LEMMA ErrorEndsStep == TypeOK /\ ReaderOfCall /\ ErrorEnds /\ [Next]_vars => ErrorEnds'
<1> SUFFICES ASSUME TypeOK, ReaderOfCall, ErrorEnds, [Next]_vars,
                    NEW k \in 1 .. Len(rx'), ReadError(rx'[k])
             PROVE  thread' = "done"
  BY DEF ErrorEnds, ReadError
<1>1. thread = "done" => thread' = "done"
  BY DEF ReaderOfCall, Next, Client, Server, Stop, SpawnStep, OwnerStep, OwnerCalls, ReaderThread,
      SpawnRefused, Spawn, Handshake, WriteFrame, WriteError, HandshakeFails, InvokeRecv,
      InvokeDisconnected, PingRecv, PingFails, ShutdownRecv, ShutdownFails, Wait, Join,
      CallInvoke, CallCancel, CallPing, CallShutdown, Drop, ThreadForwards, ThreadEof,
      ThreadReads, HostCrash, vars, clientVars
<1>2. CASE \E m \in 1 .. Len(rx) : rx'[k] = rx[m]
  BY <1>1, <1>2 DEF ErrorEnds
<1> QED BY <1>2, RxMembers

LEMMA CancelStep ==
    ASSUME Inv, [Next]_vars
    PROVE  CancelIsLate'
<1> USE FrameIds DEF Inv, CancelIsLate
<1>1. call' = "writing" /\ frame'.type = "cancel" => outcome'[frame'.id] # "none"
  <2>1. CASE UNCHANGED <<frame, call>>
    BY <2>1, OutcomeKept
  <2>2. CASE call' # "writing"
    BY <2>2
  <2>3. CASE CallCancel
    <3>1. PICK i \in RequestId : i < nextId /\ Writes(ForRequest("cancel", i))
      BY <2>3 DEF CallCancel
    <3>2. outcome[i] # "none"
      BY <3>1 DEF OutcomeOfCall, Under, Writes
    <3> QED BY <2>3, <3>1, <3>2 DEF CallCancel, Writes, ForRequest
  <2>4. CASE CallInvoke \/ CallPing \/ CallShutdown
    BY <2>4 DEF CallInvoke, CallPing, CallShutdown, Writes, ForRequest, WithNonce, Control
  <2>5. ASSUME NEW b, Spawn(b) PROVE frame'.type # "cancel"
    BY <2>5 DEF Spawn, FrameOfCall
  <2>6. CASE Join
    BY <2>2, <2>6 DEF Join, TypeOK, ClientTypeOK
  <2>7. CASE Server \/ UNCHANGED vars \/ ReaderThread
    BY <2>1, <2>7 DEF Server, clientVars, vars, ReaderThread, ThreadForwards, ThreadEof
  <2>8. CASE SpawnRefused \/ Wait \/ HandshakeFails \/ ShutdownFails \/ Drop \/ PingFails
             \/ InvokeDisconnected \/ HostCrash \/ WriteError
    BY <2>2, <2>8 DEF SpawnRefused, Wait, HandshakeFails, ShutdownFails, Drop, PingFails,
       InvokeDisconnected, InvokeReturns, HostCrash, WriteError, KillAndReap
  <2>9. CASE WriteFrame
    BY <2>2, <2>9 DEF WriteFrame, AfterWrite
  <2>10. CASE InvokeRecv \/ PingRecv \/ ShutdownRecv
    BY <2>1, <2>2, <2>10 DEF InvokeRecv, InvokeReturns, PingRecv, ShutdownRecv, KillAndReap
  <2>11. ASSUME NEW a, NEW b, Handshake(a, b) PROVE call' # "writing"
    BY <2>11 DEF Handshake, KillAndReap
  <2> QED
    BY <2>2, <2>3, <2>4, <2>5, <2>6, <2>7, <2>8, <2>9, <2>10, <2>11
    DEF Next, Client, Stop, SpawnStep, OwnerStep, OwnerCalls
<1>2. ASSUME NEW k \in 1 .. Len(stdin'), stdin'[k].type = "cancel"
      PROVE  outcome'[stdin'[k].id] # "none"
  <2>1. ASSUME NEW f \in HostFrame, f.type = "cancel", outcome[f.id] # "none"
        PROVE  outcome'[f.id] # "none"
    BY <2>1, OutcomeKept DEF HostFrame
  <2>2. ASSUME NEW m \in 1 .. Len(stdin), stdin'[k] = stdin[m] PROVE outcome'[stdin'[k].id] # "none"
    BY <1>2, <2>1, <2>2 DEF TypeOK, TransportTypeOK
  <2>3. CASE WriteFrame /\ stdin'[k] = frame
    BY <1>2, <2>1, <2>3 DEF WriteFrame, TypeOK, ClientTypeOK
  <2> QED BY <2>2, <2>3, StdinMembers
<1> QED BY <1>1, <1>2

\* An id that is fresh stays so but for the LoopInvoke that takes it, and the
\* frames of a shorter stdin are those of the longer one.
LEMMA InvokeStep ==
    ASSUME Inv, [Next]_vars
    PROVE  InvokeOnce'
<1> USE FrameIds DEF Inv
<1>0. ASSUME NEW k \in 1 .. Len(stdin), stdin[k].type = "invoke" PROVE stdin[k].id \in RequestId
  BY <1>0 DEF TypeOK, TransportTypeOK, HostFrame
<1>1. ASSUME ~LoopInvoke, UNCHANGED stdin, UNCHANGED nextId,
             call' = "writing" /\ frame'.type = "invoke" =>
                 call = "writing" /\ UNCHANGED frame
      PROVE  InvokeOnce'
  <2>1. \A i \in RequestId : Fresh(i) => Fresh(i)'
    BY <1>1, ResultStep
  <2>2. \A i \in RequestId : i >= nextId' => Fresh(i)'
    BY <1>1, <2>1 DEF InvokeOnce
  <2>3. call' = "writing" /\ frame'.type = "invoke" => Fresh(frame.id)'
    <3> SUFFICES ASSUME call' = "writing", frame'.type = "invoke" PROVE Fresh(frame.id)'
      OBVIOUS
    <3>1. call = "writing" /\ frame' = frame /\ frame.type = "invoke" /\ frame.id \in RequestId
      BY <1>1
    <3>2. Fresh(frame.id)
      BY <3>1 DEF InvokeOnce
    <3>3. result'[frame.id] = "none" /\ job' # frame.id
      BY <2>1, <3>1, <3>2 DEF Fresh
    <3> QED BY <3>1, <3>3 DEF Fresh
  <2>4. ASSUME NEW k \in 1 .. Len(stdin), stdin[k].type = "invoke"
        PROVE  /\ Fresh(stdin[k].id)' /\ stdin[k].id < nextId
               /\ ~(call' = "writing" /\ frame'.type = "invoke" /\ frame'.id = stdin[k].id)
               /\ \A m \in 1 .. Len(stdin) :
                     stdin[m].type = "invoke" /\ stdin[m].id = stdin[k].id => m = k
    <3>1. /\ Fresh(stdin[k].id) /\ stdin[k].id < nextId
          /\ ~(call = "writing" /\ frame.type = "invoke" /\ frame.id = stdin[k].id)
          /\ \A m \in 1 .. Len(stdin) :
                stdin[m].type = "invoke" /\ stdin[m].id = stdin[k].id => m = k
      BY <2>4 DEF InvokeOnce
    <3>2. result'[stdin[k].id] = "none" /\ job' # stdin[k].id
      BY <1>0, <2>1, <2>4, <3>1 DEF Fresh
    <3>3. Fresh(stdin[k].id)'
      BY <1>1, <3>2 DEF Fresh
    <3> QED BY <1>1, <3>1, <3>3
  <2> QED BY <1>1, <2>2, <2>3, <2>4 DEF InvokeOnce
<1>2. ASSUME stdin # <<>>, stdin' = Tail(stdin), UNCHANGED <<call, frame, nextId, result>>,
             UNCHANGED job \/ (stdin[1].type = "invoke" /\ job' = stdin[1].id)
      PROVE  InvokeOnce'
  <2>1. /\ Len(stdin) \in Nat \ {0} /\ Len(stdin') = Len(stdin) - 1
        /\ \A k \in 1 .. Len(stdin') : stdin'[k] = stdin[k + 1] /\ k + 1 \in 1 .. Len(stdin)
    BY <1>2, TailFacts DEF TypeOK, TransportTypeOK
  <2>2. \A i \in RequestId : i >= nextId => Fresh(i)'
    BY <1>2, <2>1 DEF InvokeOnce, Fresh
  <2>3. call' = "writing" /\ frame'.type = "invoke" => Fresh(frame.id)'
    BY <1>2, <2>1 DEF InvokeOnce, Fresh
  <2>4. ASSUME NEW k \in 1 .. Len(stdin'), stdin'[k].type = "invoke"
        PROVE  /\ Fresh(stdin[k].id)' /\ stdin'[k].id < nextId
               /\ ~(call = "writing" /\ frame.type = "invoke" /\ frame.id = stdin'[k].id)
    BY <1>2, <2>1, <2>4 DEF InvokeOnce, Fresh
  <2>5. ASSUME NEW k \in 1 .. Len(stdin'), stdin'[k].type = "invoke",
               NEW m \in 1 .. Len(stdin'), stdin'[m].type = "invoke", stdin'[m].id = stdin'[k].id
        PROVE  m = k
    <3>1. m + 1 = k + 1
      BY <2>1, <2>5 DEF InvokeOnce
    <3> QED BY <2>1, <3>1
  <2> QED BY <1>2, <2>2, <2>3, <2>4, <2>5 DEF InvokeOnce
<1>3. CASE WriteFrame
  <2>1. /\ stdin' = Append(stdin, frame) /\ call = "writing" /\ call' # "writing"
        /\ UNCHANGED <<frame, nextId, result, job>>
    BY <1>3 DEF WriteFrame, HostWrites, AfterWrite, Next, Client, Server, ServerNext, clientVars,
                serverVars, vars, Stop
  <2>2. /\ Len(stdin) \in Nat /\ Len(stdin') = Len(stdin) + 1
        /\ \A k \in 1 .. Len(stdin) : stdin'[k] = stdin[k]
        /\ stdin'[Len(stdin) + 1] = frame
    BY <2>1, AppendFacts DEF TypeOK, TransportTypeOK, ClientTypeOK
  <2>3. \A k \in 1 .. Len(stdin') : k \in 1 .. Len(stdin) \/ k = Len(stdin) + 1
    BY <2>2
  <2>4. \A i \in RequestId : Fresh(i)' = Fresh(i)
    BY <2>1 DEF Fresh
  <2>5. ASSUME NEW k \in 1 .. Len(stdin'), stdin'[k].type = "invoke"
        PROVE  /\ Fresh(stdin[k].id)' /\ stdin'[k].id < nextId
               /\ \A m \in 1 .. Len(stdin') :
                     stdin'[m].type = "invoke" /\ stdin'[m].id = stdin'[k].id => m = k
    <3>1. CASE k \in 1 .. Len(stdin)
      BY <2>1, <2>2, <2>3, <2>5, <3>1 DEF InvokeOnce, Fresh
    <3>2. CASE k = Len(stdin) + 1
      BY <2>1, <2>2, <2>3, <2>5, <3>2 DEF InvokeOnce, Fresh, FrameOfCall
    <3> QED BY <2>3, <3>1, <3>2
  <2> QED BY <2>1, <2>4, <2>5 DEF InvokeOnce
<1>4. CASE ProcessEnds /\ UNCHANGED clientVars
  <2>1. Len(stdin') = 0
    BY <1>4, EmptyFacts DEF ProcessEnds
  <2>2. \A k \in 1 .. Len(stdin') : FALSE
    BY <2>1
  <2>3. UNCHANGED <<call, frame, nextId, result>> /\ job' = None
    BY <1>4 DEF ProcessEnds, clientVars
  <2> QED BY <2>2, <2>3 DEF InvokeOnce, Fresh
<1>5. CASE CallInvoke /\ UNCHANGED serverVars
  <2>1. /\ nextId \in RequestId /\ nextId' = nextId + 1 /\ frame' = ForRequest("invoke", nextId)
        /\ UNCHANGED <<stdin, result, job>>
    BY <1>5 DEF CallInvoke, Writes, serverVars, transportVars
  <2>2. frame'.id = nextId /\ Fresh(nextId)
    BY <2>1 DEF InvokeOnce, ForRequest
  <2> QED BY <2>1, <2>2, <1>0 DEF InvokeOnce, Fresh
<1>6. CASE Client /\ ~WriteFrame /\ ~CallInvoke
  <2>1. UNCHANGED <<stdin, nextId>>
    BY <1>6
    DEF Client, SpawnStep, OwnerStep, OwnerCalls, ReaderThread, SpawnRefused, Spawn, Handshake,
        WriteError, HandshakeFails, InvokeRecv, InvokeDisconnected, PingRecv, PingFails,
        ShutdownRecv, ShutdownFails, Wait, Join, CallCancel, CallPing, CallShutdown,
        Drop, ThreadForwards, ThreadEof, HostCrash, transportVars
  <2>2. call' = "writing" /\ frame'.type = "invoke" => call = "writing" /\ UNCHANGED frame
    <3>1. CASE Join
      BY <3>1 DEF Join, TypeOK, ClientTypeOK
    <3>2. ASSUME NEW b, Spawn(b) PROVE frame'.type # "invoke"
      BY <3>2 DEF Spawn, FrameOfCall
    <3> QED
      BY <1>6, <3>1, <3>2
      DEF Client, SpawnStep, OwnerStep, OwnerCalls, ReaderThread, SpawnRefused, Handshake,
          WriteError, HandshakeFails, InvokeRecv, InvokeDisconnected, PingRecv, PingFails,
          ShutdownRecv, ShutdownFails, Wait, CallCancel, CallPing, CallShutdown, Writes,
          ForRequest, WithNonce, Control, InvokeReturns, KillAndReap,
          Drop, ThreadForwards, ThreadEof, HostCrash
  <2>3. ~LoopInvoke
    BY <1>6, TailFacts, <2>1 DEF LoopInvoke, Receive, TypeOK, TransportTypeOK
  <2> QED BY <1>1, <2>1, <2>2, <2>3
<1>7. CASE Server
  <2>1. UNCHANGED <<call, frame, nextId>>
    BY <1>7 DEF Server, clientVars
  <2>2. CASE ReadHello \/ LoopHello \/ LoopPing \/ LoopShutdown \/ LoopCancel \/ ReadTorn
    BY <1>2, <2>1, <2>2 DEF ReadHello, LoopHello, LoopPing, LoopShutdown, LoopCancel, ReadTorn,
                            Receive
  <2>3. CASE LoopInvoke
    <3>1. Head(stdin) = stdin[1]
      BY <2>3, TailFacts DEF LoopInvoke, Receive, TypeOK, TransportTypeOK
    <3> QED BY <1>2, <2>1, <2>3, <3>1 DEF LoopInvoke, Receive
  <2>4. CASE ReadEof \/ WriteAnswer \/ AnswerFails \/ HandlerEvent \/ HandlerReturn
             \/ HandlerPanic \/ StrayOutput
    <3>1. UNCHANGED stdin
      BY <2>4 DEF ReadEof, WriteAnswer, AnswerFails, HandlerEvent, HandlerReturn, HandlerPanic,
                  StrayOutput, transportVars
    <3>2. ~LoopInvoke
      BY <3>1, TailFacts DEF LoopInvoke, Receive, TypeOK, TransportTypeOK
    <3> QED BY <1>1, <2>1, <3>1, <3>2
  <2> QED BY <1>4, <1>7, <2>2, <2>3, <2>4 DEF Server, ServerNext, ServerLoop, ServeReturns,
                                              ProcessKilled
<1>8. CASE UNCHANGED vars
  <2>1. UNCHANGED stdin
    BY <1>8 DEF vars, transportVars
  <2>2. ~LoopInvoke
    BY <2>1, TailFacts DEF LoopInvoke, Receive, TypeOK, TransportTypeOK
  <2> QED BY <1>1, <1>8, <2>1, <2>2 DEF vars, transportVars, clientVars
<1>9. CASE Client
  BY <1>3, <1>5, <1>6, <1>9 DEF Client
<1> QED BY <1>7, <1>8, <1>9 DEF Next, Stop

\* What is on its way was honest when it was said, and stays so.
LEMMA HonestStep ==
    ASSUME Inv, [Next]_vars
    PROVE  ComingHonest'
<1> USE FrameIds DEF Inv
<1>1. ASSUME NEW f, Honest(f) PROVE /\ f.type = "finished" /\ f.id \in RequestId => result'[f.id] = "finished"
                                    /\ f.type = "error" /\ f.id \in RequestId =>
                                           result'[f.id] = "error" \/ outcome'[f.id] # "none"
  BY <1>1, ResultStep, OutcomeKept DEF Honest
<1>2. Honest(Eof) /\ Honest(Control("malformed"))
  BY DEF Honest, Eof, Control
<1>3. ASSUME NEW k \in 1 .. Len(stdout') PROVE Honest(stdout[k])'
  <2>1. Honest(stdout'[k])
    BY <1>2, StdoutMembers DEF ComingHonest, WriteAnswer
  <2> QED BY <1>1, <2>1 DEF Honest
<1>4. ASSUME NEW k \in 1 .. Len(rx') PROVE Honest(rx[k])'
  <2>1. Honest(rx'[k])
    BY <1>2, RxMembers DEF ComingHonest
  <2> QED BY <1>1, <2>1 DEF Honest
<1>5. ASSUME phase' = "writing" PROVE Honest(answer)'
  <2>1. CASE UNCHANGED <<phase, answer>>
    BY <1>1, <1>5, <2>1 DEF ComingHonest, Honest
  <2>2. CASE ReadHello \/ LoopHello \/ LoopPing \/ LoopShutdown \/ LoopInvoke
    BY <1>5, <2>2 DEF ReadHello, LoopHello, LoopPing, LoopShutdown, LoopInvoke, Answers, Honest,
                      Control, ForRequest, WithNonce
  <2>3. CASE LoopCancel
    <3>1. CASE Answers(ForRequest("error", Head(stdin).id))
      <4>1. Head(stdin) = stdin[1] /\ 1 \in 1 .. Len(stdin) /\ stdin[1].type = "cancel"
            /\ stdin[1].id \in RequestId
        BY <2>3, TailFacts DEF LoopCancel, Receive, TypeOK, TransportTypeOK, HostFrame
      <4>2. outcome'[Head(stdin).id] # "none"
        BY <4>1, OutcomeKept DEF CancelIsLate
      <4> QED BY <3>1, <4>2 DEF Answers, Honest, ForRequest
    <3> QED BY <2>1, <2>3, <3>1 DEF LoopCancel
  <2>4. CASE HandlerEvent
    BY <2>4 DEF HandlerEvent, Answers, Honest, ForRequest
  <2>5. CASE HandlerReturn
    <3>1. PICK r \in {"finished", "error"} :
              /\ result' = [result EXCEPT ![job] = r]
              /\ Answers(ForRequest(r, job))
      BY <2>5 DEF HandlerReturn
    <3>2. job \in RequestId
      BY <2>5 DEF HandlerReturn, JobOfPhase
    <3>3. result'[job] = r
      BY <3>1, <3>2 DEF TypeOK, ServerTypeOK
    <3> QED BY <3>1, <3>3 DEF Answers, Honest, ForRequest
  <2>6. CASE ReadTorn \/ ReadEof \/ HandlerPanic \/ ProcessEnds
    BY <1>5, <2>6 DEF ReadTorn, ReadEof, HandlerPanic, ProcessEnds
  <2>7. CASE WriteAnswer \/ AnswerFails
    BY <1>5, <2>7 DEF WriteAnswer, AnswerFails, AfterAnswer, AfterFailure
  <2>8. CASE StrayOutput \/ Client \/ UNCHANGED vars
    BY <2>1, <2>8 DEF StrayOutput, Client, vars, serverVars
  <2> QED BY <2>2, <2>3, <2>4, <2>5, <2>6, <2>7, <2>8 DEF Next, Stop, Server, ServerNext,
             ServerLoop, ServeReturns, ProcessKilled
<1> QED BY <1>3, <1>4, <1>5 DEF ComingHonest

LEMMA InvInit == Init => Inv
<1> SUFFICES ASSUME Init PROVE Inv
  OBVIOUS
<1>1. TypeOK
  BY TypeInit
<1>2. FrameOfCall /\ EndingKnown
  BY DEF Init, ClientInit, Control, FrameOfCall, EndingKnown
<1>3. reaped = FALSE
  BY DEF Init, ClientInit
<1>4. ReaderOfCall
  BY <1>3 DEF Init, ClientInit, TransportInit, ReaderOfCall
<1>5. JobOfPhase
  BY DEF Init, ServerInit, TransportInit, JobOfPhase
<1>6. OutcomeOfCall
  BY DEF Init, ClientInit, OutcomeOfCall, Under, RequestId
<1>7. Len(stdin) = 0 /\ Len(stdout) = 0 /\ Len(rx) = 0
  BY EmptyFacts DEF Init, TransportInit, ClientInit
<1>8. InvokeOnce /\ CancelIsLate
  BY <1>7 DEF Init, ClientInit, ServerInit, InvokeOnce, CancelIsLate, Fresh, None, RequestId
<1>9. ComingHonest /\ ErrorEnds
  BY <1>7 DEF Init, ServerInit, ComingHonest, ErrorEnds
<1> QED BY <1>1, <1>2, <1>4, <1>5, <1>6, <1>8, <1>9 DEF Inv

LEMMA InvStep == Inv /\ [Next]_vars => Inv'
<1> SUFFICES ASSUME Inv, [Next]_vars PROVE Inv'
  OBVIOUS
<1>1. TypeOK'
  <2>1. CASE UNCHANGED vars
    BY <2>1 DEF Inv, vars, transportVars, clientVars, serverVars, TypeOK, TransportTypeOK,
                ClientTypeOK, ServerTypeOK
  <2> QED BY <2>1, ClientTypeStep, ServerTypeStep DEF Inv, Next, Stop
<1>2. FrameOfCall' /\ EndingKnown' /\ ReaderOfCall'
  BY FrameStep, EndingStep, ReaderStep DEF Inv
<1>3. JobOfPhase' /\ OutcomeOfCall' /\ ErrorEnds'
  BY JobStep, OutcomeStep, ErrorEndsStep DEF Inv
<1>4. InvokeOnce' /\ CancelIsLate' /\ ComingHonest'
  BY InvokeStep, CancelStep, HonestStep
<1> QED BY <1>1, <1>2, <1>3, <1>4 DEF Inv

\* The inductive invariant holds.
LEMMA Invariant == Spec => []Inv
BY InvInit, InvStep, PTL DEF Spec

\* The pipes never hold more than they can, a ping that returned Ok had a
\* nonce, and a call that ends knows what it comes to.
THEOREM TypeCorrect == Spec => []TypeOK
<1>1. Inv => TypeOK
  BY DEF Inv
<1> QED BY <1>1, Invariant, PTL

\* Whatever ends a client other than a hello that cannot be written, it
\* leaves neither a child nor a zombie nor a reader thread.
THEOREM CleanEnd == Spec => []NothingLeft
<1>1. Inv => NothingLeft
  BY DEF Inv, ReaderOfCall, NothingLeft
<1> QED BY <1>1, Invariant, PTL

(***************************************************************************)
(* The refinement: every step is a step of WorkerService or a stutter.     *)
(***************************************************************************)
LEMMA PromiseInit == Init => Service!Init
<1> SUFFICES ASSUME Init PROVE Service!Init
  OBVIOUS
<1>1. \A i \in RequestId : CallOf(i) = "idle"
  BY DEF Init, ClientInit, CallOf, Invoking
<1>2. \A i \in RequestId : WorkOf(i) = "none"
  BY DEF Init, ServerInit, WorkOf, None, RequestId
<1>3. LinkState = "up"
  BY DEF Init, ClientInit, LinkState
<1> QED BY <1>1, <1>2, <1>3 DEF Service!Init

\* A step that no caller, no handler and no link can tell.
LEMMA Stutter ==
    ASSUME \A i \in RequestId : CallOf(i)' = CallOf(i),
           \A i \in RequestId : WorkOf(i)' = WorkOf(i),
           LinkState' = LinkState
    PROVE  UNCHANGED Service!serviceVars
BY DEF Service!serviceVars

LEMMA ServerPromise ==
    ASSUME Inv, Server
    PROVE  [Service!Next]_(Service!serviceVars)
<1> USE DEF Inv
<1>1. \A i \in RequestId : CallOf(i)' = CallOf(i)
  BY DEF Server, clientVars, CallOf, Invoking
<1>2. LinkState' = LinkState
  BY DEF Server, clientVars, LinkState
<1>3. child = "running" => LinkState # "shut"
  BY DEF LinkState, ReaderOfCall
<1>4. None \notin RequestId
  BY DEF None, RequestId
<1>5. CASE UNCHANGED <<job, result>>
  <2>1. \A i \in RequestId : WorkOf(i)' = WorkOf(i)
    BY <1>5 DEF WorkOf
  <2> QED BY <1>1, <1>2, <2>1, Stutter
<1>6. CASE LoopInvoke
  <2>0. Head(stdin).id \in RequestId /\ Head(stdin) = stdin[1] /\ 1 \in 1 .. Len(stdin)
    BY <1>6, TailFacts DEF LoopInvoke, Receive, TypeOK, TransportTypeOK, HostFrame
  <2>1. PICK i \in RequestId : i = stdin[1].id
    BY <2>0
  <2>2. /\ Fresh(i) /\ i < nextId
        /\ ~(call = "writing" /\ frame.type = "invoke" /\ frame.id = i)
    BY <1>6, <2>0, <2>1 DEF LoopInvoke, Receive, InvokeOnce
  <2>3. CallOf(i) # "idle"
    <3>1. CASE Under(i)
      BY <2>2, <3>1 DEF Under, CallOf, Invoking
    <3>2. CASE call = "crashed"
      BY <3>2 DEF CallOf, Invoking, TypeOK, ClientTypeOK
    <3>3. CASE ~Under(i) /\ call # "crashed"
      <4>1. outcome[i] # "none"
        BY <2>1, <2>2, <3>3 DEF OutcomeOfCall
      <4> QED BY <2>1, <4>1 DEF CallOf, Invoking, TypeOK, ClientTypeOK
    <3> QED BY <3>1, <3>2, <3>3
  <2>4. job = None /\ job' = i /\ UNCHANGED result /\ child = "running"
    BY <1>6, <2>0, <2>1 DEF LoopInvoke, Receive, Reading, JobOfPhase
  <2>5. WorkOf(i) = "none" /\ WorkOf(i)' = "running"
    BY <2>1, <2>2, <2>4 DEF Fresh, WorkOf
  <2>6. \A j \in RequestId : j # i => WorkOf(j)' = WorkOf(j)
    BY <1>4, <2>4 DEF WorkOf
  <2>7. [j \in RequestId |-> WorkOf(j)]' = [[j \in RequestId |-> WorkOf(j)] EXCEPT ![i] = "running"]
    BY <2>1, <2>5, <2>6
  <2>8. Service!Begin(i)
    BY <1>1, <1>2, <1>3, <2>1, <2>3, <2>4, <2>5, <2>7 DEF Service!Begin
  <2> QED BY <2>1, <2>8 DEF Service!Next
<1>7. CASE HandlerReturn
  <2>1. PICK r \in {"finished", "error"} : result' = [result EXCEPT ![job] = r]
    BY <1>7 DEF HandlerReturn
  <2>2. job \in RequestId /\ result[job] = "none" /\ job' = None /\ child = "running"
    BY <1>4, <1>7 DEF HandlerReturn, JobOfPhase
  <2>3. WorkOf(job) = "running"
    BY <2>2 DEF WorkOf
  <2>4. \A j \in RequestId : WorkOf(j)' = IF j = job THEN r ELSE WorkOf(j)
    BY <1>4, <2>1, <2>2 DEF WorkOf, TypeOK, ServerTypeOK
  <2>5. [j \in RequestId |-> WorkOf(j)]' = [[j \in RequestId |-> WorkOf(j)] EXCEPT ![job] = r]
    BY <2>2, <2>4
  <2>6. Service!Complete(job)
    BY <1>1, <1>2, <1>3, <2>2, <2>3, <2>5 DEF Service!Complete
  <2> QED BY <2>2, <2>6 DEF Service!Next
<1>8. ASSUME child = "running",
             \A j \in RequestId : WorkOf(j)' = IF WorkOf(j) = "running" THEN "none" ELSE WorkOf(j)
      PROVE  Service!Next
  <2>1. Service!WorkerDies
    BY <1>1, <1>2, <1>3, <1>8 DEF Service!WorkerDies
  <2> QED BY <2>1 DEF Service!Next
<1>9. CASE HandlerPanic
  <2>1. job \in RequestId /\ result[job] = "none" /\ job' = None /\ child = "running"
        /\ result' = [result EXCEPT ![job] = "panicked"]
    BY <1>4, <1>9 DEF HandlerPanic, JobOfPhase
  <2>2. \A j \in RequestId : WorkOf(j)' = IF WorkOf(j) = "running" THEN "none" ELSE WorkOf(j)
    BY <1>4, <2>1 DEF WorkOf, TypeOK, ServerTypeOK
  <2> QED BY <1>8, <2>1, <2>2
<1>10. CASE ProcessEnds /\ child = "running"
  <2>1. job' = None /\ UNCHANGED result
    BY <1>10 DEF ProcessEnds
  <2>2. \A j \in RequestId : WorkOf(j)' = IF WorkOf(j) = "running" THEN "none" ELSE WorkOf(j)
    BY <1>4, <2>1 DEF WorkOf, JobOfPhase, TypeOK, ServerTypeOK
  <2> QED BY <1>8, <1>10, <2>2
<1> QED
  BY <1>5, <1>6, <1>7, <1>9, <1>10 DEF Server, ServerNext, ServerLoop, ReadHello,
     LoopHello, LoopPing, LoopShutdown, LoopCancel, Receive, ReadTorn, ReadEof, WriteAnswer,
     AnswerFails, ServeReturns, HandlerEvent, StrayOutput, ProcessKilled, serverVars

LEMMA ClientPromise ==
    ASSUME Inv, Client
    PROVE  [Service!Next]_(Service!serviceVars)
<1> USE DEF Inv
<1>1. \A i \in RequestId : WorkOf(i)' = WorkOf(i)
  BY DEF Client, serverVars, WorkOf
<1>2. ASSUME UNCHANGED outcome, call # "invoking", call' # "invoking", call # "crashed",
             call' # "crashed"
      PROVE  \A i \in RequestId : CallOf(i)' = CallOf(i)
  BY <1>2 DEF CallOf, Invoking
<1>3. ASSUME UNCHANGED <<outcome, call, frame>>
      PROVE  \A i \in RequestId : CallOf(i)' = CallOf(i)
  BY <1>3 DEF CallOf, Invoking
<1>4. ASSUME UNCHANGED thread, call \notin {"shut", "crashed"}, call' \notin {"shut", "crashed"}
      PROVE  LinkState' = LinkState
  BY <1>4 DEF LinkState
<1>5. CASE SpawnRefused \/ Wait \/ HandshakeFails \/ ShutdownFails \/ Drop \/ PingFails
           \/ CallInvoke \/ CallCancel \/ CallPing \/ CallShutdown \/ PingRecv
  BY <1>1, <1>2, <1>4, <1>5, Stutter
  DEF SpawnRefused, Wait, HandshakeFails, ShutdownFails, Drop, PingFails, CallInvoke, CallCancel,
      CallPing, CallShutdown, PingRecv, Writes, KillAndReap
<1>6. ASSUME NEW b, Spawn(b) PROVE UNCHANGED Service!serviceVars
  <2>1. LinkState' = LinkState
    BY <1>6 DEF Spawn, LinkState, ReaderOfCall
  <2>2. \A i \in RequestId : CallOf(i)' = CallOf(i)
    BY <1>2, <1>6 DEF Spawn
  <2> QED BY <1>1, <2>1, <2>2, Stutter
<1>7. ASSUME NEW a, NEW b, Handshake(a, b) PROVE UNCHANGED Service!serviceVars
  BY <1>1, <1>2, <1>4, <1>7, Stutter DEF Handshake, KillAndReap
<1>8. CASE ShutdownRecv
  BY <1>1, <1>2, <1>4, <1>8, Stutter DEF ShutdownRecv, KillAndReap
<1>9. CASE ReaderThread
  <2>1. \A i \in RequestId : CallOf(i)' = CallOf(i)
    BY <1>3, <1>9 DEF ReaderThread, ThreadForwards, ThreadEof
  <2>2. LinkState = "up" /\ LinkState' \in {"up", "lost"}
    BY <1>9 DEF ReaderThread, ThreadForwards, ThreadEof, ThreadReads, LinkState, ReaderOfCall
  <2>3. CASE LinkState' = "up"
    BY <1>1, <2>1, <2>2, <2>3, Stutter
  <2>4. CASE LinkState' = "lost"
    <3>1. Service!Lose
      BY <1>1, <2>1, <2>2, <2>4 DEF Service!Lose
    <3> QED BY <3>1 DEF Service!Next
  <2> QED BY <2>2, <2>3, <2>4
<1>10. CASE Join
  <2>1. /\ call' = ending /\ ending \in {"failed", "shut", "dropped"} /\ call = "joining"
        /\ UNCHANGED <<thread, outcome>> /\ thread = "done"
    BY <1>10 DEF Join, Joined, EndingKnown, TypeOK, ClientTypeOK
  <2>2. \A i \in RequestId : CallOf(i)' = CallOf(i)
    BY <1>2, <2>1
  <2>3. CASE ending # "shut"
    BY <1>1, <1>4, <2>1, <2>2, <2>3, Stutter
  <2>4. CASE ending = "shut"
    <3>1. LinkState # "shut" /\ LinkState' = "shut"
      BY <2>1, <2>4 DEF LinkState
    <3>2. \A i \in RequestId : CallOf(i) # "open"
      BY <2>1 DEF CallOf, Invoking, TypeOK, ClientTypeOK
    <3>3. \A i \in RequestId : WorkOf(i) # "running"
      <4>1. job = None /\ None \notin RequestId
        BY <2>1 DEF ReaderOfCall, JobOfPhase, None, RequestId
      <4> QED BY <4>1 DEF WorkOf, TypeOK, ServerTypeOK
    <3>4. Service!Shut
      BY <1>1, <2>2, <3>1, <3>2, <3>3 DEF Service!Shut
    <3> QED BY <3>4 DEF Service!Next
  <2> QED BY <2>3, <2>4
<1>11. ASSUME NEW i \in RequestId, NEW c,
              \A j \in RequestId : j # i => CallOf(j)' = CallOf(j), CallOf(i)' = c
       PROVE  [j \in RequestId |-> CallOf(j)]' = [[j \in RequestId |-> CallOf(j)] EXCEPT ![i] = c]
  BY <1>11
<1>12. CASE WriteFrame
  <2>1. CASE frame.type = "invoke"
    <3>1. /\ call = "writing" /\ call' = "invoking" /\ UNCHANGED <<frame, outcome, thread>>
          /\ frame.id \in RequestId
      BY <1>12, <2>1, FrameIds DEF WriteFrame, AfterWrite
    <3>2. outcome[frame.id] = "none"
      BY <2>1, <3>1 DEF OutcomeOfCall, Under
    <3>3. CallOf(frame.id) = "idle" /\ CallOf(frame.id)' = "open"
      BY <3>1, <3>2 DEF CallOf, Invoking
    <3>4. \A j \in RequestId : j # frame.id => CallOf(j)' = CallOf(j)
      BY <3>1 DEF CallOf, Invoking
    <3>5. LinkState' = LinkState /\ LinkState # "shut"
      BY <3>1 DEF LinkState
    <3>6. [j \in RequestId |-> CallOf(j)]' = [[j \in RequestId |-> CallOf(j)] EXCEPT ![frame.id] = "open"]
      BY <1>11, <3>1, <3>3, <3>4
    <3>7. Service!Submit(frame.id)
      BY <1>1, <3>1, <3>3, <3>5, <3>6 DEF Service!Submit
    <3> QED BY <3>1, <3>7 DEF Service!Next
  <2>2. CASE frame.type # "invoke"
    BY <1>1, <1>2, <1>4, <1>12, <2>2, Stutter DEF WriteFrame, AfterWrite
  <2> QED BY <2>1, <2>2
<1>13. CASE WriteError
  <2>1. CASE frame.type = "invoke"
    <3>1. /\ call = "writing" /\ call' = "ready" /\ UNCHANGED <<frame, thread>> /\ frame.id \in RequestId
          /\ outcome' = [outcome EXCEPT ![frame.id] = "rejected"]
      BY <1>13, <2>1, FrameIds DEF WriteError
    <3>2. outcome[frame.id] = "none"
      BY <2>1, <3>1 DEF OutcomeOfCall, Under
    <3>3. CallOf(frame.id) = "idle" /\ CallOf(frame.id)' = "gone"
      <4>1. frame' = frame /\ outcome'[frame.id] = "rejected"
        BY <1>13, <3>1 DEF WriteError, TypeOK, ClientTypeOK
      <4> QED BY <3>1, <3>2, <4>1 DEF CallOf, Invoking
    <3>4. \A j \in RequestId : j # frame.id => CallOf(j)' = CallOf(j)
      BY <3>1 DEF CallOf, Invoking, TypeOK, ClientTypeOK
    <3>5. LinkState' = LinkState
      BY <3>1 DEF LinkState
    <3>6. [j \in RequestId |-> CallOf(j)]' = [[j \in RequestId |-> CallOf(j)] EXCEPT ![frame.id] = "gone"]
      BY <1>11, <3>1, <3>3, <3>4
    <3>7. Service!Forget(frame.id)
      BY <1>1, <3>1, <3>3, <3>5, <3>6 DEF Service!Forget
    <3> QED BY <3>1, <3>7 DEF Service!Next
  <2>2. CASE frame.type # "invoke"
    BY <1>1, <1>2, <1>4, <1>13, <2>2, Stutter DEF WriteError, KillAndReap
  <2> QED BY <2>1, <2>2
<1>14. ASSUME NEW o \in {"closed", "finished", "errored"}, call = "invoking", InvokeReturns(o),
              UNCHANGED <<frame, thread>>,
              \/ o = "closed" /\ thread = "done"
              \/ o = "finished" /\ result[frame.id] = "finished"
              \/ o = "errored" /\ result[frame.id] = "error"
       PROVE  Service!Next
  <2>1. frame.id \in RequestId /\ call' = "ready"
        /\ outcome' = [outcome EXCEPT ![frame.id] = o]
    BY <1>14, FrameIds DEF FrameOfCall, InvokeReturns
  <2>2. outcome'[frame.id] = o
    BY <2>1 DEF TypeOK, ClientTypeOK
  <2>3. CallOf(frame.id) = "open" /\ CallOf(frame.id)' = o
    BY <1>14, <2>1, <2>2 DEF CallOf, Invoking
  <2>4. \A j \in RequestId : j # frame.id => CallOf(j)' = CallOf(j)
    BY <1>14, <2>1 DEF CallOf, Invoking, TypeOK, ClientTypeOK
  <2>5. [j \in RequestId |-> CallOf(j)]' = [[j \in RequestId |-> CallOf(j)] EXCEPT ![frame.id] = o]
    BY <1>11, <1>14, <2>1, <2>3, <2>4
  <2>6. LinkState' = LinkState
    BY <1>14, <2>1 DEF LinkState
  <2>7. CASE o = "closed" /\ thread = "done"
    <3>1. LinkState = "lost"
      BY <1>14, <2>7 DEF LinkState
    <3>2. Service!Disconnect(frame.id)
      BY <1>1, <2>1, <2>3, <2>5, <2>6, <2>7, <3>1 DEF Service!Disconnect
    <3> QED BY <2>1, <3>2 DEF Service!Next
  <2>8. CASE o = "finished" /\ result[frame.id] = "finished"
    <3>1. WorkOf(frame.id) = "finished"
      BY <2>8 DEF WorkOf
    <3>2. Service!Resolve(frame.id)
      BY <1>1, <2>1, <2>3, <2>5, <2>6, <2>8, <3>1 DEF Service!Resolve
    <3> QED BY <2>1, <3>2 DEF Service!Next
  <2>9. CASE o = "errored" /\ result[frame.id] = "error"
    <3>1. WorkOf(frame.id) = "error"
      BY <2>9 DEF WorkOf
    <3>2. Service!Resolve(frame.id)
      BY <1>1, <2>1, <2>3, <2>5, <2>6, <2>9, <3>1 DEF Service!Resolve
    <3> QED BY <2>1, <3>2 DEF Service!Next
  <2> QED BY <1>14, <2>7, <2>8, <2>9
<1>15. CASE InvokeDisconnected
  BY <1>14, <1>15 DEF InvokeDisconnected
<1>16. CASE InvokeRecv
  <2> DEFINE f == Head(rx)
  <2>1. f = rx[1] /\ 1 \in 1 .. Len(rx)
    BY <1>16, TailFacts DEF InvokeRecv, TypeOK, ClientTypeOK
  <2>2. Honest(f) /\ (ReadError(f) => thread = "done")
    BY <2>1 DEF ComingHonest, ErrorEnds
  <2>3. frame.id \in RequestId /\ call = "invoking" /\ UNCHANGED <<frame, thread>>
    BY <1>16, FrameIds DEF InvokeRecv, FrameOfCall
  <2>4. outcome[frame.id] = "none"
    BY <2>3 DEF OutcomeOfCall, Under, FrameOfCall
  <2>5. CASE ReadError(f) /\ InvokeReturns("closed")
    BY <1>14, <2>2, <2>3, <2>5
  <2>6. CASE f = ForRequest("finished", frame.id) /\ InvokeReturns("finished")
    <3>1. result[frame.id] = "finished"
      BY <2>2, <2>3, <2>6 DEF Honest, ForRequest
    <3> QED BY <1>14, <2>3, <2>6, <3>1
  <2>7. CASE OwnError(f) /\ InvokeReturns("errored")
    <3>1. result[frame.id] = "error"
      BY <2>2, <2>3, <2>4, <2>7 DEF Honest, OwnError
    <3> QED BY <1>14, <2>3, <2>7, <3>1
  <2>8. CASE UNCHANGED <<call, outcome>>
    <3>1. LinkState' = LinkState
      BY <2>3, <2>8 DEF LinkState
    <3> QED BY <1>1, <1>3, <2>3, <2>8, <3>1, Stutter
  <2> QED BY <1>16, <2>5, <2>6, <2>7, <2>8 DEF InvokeRecv
<1>17. CASE HostCrash
  <2>1. call' = "crashed" /\ call # "crashed" /\ UNCHANGED <<frame, outcome>> /\ call # "shut"
    BY <1>17 DEF HostCrash, Gone
  <2>2. LinkState' = "lost"
    BY <2>1 DEF LinkState
  <2>3. \A i \in RequestId : CallOf(i)' = IF CallOf(i) \in {"open", "idle"} THEN "gone" ELSE CallOf(i)
    <3> SUFFICES ASSUME NEW i \in RequestId
                 PROVE  CallOf(i)' = IF CallOf(i) \in {"open", "idle"} THEN "gone" ELSE CallOf(i)
      OBVIOUS
    <3>1. CASE Invoking(i)
      <4>1. outcome[i] = "none"
        BY <3>1 DEF Invoking, OutcomeOfCall, Under, FrameOfCall
      <4> QED BY <2>1, <3>1, <4>1 DEF CallOf, Invoking
    <3>2. CASE ~Invoking(i)
      BY <2>1, <3>2 DEF CallOf, Invoking, TypeOK, ClientTypeOK
    <3> QED BY <3>1, <3>2
  <2> DEFINE idle == {i \in RequestId : CallOf(i) = "idle"}
  <2>4. \A i \in RequestId : CallOf(i)' = IF CallOf(i) = "open" \/ i \in idle THEN "gone" ELSE CallOf(i)
    BY <2>3
  <2>5. Service!HostDies
    BY <1>1, <2>2, <2>4 DEF Service!HostDies
  <2> QED BY <2>5 DEF Service!Next
<1> QED
  BY <1>5, <1>6, <1>7, <1>8, <1>9, <1>10, <1>12, <1>13, <1>15, <1>16, <1>17
  DEF Client, SpawnStep, OwnerStep, OwnerCalls

\* The promise of WorkerService: a caller learns what its own work came to
\* and nothing else, a call breaks off only when the link is lost, and a
\* shutdown that succeeds leaves no work undone.
THEOREM PromiseKept == Spec => KeepsPromise
<1>1. Inv /\ [Next]_vars => [Service!Next]_(Service!serviceVars)
  <2> SUFFICES ASSUME Inv, [Next]_vars PROVE [Service!Next]_(Service!serviceVars)
    OBVIOUS
  <2>1. CASE UNCHANGED vars
    <3>1. /\ \A i \in RequestId : CallOf(i)' = CallOf(i)
          /\ \A i \in RequestId : WorkOf(i)' = WorkOf(i)
          /\ LinkState' = LinkState
      BY <2>1 DEF vars, clientVars, serverVars, CallOf, Invoking, WorkOf, LinkState
    <3> QED BY <3>1, Stutter
  <2> QED BY <2>1, ServerPromise, ClientPromise DEF Next, Stop
<1> QED BY <1>1, PromiseInit, Invariant, PTL DEF Spec, KeepsPromise, Service!Spec

(***************************************************************************)
(* The nonces.                                                             *)
(***************************************************************************)
LEMMA NoncesAppend ==
    ASSUME NEW S, NEW q \in Seq(S), NEW f \in S, NEW t
    PROVE  \A n : n \in NoncesIn(Append(q, f), t) <=>
                      n \in NoncesIn(q, t) \/ (f.type = t /\ n = f.nonce)
<1> DEFINE r == Append(q, f)
<1>1. /\ Len(q) \in Nat /\ Len(r) = Len(q) + 1
      /\ \A k \in 1 .. Len(q) : r[k] = q[k]
      /\ r[Len(q) + 1] = f
  BY AppendFacts
<1>2. \A k \in 1 .. Len(r) : k \in 1 .. Len(q) \/ k = Len(q) + 1
  BY <1>1
<1>3. \A k \in 1 .. Len(q) : k \in 1 .. Len(r)
  BY <1>1
<1>4. Len(q) + 1 \in 1 .. Len(r)
  BY <1>1
<1> HIDE DEF r
<1>5. ASSUME NEW n \in NoncesIn(r, t)
      PROVE  n \in NoncesIn(q, t) \/ (f.type = t /\ n = f.nonce)
  <2>1. PICK k \in 1 .. Len(r) : r[k].type = t /\ n = r[k].nonce
    BY <1>5 DEF NoncesIn
  <2>2. CASE k \in 1 .. Len(q)
    BY <1>1, <2>1, <2>2 DEF NoncesIn
  <2>3. CASE k = Len(q) + 1
    BY <1>1, <2>1, <2>3
  <2> QED BY <1>2, <2>2, <2>3
<1>6. ASSUME NEW n \in NoncesIn(q, t) PROVE n \in NoncesIn(r, t)
  BY <1>1, <1>3, <1>6 DEF NoncesIn
<1>7. ASSUME f.type = t PROVE f.nonce \in NoncesIn(r, t)
  BY <1>1, <1>4, <1>7 DEF NoncesIn
<1> QED BY <1>5, <1>6, <1>7 DEF r

LEMMA DistinctAppend ==
    ASSUME NEW S, NEW q \in Seq(S), NEW f \in S, NEW t, NEW F, Distinct(q, t, F),
           f.type = t => Apart(NoncesIn(q, t), {f.nonce}, F)
    PROVE  Distinct(Append(q, f), t, F)
<1> DEFINE r == Append(q, f)
<1>1. /\ Len(q) \in Nat /\ Len(r) = Len(q) + 1
      /\ \A k \in 1 .. Len(q) : r[k] = q[k]
      /\ r[Len(q) + 1] = f
  BY AppendFacts
<1>2. \A k \in 1 .. Len(r) : k \in 1 .. Len(q) \/ k = Len(q) + 1
  BY <1>1
<1> HIDE DEF r
<1> SUFFICES ASSUME NEW j \in 1 .. Len(r), NEW k \in 1 .. Len(r), j < k,
                    r[j].type = t, r[k].type = t, r[j].nonce = r[k].nonce
             PROVE  r[j].nonce \in F
  BY DEF Distinct, r
<1>3. j \in 1 .. Len(q)
  BY <1>1
<1>4. CASE k \in 1 .. Len(q)
  BY <1>1, <1>3, <1>4 DEF Distinct
<1>5. CASE k = Len(q) + 1
  <2>1. q[j].nonce \in NoncesIn(q, t)
    BY <1>1, <1>3 DEF NoncesIn
  <2> QED BY <1>1, <1>3, <1>5, <2>1 DEF Apart
<1> QED BY <1>2, <1>4, <1>5

LEMMA NoncesTail ==
    ASSUME NEW S, NEW q \in Seq(S), q # <<>>, NEW t, NEW F
    PROVE  /\ NoncesIn(Tail(q), t) \subseteq NoncesIn(q, t)
           /\ Head(q).type = t => Head(q).nonce \in NoncesIn(q, t)
           /\ Distinct(q, t, F) => Distinct(Tail(q), t, F)
           /\ Distinct(q, t, F) /\ Head(q).type = t => Apart({Head(q).nonce}, NoncesIn(Tail(q), t), F)
<1> DEFINE r == Tail(q)
<1>1. /\ Len(q) \in Nat \ {0} /\ Head(q) = q[1] /\ Len(r) = Len(q) - 1
      /\ \A k \in 1 .. Len(r) : r[k] = q[k + 1] /\ k + 1 \in 1 .. Len(q)
  BY TailFacts
<1> HIDE DEF r
<1>2. NoncesIn(r, t) \subseteq NoncesIn(q, t)
  BY <1>1 DEF NoncesIn
<1>3. Head(q).type = t => Head(q).nonce \in NoncesIn(q, t)
  BY <1>1 DEF NoncesIn
<1>4. ASSUME Distinct(q, t, F) PROVE Distinct(r, t, F)
  <2> SUFFICES ASSUME NEW j \in 1 .. Len(r), NEW k \in 1 .. Len(r), j < k,
                      r[j].type = t, r[k].type = t, r[j].nonce = r[k].nonce
               PROVE  r[j].nonce \in F
    BY DEF Distinct
  <2>1. /\ j + 1 \in 1 .. Len(q) /\ k + 1 \in 1 .. Len(q) /\ j + 1 < k + 1
        /\ r[j] = q[j + 1] /\ r[k] = q[k + 1]
    BY <1>1
  <2> QED BY <1>4, <2>1 DEF Distinct
<1>5. ASSUME Distinct(q, t, F), Head(q).type = t, Head(q).nonce \in NoncesIn(r, t)
      PROVE  Head(q).nonce \in F
  <2>1. PICK k \in 1 .. Len(r) : r[k].type = t /\ Head(q).nonce = r[k].nonce
    BY <1>5 DEF NoncesIn
  <2>2. 1 \in 1 .. Len(q) /\ k + 1 \in 1 .. Len(q) /\ 1 < k + 1 /\ r[k] = q[k + 1]
    BY <1>1
  <2> QED BY <1>1, <1>5, <2>1, <2>2 DEF Distinct
<1>6. Distinct(q, t, F) /\ Head(q).type = t => Apart({Head(q).nonce}, NoncesIn(r, t), F)
  BY <1>5 DEF Apart
<1> QED BY <1>2, <1>3, <1>4, <1>6 DEF r

LEMMA NoncesEmpty == \A t : NoncesIn(<<>>, t) = {} /\ \A F : Distinct(<<>>, t, F)
<1>1. \A k \in 1 .. Len(<<>>) : FALSE
  BY EmptyFacts
<1> QED BY <1>1 DEF NoncesIn, Distinct

\* Nothing new on its way, and no nonce at rest that was not.
LEMMA NoncesShrink ==
    ASSUME NoncesOnce, Failed \subseteq Failed', AtRest' \subseteq AtRest,
           Distinct(rx, "pong", Failed)', Distinct(stdout, "pong", Failed)',
           Distinct(stdin, "ping", Failed)',
           Heard' \subseteq Heard, Said' \subseteq Said, Answering' \subseteq Answering,
           Asked' \subseteq Asked, Asking' \subseteq Asking
    PROVE  NoncesOnce'
BY DEF NoncesOnce, Apart

\* What the end of a ping, or of nothing, makes of the history.
LEMMA HistoryKept ==
    /\ UNCHANGED pinged => Failed' = Failed /\ AtRest' = AtRest
    /\ TypeOK /\ PingReturns("failed") => Failed \subseteq Failed' /\ AtRest' \subseteq AtRest
    /\ TypeOK /\ PingReturns("ok") =>
          /\ Failed' = Failed
          /\ \A n \in AtRest' : n \in AtRest \/ (n = frame.nonce /\ n \notin Failed)
BY DEF Failed, AtRest, PingReturns, TypeOK, ClientTypeOK

LEMMA FailedStays ==
    ASSUME TypeOK, Client
    PROVE  Failed \subseteq Failed'
<1>1. CASE UNCHANGED pinged
  BY <1>1, HistoryKept
<1>2. CASE CallPing
  BY <1>2 DEF CallPing, Failed, TypeOK, ClientTypeOK
<1>3. CASE WriteError \/ PingRecv \/ PingFails
  BY <1>1, <1>3, HistoryKept DEF WriteError, PingRecv, PingFails
<1> QED
  BY <1>1, <1>2, <1>3 DEF Client, SpawnStep, OwnerStep, OwnerCalls, ReaderThread, SpawnRefused,
     Spawn, Handshake, WriteFrame, HandshakeFails, InvokeRecv, InvokeDisconnected, ShutdownRecv,
     ShutdownFails, Wait, Join, CallInvoke, CallCancel, CallShutdown, Drop, ThreadForwards,
     ThreadEof, HostCrash

LEMMA OpenStep ==
    ASSUME Inv, OpenOfCall, [Next]_vars
    PROVE  OpenOfCall'
<1> USE DEF OpenOfCall
<1>1. CASE UNCHANGED <<pinged, call, frame>>
  BY <1>1
<1>2. CASE UNCHANGED pinged /\ call \notin {"writing", "pinging", "crashed"}
  BY <1>2
<1>3. CASE UNCHANGED pinged /\ call' = "crashed"
  BY <1>3
<1>4. CASE CallPing
  BY <1>4 DEF CallPing, Writes, WithNonce, Inv, TypeOK, ClientTypeOK
<1>5. CASE WriteFrame
  <2>1. call = "writing" /\ UNCHANGED <<pinged, frame>> /\ call' = AfterWrite(frame)
    BY <1>5 DEF WriteFrame
  <2> QED BY <2>1 DEF AfterWrite
<1>6. CASE WriteError
  BY <1>6 DEF WriteError, PingReturns, KillAndReap, Inv, TypeOK, ClientTypeOK
<1>7. CASE PingRecv
  BY <1>7 DEF PingRecv, PingReturns, Inv, TypeOK, ClientTypeOK
<1>8. CASE PingFails
  BY <1>8 DEF PingFails, PingReturns, Inv, TypeOK, ClientTypeOK
<1>9. CASE SpawnStep \/ HandshakeFails \/ InvokeRecv \/ InvokeDisconnected \/ ShutdownRecv
           \/ ShutdownFails \/ Wait \/ Join \/ CallInvoke \/ CallCancel \/ CallShutdown \/ Drop
  BY <1>2, <1>9 DEF SpawnStep, SpawnRefused, Spawn, Handshake, HandshakeFails, InvokeRecv,
     InvokeDisconnected, ShutdownRecv, ShutdownFails, Wait, Join, CallInvoke, CallCancel,
     CallShutdown, Drop, Writes
<1>10. CASE ReaderThread
  BY <1>1, <1>10 DEF ReaderThread, ThreadForwards, ThreadEof
<1>11. CASE HostCrash
  BY <1>3, <1>11 DEF HostCrash
<1>12. CASE Server \/ Stop \/ UNCHANGED vars
  BY <1>1, <1>12 DEF Server, Stop, vars, clientVars
<1> QED
  BY <1>4, <1>5, <1>6, <1>7, <1>8, <1>9, <1>10, <1>11, <1>12
  DEF Next, Client, OwnerStep, OwnerCalls

LEMMA ClientNonces ==
    ASSUME Inv, NoncesOnce, OpenOfCall, Client
    PROVE  NoncesOnce'
<1> USE FrameIds DEF Inv
<1>0. UNCHANGED <<phase, answer>> /\ Answering' = Answering
  BY DEF Client, serverVars, Answering
<1>f. Failed \subseteq Failed'
  BY FailedStays
<1>1. ASSUME UNCHANGED <<rx, stdout, stdin>>
      PROVE  /\ Heard' = Heard /\ Said' = Said /\ Asked' = Asked
             /\ Distinct(rx, "pong", Failed)' /\ Distinct(stdout, "pong", Failed)' /\ Distinct(stdin, "ping", Failed)'
  BY <1>1, <1>f DEF Heard, Said, Asked, NoncesIn, Distinct, NoncesOnce
<1>2. ASSUME UNCHANGED <<stdout, stdin>>
      PROVE  /\ Said' = Said /\ Asked' = Asked
             /\ Distinct(stdout, "pong", Failed)' /\ Distinct(stdin, "ping", Failed)'
  BY <1>2, <1>f DEF Said, Asked, NoncesIn, Distinct, NoncesOnce
<1>3. CASE SpawnRefused \/ Wait \/ HandshakeFails \/ ShutdownFails \/ Drop \/ PingFails
           \/ CallInvoke \/ CallCancel \/ CallShutdown \/ WriteError \/ InvokeDisconnected
  <2>1. /\ UNCHANGED <<rx, stdout, stdin>> /\ Asking' = {}
        /\ UNCHANGED pinged \/ PingReturns("failed")
    BY <1>3 DEF SpawnRefused, Wait, HandshakeFails, ShutdownFails, Drop, PingFails, CallInvoke,
       CallCancel, CallShutdown, WriteError, InvokeDisconnected, InvokeReturns, Writes,
       KillAndReap, transportVars, Asking, ForRequest, Control
  <2> QED BY <1>0, <1>1, <1>f, <2>1, HistoryKept, NoncesShrink
<1>4. CASE Join
  <2>1. UNCHANGED <<rx, stdout, stdin, pinged>> /\ Asking' = {}
    BY <1>4 DEF Join, transportVars, Asking, TypeOK, ClientTypeOK
  <2> QED BY <1>0, <1>1, <1>f, <2>1, HistoryKept, NoncesShrink
<1>5. ASSUME NEW b, Spawn(b) PROVE NoncesOnce'
  <2>1. UNCHANGED <<rx, stdout, stdin, pinged>> /\ Asking' = {}
    BY <1>5 DEF Spawn, Asking, FrameOfCall
  <2> QED BY <1>0, <1>1, <1>f, <2>1, HistoryKept, NoncesShrink
<1>6. CASE CallPing
  <2>1. PICK n \in Nonce :
            /\ Writes(WithNonce("ping", n))
            /\ pinged' = [pinged EXCEPT ![n] = IF @ = "failed" THEN @ ELSE "open"]
    BY <1>6 DEF CallPing
  <2>2. /\ UNCHANGED <<rx, stdout, stdin>> /\ call = "ready"
        /\ Asking' = {n} /\ Asking = {}
    BY <1>6, <2>1 DEF CallPing, Writes, transportVars, Asking, WithNonce
  <2>3. n \in AtRest \/ n \in Failed
    BY <2>2 DEF OpenOfCall, AtRest, Failed, TypeOK, ClientTypeOK
  <2>4. /\ AtRest' \subseteq AtRest /\ n \notin AtRest'
        /\ Failed' = Failed
    BY <2>1 DEF AtRest, Failed, TypeOK, ClientTypeOK
  <2> QED BY <1>0, <1>1, <2>2, <2>3, <2>4 DEF NoncesOnce, Apart
<1>7. CASE WriteFrame
  <2>1. /\ UNCHANGED <<rx, stdout, pinged>> /\ stdin' = Append(stdin, frame)
        /\ call = "writing" /\ Asking' = {}
    BY <1>7 DEF WriteFrame, HostWrites, AfterWrite, Asking
  <2>0. Failed' = Failed /\ AtRest' = AtRest
    BY <2>1, HistoryKept
  <2>2. /\ Heard' = Heard /\ Said' = Said
        /\ Distinct(rx, "pong", Failed)' /\ Distinct(stdout, "pong", Failed)'
    BY <2>0, <2>1 DEF Heard, Said, NoncesIn, Distinct, NoncesOnce
  <2>3. \A n : n \in Asked' <=> n \in Asked \/ n \in Asking
    <3>1. stdin \in Seq(HostFrame) /\ frame \in HostFrame
      BY DEF TypeOK, TransportTypeOK, ClientTypeOK
    <3>2. \A n : n \in NoncesIn(Append(stdin, frame), "ping") <=>
                    n \in Asked \/ (frame.type = "ping" /\ n = frame.nonce)
      BY <3>1, NoncesAppend DEF Asked
    <3>3. Asked' = NoncesIn(Append(stdin, frame), "ping")
      BY <2>1 DEF Asked, NoncesIn
    <3> QED BY <2>1, <3>2, <3>3 DEF Asking
  <2>4. Distinct(stdin, "ping", Failed)'
    <3>1. frame.type = "ping" => Apart(NoncesIn(stdin, "ping"), {frame.nonce}, Failed)
      BY <2>1 DEF NoncesOnce, Apart, Asked, Asking
    <3>2. Distinct(Append(stdin, frame), "ping", Failed)
      BY <3>1, DistinctAppend DEF NoncesOnce, TypeOK, TransportTypeOK, ClientTypeOK
    <3> QED BY <2>0, <2>1, <3>2 DEF Distinct
  <2> QED BY <1>0, <2>0, <2>1, <2>2, <2>3, <2>4 DEF NoncesOnce, Apart
<1>8. ASSUME rx # <<>>, rx' = Tail(rx), UNCHANGED <<stdout, stdin>>, Asking' \subseteq Asking,
             \/ UNCHANGED pinged
             \/ PingReturns("failed")
             \/ PingReturns("ok") /\ Head(rx).type = "pong" /\ Head(rx).nonce = frame.nonce
                /\ Asking' = {}
      PROVE  NoncesOnce'
  <2>1. /\ NoncesIn(Tail(rx), "pong") \subseteq Heard
        /\ Head(rx).type = "pong" => Head(rx).nonce \in Heard
        /\ Distinct(Tail(rx), "pong", Failed)
        /\ Head(rx).type = "pong" => Apart({Head(rx).nonce}, NoncesIn(Tail(rx), "pong"), Failed)
    BY <1>8, NoncesTail DEF Heard, NoncesOnce, TypeOK, ClientTypeOK
  <2>2. Heard' = NoncesIn(Tail(rx), "pong") /\ Distinct(rx, "pong", Failed)'
    BY <1>8, <1>f, <2>1 DEF Heard, NoncesIn, Distinct
  <2>3. CASE UNCHANGED pinged \/ PingReturns("failed")
    BY <1>0, <1>2, <1>8, <1>f, <2>1, <2>2, <2>3, HistoryKept, NoncesShrink
  <2>4. CASE /\ PingReturns("ok") /\ Head(rx).type = "pong" /\ Head(rx).nonce = frame.nonce
             /\ Asking' = {}
    <3>1. /\ Failed' = Failed
          /\ \A n \in AtRest' : n \in AtRest \/ (n = Head(rx).nonce /\ n \notin Failed)
      BY <2>4, HistoryKept
    <3>2. Said' = Said /\ Asked' = Asked
      BY <1>2, <1>8
    <3>3. Head(rx).nonce \in Failed \/
          /\ Head(rx).nonce \notin Heard' /\ Head(rx).nonce \notin Said
          /\ Head(rx).nonce \notin Answering /\ Head(rx).nonce \notin Asked
      BY <2>1, <2>2, <2>4 DEF NoncesOnce, Apart
    <3> QED BY <1>0, <1>2, <1>8, <2>1, <2>2, <2>4, <3>1, <3>2, <3>3 DEF NoncesOnce, Apart
  <2> QED BY <1>8, <2>3, <2>4
<1>9. ASSUME NEW a, NEW b, Handshake(a, b) PROVE NoncesOnce'
  <2>1. Asking' = {}
    BY <1>9 DEF Handshake, KillAndReap, Asking
  <2> QED BY <1>8, <1>9, <2>1 DEF Handshake
<1>10. CASE InvokeRecv \/ ShutdownRecv
  <2>1. Asking' = {}
    BY <1>10 DEF InvokeRecv, InvokeReturns, ShutdownRecv, KillAndReap, Asking
  <2> QED BY <1>8, <1>10, <2>1 DEF InvokeRecv, ShutdownRecv, transportVars
<1>11. CASE PingRecv
  <2>1. Asking' = {}
    BY <1>11 DEF PingRecv, Asking
  <2> QED BY <1>8, <1>11, <2>1, ReceivedType DEF PingRecv, OwnPong, ReadError, transportVars
<1>12. CASE ThreadForwards
  <2>1. /\ stdout # <<>> /\ stdout' = Tail(stdout) /\ UNCHANGED <<call, frame, pinged, stdin>>
        /\ Asking' = Asking
    BY <1>12 DEF ThreadForwards, Asking
  <2>0. Failed' = Failed /\ AtRest' = AtRest
    BY <2>1, HistoryKept
  <2>2. /\ NoncesIn(Tail(stdout), "pong") \subseteq Said
        /\ Head(stdout).type = "pong" => Head(stdout).nonce \in Said
        /\ Distinct(Tail(stdout), "pong", Failed)
        /\ Head(stdout).type = "pong" => Apart({Head(stdout).nonce}, NoncesIn(Tail(stdout), "pong"), Failed)
    BY <2>1, NoncesTail DEF Said, NoncesOnce, TypeOK, TransportTypeOK
  <2>3. Said' = NoncesIn(Tail(stdout), "pong") /\ Distinct(stdout, "pong", Failed)'
    BY <2>0, <2>1, <2>2 DEF Said, NoncesIn, Distinct
  <2>4. Asked' = Asked /\ Distinct(stdin, "ping", Failed)'
    BY <2>0, <2>1 DEF Asked, NoncesIn, Distinct, NoncesOnce
  <2>5. CASE UNCHANGED rx
    <3>1. Heard' = Heard /\ Distinct(rx, "pong", Failed)'
      BY <2>0, <2>5 DEF Heard, NoncesIn, Distinct, NoncesOnce
    <3> QED BY <1>0, <2>0, <2>1, <2>2, <2>3, <2>4, <3>1, NoncesShrink
  <2>6. CASE rx' = Append(rx, Head(stdout))
    <3>1. Head(stdout) \in Received
      BY <2>1, TailFacts, ReceivedType DEF TypeOK, TransportTypeOK
    <3>2. Head(stdout).type = "pong" => Apart(Heard, {Head(stdout).nonce}, Failed)
      BY <2>2 DEF NoncesOnce, Apart
    <3>3. \A n : n \in NoncesIn(Append(rx, Head(stdout)), "pong") <=>
                    n \in Heard \/ (Head(stdout).type = "pong" /\ n = Head(stdout).nonce)
      BY <3>1, NoncesAppend DEF Heard, TypeOK, ClientTypeOK
    <3>4. Distinct(Append(rx, Head(stdout)), "pong", Failed)
      BY <3>1, <3>2, DistinctAppend DEF Heard, NoncesOnce, TypeOK, ClientTypeOK
    <3>5. Heard' = NoncesIn(Append(rx, Head(stdout)), "pong") /\ Distinct(rx, "pong", Failed)'
      BY <2>0, <2>6, <3>4 DEF Heard, NoncesIn, Distinct
    <3> QED BY <1>0, <2>0, <2>1, <2>2, <2>3, <2>4, <3>3, <3>5 DEF NoncesOnce, Apart
  <2> QED BY <1>12, <2>5, <2>6 DEF ThreadForwards, Forwarded
<1>13. CASE ThreadEof
  <2>1. UNCHANGED <<call, frame, pinged, stdin, stdout>> /\ Asking' = Asking
    BY <1>13 DEF ThreadEof, Asking
  <2>0. Failed' = Failed /\ AtRest' = AtRest
    BY <2>1, HistoryKept
  <2>2. Heard' = Heard /\ Distinct(rx, "pong", Failed)'
    <3>1. CASE UNCHANGED rx
      BY <2>0, <3>1 DEF Heard, NoncesIn, Distinct, NoncesOnce
    <3>2. CASE rx' = Append(rx, Eof)
      <4>1. Eof \in Received /\ Eof.type # "pong"
        BY ReceivedType DEF Eof, Control
      <4>2. NoncesIn(Append(rx, Eof), "pong") = Heard /\ Distinct(Append(rx, Eof), "pong", Failed)
        <5>1. rx \in Seq(Received)
          BY DEF TypeOK, ClientTypeOK
        <5>2. \A n : n \in NoncesIn(Append(rx, Eof), "pong") <=>
                        n \in Heard \/ (Eof.type = "pong" /\ n = Eof.nonce)
          BY <4>1, <5>1, NoncesAppend DEF Heard
        <5>3. NoncesIn(Append(rx, Eof), "pong") = Heard
          BY <4>1, <5>2
        <5>4. Distinct(Append(rx, Eof), "pong", Failed)
          BY <4>1, <5>1, DistinctAppend DEF NoncesOnce
        <5> QED BY <5>3, <5>4
      <4> QED BY <2>0, <3>2, <4>2 DEF Heard, NoncesIn, Distinct
    <3> QED BY <1>13, <3>1, <3>2 DEF ThreadEof
  <2> QED BY <1>0, <1>2, <1>f, <2>1, <2>2, HistoryKept, NoncesShrink
<1>14. CASE HostCrash
  <2>1. UNCHANGED <<pinged, stdin, stdout>> /\ Asking' = {} /\ rx' = <<>>
    BY <1>14 DEF HostCrash, Asking
  <2>2. Heard' = {} /\ Distinct(rx, "pong", Failed)'
    BY <2>1, NoncesEmpty DEF Heard, NoncesIn, Distinct
  <2> QED BY <1>0, <1>2, <1>f, <2>1, <2>2, HistoryKept, NoncesShrink
<1> QED
  BY <1>3, <1>4, <1>5, <1>6, <1>7, <1>9, <1>10, <1>11, <1>12, <1>13, <1>14
  DEF Client, SpawnStep, OwnerStep, OwnerCalls, ReaderThread

LEMMA ServerNonces ==
    ASSUME Inv, NoncesOnce, Server
    PROVE  NoncesOnce'
<1> USE FrameIds DEF Inv
<1>0. /\ UNCHANGED <<rx, pinged, call, frame>> /\ Heard' = Heard /\ Asking' = Asking
      /\ Failed' = Failed /\ AtRest' = AtRest
      /\ Distinct(rx, "pong", Failed)'
  BY DEF Server, clientVars, Heard, NoncesIn, Asking, Failed, AtRest, Distinct, NoncesOnce
<1>1. ASSUME UNCHANGED stdout PROVE Said' = Said /\ Distinct(stdout, "pong", Failed)'
  BY <1>0, <1>1 DEF Said, NoncesIn, Distinct, NoncesOnce
<1>2. ASSUME UNCHANGED stdin PROVE Asked' = Asked /\ Distinct(stdin, "ping", Failed)'
  BY <1>0, <1>2 DEF Asked, NoncesIn, Distinct, NoncesOnce
<1>3. ASSUME stdin # <<>>, stdin' = Tail(stdin)
      PROVE  /\ Asked' \subseteq Asked /\ Distinct(stdin, "ping", Failed)'
             /\ Head(stdin).type = "ping" => /\ Head(stdin).nonce \in Asked
                                             /\ Apart({Head(stdin).nonce}, Asked', Failed)
  <2>1. /\ NoncesIn(Tail(stdin), "ping") \subseteq Asked
        /\ Head(stdin).type = "ping" => Head(stdin).nonce \in Asked
        /\ Distinct(Tail(stdin), "ping", Failed)
        /\ Head(stdin).type = "ping" => Apart({Head(stdin).nonce}, NoncesIn(Tail(stdin), "ping"), Failed)
    BY <1>3, NoncesTail DEF Asked, NoncesOnce, TypeOK, TransportTypeOK
  <2>2. Asked' = NoncesIn(Tail(stdin), "ping") /\ Distinct(stdin, "ping", Failed)'
    BY <1>0, <1>3, <2>1 DEF Asked, NoncesIn, Distinct
  <2> QED BY <2>1, <2>2
<1>4. CASE ReadHello \/ LoopHello \/ LoopShutdown \/ LoopInvoke \/ LoopCancel \/ ReadTorn
  <2>1. Answering' = {}
    BY <1>4 DEF ReadHello, LoopHello, LoopShutdown, LoopInvoke, LoopCancel, ReadTorn, Receive,
                Reading, Answers, Control, ForRequest, Answering
  <2>2. stdin # <<>> /\ stdin' = Tail(stdin) /\ UNCHANGED stdout
    BY <1>4 DEF ReadHello, LoopHello, LoopShutdown, LoopInvoke, LoopCancel, ReadTorn, Receive
  <2> QED BY <1>0, <1>1, <1>3, <2>1, <2>2, NoncesShrink
<1>5. CASE LoopPing
  <2>1. /\ Answering = {} /\ Answering' = {Head(stdin).nonce} /\ Head(stdin).type = "ping"
        /\ stdin # <<>> /\ stdin' = Tail(stdin) /\ UNCHANGED stdout
    BY <1>5 DEF LoopPing, Receive, Reading, Answers, WithNonce, Answering
  <2> QED BY <1>0, <1>1, <1>3, <2>1 DEF NoncesOnce, Apart
<1>6. CASE ReadEof \/ AnswerFails \/ HandlerEvent \/ HandlerReturn \/ HandlerPanic
  <2>1. Answering' = {} /\ UNCHANGED <<stdin, stdout>>
    BY <1>6 DEF ReadEof, AnswerFails, AfterFailure, HandlerEvent, HandlerReturn, HandlerPanic,
                Answers, ForRequest, Answering, transportVars
  <2> QED BY <1>0, <1>1, <1>2, <2>1, NoncesShrink
<1>7. CASE WriteAnswer
  <2>1. /\ phase = "writing" /\ Answering' = {} /\ stdout' = Append(stdout, answer)
        /\ UNCHANGED stdin
    BY <1>7 DEF WriteAnswer, PluginWrites, AfterAnswer, Answering
  <2>2. answer.type = "pong" => Apart(Said, {answer.nonce}, Failed)
    BY <2>1 DEF NoncesOnce, Apart, Answering
  <2>3. stdout \in Seq(PluginFrame) /\ answer \in PluginFrame
    BY DEF TypeOK, TransportTypeOK, ServerTypeOK
  <2>4. \A n : n \in NoncesIn(Append(stdout, answer), "pong") <=>
                  n \in Said \/ (answer.type = "pong" /\ n = answer.nonce)
    BY <2>3, NoncesAppend DEF Said
  <2>5. Distinct(Append(stdout, answer), "pong", Failed)
    BY <2>2, <2>3, DistinctAppend DEF Said, NoncesOnce
  <2>6. Said' = NoncesIn(Append(stdout, answer), "pong") /\ Distinct(stdout, "pong", Failed)'
    BY <1>0, <2>1, <2>5 DEF Said, NoncesIn, Distinct
  <2>7. \A n : n \in Said' <=> n \in Said \/ n \in Answering
    BY <2>1, <2>4, <2>6 DEF Answering
  <2> QED BY <1>0, <1>2, <2>1, <2>6, <2>7 DEF NoncesOnce, Apart
<1>8. CASE StrayOutput
  <2>1. /\ Answering' = Answering /\ UNCHANGED stdin
        /\ stdout' = Append(stdout, Control("malformed"))
    BY <1>8 DEF StrayOutput, PluginWrites, serverVars, Answering
  <2>2. Control("malformed") \in PluginFrame /\ Control("malformed").type # "pong"
    BY FrameType DEF PluginType, Control
  <2>3. /\ NoncesIn(Append(stdout, Control("malformed")), "pong") = Said
        /\ Distinct(Append(stdout, Control("malformed")), "pong", Failed)
    <3> DEFINE f == Control("malformed")
    <3>1. f \in PluginFrame /\ f.type # "pong"
      BY <2>2
    <3> HIDE DEF f
    <3>2. stdout \in Seq(PluginFrame)
      BY DEF TypeOK, TransportTypeOK
    <3>3. \A n : n \in NoncesIn(Append(stdout, f), "pong") <=>
                    n \in Said \/ (f.type = "pong" /\ n = f.nonce)
      BY <3>1, <3>2, NoncesAppend DEF Said
    <3>4. NoncesIn(Append(stdout, f), "pong") = Said
      BY <3>1, <3>3
    <3>5. Distinct(Append(stdout, f), "pong", Failed)
      BY <3>1, <3>2, DistinctAppend DEF NoncesOnce
    <3> QED BY <3>4, <3>5 DEF f
  <2>4. Said' = Said /\ Distinct(stdout, "pong", Failed)'
    BY <1>0, <2>1, <2>3 DEF Said, NoncesIn, Distinct
  <2> QED BY <1>0, <1>2, <2>1, <2>4, NoncesShrink
<1>9. CASE ProcessEnds
  <2>1. Answering' = {} /\ UNCHANGED stdout /\ stdin' = <<>>
    BY <1>9 DEF ProcessEnds, Answering
  <2>2. Asked' = {} /\ Distinct(stdin, "ping", Failed)'
    BY <2>1, NoncesEmpty DEF Asked, NoncesIn, Distinct
  <2> QED BY <1>0, <1>1, <2>1, <2>2, NoncesShrink
<1> QED
  BY <1>4, <1>5, <1>6, <1>7, <1>8, <1>9
  DEF Server, ServerNext, ServerLoop, ServeReturns, ProcessKilled

\* A frame the owner has still to look at is in the channel, in the pipe, or
\* being written.
LEMMA ComingMembers ==
    ASSUME TypeOK, NEW k \in 1 .. Len(Coming)
    PROVE  \/ \E m \in 1 .. Len(rx) : Coming[k] = rx[m]
           \/ \E m \in 1 .. Len(stdout) : Coming[k] = stdout[m]
           \/ phase = "writing" /\ Coming[k] = answer
<1> DEFINE tail == IF phase = "writing" THEN Append(stdout, answer) ELSE stdout
<1>1. rx \in Seq(Received) /\ tail \in Seq(Received) /\ stdout \in Seq(Received) /\ answer \in Received
  BY ReceivedType DEF TypeOK, TransportTypeOK, ClientTypeOK, ServerTypeOK
<1>2. Coming = rx \o tail
  BY DEF Coming
<1> HIDE DEF tail
<1>3. k \in 1 .. Len(rx) + Len(tail) /\ Len(rx) \in Nat /\ Len(tail) \in Nat
  BY <1>1, <1>2
<1>4. CASE k \in 1 .. Len(rx)
  BY <1>1, <1>2, <1>4
<1>5. CASE k \notin 1 .. Len(rx)
  <2>1. k - Len(rx) \in 1 .. Len(tail) /\ Coming[k] = tail[k - Len(rx)]
    BY <1>1, <1>2, <1>3, <1>5
  <2>2. CASE phase # "writing"
    BY <2>1, <2>2 DEF tail
  <2>3. CASE phase = "writing"
    <3>1. tail = Append(stdout, answer)
      BY <2>3 DEF tail
    <3>2. Len(tail) = Len(stdout) + 1 /\ Len(stdout) \in Nat /\ tail[Len(stdout) + 1] = answer
          /\ \A m \in 1 .. Len(stdout) : tail[m] = stdout[m]
      BY <1>1, <3>1, AppendFacts
    <3>3. k - Len(rx) \in 1 .. Len(stdout) \/ k - Len(rx) = Len(stdout) + 1
      BY <1>3, <2>1, <3>2
    <3> QED BY <2>1, <2>3, <3>2, <3>3
  <2> QED BY <2>2, <2>3
<1> QED BY <1>4, <1>5

\* A ping that returned Ok was answered by its own pong: neither the ping nor
\* its pong is still under way, whatever timed out before it and however often
\* the caller has used its nonce, as long as no ping with this nonce failed.
THEOREM PingAnswered == Spec => []PingIsFresh
<1>1. Init => NoncesOnce /\ OpenOfCall
  <2> SUFFICES ASSUME Init PROVE NoncesOnce /\ OpenOfCall
    OBVIOUS
  <2>1. Heard = {} /\ Said = {} /\ Asked = {} /\ Answering = {} /\ Asking = {}
    BY NoncesEmpty DEF Init, TransportInit, ClientInit, ServerInit, Heard, Said, Asked, Answering,
                       Asking
  <2>2. /\ Distinct(rx, "pong", Failed) /\ Distinct(stdout, "pong", Failed)
        /\ Distinct(stdin, "ping", Failed)
    BY NoncesEmpty DEF Init, TransportInit, ClientInit
  <2>3. OpenOfCall
    BY DEF Init, ClientInit, OpenOfCall
  <2> QED BY <2>1, <2>2, <2>3 DEF NoncesOnce, Apart
<1>2. Inv /\ NoncesOnce /\ OpenOfCall /\ [Next]_vars => NoncesOnce' /\ OpenOfCall'
  <2> SUFFICES ASSUME Inv, NoncesOnce, OpenOfCall, [Next]_vars PROVE NoncesOnce'
    BY OpenStep
  <2>1. CASE UNCHANGED vars
    BY <2>1 DEF vars, transportVars, clientVars, serverVars, NoncesOnce, Heard, Said, Asked,
                Answering, Asking, NoncesIn, Failed, AtRest, Distinct, Apart
  <2> QED BY <2>1, ClientNonces, ServerNonces DEF Next, Stop
<1>3. Inv /\ NoncesOnce => PingIsFresh
  <2> SUFFICES ASSUME Inv, NoncesOnce, NEW n \in Nonce, pinged[n] = "ok"
               PROVE  /\ \A k \in 1 .. Len(stdin) : stdin[k] # WithNonce("ping", n)
                      /\ \A k \in 1 .. Len(Coming) : Coming[k] # WithNonce("pong", n)
    BY DEF PingIsFresh
  <2>0. n \notin Heard /\ n \notin Said /\ n \notin Answering /\ n \notin Asked
    BY DEF NoncesOnce, Apart, Failed, AtRest
  <2>1. ASSUME NEW k \in 1 .. Len(stdin), stdin[k] = WithNonce("ping", n) PROVE FALSE
    BY <2>0, <2>1 DEF WithNonce, Asked, NoncesIn
  <2>2. ASSUME NEW k \in 1 .. Len(Coming), Coming[k] = WithNonce("pong", n) PROVE FALSE
    <3>1. Coming[k].type = "pong" /\ Coming[k].nonce = n
      BY <2>2 DEF WithNonce
    <3>2. ASSUME NEW m \in 1 .. Len(rx), Coming[k] = rx[m] PROVE FALSE
      BY <2>0, <3>1, <3>2 DEF Heard, NoncesIn
    <3>3. ASSUME NEW m \in 1 .. Len(stdout), Coming[k] = stdout[m] PROVE FALSE
      BY <2>0, <3>1, <3>3 DEF Said, NoncesIn
    <3>4. CASE phase = "writing" /\ Coming[k] = answer
      BY <2>0, <3>1, <3>4 DEF Answering
    <3> QED BY <3>2, <3>3, <3>4, ComingMembers DEF Inv
  <2> QED BY <2>1, <2>2
<1> QED BY <1>1, <1>2, <1>3, Invariant, PTL DEF Spec

(***************************************************************************)
(* The stream of a request: what its owner has collected, what is in the   *)
(* channel, in the pipe and being written, in this order.                  *)
(***************************************************************************)
Saying == IF phase = "writing" THEN <<answer>> ELSE <<>>

\* A frame of i's invocation that its transcript is to hold, and one that
\* ends it; the error of a failed cancel is neither while i's call lasts.
Own(f, i) == f.type \in {"started", "event", "finished"} /\ f.id = i
Ends(f, i) == Terminal(f) /\ f.id = i

Count(q, i) == Cardinality({k \in 1 .. Len(q) : Own(q[k], i)})
StartIn(q, i) == \E k \in 1 .. Len(q) : q[k].type = "started" /\ q[k].id = i
FinishIn(q, i) == \E k \in 1 .. Len(q) : q[k].type = "finished" /\ q[k].id = i
EndIn(q, i) == \E k \in 1 .. Len(q) : Ends(q[k], i)

Total(i) ==
    Count(transcript[i], i) + Count(rx, i) + Count(stdout, i) + Count(Saying, i)
Opened(i) ==
    StartIn(transcript[i], i) \/ StartIn(rx, i) \/ StartIn(stdout, i) \/ StartIn(Saying, i)

\* Nothing of i comes after its end or before its start, in one queue and
\* from one queue to the next.
Orderly(q, i) ==
    \A j, k \in 1 .. Len(q) :
        j < k /\ Own(q[k], i) => ~Ends(q[j], i) /\ (q[k].type = "started" => ~Own(q[j], i))
Precedes(p, q, i) ==
    /\ EndIn(p, i) => Count(q, i) = 0
    /\ StartIn(q, i) => Count(p, i) = 0

Ordered(i) ==
    /\ Orderly(transcript[i], i) /\ Orderly(rx, i) /\ Orderly(stdout, i)
    /\ Precedes(transcript[i], rx, i) /\ Precedes(transcript[i], stdout, i)
    /\ Precedes(transcript[i], Saying, i) /\ Precedes(rx, stdout, i)
    /\ Precedes(rx, Saying, i) /\ Precedes(stdout, Saying, i)
InOrder(i) == outcome[i] = "none" => Ordered(i)

\* Nothing is said of a request before the worker takes it.
Unheard(i) ==
    \/ i >= nextId
    \/ call = "writing" /\ frame.type = "invoke" /\ frame.id = i
    \/ Fresh(i) /\ child # "exited"
Silent(i) == Unheard(i) => Total(i) = 0 /\ emitted[i] = 0

\* The result of i is on its way.
Due(i) == FinishIn(rx, i) \/ FinishIn(stdout, i) \/ (stdoutOpen /\ FinishIn(Saying, i))

\* Nothing is lost on the way to a call that lasts: not while the handler
\* works, as long as anybody reads, and not once its result was said.
Complete(i) ==
    outcome[i] = "none" =>
        /\ job = i /\ stdoutOpen => Total(i) = emitted[i] + 1 /\ Opened(i)
        /\ call # "crashed" /\ Due(i) => Total(i) = emitted[i] + 2 /\ Opened(i)

\* A call that returned Ok collected it all.
Collected(i) ==
    outcome[i] = "finished" =>
        /\ result[i] = "finished"
        /\ Count(transcript[i], i) = emitted[i] + 2
        /\ StartIn(transcript[i], i) /\ Orderly(transcript[i], i)
        /\ Len(transcript[i]) > 0
        /\ transcript[i][Len(transcript[i])] = ForRequest("finished", i)

\* A transcript holds its request's frames, pongs and errors of others.
Proper(f, i) ==
    \/ Own(f, i) /\ (f.type = "finished" => result[i] = "finished")
    \/ f.type = "pong"
    \/ f.type = "error" /\ f.id # i
OnlyProper(i) == \A k \in 1 .. Len(transcript[i]) : Proper(transcript[i][k], i)

\* A call that returned leaves nothing of its own to those after it.
NoneLeft(i) ==
    outcome[i] # "none" =>
        /\ Count(rx, i) = 0
        /\ thread # "done" =>
              /\ Count(stdout, i) = 0 /\ Count(Saying, i) = 0 /\ job # i
              /\ \A k \in 1 .. Len(stdin) : ~(stdin[k].type = "invoke" /\ stdin[k].id = i)

(***************************************************************************)
(* The frames of no request.                                               *)
(***************************************************************************)
Has(q, t) == \E k \in 1 .. Len(q) : q[k].type = t
Labelled(q) ==
    \A k \in 1 .. Len(q) :
        q[k].type \in {"started", "event", "finished"} => q[k].id \in RequestId

\* The hello is the first frame, and taken before any method is called.
Greeted ==
    call \in {"ready", "invoking", "pinging"} \/ (call = "writing" /\ frame.type # "hello")
Greeting ==
    /\ phase = "hello" => rx = <<>> /\ stdout = <<>>
    /\ \A k \in 1 .. Len(rx) : rx[k].type = "hello" => k = 1
    /\ \A k \in 1 .. Len(stdout) : stdout[k].type = "hello" => k = 1 /\ rx = <<>>
    /\ Has(Saying, "hello") => rx = <<>> /\ stdout = <<>>
    /\ Greeted =>
          phase # "hello" /\ ~Has(rx, "hello") /\ ~Has(stdout, "hello") /\ ~Has(Saying, "hello")

\* No acknowledgement is said before shutdown is called, the last method.
Staying ==
    \/ call \in {"start", "handshake", "ready", "invoking", "pinging", "leaked"}
    \/ call = "writing" /\ frame.type # "shutdown"
Parting ==
    Staying => /\ ~Has(stdin, "shutdown") /\ ~Has(rx, "shutdown_ack")
               /\ ~Has(stdout, "shutdown_ack") /\ ~Has(Saying, "shutdown_ack")

\* The error that ends the stream is the last in the channel.
LastError ==
    /\ \A k \in 1 .. Len(rx) : ReadError(rx[k]) => k = Len(rx)
    /\ thread = "done" <=> ~stdoutOpen

Frames ==
    /\ Labelled(rx) /\ Labelled(stdout) /\ Labelled(Saying)
    /\ Greeting /\ Parting /\ LastError

Streams ==
    \A i \in RequestId :
        Silent(i) /\ InOrder(i) /\ Complete(i) /\ Collected(i) /\ OnlyProper(i) /\ NoneLeft(i)

(***************************************************************************)
(* Counting in a queue.                                                    *)
(***************************************************************************)
LEMMA CountFacts ==
    ASSUME NEW S, NEW q \in Seq(S), NEW i
    PROVE  /\ IsFiniteSet({k \in 1 .. Len(q) : Own(q[k], i)})
           /\ Count(q, i) \in Nat
           /\ Count(q, i) = 0 <=> \A k \in 1 .. Len(q) : ~Own(q[k], i)
           /\ StartIn(q, i) \/ FinishIn(q, i) => Count(q, i) # 0
           /\ FinishIn(q, i) => EndIn(q, i)
<1> DEFINE own == {k \in 1 .. Len(q) : Own(q[k], i)}
<1>1. Len(q) \in Nat /\ 0 \in Int /\ 1 \in Int /\ Len(q) \in Int
  OBVIOUS
<1>2. IsFiniteSet(1 .. Len(q))
  BY <1>1, FS_Interval
<1>3. own \in SUBSET (1 .. Len(q))
  OBVIOUS
<1>4. IsFiniteSet(own)
  BY <1>2, <1>3, FS_Subset
<1>5. Cardinality(own) \in Nat /\ (Cardinality(own) = 0 <=> own = {})
  BY <1>4, FS_CardinalityType, FS_EmptySet
<1>6. own = {} <=> \A k \in 1 .. Len(q) : ~Own(q[k], i)
  OBVIOUS
<1>7. Count(q, i) = Cardinality(own)
  BY DEF Count
<1>8. StartIn(q, i) \/ FinishIn(q, i) => \E k \in 1 .. Len(q) : Own(q[k], i)
  BY DEF StartIn, FinishIn, Own
<1>9. FinishIn(q, i) => EndIn(q, i)
  BY DEF FinishIn, EndIn, Ends, Terminal
<1> HIDE DEF own
<1>10. /\ Count(q, i) \in Nat
       /\ Count(q, i) = 0 <=> \A k \in 1 .. Len(q) : ~Own(q[k], i)
  BY <1>5, <1>6, <1>7
<1> QED BY <1>4, <1>8, <1>9, <1>10 DEF own

\* A queue with a frame more at its end.
LEMMA CountAppend ==
    ASSUME NEW S, NEW q \in Seq(S), NEW f \in S, NEW i
    PROVE  /\ Count(Append(q, f), i) = IF Own(f, i) THEN Count(q, i) + 1 ELSE Count(q, i)
           /\ StartIn(Append(q, f), i) <=> StartIn(q, i) \/ (f.type = "started" /\ f.id = i)
           /\ FinishIn(Append(q, f), i) <=> FinishIn(q, i) \/ (f.type = "finished" /\ f.id = i)
           /\ EndIn(Append(q, f), i) <=> EndIn(q, i) \/ Ends(f, i)
<1> DEFINE r == Append(q, f)
           old == {k \in 1 .. Len(q) : Own(q[k], i)}
           new == {k \in 1 .. Len(r) : Own(r[k], i)}
<1>1. /\ Len(q) \in Nat /\ Len(r) = Len(q) + 1
      /\ \A k \in 1 .. Len(q) : r[k] = q[k]
      /\ r[Len(q) + 1] = f
  BY AppendFacts
<1> HIDE DEF r
<1>2. \A k : k \in 1 .. Len(r) <=> k \in 1 .. Len(q) \/ k = Len(q) + 1
  BY <1>1
<1>3. Count(q, i) = Cardinality(old) /\ Count(r, i) = Cardinality(new) /\ IsFiniteSet(old)
  BY CountFacts DEF Count
<1>4. Len(q) + 1 \notin old
  BY <1>1
<1>5. new = IF Own(f, i) THEN old \cup {Len(q) + 1} ELSE old
  BY <1>1, <1>2
<1> HIDE DEF old, new
<1>6. Cardinality(old \cup {Len(q) + 1}) = Cardinality(old) + 1
  BY <1>3, <1>4, FS_AddElement
<1>7. Count(r, i) = IF Own(f, i) THEN Count(q, i) + 1 ELSE Count(q, i)
  BY <1>3, <1>5, <1>6
<1>8. StartIn(r, i) <=> StartIn(q, i) \/ (f.type = "started" /\ f.id = i)
  BY <1>1, <1>2 DEF StartIn
<1>9. FinishIn(r, i) <=> FinishIn(q, i) \/ (f.type = "finished" /\ f.id = i)
  BY <1>1, <1>2 DEF FinishIn
<1>10. EndIn(r, i) <=> EndIn(q, i) \/ Ends(f, i)
  BY <1>1, <1>2 DEF EndIn
<1> QED BY <1>7, <1>8, <1>9, <1>10 DEF r

\* A queue without its first frame.
LEMMA CountTail ==
    ASSUME NEW S, NEW q \in Seq(S), q # <<>>, NEW i
    PROVE  /\ Count(q, i) = IF Own(Head(q), i) THEN Count(Tail(q), i) + 1 ELSE Count(Tail(q), i)
           /\ StartIn(q, i) <=> StartIn(Tail(q), i) \/ (Head(q).type = "started" /\ Head(q).id = i)
           /\ FinishIn(q, i) <=> FinishIn(Tail(q), i) \/ (Head(q).type = "finished" /\ Head(q).id = i)
           /\ EndIn(q, i) <=> EndIn(Tail(q), i) \/ Ends(Head(q), i)
<1> DEFINE r == Tail(q)
           old == {k \in 1 .. Len(q) : Own(q[k], i)}
           new == {k \in 1 .. Len(r) : Own(r[k], i)}
           moved == old \ {1}
<1>1. /\ Len(q) \in Nat \ {0} /\ Head(q) = q[1] /\ Len(r) = Len(q) - 1 /\ r \in Seq(S)
      /\ \A k \in 1 .. Len(r) : r[k] = q[k + 1] /\ k + 1 \in 1 .. Len(q)
  BY TailFacts
<1> HIDE DEF r
<1>2. \A k \in 1 .. Len(q) : k = 1 \/ (k - 1 \in 1 .. Len(r) /\ r[k - 1] = q[k])
  BY <1>1
<1>3. Count(q, i) = Cardinality(old) /\ Count(r, i) = Cardinality(new)
  BY DEF Count
<1>4. IsFiniteSet(old) /\ IsFiniteSet(new)
  BY <1>1, CountFacts
<1>5. 1 \in old <=> Own(Head(q), i)
  BY <1>1
<1>6. Cardinality(moved) = Cardinality(new)
  <2> DEFINE g == [k \in new |-> k + 1]
  <2>1. \A k \in new : k \in Nat /\ k + 1 \in moved
    BY <1>1
  <2>2. \A m \in moved : m - 1 \in new /\ (m - 1) + 1 = m
    BY <1>1, <1>2
  <2>3. g \in [new -> moved]
    BY <2>1
  <2>4. \A j, k \in new : g[j] = g[k] => j = k
    BY <2>1
  <2>5. \A m \in moved : \E k \in new : g[k] = m
    BY <2>2
  <2> HIDE DEF g, new, moved
  <2>6. g \in Bijection(new, moved)
    BY <2>3, <2>4, <2>5 DEF Bijection, Injection, Surjection, IsInjective
  <2>7. ExistsBijection(new, moved)
    BY <2>6 DEF ExistsBijection
  <2> QED BY <1>4, <2>7, FS_Bijection
<1> HIDE DEF old, new
<1>7. Cardinality(moved) = IF 1 \in old THEN Cardinality(old) - 1 ELSE Cardinality(old)
  BY <1>4, FS_RemoveElement
<1>8. Cardinality(old) \in Nat /\ Cardinality(new) \in Nat
  BY <1>4, FS_CardinalityType
<1>9. Count(q, i) = IF Own(Head(q), i) THEN Count(r, i) + 1 ELSE Count(r, i)
  BY <1>3, <1>5, <1>6, <1>7, <1>8
<1>10. 1 \in 1 .. Len(q)
  BY <1>1
<1>11. StartIn(q, i) <=> StartIn(r, i) \/ (Head(q).type = "started" /\ Head(q).id = i)
  <2>1. StartIn(q, i) => StartIn(r, i) \/ (Head(q).type = "started" /\ Head(q).id = i)
    BY <1>1, <1>2 DEF StartIn
  <2>2. StartIn(r, i) => StartIn(q, i)
    BY <1>1 DEF StartIn
  <2>3. Head(q).type = "started" /\ Head(q).id = i => StartIn(q, i)
    BY <1>1, <1>10 DEF StartIn
  <2> QED BY <2>1, <2>2, <2>3
<1>12. FinishIn(q, i) <=> FinishIn(r, i) \/ (Head(q).type = "finished" /\ Head(q).id = i)
  <2>1. FinishIn(q, i) => FinishIn(r, i) \/ (Head(q).type = "finished" /\ Head(q).id = i)
    BY <1>1, <1>2 DEF FinishIn
  <2>2. FinishIn(r, i) => FinishIn(q, i)
    BY <1>1 DEF FinishIn
  <2>3. Head(q).type = "finished" /\ Head(q).id = i => FinishIn(q, i)
    BY <1>1, <1>10 DEF FinishIn
  <2> QED BY <2>1, <2>2, <2>3
<1>13. EndIn(q, i) <=> EndIn(r, i) \/ Ends(Head(q), i)
  <2>1. EndIn(q, i) => EndIn(r, i) \/ Ends(Head(q), i)
    BY <1>1, <1>2 DEF EndIn
  <2>2. EndIn(r, i) => EndIn(q, i)
    BY <1>1 DEF EndIn
  <2>3. Ends(Head(q), i) => EndIn(q, i)
    BY <1>1, <1>10 DEF EndIn
  <2> QED BY <2>1, <2>2, <2>3
<1> QED BY <1>9, <1>11, <1>12, <1>13 DEF r

LEMMA OrderlyAppend ==
    ASSUME NEW S, NEW q \in Seq(S), NEW f \in S, NEW i, Orderly(q, i),
           Own(f, i) => ~EndIn(q, i),
           f.type = "started" /\ f.id = i => Count(q, i) = 0
    PROVE  Orderly(Append(q, f), i)
<1> DEFINE r == Append(q, f)
<1>1. /\ Len(q) \in Nat /\ Len(r) = Len(q) + 1
      /\ \A k \in 1 .. Len(q) : r[k] = q[k]
      /\ r[Len(q) + 1] = f
  BY AppendFacts
<1> HIDE DEF r
<1> SUFFICES ASSUME NEW j \in 1 .. Len(r), NEW k \in 1 .. Len(r), j < k, Own(r[k], i)
             PROVE  ~Ends(r[j], i) /\ (r[k].type = "started" => ~Own(r[j], i))
  BY DEF Orderly, r
<1>2. j \in 1 .. Len(q) /\ (k \in 1 .. Len(q) \/ k = Len(q) + 1)
  BY <1>1
<1>3. CASE k \in 1 .. Len(q)
  BY <1>1, <1>2, <1>3 DEF Orderly
<1>4. CASE k = Len(q) + 1
  <2>1. Own(f, i) /\ r[k] = f /\ r[j] = q[j]
    BY <1>1, <1>2, <1>4
  <2>2. ~Ends(q[j], i)
    BY <1>2, <2>1 DEF EndIn
  <2>3. f.type = "started" => ~Own(q[j], i)
    BY <1>2, <2>1, CountFacts DEF Own
  <2> QED BY <2>1, <2>2, <2>3
<1> QED BY <1>2, <1>3, <1>4

LEMMA OrderlyTail ==
    ASSUME NEW S, NEW q \in Seq(S), q # <<>>, NEW i, Orderly(q, i)
    PROVE  /\ Orderly(Tail(q), i)
           /\ Ends(Head(q), i) => Count(Tail(q), i) = 0
           /\ StartIn(Tail(q), i) => ~Own(Head(q), i)
<1> DEFINE r == Tail(q)
<1>1. /\ Len(q) \in Nat \ {0} /\ Head(q) = q[1] /\ Len(r) = Len(q) - 1 /\ r \in Seq(S)
      /\ \A k \in 1 .. Len(r) : r[k] = q[k + 1] /\ k + 1 \in 1 .. Len(q)
  BY TailFacts
<1> HIDE DEF r
<1>2. Orderly(r, i)
  <2> SUFFICES ASSUME NEW j \in 1 .. Len(r), NEW k \in 1 .. Len(r), j < k, Own(r[k], i)
               PROVE  ~Ends(r[j], i) /\ (r[k].type = "started" => ~Own(r[j], i))
    BY DEF Orderly
  <2>1. /\ j + 1 \in 1 .. Len(q) /\ k + 1 \in 1 .. Len(q) /\ j + 1 < k + 1
        /\ r[j] = q[j + 1] /\ r[k] = q[k + 1]
    BY <1>1
  <2> QED BY <2>1 DEF Orderly
<1>3. \A k \in 1 .. Len(r) : 1 \in 1 .. Len(q) /\ 1 < k + 1 /\ k + 1 \in 1 .. Len(q) /\ r[k] = q[k + 1]
  BY <1>1
<1>4. ASSUME Ends(Head(q), i) PROVE Count(r, i) = 0
  <2>1. \A k \in 1 .. Len(r) : ~Own(r[k], i)
    BY <1>1, <1>3, <1>4 DEF Orderly
  <2> QED BY <1>1, <2>1, CountFacts
<1>5. ASSUME StartIn(r, i) PROVE ~Own(Head(q), i)
  <2>1. PICK k \in 1 .. Len(r) : r[k].type = "started" /\ Own(r[k], i)
    BY <1>5 DEF StartIn, Own
  <2> QED BY <1>1, <1>3, <2>1 DEF Orderly
<1> QED BY <1>2, <1>4, <1>5 DEF r

\* Queues of no frame and of one.
LEMMA CountFew ==
    ASSUME NEW i, NEW f \in PluginFrame
    PROVE  /\ Count(<<>>, i) = 0 /\ Orderly(<<>>, i)
           /\ ~StartIn(<<>>, i) /\ ~FinishIn(<<>>, i) /\ ~EndIn(<<>>, i)
           /\ Count(<<f>>, i) = IF Own(f, i) THEN 1 ELSE 0
           /\ StartIn(<<f>>, i) <=> f.type = "started" /\ f.id = i
           /\ FinishIn(<<f>>, i) <=> f.type = "finished" /\ f.id = i
           /\ EndIn(<<f>>, i) <=> Ends(f, i)
<1>1. <<>> \in Seq(PluginFrame) /\ \A k \in 1 .. Len(<<>>) : FALSE
  BY EmptyFacts
<1>2. Append(<<>>, f) = <<f>>
  OBVIOUS
<1>3. Count(<<>>, i) = 0
  BY <1>1, CountFacts
<1>4. ~StartIn(<<>>, i) /\ ~FinishIn(<<>>, i) /\ ~EndIn(<<>>, i) /\ Orderly(<<>>, i)
  BY <1>1 DEF StartIn, FinishIn, EndIn, Orderly
<1>5. /\ Count(<<f>>, i) = IF Own(f, i) THEN Count(<<>>, i) + 1 ELSE Count(<<>>, i)
      /\ StartIn(<<f>>, i) <=> StartIn(<<>>, i) \/ (f.type = "started" /\ f.id = i)
      /\ FinishIn(<<f>>, i) <=> FinishIn(<<>>, i) \/ (f.type = "finished" /\ f.id = i)
      /\ EndIn(<<f>>, i) <=> EndIn(<<>>, i) \/ Ends(f, i)
  <2> DEFINE none == <<>>
             one == Append(none, f)
  <2>1. none \in Seq(PluginFrame)
    BY <1>1
  <2>2. one = <<f>>
    BY <1>2
  <2> HIDE DEF none
  <2>3. /\ Count(one, i) = IF Own(f, i) THEN Count(none, i) + 1 ELSE Count(none, i)
        /\ StartIn(one, i) <=> StartIn(none, i) \/ (f.type = "started" /\ f.id = i)
        /\ FinishIn(one, i) <=> FinishIn(none, i) \/ (f.type = "finished" /\ f.id = i)
        /\ EndIn(one, i) <=> EndIn(none, i) \/ Ends(f, i)
    BY <2>1, CountAppend
  <2> HIDE DEF one
  <2> QED BY <2>2, <2>3, Zenon DEF none
<1>6. Count(<<f>>, i) = IF Own(f, i) THEN 1 ELSE 0
  BY <1>3, <1>5
<1> QED BY <1>3, <1>4, <1>5, <1>6, Zenon

(***************************************************************************)
(* What a step does to the stream.                                         *)
(***************************************************************************)
\* The server begins to write f, the answer to what it has just done.
Says(f) == Saying = <<>> /\ Saying' = <<f>> /\ phase' = "writing" /\ UNCHANGED stdout

Meant(f) ==
    /\ f.type = "started" =>
          /\ f.id \in RequestId /\ Fresh(f.id) /\ job' = f.id /\ UNCHANGED emitted
          /\ \E k \in 1 .. Len(stdin) : stdin[k].type = "invoke" /\ stdin[k].id = f.id
    /\ f.type = "event" =>
          /\ job \in RequestId /\ f.id = job /\ UNCHANGED job
          /\ emitted' = [emitted EXCEPT ![job] = @ + 1]
    /\ f.type = "finished" =>
          /\ job \in RequestId /\ f.id = job /\ job' = None
          /\ result'[job] = "finished" /\ UNCHANGED emitted
    /\ f.type \notin {"started", "event", "finished"} => job' = None /\ UNCHANGED emitted
    /\ f.type = "hello" => phase = "hello"
    /\ f.type = "shutdown_ack" => Has(stdin, "shutdown")

Wrote ==
    /\ Saying = <<answer>> /\ Saying' = <<>> /\ phase' # "hello" /\ stdoutOpen
    /\ stdout' = Append(stdout, answer)
    /\ UNCHANGED <<job, emitted>>

\* The answer is given up, or there was none.
Unsaid ==
    /\ Saying' = <<>> /\ (phase' = "hello" => phase = "hello") /\ UNCHANGED <<stdout, emitted>>
    /\ job' = None \/ (job' = job /\ (Saying = <<>> \/ job = None \/ ~stdoutOpen))

Strayed ==
    /\ Saying = <<>> /\ Saying' = <<>> /\ phase' # "hello"
    /\ stdout' = Append(stdout, Control("malformed"))
    /\ UNCHANGED <<job, emitted>>

LEMMA ServerMoves ==
    ASSUME Inv, Server
    PROVE  /\ UNCHANGED <<call, frame, nextId, outcome, transcript, rx, thread, stdoutOpen>>
           /\ child' # "exited" => child' = child /\ child = "running"
           /\ \/ (\E f \in PluginFrame : Says(f) /\ Meant(f)) /\ child = "running"
              \/ Wrote
              \/ Unsaid
              \/ Strayed
<1> USE DEF Inv
<1>0. /\ UNCHANGED <<call, frame, nextId, outcome, transcript, rx, thread>>
      /\ None \notin RequestId /\ None = 0
  BY FrameIds DEF Server, clientVars, None
<1>1. CASE ReadHello
  <2>1. job = None /\ job' = job /\ Saying = <<>> /\ UNCHANGED <<stdoutOpen, child, stdout, emitted>>
    BY <1>1 DEF ReadHello, JobOfPhase, Saying
  <2>2. CASE Answers(Control("hello"))
    <3>1. Says(Control("hello"))
      BY <2>1, <2>2 DEF Answers, Says, Saying
    <3>2. Control("hello") \in PluginFrame
      BY FrameType DEF PluginType
    <3>3. Meant(Control("hello"))
      BY <1>1, <2>1 DEF Meant, Control, ReadHello
    <3> QED BY <1>0, <1>1, <2>1, <3>1, <3>2, <3>3 DEF ReadHello
  <2>3. CASE phase' = "returning"
    BY <1>0, <1>1, <2>1, <2>3 DEF ReadHello, Unsaid, Saying
  <2> QED BY <1>1, <2>2, <2>3 DEF ReadHello
<1>2. ASSUME NEW f \in PluginFrame, Answers(f), NEW t, Receive(t), UNCHANGED job,
             f.type \notin {"started", "event", "finished", "hello"},
             f.type = "shutdown_ack" => t = "shutdown"
      PROVE  Says(f) /\ Meant(f) /\ child = "running" /\ UNCHANGED <<stdoutOpen, child>>
  <2>1. job = None /\ Saying = <<>> /\ UNCHANGED <<stdout, emitted, stdoutOpen, child>>
        /\ child = "running"
    BY <1>2 DEF Receive, Reading, JobOfPhase, Saying
  <2>2. Says(f)
    BY <1>2, <2>1 DEF Answers, Says, Saying
  <2>3. Head(stdin) = stdin[1] /\ 1 \in 1 .. Len(stdin) /\ Head(stdin).type = t
    BY <1>2, TailFacts DEF Receive, TypeOK, TransportTypeOK
  <2>4. f.type = "shutdown_ack" => Has(stdin, "shutdown")
    BY <1>2, <2>3 DEF Has
  <2> QED BY <1>2, <2>1, <2>2, <2>4 DEF Meant
<1>3. CASE LoopHello
  <2>1. ForRequest("error", None) \in PluginFrame /\ ForRequest("error", None).type = "error"
    BY FrameType DEF PluginType, ForRequest
  <2> QED BY <1>0, <1>2, <1>3, <2>1 DEF LoopHello
<1>4. CASE LoopPing
  <2>1. Head(stdin).nonce \in Nonce \cup {None}
    BY <1>4, TailFacts DEF LoopPing, Receive, TypeOK, TransportTypeOK, HostFrame
  <2>2. WithNonce("pong", Head(stdin).nonce) \in PluginFrame
        /\ WithNonce("pong", Head(stdin).nonce).type = "pong"
    BY <2>1, FrameType DEF PluginType, WithNonce
  <2> QED BY <1>0, <1>2, <1>4, <2>2 DEF LoopPing
<1>5. CASE LoopShutdown
  <2>1. Control("shutdown_ack") \in PluginFrame /\ Control("shutdown_ack").type = "shutdown_ack"
    BY FrameType DEF PluginType, Control
  <2> QED BY <1>0, <1>2, <1>5, <2>1 DEF LoopShutdown
<1>6. CASE LoopCancel
  <2>1. Head(stdin).id \in RequestId \cup {None}
    BY <1>6, TailFacts DEF LoopCancel, Receive, TypeOK, TransportTypeOK, HostFrame
  <2>2. ForRequest("error", Head(stdin).id) \in PluginFrame
        /\ ForRequest("error", Head(stdin).id).type = "error"
    BY <2>1, FrameType DEF PluginType, ForRequest
  <2>3. CASE UNCHANGED <<phase, answer>>
    BY <1>0, <1>6, <2>3 DEF LoopCancel, Receive, Reading, Unsaid, Saying, JobOfPhase
  <2>4. CASE Answers(ForRequest("error", Head(stdin).id))
    BY <1>0, <1>2, <1>6, <2>2, <2>4 DEF LoopCancel
  <2> QED BY <1>6, <2>3, <2>4 DEF LoopCancel
<1>7. CASE LoopInvoke
  <2> DEFINE f == ForRequest("started", Head(stdin).id)
  <2>1. /\ Head(stdin) = stdin[1] /\ 1 \in 1 .. Len(stdin) /\ Head(stdin).type = "invoke"
        /\ Head(stdin).id \in RequestId
    BY <1>7, TailFacts DEF LoopInvoke, Receive, TypeOK, TransportTypeOK, HostFrame
  <2>2. f \in PluginFrame /\ f.type = "started" /\ f.id = Head(stdin).id
    BY <2>1, FrameType DEF PluginType, ForRequest
  <2>3. Answers(f) /\ job' = f.id /\ Saying = <<>>
        /\ UNCHANGED <<stdout, emitted, stdoutOpen, child>> /\ child = "running"
    BY <1>7, <2>2 DEF LoopInvoke, Receive, Reading, Saying
  <2> HIDE DEF f
  <2>4. Says(f)
    BY <2>3 DEF Answers, Says, Saying
  <2>5. Fresh(f.id)
    BY <2>1, <2>2 DEF InvokeOnce
  <2>6. Meant(f)
    BY <2>1, <2>2, <2>3, <2>5 DEF Meant
  <2> QED BY <1>0, <2>2, <2>3, <2>4, <2>6
<1>8. CASE ReadTorn \/ ReadEof \/ HandlerPanic
  BY <1>0, <1>8 DEF ReadTorn, ReadEof, HandlerPanic, Unsaid, Saying, transportVars
<1>9. CASE WriteAnswer
  BY <1>0, <1>9 DEF WriteAnswer, PluginWrites, Wrote, Saying, AfterAnswer
<1>10. CASE AnswerFails
  <2>1. job = None \/ ~stdoutOpen
    BY <1>10 DEF AnswerFails, TooLarge, JobOfPhase
  <2> QED BY <1>0, <1>10, <2>1 DEF AnswerFails, AfterFailure, Unsaid, Saying, transportVars
<1>11. CASE HandlerEvent
  <2> DEFINE f == ForRequest("event", job)
  <2>1. job \in RequestId
    BY <1>11 DEF HandlerEvent, JobOfPhase
  <2>2. f \in PluginFrame /\ f.type = "event" /\ f.id = job
    BY <2>1, FrameType DEF PluginType, ForRequest
  <2>3. /\ Answers(f) /\ Saying = <<>> /\ UNCHANGED <<job, stdout, stdoutOpen, child>>
        /\ child = "running" /\ emitted' = [emitted EXCEPT ![job] = @ + 1]
    BY <1>11 DEF HandlerEvent, Saying, transportVars
  <2> HIDE DEF f
  <2>4. Says(f)
    BY <2>3 DEF Answers, Says, Saying
  <2>5. Meant(f)
    BY <2>1, <2>2, <2>3 DEF Meant
  <2> QED BY <1>0, <2>2, <2>3, <2>4, <2>5
<1>12. CASE HandlerReturn
  <2>1. PICK r \in {"finished", "error"} :
            result' = [result EXCEPT ![job] = r] /\ Answers(ForRequest(r, job))
    BY <1>12 DEF HandlerReturn
  <2> DEFINE f == ForRequest(r, job)
  <2>2. job \in RequestId
    BY <1>12 DEF HandlerReturn, JobOfPhase
  <2>3. f \in PluginFrame /\ f.type = r /\ f.id = job
    BY <2>2, FrameType DEF PluginType, ForRequest
  <2>4. result'[job] = r
    BY <2>1, <2>2 DEF TypeOK, ServerTypeOK
  <2>5. /\ Answers(f) /\ Saying = <<>> /\ UNCHANGED <<emitted, stdout, stdoutOpen, child>>
        /\ child = "running" /\ job' = None
    BY <1>12, <2>1 DEF HandlerReturn, Saying, transportVars
  <2> HIDE DEF f
  <2>6. Says(f)
    BY <2>5 DEF Answers, Says, Saying
  <2>7. Meant(f)
    BY <2>2, <2>3, <2>4, <2>5 DEF Meant
  <2> QED BY <1>0, <2>3, <2>5, <2>6, <2>7
<1>13. CASE StrayOutput
  BY <1>0, <1>13 DEF StrayOutput, PluginWrites, Strayed, Saying, serverVars
<1>14. CASE ProcessEnds
  BY <1>0, <1>14 DEF ProcessEnds, Unsaid, Saying
<1> QED
  BY <1>1, <1>3, <1>4, <1>5, <1>6, <1>7, <1>8, <1>9, <1>10, <1>11, <1>12, <1>13, <1>14
  DEF Server, ServerNext, ServerLoop, ServeReturns, ProcessKilled

\* The reader thread forwards a frame, or finds that nobody listens.
Forwarding ==
    /\ thread = "reading" /\ stdout # <<>> /\ stdout' = Tail(stdout)
    /\ rx' = Append(rx, Head(stdout))
    /\ stdoutOpen' = ~ReadError(Head(stdout))
    /\ thread' = (IF ReadError(Head(stdout)) THEN "done" ELSE "reading")
    /\ UNCHANGED <<transcript, call, frame, nextId, outcome>>

Skipping ==
    /\ call = "leaked" /\ ~stdoutOpen' /\ thread' = "done"
    /\ UNCHANGED stdout \/ (stdout # <<>> /\ stdout' = Tail(stdout))
    /\ UNCHANGED <<transcript, rx, call, frame, nextId, outcome>>

Ending ==
    /\ thread = "reading" /\ rx' = Append(rx, Eof) /\ thread' = "done" /\ ~stdoutOpen'
    /\ stdout = <<>> /\ child = "exited"
    /\ UNCHANGED <<transcript, stdout, call, frame, nextId, outcome>>

\* A frame that is taken by another call than an invoke.
Taking ==
    /\ call \in {"handshake", "pinging", "acking"} /\ call' \notin {"writing", "invoking"}
    /\ call' \in {"ready", "pinging"} =>
          call \in {"ready", "pinging"} \/ (call = "handshake" /\ Head(rx).type = "hello")
    /\ rx # <<>> /\ rx' = Tail(rx)
    /\ UNCHANGED <<transcript, stdout, frame, nextId, outcome, thread, stdoutOpen>>

\* One that ends an invoke, and one that it collects.
Breaking ==
    /\ call = "invoking" /\ call' = "ready" /\ rx # <<>> /\ rx' = Tail(rx)
    /\ ReadError(Head(rx)) \/ OwnError(Head(rx))
    /\ \E o \in {"closed", "errored"} : outcome' = [outcome EXCEPT ![frame.id] = o]
    /\ UNCHANGED <<transcript, stdout, frame, nextId, thread, stdoutOpen>>

Collecting ==
    /\ call = "invoking" /\ rx # <<>> /\ rx' = Tail(rx)
    /\ ~ReadError(Head(rx)) /\ ~OwnError(Head(rx))
    /\ transcript' = [transcript EXCEPT ![frame.id] = Append(@, Head(rx))]
    /\ \/ /\ Head(rx) = ForRequest("finished", frame.id) /\ call' = "ready"
          /\ outcome' = [outcome EXCEPT ![frame.id] = "finished"]
       \/ UNCHANGED <<call, outcome>>
    /\ UNCHANGED <<stdout, frame, nextId, thread, stdoutOpen>>

Crashing ==
    /\ call' = "crashed" /\ rx' = <<>> /\ thread' = "done" /\ ~stdoutOpen'
    /\ UNCHANGED <<transcript, stdout, frame, nextId, outcome>>

\* Nothing of a stream moves; a call is made, written, or comes to its end.
Resting ==
    /\ UNCHANGED <<transcript, rx, stdout, stdoutOpen>>
    /\ thread' = thread \/ (thread = "none" /\ thread' = "reading")
    /\ call' # "crashed" \/ call = "crashed"
    /\ \/ UNCHANGED outcome
       \/ /\ call = "writing" /\ frame.type = "invoke" /\ WriteError
          /\ outcome' = [outcome EXCEPT ![frame.id] = "rejected"]
       \/ /\ call = "invoking" /\ rx = <<>> /\ thread = "done"
          /\ outcome' = [outcome EXCEPT ![frame.id] = "closed"]

LEMMA ClientMoves ==
    ASSUME Inv, Client
    PROVE  /\ UNCHANGED <<phase, answer, job, emitted, result, Saying>>
           /\ \/ Forwarding \/ Skipping \/ Ending \/ Taking \/ Breaking \/ Collecting \/ Crashing
              \/ Resting
<1> USE DEF Inv
<1>0. UNCHANGED <<phase, answer, job, emitted, result, Saying>>
  BY DEF Client, serverVars, Saying
<1> SUFFICES \/ Forwarding \/ Skipping \/ Ending \/ Taking \/ Breaking \/ Collecting \/ Crashing
             \/ Resting
  BY <1>0
<1>1. CASE ThreadForwards
  <2>1. CASE ReceiverDropped
    BY <1>1, <2>1 DEF ThreadForwards, ReceiverDropped, Skipping
  <2>2. CASE ~ReceiverDropped
    <3>1. /\ thread = "reading" /\ stdout # <<>> /\ stdout' = Tail(stdout)
          /\ rx' = Append(rx, Head(stdout))
          /\ UNCHANGED <<transcript, call, frame, nextId, outcome>>
      BY <1>1, <2>2 DEF ThreadForwards, ThreadReads, Forwarded
    <3>2. thread' = (IF ReadError(Head(stdout)) THEN "done" ELSE "reading")
      BY <1>1, <2>2 DEF ThreadForwards
    <3>3. stdoutOpen' = ~ReadError(Head(stdout))
      BY <1>1, <2>2, Zenon DEF ThreadForwards
    <3> QED BY <3>1, <3>2, <3>3 DEF Forwarding
  <2> QED BY <2>1, <2>2
<1>2. CASE ThreadEof
  BY <1>2 DEF ThreadEof, ThreadReads, ReceiverDropped, StdoutAtEof, Ending, Resting, Skipping
<1>3. CASE HostCrash
  BY <1>3 DEF HostCrash, Crashing
<1>4. ASSUME NEW a, NEW b, Handshake(a, b) PROVE Taking
  BY <1>4 DEF Handshake, KillAndReap, Taking
<1>5. CASE PingRecv
  BY <1>5 DEF PingRecv, Taking, transportVars
<1>6. CASE ShutdownRecv
  BY <1>6 DEF ShutdownRecv, KillAndReap, Taking
<1>7. CASE InvokeRecv
  <2>1. CASE ReadError(Head(rx)) \/ OwnError(Head(rx))
    <3>1. /\ call = "invoking" /\ rx # <<>> /\ rx' = Tail(rx)
          /\ UNCHANGED <<transcript, stdout, frame, nextId, thread, stdoutOpen>>
      BY <1>7, <2>1 DEF InvokeRecv, transportVars
    <3>2. ReadError(Head(rx)) \/ OwnError(Head(rx)) => Head(rx) # ForRequest("finished", frame.id)
      BY DEF ReadError, OwnError, ForRequest
    <3>3. call' = "ready" /\ \E o \in {"closed", "errored"} : outcome' = [outcome EXCEPT ![frame.id] = o]
      BY <1>7, <2>1, <3>2 DEF InvokeRecv, InvokeReturns
    <3> QED BY <2>1, <3>1, <3>3 DEF Breaking
  <2>2. CASE ~(ReadError(Head(rx)) \/ OwnError(Head(rx)))
    <3>1. /\ call = "invoking" /\ rx # <<>> /\ rx' = Tail(rx)
          /\ transcript' = [transcript EXCEPT ![frame.id] = Append(@, Head(rx))]
          /\ UNCHANGED <<stdout, frame, nextId, thread, stdoutOpen>>
      BY <1>7, <2>2 DEF InvokeRecv, transportVars
    <3>2. \/ /\ Head(rx) = ForRequest("finished", frame.id) /\ call' = "ready"
             /\ outcome' = [outcome EXCEPT ![frame.id] = "finished"]
          \/ UNCHANGED <<call, outcome>>
      BY <1>7, <2>2 DEF InvokeRecv, InvokeReturns
    <3> QED BY <2>2, <3>1, <3>2 DEF Collecting
  <2> QED BY <2>1, <2>2
<1>8. CASE InvokeDisconnected
  BY <1>8 DEF InvokeDisconnected, InvokeReturns, Resting, transportVars
<1>9. CASE WriteError
  BY <1>9 DEF WriteError, KillAndReap, Resting
<1>10. CASE Join
  BY <1>10 DEF Join, Resting, transportVars, TypeOK, ClientTypeOK
<1>11. CASE WriteFrame
  BY <1>11 DEF WriteFrame, AfterWrite, Resting
<1>12. ASSUME NEW b, Spawn(b) PROVE Resting
  BY <1>12 DEF Spawn, Resting, ReaderOfCall
<1>13. CASE OwnerCalls
  BY <1>13 DEF OwnerCalls, CallInvoke, CallCancel, CallPing, CallShutdown, Drop, Writes,
               KillAndReap, Resting, transportVars
<1>14. CASE SpawnRefused \/ HandshakeFails \/ PingFails \/ ShutdownFails \/ Wait
  BY <1>14 DEF SpawnRefused, HandshakeFails, PingFails, ShutdownFails, Wait, KillAndReap, Resting,
               transportVars
<1> QED
  BY <1>1, <1>2, <1>3, <1>4, <1>5, <1>6, <1>7, <1>8, <1>9, <1>10, <1>11, <1>12, <1>13, <1>14
  DEF Client, SpawnStep, OwnerStep, ReaderThread

(***************************************************************************)
(* The frames of no request, step by step.                                 *)
(***************************************************************************)
LEMMA StreamType ==
    ASSUME TypeOK
    PROVE  /\ rx \in Seq(Received) /\ stdout \in Seq(PluginFrame) /\ Saying \in Seq(PluginFrame)
           /\ \A i \in RequestId : transcript[i] \in Seq(PluginFrame)
           /\ answer \in PluginFrame
           /\ Saying = IF phase = "writing" THEN <<answer>> ELSE <<>>
BY EmptyFacts DEF TypeOK, TransportTypeOK, ClientTypeOK, ServerTypeOK, Saying

LEMMA HasFacts ==
    /\ \A t : ~Has(<<>>, t)
    /\ \A f, t : Has(<<f>>, t) <=> f.type = t
    /\ Labelled(<<>>)
    /\ \A f : Labelled(<<f>>) <=> (f.type \in {"started", "event", "finished"} => f.id \in RequestId)
<1>1. \A k \in 1 .. Len(<<>>) : FALSE
  BY EmptyFacts
<1>2. \A f : Len(<<f>>) = 1 /\ <<f>>[1] = f /\ 1 .. 1 = {1}
  OBVIOUS
<1> QED BY <1>1, <1>2 DEF Has, Labelled

\* Who may have been greeted, and who may be called still.
LEMMA CallMoves ==
    ASSUME Inv, Client
    PROVE  /\ Greeted' => \/ Greeted
                          \/ /\ call = "handshake" /\ rx # <<>> /\ Head(rx).type = "hello"
                             /\ rx' = Tail(rx) /\ UNCHANGED stdout
           /\ Staying' => Staying
<1> USE DEF Inv, Greeted, Staying
<1>1. CASE UNCHANGED <<call, frame>>
  BY <1>1
<1>2. ASSUME NEW a, NEW b, Handshake(a, b)
      PROVE  /\ Greeted' => \/ Greeted
                            \/ /\ call = "handshake" /\ rx # <<>> /\ Head(rx).type = "hello"
                               /\ rx' = Tail(rx) /\ UNCHANGED stdout
             /\ Staying' => Staying
  BY <1>2 DEF Handshake, KillAndReap
<1>3. CASE InvokeRecv \/ InvokeDisconnected \/ PingRecv \/ PingFails \/ CallInvoke \/ CallCancel
           \/ CallPing \/ CallShutdown
  BY <1>3 DEF InvokeRecv, InvokeDisconnected, InvokeReturns, PingRecv, PingFails, CallInvoke,
              CallCancel, CallPing, CallShutdown, Writes
<1>4. CASE ShutdownRecv \/ ShutdownFails \/ HandshakeFails \/ Wait \/ Drop \/ HostCrash
           \/ SpawnRefused
  BY <1>4 DEF ShutdownRecv, ShutdownFails, HandshakeFails, Wait, Drop, HostCrash, KillAndReap,
              SpawnRefused
<1>5. CASE Join
  BY <1>5 DEF Join, EndingKnown, TypeOK, ClientTypeOK
<1>6. CASE WriteFrame
  BY <1>6 DEF WriteFrame, AfterWrite
<1>7. CASE WriteError
  BY <1>7 DEF WriteError, KillAndReap
<1>8. ASSUME NEW b, Spawn(b) PROVE ~Greeted' /\ Staying
  BY <1>8 DEF Spawn, FrameOfCall
<1>9. CASE ReaderThread
  BY <1>1, <1>9 DEF ReaderThread, ThreadForwards, ThreadEof
<1> QED BY <1>2, <1>3, <1>4, <1>5, <1>6, <1>7, <1>8, <1>9 DEF Client, SpawnStep, OwnerStep, OwnerCalls

LEMMA LabelledStep ==
    ASSUME Inv, Labelled(rx), Labelled(stdout), Labelled(Saying), [Next]_vars
    PROVE  Labelled(rx') /\ Labelled(stdout') /\ Labelled(Saying')
<1> USE StreamType DEF Inv
<1>1. Labelled(rx')
  <2>1. \A k \in 1 .. Len(rx') :
           \/ \E m \in 1 .. Len(rx) : rx'[k] = rx[m]
           \/ \E m \in 1 .. Len(stdout) : rx'[k] = stdout[m]
           \/ rx'[k] = Eof
    BY RxMembers
  <2>2. Eof.type \notin {"started", "event", "finished"}
    BY DEF Eof, Control
  <2> HIDE DEF Inv
  <2>3. SUFFICES ASSUME NEW k \in 1 .. Len(rx'), rx'[k].type \in {"started", "event", "finished"}
                 PROVE  rx'[k].id \in RequestId
    BY DEF Labelled
  <2>4. CASE \E m \in 1 .. Len(rx) : rx'[k] = rx[m]
    BY <2>3, <2>4 DEF Labelled
  <2>5. CASE \E m \in 1 .. Len(stdout) : rx'[k] = stdout[m]
    BY <2>3, <2>5 DEF Labelled
  <2> QED BY <2>1, <2>2, <2>3, <2>4, <2>5
<1>2. Labelled(stdout')
  <2>1. phase = "writing" /\ answer.type \in {"started", "event", "finished"} => answer.id \in RequestId
    BY HasFacts
  <2>2. \A k \in 1 .. Len(stdout') :
           \/ \E m \in 1 .. Len(stdout) : stdout'[k] = stdout[m]
           \/ phase = "writing" /\ stdout'[k] = answer
           \/ stdout'[k].type = "malformed"
    BY StdoutMembers DEF Control, WriteAnswer
  <2> HIDE DEF Inv
  <2> QED BY <2>1, <2>2 DEF Labelled
<1>3. Labelled(Saying')
  <2>1. CASE Server
    BY <2>1, ServerMoves, HasFacts DEF Says, Meant, Wrote, Unsaid, Strayed
  <2>2. CASE Client
    BY <2>2, ClientMoves
  <2> QED BY <2>1, <2>2 DEF Next, Stop, vars, serverVars, Saying
<1> QED BY <1>1, <1>2, <1>3

LEMMA PartingStep ==
    ASSUME Inv, Parting, [Next]_vars
    PROVE  Parting'
<1> USE StreamType DEF Inv
<1>1. Staying' => Staying
  <2>1. CASE Client
    BY <2>1, CallMoves
  <2> QED BY <2>1 DEF Next, Server, Stop, vars, clientVars, Staying
<1> SUFFICES ASSUME Staying'
             PROVE  /\ ~Has(stdin', "shutdown") /\ ~Has(rx', "shutdown_ack")
                    /\ ~Has(stdout', "shutdown_ack") /\ ~Has(Saying', "shutdown_ack")
  BY DEF Parting, Has
<1>2. /\ ~Has(stdin, "shutdown") /\ ~Has(rx, "shutdown_ack")
      /\ ~Has(stdout, "shutdown_ack") /\ ~Has(Saying, "shutdown_ack")
  BY <1>1 DEF Parting
<1>3. ~Has(stdin', "shutdown")
  <2>1. WriteFrame /\ frame.type = "shutdown" => ~Staying'
    BY DEF WriteFrame, AfterWrite, Staying
  <2> QED BY <1>2, <2>1, StdinMembers DEF Has
<1>4. ~Has(rx', "shutdown_ack")
  BY <1>2, RxMembers DEF Has, Eof, Control
<1>5. ~Has(stdout', "shutdown_ack")
  <2>1. phase = "writing" => answer.type # "shutdown_ack"
    BY <1>2, HasFacts
  <2> QED BY <1>2, <2>1, StdoutMembers DEF Has, Control, WriteAnswer
<1>6. ~Has(Saying', "shutdown_ack")
  <2>1. CASE Server
    BY <1>2, <2>1, ServerMoves, HasFacts DEF Says, Meant, Wrote, Unsaid, Strayed
  <2>2. CASE Client
    BY <1>2, <2>2, ClientMoves
  <2> QED BY <1>2, <2>1, <2>2 DEF Next, Stop, vars, serverVars, Saying
<1> QED BY <1>3, <1>4, <1>5, <1>6

LEMMA GreetingStep ==
    ASSUME Inv, Greeting, [Next]_vars
    PROVE  Greeting'
<1> USE StreamType DEF Inv
<1>0. CASE UNCHANGED <<phase, rx, stdout, Saying, call, frame>>
  BY <1>0 DEF Greeting, Greeted, Has
<1>1. CASE Server
  <2>1. UNCHANGED <<call, frame, rx>> /\ (Greeted' <=> Greeted)
    BY <1>1, ServerMoves DEF Greeted
  <2>2. ASSUME NEW f \in PluginFrame, Says(f), Meant(f) PROVE Greeting'
    BY <2>1, <2>2, HasFacts DEF Greeting, Says, Meant
  <2>3. CASE Wrote
    <3>1. \A k \in 1 .. Len(stdout') : (k \in 1 .. Len(stdout) /\ stdout'[k] = stdout[k])
                                       \/ (k = Len(stdout) + 1 /\ stdout'[k] = answer)
      BY <2>3, AppendFacts DEF Wrote
    <3>2. answer.type = "hello" => rx = <<>> /\ stdout = <<>> /\ ~Greeted
      BY <2>3, HasFacts DEF Wrote, Greeting
    <3>3. ~Has(Saying', "hello") /\ phase' # "hello"
      BY <2>3, HasFacts DEF Wrote
    <3>4. \A k \in 1 .. Len(stdout') : stdout'[k].type = "hello" => k = 1 /\ rx' = <<>>
      BY <2>1, <3>1, <3>2, EmptyFacts DEF Greeting
    <3>5. Greeted => ~Has(stdout', "hello")
      BY <3>1, <3>2 DEF Greeting, Has
    <3> HIDE DEF Inv
    <3> QED BY <2>1, <3>3, <3>4, <3>5 DEF Greeting, Has
  <2>4. CASE Strayed
    <3>1. Control("malformed") \in PluginFrame /\ Control("malformed").type # "hello"
      BY FrameType DEF PluginType, Control
    <3>2. \A k \in 1 .. Len(stdout') : (k \in 1 .. Len(stdout) /\ stdout'[k] = stdout[k])
                                       \/ (k = Len(stdout) + 1 /\ stdout'[k].type # "hello")
      BY <2>4, <3>1, AppendFacts DEF Strayed
    <3>3. ~Has(Saying', "hello") /\ phase' # "hello"
      BY <2>4, HasFacts DEF Strayed
    <3> QED BY <2>1, <3>2, <3>3 DEF Greeting, Has
  <2>5. CASE Unsaid
    BY <2>1, <2>5, HasFacts DEF Greeting, Unsaid, Has
  <2> QED BY <1>1, <2>2, <2>3, <2>4, <2>5, ServerMoves
<1>2. CASE Client
  <2>1. UNCHANGED <<phase, answer, Saying>>
    BY <1>2, ClientMoves
  <2>2. ASSUME UNCHANGED stdout, Greeted' => Greeted, UNCHANGED rx PROVE Greeting'
    BY <2>1, <2>2 DEF Greeting, Has
  <2>3. ASSUME rx # <<>>, rx' = Tail(rx), UNCHANGED stdout PROVE Greeting'
    <3>1. \A k \in 1 .. Len(rx') : rx'[k].type # "hello"
      BY <2>3, TailFacts DEF Greeting
    <3> QED BY <2>1, <2>3, <3>1 DEF Greeting, Has
  <2>4. \/ Greeted' => Greeted
        \/ rx # <<>> /\ rx' = Tail(rx) /\ UNCHANGED stdout
    BY <1>2, CallMoves
  <2>5. CASE Forwarding
    <3>1. /\ Head(stdout) = stdout[1] /\ 1 \in 1 .. Len(stdout) /\ Head(stdout) \in Received
          /\ \A k \in 1 .. Len(stdout') : stdout'[k].type # "hello"
      BY <2>5, TailFacts, ReceivedType DEF Forwarding, Greeting
    <3>2. \A k \in 1 .. Len(rx') : (k \in 1 .. Len(rx) /\ rx'[k] = rx[k])
                                   \/ (k = Len(rx) + 1 /\ rx'[k] = Head(stdout))
      BY <2>5, <3>1, AppendFacts DEF Forwarding
    <3>3. Head(stdout).type = "hello" => rx = <<>> /\ ~Greeted
      BY <3>1 DEF Greeting, Has
    <3>4. phase # "hello" /\ ~Has(Saying, "hello")
      BY <2>5 DEF Greeting, Forwarding
    <3>5. Greeted' <=> Greeted
      BY <2>5 DEF Forwarding, Greeted
    <3>6. \A k \in 1 .. Len(rx') : rx'[k].type = "hello" => k = 1
      BY <3>2, <3>3, EmptyFacts DEF Greeting
    <3>7. Greeted => ~Has(rx', "hello")
      BY <3>2, <3>3 DEF Greeting, Has
    <3>8. ~Has(stdout', "hello") /\ ~Has(Saying', "hello") /\ phase' # "hello"
      BY <2>1, <3>1, <3>4 DEF Has
    <3> QED BY <3>1, <3>5, <3>6, <3>7, <3>8 DEF Greeting
  <2>6. CASE Ending
    <3>1. phase = "exited" /\ Saying = <<>>
      BY <2>6 DEF Ending, JobOfPhase
    <3>2. Eof.type # "hello" /\ Eof \in Received
      BY ReceivedType DEF Eof, Control
    <3>3. \A k \in 1 .. Len(rx') : (k \in 1 .. Len(rx) /\ rx'[k] = rx[k])
                                   \/ (k = Len(rx) + 1 /\ rx'[k].type # "hello")
      BY <2>6, <3>2, AppendFacts DEF Ending
    <3>4. Greeted' <=> Greeted
      BY <2>6 DEF Ending, Greeted
    <3> QED BY <2>1, <2>6, <3>1, <3>3, <3>4, HasFacts, EmptyFacts DEF Greeting, Has, Ending
  <2>7. CASE Skipping
    <3>1. ~Greeted' /\ UNCHANGED rx
      BY <2>7 DEF Skipping, Greeted
    <3>2. CASE stdout # <<>> /\ stdout' = Tail(stdout)
      <4>1. \A k \in 1 .. Len(stdout') : stdout'[k].type # "hello"
        BY <3>2, TailFacts DEF Greeting
      <4> QED BY <2>1, <3>1, <3>2, <4>1 DEF Greeting
    <3> QED BY <2>2, <2>7, <3>1, <3>2 DEF Skipping
  <2>8. CASE Crashing
    <3>1. ~Greeted' /\ rx' = <<>> /\ UNCHANGED stdout
      BY <2>8 DEF Crashing, Greeted
    <3> QED BY <2>1, <3>1, EmptyFacts DEF Greeting
  <2>9. CASE Taking \/ Breaking \/ Collecting
    BY <2>3, <2>9 DEF Taking, Breaking, Collecting
  <2>10. CASE Resting
    <3>1. UNCHANGED <<rx, stdout>>
      BY <2>10 DEF Resting
    <3> QED BY <2>2, <2>3, <2>4, <3>1
  <2> QED BY <1>2, <2>5, <2>6, <2>7, <2>8, <2>9, <2>10, ClientMoves
<1> QED BY <1>0, <1>1, <1>2 DEF Next, Stop, vars, clientVars, serverVars, transportVars, Saying

LEMMA LastErrorStep ==
    ASSUME Inv, LastError, [Next]_vars
    PROVE  LastError'
<1> USE StreamType DEF Inv
<1>1. CASE UNCHANGED <<rx, thread, stdoutOpen>>
  BY <1>1 DEF LastError, ReadError
<1>2. CASE Server
  BY <1>1, <1>2, ServerMoves
<1>3. ASSUME rx # <<>>, rx' = Tail(rx), UNCHANGED <<thread, stdoutOpen>> PROVE LastError'
  BY <1>3, TailFacts DEF LastError, ReadError
<1>4. ASSUME NEW f \in Received, thread = "reading", rx' = Append(rx, f),
             thread' = "done" <=> ~stdoutOpen'
      PROVE  LastError'
  <2>1. \A k \in 1 .. Len(rx) : ~ReadError(rx[k])
    BY <1>4 DEF ErrorEnds
  <2>2. Len(rx') = Len(rx) + 1
        /\ \A k \in 1 .. Len(rx') : k = Len(rx) + 1 \/ (k \in 1 .. Len(rx) /\ rx'[k] = rx[k])
    BY <1>4, AppendFacts
  <2> QED BY <1>4, <2>1, <2>2 DEF LastError, ReadError
<1>5. CASE Client
  <2>1. CASE Forwarding
    BY <1>4, <2>1, TailFacts, ReceivedType DEF Forwarding
  <2>2. CASE Ending
    BY <1>4, <2>2, ReceivedType DEF Ending
  <2>3. CASE Taking \/ Breaking \/ Collecting
    BY <1>3, <2>3 DEF Taking, Breaking, Collecting
  <2>4. CASE Crashing
    BY <2>4, EmptyFacts DEF Crashing, LastError
  <2>5. CASE Skipping \/ Resting
    BY <2>5 DEF Skipping, Resting, LastError, ReadError
  <2> QED BY <1>5, <2>1, <2>2, <2>3, <2>4, <2>5, ClientMoves
<1> QED BY <1>1, <1>2, <1>5 DEF Next, Stop, vars, clientVars, transportVars

LEMMA FramesInit == Init => Frames
<1> SUFFICES ASSUME Init PROVE Frames
  OBVIOUS
<1>1. rx = <<>> /\ stdout = <<>> /\ stdin = <<>> /\ Saying = <<>>
      /\ call = "start" /\ thread = "none" /\ stdoutOpen
  BY DEF Init, TransportInit, ClientInit, ServerInit, Saying
<1> QED BY <1>1, HasFacts, EmptyFacts DEF Frames, Greeting, Parting, LastError, Greeted

LEMMA FramesStep == Inv /\ Frames /\ [Next]_vars => Frames'
<1> SUFFICES ASSUME Inv, Frames, [Next]_vars PROVE Frames'
  OBVIOUS
<1>1. Labelled(rx') /\ Labelled(stdout') /\ Labelled(Saying')
  BY LabelledStep DEF Frames
<1>2. Labelled(rx)' /\ Labelled(stdout)' /\ Labelled(Saying)'
  BY <1>1 DEF Labelled
<1> QED BY <1>2, GreetingStep, PartingStep, LastErrorStep DEF Frames

(***************************************************************************)
(* How the parts of a stream change.                                       *)
(***************************************************************************)
\* q is p and f.
Gains(p, q, f, i) ==
    /\ Count(q, i) = IF Own(f, i) THEN Count(p, i) + 1 ELSE Count(p, i)
    /\ StartIn(q, i) <=> StartIn(p, i) \/ (f.type = "started" /\ f.id = i)
    /\ FinishIn(q, i) <=> FinishIn(p, i) \/ (f.type = "finished" /\ f.id = i)
    /\ EndIn(q, i) <=> EndIn(p, i) \/ Ends(f, i)

\* The first frame of b becomes the last of a, the queue before it.
LEMMA Shift ==
    ASSUME NEW S, NEW T, NEW a \in Seq(S), NEW b \in Seq(T), b # <<>>, Head(b) \in S, NEW i,
           Orderly(a, i), Orderly(b, i), Precedes(a, b, i)
    PROVE  /\ Orderly(Append(a, Head(b)), i) /\ Orderly(Tail(b), i)
           /\ Precedes(Append(a, Head(b)), Tail(b), i)
           /\ Gains(a, Append(a, Head(b)), Head(b), i) /\ Gains(Tail(b), b, Head(b), i)
           /\ \A c : Precedes(c, a, i) /\ Precedes(c, b, i) =>
                 Precedes(c, Append(a, Head(b)), i) /\ Precedes(c, Tail(b), i)
           /\ \A c : Precedes(a, c, i) /\ Precedes(b, c, i) =>
                 Precedes(Append(a, Head(b)), c, i) /\ Precedes(Tail(b), c, i)
<1> DEFINE f == Head(b)
           a1 == Append(a, f)
           b1 == Tail(b)
<1>1. b1 \in Seq(T) /\ a1 \in Seq(S)
  BY TailFacts
<1>2. Gains(a, a1, f, i)
  BY CountAppend DEF Gains
<1>3. Gains(b1, b, f, i)
  BY CountTail DEF Gains
<1>4. /\ Orderly(b1, i)
      /\ Ends(f, i) => Count(b1, i) = 0
      /\ StartIn(b1, i) => ~Own(f, i)
  BY OrderlyTail
<1>5. /\ Count(a, i) \in Nat /\ Count(b, i) \in Nat /\ Count(a1, i) \in Nat /\ Count(b1, i) \in Nat
      /\ StartIn(b, i) => Count(b, i) # 0
  BY <1>1, CountFacts
<1>6. f.type = "started" /\ f.id = i => Own(f, i)
  BY DEF Own
<1>7. Own(f, i) => ~EndIn(a, i)
  BY <1>3, <1>5 DEF Gains, Precedes
<1>8. f.type = "started" /\ f.id = i => Count(a, i) = 0
  BY <1>3 DEF Gains, Precedes
<1>9. Orderly(a1, i)
  BY <1>7, <1>8, OrderlyAppend
<1> HIDE DEF f, a1, b1
<1>10. Precedes(a1, b1, i)
  BY <1>2, <1>3, <1>4, <1>5 DEF Gains, Precedes
<1>11. ASSUME NEW c, Precedes(c, a, i), Precedes(c, b, i) PROVE Precedes(c, a1, i) /\ Precedes(c, b1, i)
  BY <1>2, <1>3, <1>5, <1>6, <1>11 DEF Gains, Precedes
<1>12. ASSUME NEW c, Precedes(a, c, i), Precedes(b, c, i) PROVE Precedes(a1, c, i) /\ Precedes(b1, c, i)
  BY <1>2, <1>3, <1>5, <1>12 DEF Gains, Precedes
<1>13. f = Head(b) /\ a1 = Append(a, Head(b)) /\ b1 = Tail(b)
  BY DEF f, a1, b1
<1> QED BY <1>2, <1>3, <1>4, <1>9, <1>10, <1>11, <1>12, <1>13

\* The first frame of b is lost.
LEMMA Loss ==
    ASSUME NEW T, NEW b \in Seq(T), b # <<>>, NEW i
    PROVE  /\ Gains(Tail(b), b, Head(b), i)
           /\ Count(Tail(b), i) \in Nat /\ Count(Tail(b), i) <= Count(b, i)
           /\ Orderly(b, i) => Orderly(Tail(b), i)
           /\ \A c : Precedes(c, b, i) => Precedes(c, Tail(b), i)
           /\ \A c : Precedes(b, c, i) => Precedes(Tail(b), c, i)
<1> DEFINE b1 == Tail(b)
<1>1. b1 \in Seq(T)
  BY TailFacts
<1>2. Gains(b1, b, Head(b), i)
  BY CountTail DEF Gains
<1>3. Orderly(b, i) => Orderly(b1, i)
  BY OrderlyTail
<1>4. Count(b, i) \in Nat /\ Count(b1, i) \in Nat
  BY <1>1, CountFacts
<1> HIDE DEF b1
<1>5. Count(b1, i) <= Count(b, i)
  BY <1>2, <1>4 DEF Gains
<1>6. \A c : Precedes(c, b, i) => Precedes(c, b1, i)
  BY <1>2, <1>4 DEF Gains, Precedes
<1>7. \A c : Precedes(b, c, i) => Precedes(b1, c, i)
  BY <1>2, <1>4 DEF Gains, Precedes
<1>8. b1 = Tail(b)
  BY DEF b1
<1> QED BY <1>2, <1>3, <1>4, <1>5, <1>6, <1>7, <1>8

\* A frame of no request is added to b.
LEMMA Noise ==
    ASSUME NEW T, NEW b \in Seq(T), NEW f \in T, NEW i, ~Own(f, i), ~Ends(f, i)
    PROVE  /\ Count(Append(b, f), i) = Count(b, i)
           /\ StartIn(Append(b, f), i) <=> StartIn(b, i)
           /\ FinishIn(Append(b, f), i) <=> FinishIn(b, i)
           /\ Orderly(b, i) => Orderly(Append(b, f), i)
           /\ \A c : Precedes(c, b, i) => Precedes(c, Append(b, f), i)
           /\ \A c : Precedes(b, c, i) => Precedes(Append(b, f), c, i)
<1> DEFINE b1 == Append(b, f)
<1>1. Gains(b, b1, f, i)
  BY CountAppend DEF Gains
<1>2. f.type = "started" /\ f.id = i => Own(f, i)
  BY DEF Own
<1>3. f.type = "finished" /\ f.id = i => Own(f, i)
  BY DEF Own
<1>4. Orderly(b, i) => Orderly(b1, i)
  BY <1>2, OrderlyAppend
<1> HIDE DEF b1
<1>5. /\ Count(b1, i) = Count(b, i)
      /\ StartIn(b1, i) <=> StartIn(b, i)
      /\ FinishIn(b1, i) <=> FinishIn(b, i)
      /\ EndIn(b1, i) <=> EndIn(b, i)
  BY <1>1, <1>2, <1>3 DEF Gains
<1>6. /\ \A c : Precedes(c, b, i) => Precedes(c, b1, i)
      /\ \A c : Precedes(b, c, i) => Precedes(b1, c, i)
  BY <1>5 DEF Precedes
<1>7. b1 = Append(b, f)
  BY DEF b1
<1> QED BY <1>4, <1>5, <1>6, <1>7

\* The frames of i that its call waits for stay: nobody else takes them.
Dropped == Saying # <<>> /\ Saying' = <<>> /\ UNCHANGED stdout
Waits(i) ==
    /\ call = "invoking" /\ frame.id = i /\ ~Breaking /\ call' # "crashed"
    /\ Dropped => Count(Saying, i) = 0

LEMMA StreamCounts ==
    ASSUME TypeOK, NEW i \in RequestId
    PROVE  /\ Count(transcript[i], i) \in Nat /\ Count(rx, i) \in Nat
           /\ Count(stdout, i) \in Nat /\ Count(Saying, i) \in Nat
           /\ Total(i) \in Nat
           /\ StartIn(transcript[i], i) => Count(transcript[i], i) # 0
           /\ StartIn(rx, i) => Count(rx, i) # 0
           /\ StartIn(stdout, i) => Count(stdout, i) # 0
           /\ StartIn(Saying, i) => Count(Saying, i) # 0
           /\ FinishIn(rx, i) => EndIn(rx, i)
           /\ FinishIn(stdout, i) => EndIn(stdout, i)
           /\ FinishIn(Saying, i) => EndIn(Saying, i)
<1>1. /\ Count(transcript[i], i) \in Nat /\ Count(rx, i) \in Nat
      /\ Count(stdout, i) \in Nat /\ Count(Saying, i) \in Nat
  BY StreamType, CountFacts
<1>2. Total(i) \in Nat
  BY <1>1 DEF Total
<1> QED BY <1>1, <1>2, StreamType, CountFacts

LEMMA StreamNext ==
    ASSUME TypeOK', NEW i \in RequestId
    PROVE  /\ Count(transcript'[i], i) \in Nat /\ Count(rx', i) \in Nat
           /\ Count(stdout', i) \in Nat /\ Count(Saying', i) \in Nat
           /\ Total(i)' \in Nat
           /\ StartIn(rx', i) => Count(rx', i) # 0
           /\ StartIn(stdout', i) => Count(stdout', i) # 0
           /\ StartIn(Saying', i) => Count(Saying', i) # 0
<1>1. /\ transcript'[i] \in Seq(PluginFrame) /\ rx' \in Seq(Received)
      /\ stdout' \in Seq(PluginFrame) /\ Saying' \in Seq(PluginFrame)
  BY EmptyFacts DEF TypeOK, TransportTypeOK, ClientTypeOK, ServerTypeOK, Saying
<1>2. /\ Count(transcript'[i], i) \in Nat /\ Count(rx', i) \in Nat
      /\ Count(stdout', i) \in Nat /\ Count(Saying', i) \in Nat
  BY <1>1, CountFacts
<1>3. Total(i)' \in Nat
  BY <1>2 DEF Total
<1> QED BY <1>1, <1>2, <1>3, CountFacts

\* A queue of one frame, and of none.
LEMMA OneFrame ==
    ASSUME NEW f \in PluginFrame, NEW i
    PROVE  /\ Gains(<<>>, <<f>>, f, i)
           /\ Count(<<>>, i) = 0 /\ Orderly(<<>>, i) /\ Orderly(<<f>>, i)
           /\ ~StartIn(<<>>, i) /\ ~FinishIn(<<>>, i) /\ ~EndIn(<<>>, i)
           /\ \A c : Precedes(c, <<>>, i) /\ Precedes(<<>>, c, i)
           /\ Head(<<f>>) = f /\ Tail(<<f>>) = <<>> /\ <<f>> # <<>>
<1>1. Len(<<f>>) = 1 /\ Head(<<f>>) = f /\ Tail(<<f>>) = <<>> /\ <<f>> # <<>>
  OBVIOUS
<1>2. Orderly(<<f>>, i)
  BY <1>1 DEF Orderly
<1>3. Gains(<<>>, <<f>>, f, i)
  BY CountFew DEF Gains
<1>4. \A c : Precedes(c, <<>>, i) /\ Precedes(<<>>, c, i)
  BY CountFew DEF Precedes
<1> QED BY <1>1, <1>2, <1>3, <1>4, CountFew

LEMMA ServerKeeps ==
    ASSUME Inv, Server, Wrote \/ Unsaid \/ Strayed, NEW i \in RequestId, Ordered(i)
    PROVE  /\ Ordered(i)' /\ Total(i)' <= Total(i)
           /\ Due(i)' => Due(i)
           /\ Waits(i) => Total(i)' = Total(i) /\ (Opened(i)' <=> Opened(i))
<1> USE StreamType DEF Inv
<1>1. UNCHANGED <<transcript, rx, stdoutOpen>> /\ answer \in PluginFrame
  BY ServerMoves
<1>2. /\ Count(transcript[i], i) \in Nat /\ Count(rx, i) \in Nat
      /\ Count(stdout, i) \in Nat /\ Count(Saying, i) \in Nat
  BY StreamCounts
<1>3. CASE Wrote
  <2>1. /\ Saying = <<answer>> /\ Saying' = <<>> /\ stdout' = Append(stdout, answer) /\ stdoutOpen
    BY <1>3 DEF Wrote
  <2>2. Head(Saying) = answer /\ Tail(Saying) = Saying' /\ Saying # <<>> /\ Orderly(Saying, i)
    BY <1>1, <2>1, OneFrame
  <2>3. /\ Orderly(stdout', i) /\ Precedes(stdout', Saying', i)
        /\ Gains(stdout, stdout', answer, i) /\ Gains(Saying', Saying, answer, i)
        /\ \A c : Precedes(c, stdout, i) /\ Precedes(c, Saying, i) =>
              Precedes(c, stdout', i) /\ Precedes(c, Saying', i)
    <3>1. Orderly(stdout, i) /\ Precedes(stdout, Saying, i)
      BY DEF Ordered
    <3>2. stdout' = Append(stdout, Head(Saying)) /\ Head(Saying) \in PluginFrame
      BY <1>1, <2>1, <2>2
    <3>3. stdout \in Seq(PluginFrame) /\ Saying \in Seq(PluginFrame)
      OBVIOUS
    <3> HIDE DEF Inv
    <3> QED BY <2>2, <3>1, <3>2, <3>3, Shift
  <2>4. Ordered(i)'
    BY <1>1, <2>3 DEF Ordered
  <2>5. Count(Saying', i) \in Nat /\ Count(stdout', i) \in Nat /\ ~FinishIn(Saying', i)
    BY <1>1, <1>2, <2>1, <2>3, OneFrame DEF Gains
  <2> HIDE DEF Inv
  <2>6. Total(i)' = Total(i)
    BY <1>1, <1>2, <2>3, <2>5 DEF Total, Gains
  <2>7. Opened(i)' <=> Opened(i)
    BY <1>1, <2>3 DEF Opened, Gains
  <2>8. Due(i)' => Due(i)
    BY <1>1, <2>1, <2>3, <2>5 DEF Due, Gains
  <2>9. Total(i) \in Nat
    BY <1>2 DEF Total
  <2> QED BY <2>4, <2>6, <2>7, <2>8, <2>9
<1>4. CASE Unsaid
  <2>1. Saying' = <<>> /\ UNCHANGED stdout
    BY <1>4 DEF Unsaid
  <2>2. /\ Count(Saying', i) = 0 /\ ~FinishIn(Saying', i) /\ ~StartIn(Saying', i)
        /\ \A c : Precedes(c, Saying', i)
    BY <1>1, <2>1, OneFrame
  <2>3. Ordered(i)'
    BY <1>1, <2>1, <2>2 DEF Ordered
  <2>4. Total(i)' <= Total(i) /\ (Count(Saying, i) = 0 => Total(i)' = Total(i))
    BY <1>1, <1>2, <2>1, <2>2 DEF Total
  <2>5. Count(Saying, i) = 0 => (Opened(i)' <=> Opened(i))
    BY <1>1, <2>1, <2>2, StreamCounts DEF Opened
  <2>6. Due(i)' => Due(i)
    BY <1>1, <2>1, <2>2 DEF Due
  <2>7. Waits(i) => Count(Saying, i) = 0
    BY <1>1, <2>1, OneFrame DEF Waits, Dropped
  <2> QED BY <2>3, <2>4, <2>5, <2>6, <2>7
<1>5. CASE Strayed
  <2> DEFINE m == Control("malformed")
  <2>1. UNCHANGED Saying /\ stdout' = Append(stdout, m)
    BY <1>5 DEF Strayed
  <2>2. m \in PluginFrame /\ ~Own(m, i) /\ ~Ends(m, i)
    BY FrameType DEF PluginType, Control, Own, Ends, Terminal
  <2> HIDE DEF m
  <2>3. /\ Count(stdout', i) = Count(stdout, i)
        /\ StartIn(stdout', i) <=> StartIn(stdout, i)
        /\ FinishIn(stdout', i) <=> FinishIn(stdout, i)
        /\ Orderly(stdout, i) => Orderly(stdout', i)
        /\ \A c : Precedes(c, stdout, i) => Precedes(c, stdout', i)
        /\ \A c : Precedes(stdout, c, i) => Precedes(stdout', c, i)
    BY <2>1, <2>2, Noise
  <2>4. Ordered(i)'
    BY <1>1, <2>1, <2>3 DEF Ordered
  <2>5. Total(i)' = Total(i) /\ Total(i) \in Nat
    BY <1>1, <1>2, <2>1, <2>3 DEF Total
  <2>6. (Opened(i)' <=> Opened(i)) /\ (Due(i)' => Due(i))
    BY <1>1, <2>1, <2>3 DEF Opened, Due
  <2> QED BY <2>4, <2>5, <2>6
<1> QED BY <1>3, <1>4, <1>5

LEMMA ClientKeeps ==
    ASSUME Inv, LastError, Client, NEW i \in RequestId, Ordered(i)
    PROVE  /\ Ordered(i)' /\ Total(i)' <= Total(i)
           /\ Due(i)' => Due(i)
           /\ Waits(i) => Total(i)' = Total(i) /\ (Opened(i)' <=> Opened(i))
<1> USE StreamType DEF Inv
<1>1. UNCHANGED Saying
  BY ClientMoves
<1>2. /\ Count(transcript[i], i) \in Nat /\ Count(rx, i) \in Nat
      /\ Count(stdout, i) \in Nat /\ Count(Saying, i) \in Nat
  BY StreamCounts
<1>3. /\ Orderly(transcript[i], i) /\ Orderly(rx, i) /\ Orderly(stdout, i)
      /\ Precedes(transcript[i], rx, i) /\ Precedes(rx, stdout, i)
  BY DEF Ordered
<1>4. /\ rx \in Seq(Received) /\ stdout \in Seq(PluginFrame)
      /\ transcript[i] \in Seq(PluginFrame) /\ transcript \in [RequestId -> Seq(PluginFrame)]
  BY DEF TypeOK, ClientTypeOK
<1>5. call = "invoking" => frame.id \in RequestId
  BY FrameIds DEF FrameOfCall
<1>6. thread = "reading" => stdoutOpen
  BY DEF LastError
<1>7. Total(i) \in Nat
  BY <1>2 DEF Total
<1> HIDE DEF Inv
<1>10. CASE Forwarding
  <2> DEFINE f == Head(stdout)
  <2>1. /\ stdout # <<>> /\ stdout' = Tail(stdout) /\ rx' = Append(rx, f)
        /\ UNCHANGED transcript /\ stdoutOpen /\ f \in Received
    BY <1>4, <1>6, <1>10, TailFacts, ReceivedType DEF Forwarding
  <2>2. /\ Orderly(rx', i) /\ Orderly(stdout', i) /\ Precedes(rx', stdout', i)
        /\ Gains(rx, rx', f, i) /\ Gains(stdout', stdout, f, i)
        /\ \A c : Precedes(c, rx, i) /\ Precedes(c, stdout, i) =>
              Precedes(c, rx', i) /\ Precedes(c, stdout', i)
        /\ \A c : Precedes(rx, c, i) /\ Precedes(stdout, c, i) =>
              Precedes(rx', c, i) /\ Precedes(stdout', c, i)
    BY <1>3, <1>4, <2>1, Shift
  <2> HIDE DEF f
  <2>3. Ordered(i)'
    BY <1>1, <2>1, <2>2 DEF Ordered
  <2>4. Count(stdout', i) \in Nat
    BY <1>4, <2>1, Loss
  <2>5. Total(i)' = Total(i)
    BY <1>1, <1>2, <2>1, <2>2, <2>4 DEF Total, Gains
  <2>6. Opened(i)' <=> Opened(i)
    BY <1>1, <2>1, <2>2 DEF Opened, Gains
  <2>7. Due(i)' => Due(i)
    BY <1>1, <2>1, <2>2 DEF Due, Gains
  <2> QED BY <1>7, <2>3, <2>5, <2>6, <2>7
<1>11. CASE Ending
  <2>1. /\ rx' = Append(rx, Eof) /\ UNCHANGED <<transcript, stdout>> /\ ~stdoutOpen'
    BY <1>11 DEF Ending
  <2>2. Eof \in Received /\ ~Own(Eof, i) /\ ~Ends(Eof, i)
    BY ReceivedType DEF Eof, Control, Own, Ends, Terminal
  <2>3. /\ Count(rx', i) = Count(rx, i)
        /\ StartIn(rx', i) <=> StartIn(rx, i)
        /\ FinishIn(rx', i) <=> FinishIn(rx, i)
        /\ Orderly(rx, i) => Orderly(rx', i)
        /\ \A c : Precedes(c, rx, i) => Precedes(c, rx', i)
        /\ \A c : Precedes(rx, c, i) => Precedes(rx', c, i)
    BY <1>4, <2>1, <2>2, Noise
  <2>4. Ordered(i)'
    BY <1>1, <2>1, <2>3 DEF Ordered
  <2>5. Total(i)' = Total(i)
    BY <1>1, <2>1, <2>3 DEF Total
  <2>6. (Opened(i)' <=> Opened(i)) /\ (Due(i)' => Due(i))
    BY <1>1, <2>1, <2>3 DEF Opened, Due
  <2> QED BY <1>7, <2>4, <2>5, <2>6
<1>12. ASSUME rx # <<>>, rx' = Tail(rx), UNCHANGED <<stdout, stdoutOpen>>, transcript'[i] = transcript[i]
       PROVE  Ordered(i)' /\ Total(i)' <= Total(i) /\ (Due(i)' => Due(i))
  <2>1. /\ Gains(rx', rx, Head(rx), i)
        /\ Count(rx', i) \in Nat /\ Count(rx', i) <= Count(rx, i)
        /\ Orderly(rx', i)
        /\ \A c : Precedes(c, rx, i) => Precedes(c, rx', i)
        /\ \A c : Precedes(rx, c, i) => Precedes(rx', c, i)
    BY <1>3, <1>4, <1>12, Loss
  <2>2. Ordered(i)'
    BY <1>1, <1>12, <2>1 DEF Ordered
  <2>3. Total(i)' <= Total(i)
    BY <1>1, <1>2, <1>12, <2>1 DEF Total
  <2>4. Due(i)' => Due(i)
    BY <1>1, <1>12, <2>1 DEF Due, Gains
  <2> QED BY <2>2, <2>3, <2>4
<1>13. CASE Taking
  BY <1>12, <1>13 DEF Taking, Waits
<1>14. CASE Breaking
  BY <1>12, <1>14 DEF Breaking, Waits
<1>15. CASE Collecting /\ frame.id # i
  <2>1. transcript'[i] = transcript[i]
    BY <1>4, <1>15 DEF Collecting
  <2> QED BY <1>12, <1>15, <2>1 DEF Collecting, Waits
<1>16. CASE Collecting /\ frame.id = i
  <2> DEFINE f == Head(rx)
  <2>1. /\ rx # <<>> /\ rx' = Tail(rx) /\ transcript'[i] = Append(transcript[i], f)
        /\ UNCHANGED <<stdout, stdoutOpen>> /\ f \in PluginFrame
    BY <1>4, <1>16, TailFacts, ReceivedType DEF Collecting
  <2>2. /\ Orderly(transcript'[i], i) /\ Orderly(rx', i) /\ Precedes(transcript'[i], rx', i)
        /\ Gains(transcript[i], transcript'[i], f, i) /\ Gains(rx', rx, f, i)
        /\ \A c : Precedes(transcript[i], c, i) /\ Precedes(rx, c, i) =>
              Precedes(transcript'[i], c, i) /\ Precedes(rx', c, i)
    BY <1>3, <1>4, <2>1, Shift
  <2> HIDE DEF f
  <2>3. Ordered(i)'
    BY <1>1, <2>1, <2>2 DEF Ordered
  <2>4. Count(rx', i) \in Nat
    BY <1>4, <2>1, Loss
  <2>5. Total(i)' = Total(i)
    BY <1>1, <1>2, <2>1, <2>2, <2>4 DEF Total, Gains
  <2>6. Opened(i)' <=> Opened(i)
    BY <1>1, <2>1, <2>2 DEF Opened, Gains
  <2>7. Due(i)' => Due(i)
    BY <1>1, <2>1, <2>2 DEF Due, Gains
  <2> QED BY <1>7, <2>3, <2>5, <2>6, <2>7
<1>17. CASE Skipping
  <2>1. /\ UNCHANGED <<transcript, rx>> /\ ~stdoutOpen' /\ call = "leaked"
        /\ UNCHANGED stdout \/ (stdout # <<>> /\ stdout' = Tail(stdout))
    BY <1>17 DEF Skipping
  <2>2. /\ Count(stdout', i) \in Nat /\ Count(stdout', i) <= Count(stdout, i)
        /\ Orderly(stdout', i) /\ (FinishIn(stdout', i) => FinishIn(stdout, i))
        /\ \A c : Precedes(c, stdout, i) => Precedes(c, stdout', i)
        /\ \A c : Precedes(stdout, c, i) => Precedes(stdout', c, i)
    <3>1. CASE stdout # <<>> /\ stdout' = Tail(stdout)
      BY <1>3, <1>4, <3>1, Loss DEF Gains
    <3>2. CASE UNCHANGED stdout
      BY <1>2, <1>3, <3>2
    <3> QED BY <2>1, <3>1, <3>2
  <2>3. Ordered(i)'
    BY <1>1, <2>1, <2>2 DEF Ordered
  <2>4. Total(i)' <= Total(i)
    BY <1>1, <1>2, <2>1, <2>2 DEF Total
  <2> QED BY <1>1, <2>1, <2>2, <2>3, <2>4 DEF Due, Waits
<1>18. CASE Crashing
  <2>1. UNCHANGED <<transcript, stdout>> /\ rx' = <<>> /\ ~stdoutOpen' /\ call' = "crashed"
    BY <1>18 DEF Crashing
  <2>2. /\ Count(rx', i) = 0 /\ Orderly(rx', i) /\ ~FinishIn(rx', i)
        /\ \A c : Precedes(c, rx', i) /\ Precedes(rx', c, i)
    BY <2>1, CountFew, OneFrame, FrameType DEF PluginType
  <2>3. Ordered(i)'
    BY <1>1, <2>1, <2>2 DEF Ordered
  <2>4. Total(i)' <= Total(i)
    BY <1>1, <1>2, <2>1, <2>2 DEF Total
  <2> QED BY <1>1, <2>1, <2>2, <2>3, <2>4 DEF Due, Waits
<1>19. CASE Resting
  <2>1. UNCHANGED <<transcript, rx, stdout, stdoutOpen>>
    BY <1>19 DEF Resting
  <2> QED BY <1>1, <1>7, <2>1 DEF Ordered, Total, Opened, Due
<1> QED BY <1>10, <1>11, <1>13, <1>14, <1>15, <1>16, <1>17, <1>18, <1>19, ClientMoves

(***************************************************************************)
(* What a request's stream says of its call and of its handler.            *)
(***************************************************************************)
LEMMA Quiet ==
    ASSUME TypeOK, NEW i \in RequestId, Total(i) = 0
    PROVE  /\ Ordered(i)
           /\ Count(transcript[i], i) = 0 /\ Count(rx, i) = 0
           /\ Count(stdout, i) = 0 /\ Count(Saying, i) = 0
<1>1. /\ Count(transcript[i], i) = 0 /\ Count(rx, i) = 0
      /\ Count(stdout, i) = 0 /\ Count(Saying, i) = 0
  <2>1. /\ Count(transcript[i], i) \in Nat /\ Count(rx, i) \in Nat
        /\ Count(stdout, i) \in Nat /\ Count(Saying, i) \in Nat
    BY StreamCounts
  <2>2. Count(transcript[i], i) + Count(rx, i) + Count(stdout, i) + Count(Saying, i) = 0
    BY DEF Total
  <2>3. \A a, b, c, d \in Nat : a + b + c + d = 0 => a = 0 /\ b = 0 /\ c = 0 /\ d = 0
    OBVIOUS
  <2> HIDE DEF Total
  <2> QED BY <2>1, <2>2, <2>3
<1>2. ASSUME NEW S, NEW q \in Seq(S), Count(q, i) = 0 PROVE Orderly(q, i)
  BY <1>2, CountFacts DEF Orderly
<1>3. Orderly(transcript[i], i) /\ Orderly(rx, i) /\ Orderly(stdout, i)
  BY <1>1, <1>2, StreamType
<1> QED BY <1>1, <1>3, StreamCounts DEF Ordered, Precedes

\* No end is on its way before the handler has come to it.
LEMMA NoEnd ==
    ASSUME Inv, NEW i \in RequestId, OnlyProper(i), outcome[i] = "none", result[i] = "none"
    PROVE  /\ ~EndIn(transcript[i], i) /\ ~EndIn(rx, i) /\ ~EndIn(stdout, i) /\ ~EndIn(Saying, i)
           /\ ~Due(i)
<1> USE DEF Inv
<1>1. ~EndIn(transcript[i], i)
  BY DEF OnlyProper, Proper, Own, EndIn, Ends, Terminal
<1>2. ~EndIn(rx, i)
  BY DEF ComingHonest, Honest, EndIn, Ends, Terminal
<1>3. ~EndIn(stdout, i)
  BY DEF ComingHonest, Honest, EndIn, Ends, Terminal
<1>4. ~EndIn(Saying, i)
  <2>1. CASE phase = "writing"
    <3>1. Saying = <<answer>> /\ answer \in PluginFrame
      BY <2>1, StreamType
    <3>2. EndIn(Saying, i) <=> Ends(answer, i)
      BY <3>1, CountFew
    <3> QED BY <2>1, <3>2 DEF ComingHonest, Honest, Ends, Terminal
  <2>2. CASE phase # "writing"
    BY <2>2, StreamType, CountFew
  <2> QED BY <2>1, <2>2
<1>5. ~Due(i)
  BY <1>2, <1>3, <1>4, StreamCounts DEF Due
<1> QED BY <1>1, <1>2, <1>3, <1>4, <1>5

\* What is due was the handler's result.
LEMMA DueResult ==
    ASSUME Inv, NEW i \in RequestId, Due(i)
    PROVE  result[i] = "finished"
<1> USE DEF Inv
<1>1. CASE FinishIn(rx, i) \/ FinishIn(stdout, i)
  BY <1>1 DEF FinishIn, ComingHonest, Honest
<1>2. CASE FinishIn(Saying, i)
  <2>1. CASE phase = "writing"
    <3>1. Saying = <<answer>> /\ answer \in PluginFrame
      BY <2>1, StreamType
    <3>2. FinishIn(Saying, i) <=> answer.type = "finished" /\ answer.id = i
      BY <3>1, CountFew
    <3> QED BY <1>2, <2>1, <3>2 DEF ComingHonest, Honest
  <2>2. CASE phase # "writing"
    BY <1>2, <2>2, StreamType, CountFew
  <2> QED BY <2>1, <2>2
<1> QED BY <1>1, <1>2 DEF Due

\* A request the worker was given and whose call has not returned is the one
\* the owner waits for.
LEMMA Waiting ==
    ASSUME Inv, NEW i \in RequestId, ~Fresh(i), outcome[i] = "none", call # "crashed"
    PROVE  call = "invoking" /\ frame.id = i
BY FrameIds DEF Inv, InvokeOnce, OutcomeOfCall, Under

LEMMA JobEnds ==
    ASSUME Inv, [Next]_vars, NEW i \in RequestId, job = i, job' # i
    PROVE  result'[i] # "none" \/ child' = "exited"
<1> USE FrameIds DEF Inv
<1>1. CASE LoopInvoke
  BY <1>1 DEF LoopInvoke, Receive, Reading, JobOfPhase
<1>2. CASE HandlerReturn \/ HandlerPanic
  BY <1>2 DEF HandlerReturn, HandlerPanic, TypeOK, ServerTypeOK
<1>3. CASE ProcessEnds
  BY <1>3 DEF ProcessEnds
<1> QED
  BY <1>1, <1>2, <1>3 DEF Next, Client, Server, Stop, ServerNext, ServerLoop, ReadHello,
     LoopHello, LoopPing, LoopShutdown, LoopCancel, ReadTorn, ReadEof, WriteAnswer,
     AnswerFails, ServeReturns, HandlerEvent, StrayOutput, ProcessKilled, serverVars, vars

LEMMA ClientSteady ==
    ASSUME Inv, [Next]_vars
    PROVE  /\ nextId <= nextId'
           /\ call = "crashed" => call' = "crashed"
           /\ child = "exited" => child' = "exited"
           /\ \A i \in RequestId : call' = "writing" /\ frame'.type = "invoke" /\ frame'.id = i =>
                 i >= nextId \/ (call = "writing" /\ frame.type = "invoke" /\ frame.id = i)
<1> USE FrameIds DEF Inv
<1>1. CASE Client
  <2>1. CASE CallInvoke
    BY <2>1 DEF CallInvoke, Writes, ForRequest, transportVars
  <2>2. CASE CallCancel \/ CallPing \/ CallShutdown \/ Drop
    BY <2>2 DEF CallCancel, CallPing, CallShutdown, Drop, KillAndReap, Writes, ForRequest,
                WithNonce, Control, transportVars
  <2>3. ASSUME NEW b, Spawn(b) PROVE FALSE \/ call = "start"
    BY <2>3 DEF Spawn
  <2>4. CASE call = "start"
    BY <1>1, <2>4 DEF Client, SpawnStep, OwnerStep, OwnerCalls, ReaderThread, SpawnRefused, Spawn,
        Handshake, WriteFrame, WriteError, HandshakeFails, InvokeRecv, InvokeDisconnected,
        PingRecv, PingFails, ShutdownRecv, ShutdownFails, Wait, Join, CallInvoke, CallCancel,
        CallPing, CallShutdown, Drop, Writes, ThreadForwards, ThreadEof, ThreadReads, HostCrash,
        ReaderOfCall, FrameOfCall, transportVars
  <2>5. CASE SpawnRefused \/ OwnerStep \/ ReaderThread \/ HostCrash
    BY <2>5 DEF OwnerStep, ReaderThread, SpawnRefused,
        WriteFrame, WriteError, HandshakeFails, InvokeRecv, InvokeDisconnected, InvokeReturns,
        PingRecv, PingFails, ShutdownRecv, ShutdownFails, Wait, Join, KillAndReap, AfterWrite,
        ThreadForwards, ThreadEof, HostCrash, EndingKnown, TypeOK, ClientTypeOK, Gone, transportVars
  <2>6. ASSUME NEW a, NEW b, Handshake(a, b)
        PROVE  UNCHANGED <<nextId, child>> /\ call # "crashed" /\ call' # "writing"
    BY <2>6 DEF Handshake, KillAndReap
  <2> QED BY <1>1, <2>1, <2>2, <2>3, <2>4, <2>5, <2>6 DEF Client, SpawnStep, OwnerCalls
<1>2. CASE Server
  <2>1. UNCHANGED clientVars /\ (child = "exited" => child' = "exited")
    BY <1>2 DEF Server, ServerNext, ServerLoop, ReadHello, LoopHello, LoopPing, LoopShutdown,
      LoopCancel, LoopInvoke, Receive, ReadTorn, ReadEof, WriteAnswer, AnswerFails, ServeReturns,
      HandlerEvent, HandlerReturn, HandlerPanic, StrayOutput, ProcessKilled, ProcessEnds,
      transportVars
  <2> QED BY <2>1 DEF clientVars
<1> QED BY <1>1, <1>2 DEF Next, Stop, vars, clientVars, transportVars

LEMMA UnheardStep ==
    ASSUME Inv, Inv', [Next]_vars, NEW i \in RequestId, Unheard(i)'
    PROVE  Unheard(i) /\ Fresh(i)'
<1>1. Fresh(i)'
  BY DEF Inv, InvokeOnce, Unheard
<1> SUFFICES Unheard(i)
  BY <1>1
<1>2. CASE i >= nextId'
  <2>1. nextId \in Nat /\ nextId' \in Nat /\ i \in Nat
    BY TransportAssumption DEF Inv, TypeOK, ClientTypeOK, RequestId
  <2> QED BY <1>2, <2>1, ClientSteady DEF Unheard
<1>3. CASE call' = "writing" /\ frame'.type = "invoke" /\ frame'.id = i
  BY <1>3, ClientSteady DEF Unheard
<1>4. CASE child' # "exited"
  <2>1. child # "exited" /\ result[i] = "none"
    BY <1>1, <1>4, ClientSteady, ResultStep DEF Fresh
  <2>2. job # i
    BY <1>1, <1>4, JobEnds DEF Fresh
  <2> QED BY <2>1, <2>2 DEF Unheard, Fresh
<1> QED BY <1>1, <1>2, <1>3, <1>4 DEF Unheard

(***************************************************************************)
(* The streams, step by step.                                              *)
(***************************************************************************)
\* A frame that the server begins to write: whose it is, and what it does to
\* the stream of i.
LEMMA SaidOf ==
    ASSUME Inv, Server, NEW f \in PluginFrame, Says(f), Meant(f), child = "running",
           NEW i \in RequestId, Own(f, i)
    PROVE  /\ result[i] = "none"
           /\ f.type = "started" => Unheard(i) /\ job' = i /\ emitted'[i] = emitted[i]
           /\ f.type = "event" => job = i /\ job' = i /\ emitted'[i] = emitted[i] + 1
           /\ f.type = "finished" =>
                 job = i /\ job' # i /\ result'[i] = "finished" /\ emitted'[i] = emitted[i]
BY FrameIds DEF Inv, Meant, Own, Fresh, Unheard, JobOfPhase, TypeOK, ServerTypeOK

LEMMA SaidOther ==
    ASSUME Inv, Server, NEW f \in PluginFrame, Says(f), Meant(f),
           NEW i \in RequestId, ~Own(f, i)
    PROVE  /\ emitted'[i] = emitted[i]
           /\ job' = i => job = i
BY FrameIds DEF Inv, Meant, Own, Fresh, JobOfPhase, TypeOK, ServerTypeOK

LEMMA SaidCounts ==
    ASSUME Inv, Server, NEW f \in PluginFrame, Says(f), NEW i \in RequestId
    PROVE  /\ UNCHANGED <<transcript, rx, stdout, stdoutOpen>>
           /\ Count(Saying, i) = 0 /\ Count(Saying', i) = IF Own(f, i) THEN 1 ELSE 0
           /\ StartIn(Saying', i) <=> f.type = "started" /\ f.id = i
           /\ FinishIn(Saying', i) <=> f.type = "finished" /\ f.id = i
           /\ ~StartIn(Saying, i) /\ ~FinishIn(Saying, i)
           /\ Total(i)' = Total(i) + (IF Own(f, i) THEN 1 ELSE 0)
<1>1. UNCHANGED <<transcript, rx, stdout, stdoutOpen>> /\ Saying = <<>> /\ Saying' = <<f>>
  BY ServerMoves DEF Says
<1>2. /\ Count(Saying, i) = 0 /\ Count(Saying', i) = IF Own(f, i) THEN 1 ELSE 0
      /\ StartIn(Saying', i) <=> f.type = "started" /\ f.id = i
      /\ FinishIn(Saying', i) <=> f.type = "finished" /\ f.id = i
      /\ ~StartIn(Saying, i) /\ ~FinishIn(Saying, i)
  BY <1>1, CountFew
<1>3. /\ Count(transcript[i], i) \in Nat /\ Count(rx, i) \in Nat /\ Count(stdout, i) \in Nat
  BY StreamCounts DEF Inv
<1>4. Total(i)' = Total(i) + (IF Own(f, i) THEN 1 ELSE 0)
  BY <1>1, <1>2, <1>3 DEF Total
<1> QED BY <1>1, <1>2, <1>4

LEMMA InOrderStep ==
    ASSUME Inv, LastError, [Next]_vars, NEW i \in RequestId, Silent(i), OnlyProper(i), InOrder(i)
    PROVE  InOrder(i)'
<1> SUFFICES ASSUME outcome'[i] = "none" PROVE Ordered(i)'
  BY DEF InOrder
<1>1. outcome[i] = "none" /\ Ordered(i)
  BY OutcomeKept DEF InOrder
<1>2. ASSUME NEW f \in PluginFrame, Server, Says(f), Meant(f), child = "running" PROVE Ordered(i)'
  <2>1. /\ UNCHANGED <<transcript, rx, stdout>>
        /\ Count(Saying', i) = IF Own(f, i) THEN 1 ELSE 0
        /\ StartIn(Saying', i) <=> f.type = "started" /\ f.id = i
    BY <1>2, SaidCounts
  <2>2. StartIn(Saying', i) =>
           Count(transcript[i], i) = 0 /\ Count(rx, i) = 0 /\ Count(stdout, i) = 0
    <3> SUFFICES ASSUME f.type = "started" /\ f.id = i
                 PROVE  Count(transcript[i], i) = 0 /\ Count(rx, i) = 0 /\ Count(stdout, i) = 0
      BY <2>1
    <3>1. Own(f, i)
      BY DEF Own
    <3>2. Unheard(i)
      BY <1>2, <3>1, SaidOf
    <3> QED BY <3>2, Quiet DEF Silent, Inv
  <2>3. Own(f, i) => ~EndIn(transcript[i], i) /\ ~EndIn(rx, i) /\ ~EndIn(stdout, i)
    BY <1>1, <1>2, SaidOf, NoEnd
  <2> QED BY <1>1, <2>1, <2>2, <2>3 DEF Ordered, Precedes
<1>3. CASE Server
  BY <1>1, <1>2, <1>3, ServerMoves, ServerKeeps
<1>4. CASE Client
  BY <1>1, <1>4, ClientKeeps
<1>5. CASE UNCHANGED vars
  BY <1>1, <1>5 DEF Ordered, Saying, vars, clientVars, serverVars, transportVars
<1> QED BY <1>3, <1>4, <1>5 DEF Next, Stop

LEMMA SilentStep ==
    ASSUME Inv, Inv', LastError, [Next]_vars, NEW i \in RequestId, Silent(i)
    PROVE  Silent(i)'
<1> SUFFICES ASSUME Unheard(i)' PROVE Total(i)' = 0 /\ emitted'[i] = 0
  BY DEF Silent
<1>1. Unheard(i) /\ job' # i /\ result'[i] = "none"
  BY UnheardStep DEF Fresh
<1>2. Total(i) = 0 /\ emitted[i] = 0 /\ Ordered(i)
  BY <1>1, Quiet DEF Silent, Inv
<1>3. Total(i)' \in Nat
  BY StreamNext DEF Inv
<1>4. ASSUME NEW f \in PluginFrame, Server, Says(f), Meant(f), child = "running"
      PROVE  Total(i)' = 0 /\ emitted'[i] = 0
  <2>1. ~Own(f, i)
    BY <1>1, <1>4, SaidOf DEF Own
  <2> QED BY <1>2, <1>4, <2>1, SaidCounts, SaidOther
<1>5. CASE Server /\ (Wrote \/ Unsaid \/ Strayed)
  <2>1. Total(i)' <= Total(i) /\ UNCHANGED emitted
    BY <1>2, <1>5, ServerKeeps DEF Wrote, Unsaid, Strayed
  <2> QED BY <1>2, <1>3, <2>1
<1>6. CASE Client
  <2>1. Total(i)' <= Total(i) /\ UNCHANGED emitted
    BY <1>2, <1>6, ClientKeeps, ClientMoves
  <2> QED BY <1>2, <1>3, <2>1
<1>7. CASE UNCHANGED vars
  BY <1>2, <1>7 DEF Total, Saying, vars, clientVars, serverVars, transportVars
<1> QED BY <1>4, <1>5, <1>6, <1>7, ServerMoves DEF Next, Stop

LEMMA CompleteStep ==
    ASSUME Inv, Inv', LastError, LastError', [Next]_vars, NEW i \in RequestId,
           Silent(i), OnlyProper(i), InOrder(i), Complete(i)
    PROVE  Complete(i)'
<1> SUFFICES ASSUME outcome'[i] = "none"
             PROVE  /\ job' = i /\ stdoutOpen' => Total(i)' = emitted'[i] + 1 /\ Opened(i)'
                    /\ call' # "crashed" /\ Due(i)' => Total(i)' = emitted'[i] + 2 /\ Opened(i)'
  BY DEF Complete
<1>1. outcome[i] = "none" /\ Ordered(i)
  BY OutcomeKept DEF InOrder
<1>2. /\ job = i /\ stdoutOpen => Total(i) = emitted[i] + 1 /\ Opened(i)
      /\ call # "crashed" /\ Due(i) => Total(i) = emitted[i] + 2 /\ Opened(i)
  BY <1>1 DEF Complete
<1>3. job = i => result[i] = "none"
  BY FrameIds DEF Inv, JobOfPhase
<1>4. /\ thread = "done" <=> ~stdoutOpen
      /\ call = "crashed" => thread = "done"
      /\ call = "crashed" => call' = "crashed"
      /\ call' = "crashed" => ~stdoutOpen'
  BY ClientSteady DEF LastError, Inv, ReaderOfCall
<1>5. emitted[i] \in Nat /\ Total(i) \in Nat
  BY StreamCounts DEF Inv, TypeOK, ServerTypeOK
<1>6. ASSUME NEW f \in PluginFrame, Server, Says(f), Meant(f), child = "running"
      PROVE  /\ job' = i /\ stdoutOpen' => Total(i)' = emitted'[i] + 1 /\ Opened(i)'
             /\ call' # "crashed" /\ Due(i)' => Total(i)' = emitted'[i] + 2 /\ Opened(i)'
  <2>1. /\ UNCHANGED <<transcript, rx, stdout, stdoutOpen, call>>
        /\ StartIn(Saying', i) <=> f.type = "started" /\ f.id = i
        /\ FinishIn(Saying', i) <=> f.type = "finished" /\ f.id = i
        /\ ~StartIn(Saying, i) /\ ~FinishIn(Saying, i)
        /\ Total(i)' = Total(i) + (IF Own(f, i) THEN 1 ELSE 0)
    BY <1>6, SaidCounts, ServerMoves
  <2>2. Opened(i)' <=> Opened(i) \/ (f.type = "started" /\ f.id = i)
    BY <2>1 DEF Opened
  <2>3. Due(i)' <=> Due(i) \/ (stdoutOpen /\ f.type = "finished" /\ f.id = i)
    BY <2>1 DEF Due
  <2>4. CASE ~Own(f, i)
    <3>1. ~(f.type = "finished" /\ f.id = i) /\ emitted'[i] = emitted[i] /\ (job' = i => job = i)
      BY <1>6, <2>4, SaidOther DEF Own
    <3> QED BY <1>2, <1>5, <2>1, <2>2, <2>3, <2>4, <3>1
  <2>5. CASE Own(f, i)
    <3>1. f.id = i /\ f.type \in {"started", "event", "finished"} /\ ~Due(i)
      BY <1>1, <1>6, <2>5, SaidOf, NoEnd DEF Own
    <3>2. CASE f.type = "started"
      <4>1. Unheard(i) /\ emitted'[i] = emitted[i]
        BY <1>6, <2>5, <3>2, SaidOf
      <4>2. Total(i) = 0 /\ emitted[i] = 0
        BY <4>1 DEF Silent
      <4> QED BY <2>1, <2>2, <2>3, <2>5, <3>1, <3>2, <4>1, <4>2
    <3>3. CASE f.type = "event"
      <4>1. job = i /\ emitted'[i] = emitted[i] + 1
        BY <1>6, <2>5, <3>3, SaidOf
      <4> QED BY <1>2, <1>5, <2>1, <2>2, <2>3, <2>5, <3>1, <3>3, <4>1
    <3>4. CASE f.type = "finished"
      <4>1. job = i /\ job' # i /\ emitted'[i] = emitted[i]
        BY <1>6, <2>5, <3>4, SaidOf
      <4> QED BY <1>2, <1>5, <2>1, <2>2, <2>3, <2>5, <3>1, <3>4, <4>1
    <3> QED BY <3>1, <3>2, <3>3, <3>4
  <2> QED BY <2>4, <2>5
<1>7. ASSUME job = i \/ Due(i), call # "crashed" PROVE call = "invoking" /\ frame.id = i
  BY <1>1, <1>7, DueResult, Waiting DEF Fresh
<1>8. ASSUME ~(Breaking /\ frame.id = i), UNCHANGED emitted, job' = i => job = i, stdoutOpen' => stdoutOpen,
             Due(i)' => Due(i),
             Waits(i) => Total(i)' = Total(i) /\ (Opened(i)' <=> Opened(i)),
             Dropped /\ stdoutOpen /\ job' = i => Count(Saying, i) = 0,
             Dropped /\ Due(i)' => Count(Saying, i) = 0
      PROVE  /\ job' = i /\ stdoutOpen' => Total(i)' = emitted'[i] + 1 /\ Opened(i)'
             /\ call' # "crashed" /\ Due(i)' => Total(i)' = emitted'[i] + 2 /\ Opened(i)'
  <2>1. ASSUME job' = i, stdoutOpen' PROVE Total(i)' = emitted'[i] + 1 /\ Opened(i)'
    <3>1. Waits(i)
      BY <1>4, <1>7, <1>8, <2>1 DEF Waits
    <3> QED BY <1>2, <1>8, <2>1, <3>1
  <2>2. ASSUME call' # "crashed", Due(i)' PROVE Total(i)' = emitted'[i] + 2 /\ Opened(i)'
    <3>1. Waits(i)
      BY <1>4, <1>7, <1>8, <2>2 DEF Waits
    <3> QED BY <1>2, <1>4, <1>8, <2>2, <3>1
  <2> QED BY <2>1, <2>2
<1>9. CASE Server /\ (Wrote \/ Unsaid \/ Strayed)
  <2>1. /\ UNCHANGED <<stdoutOpen, call>> /\ ~Breaking
    BY <1>9, ServerMoves DEF Breaking
  <2>2. UNCHANGED emitted /\ (job' = i => job = i)
    BY <1>9, FrameIds DEF Wrote, Unsaid, Strayed, Inv
  <2>3. /\ Due(i)' => Due(i)
        /\ Waits(i) => Total(i)' = Total(i) /\ (Opened(i)' <=> Opened(i))
    BY <1>1, <1>9, ServerKeeps
  <2>0. Dropped => Unsaid
    <3>1. Wrote => stdout' # stdout
      BY AppendFacts, StreamType DEF Wrote, Inv
    <3> QED BY <1>9, <3>1 DEF Dropped, Strayed
  <2>4. Dropped /\ stdoutOpen /\ job' = i => Count(Saying, i) = 0
    <3> SUFFICES ASSUME Dropped, stdoutOpen, job' = i PROVE FALSE
      OBVIOUS
    <3> QED BY <2>0, FrameIds DEF Unsaid, Dropped, Inv
  <2>5. Dropped /\ Due(i)' => Count(Saying, i) = 0
    <3> SUFFICES ASSUME Dropped, Due(i)' PROVE Count(Saying, i) = 0
      OBVIOUS
    <3>1. ~FinishIn(Saying', i) /\ UNCHANGED <<rx, stdout>>
      BY <1>9, ServerMoves, CountFew, FrameType DEF PluginType, Dropped
    <3>2. FinishIn(rx, i) \/ FinishIn(stdout, i)
      BY <3>1 DEF Due
    <3>3. EndIn(rx, i) \/ EndIn(stdout, i)
      BY <3>2, StreamCounts DEF Inv
    <3> QED BY <1>1, <3>3 DEF Ordered, Precedes
  <2> QED BY <1>4, <1>8, <2>1, <2>2, <2>3, <2>4, <2>5
<1>10. CASE Client
  <2>1. UNCHANGED <<emitted, job>> /\ ~Dropped
    BY <1>10, ClientMoves DEF Dropped
  <2>2. ~(Breaking /\ frame.id = i)
    BY DEF Breaking, Inv, TypeOK, ClientTypeOK
  <2>3. stdoutOpen' => stdoutOpen
    BY <1>4, <1>10, ClientMoves DEF Forwarding, Skipping, Ending, Taking, Breaking, Collecting,
                                    Crashing, Resting
  <2>4. /\ Due(i)' => Due(i)
        /\ Waits(i) => Total(i)' = Total(i) /\ (Opened(i)' <=> Opened(i))
    BY <1>1, <1>10, ClientKeeps
  <2> QED BY <1>8, <2>1, <2>2, <2>3, <2>4
<1>11. CASE UNCHANGED vars
  <2>1. UNCHANGED <<job, stdoutOpen, emitted, call, Total(i), Opened(i), Due(i)>>
    BY <1>11 DEF Total, Opened, Due, Saying, vars, clientVars, serverVars, transportVars
  <2> QED BY <1>2, <2>1
<1> QED BY <1>6, <1>9, <1>10, <1>11, ServerMoves DEF Next, Stop

\* A call that returned is over, and so is its transcript.
LEMMA OutcomeStays ==
    ASSUME Inv, [Next]_vars, NEW i \in RequestId, outcome[i] # "none"
    PROVE  outcome'[i] = outcome[i] /\ transcript'[i] = transcript[i]
<1>1. /\ call \in {"writing", "invoking"} /\ frame.type = "invoke" => frame.id # i
      /\ call = "invoking" => frame.type = "invoke"
  BY DEF Inv, OutcomeOfCall, Under, FrameOfCall
<1>2. /\ outcome \in [RequestId -> {"none", "finished", "errored", "closed", "rejected"}]
      /\ transcript \in [RequestId -> Seq(PluginFrame)]
  BY DEF Inv, TypeOK, ClientTypeOK
<1>3. CASE Client
  BY <1>1, <1>2, <1>3, ClientMoves DEF Forwarding, Skipping, Ending, Taking, Breaking, Collecting,
                                       Crashing, Resting
<1>4. CASE Server
  BY <1>4, ServerMoves
<1> QED BY <1>3, <1>4 DEF Next, Stop, vars, clientVars

LEMMA EmittedStays ==
    ASSUME Inv, [Next]_vars, NEW i \in RequestId, result[i] # "none"
    PROVE  emitted'[i] = emitted[i]
<1>1. job # i
  BY FrameIds DEF Inv, JobOfPhase
<1>2. emitted \in [RequestId -> 0 .. MaxEvents]
  BY DEF Inv, TypeOK, ServerTypeOK
<1>3. ASSUME NEW f \in PluginFrame, Meant(f) PROVE emitted'[i] = emitted[i]
  BY <1>1, <1>2, <1>3 DEF Meant
<1>4. CASE Server
  BY <1>3, <1>4, ServerMoves DEF Wrote, Unsaid, Strayed
<1>5. CASE Client
  BY <1>5, ClientMoves
<1> QED BY <1>4, <1>5 DEF Next, Stop, vars, serverVars

LEMMA CollectedStep ==
    ASSUME Inv, Inv', LastError, [Next]_vars, NEW i \in RequestId,
           InOrder(i), Complete(i), Collected(i)
    PROVE  Collected(i)'
<1> SUFFICES ASSUME outcome'[i] = "finished"
             PROVE  /\ result'[i] = "finished"
                    /\ Count(transcript'[i], i) = emitted'[i] + 2
                    /\ StartIn(transcript'[i], i) /\ Orderly(transcript'[i], i)
                    /\ Len(transcript'[i]) > 0
                    /\ transcript'[i][Len(transcript'[i])] = ForRequest("finished", i)
  BY DEF Collected
<1>1. CASE outcome[i] # "none"
  <2>1. outcome[i] = "finished" /\ transcript'[i] = transcript[i]
    BY <1>1, OutcomeStays
  <2>2. result[i] = "finished"
    BY <2>1 DEF Collected
  <2>3. result'[i] = "finished" /\ emitted'[i] = emitted[i]
    BY <2>2, ResultStep, EmittedStays
  <2> QED BY <2>1, <2>3 DEF Collected
<1>2. CASE outcome[i] = "none"
  <2> DEFINE f == ForRequest("finished", i)
  <2>1. Client
    BY <1>2, ServerMoves DEF Next, Stop, vars, clientVars
  <2>2. outcome \in [RequestId -> {"none", "finished", "errored", "closed", "rejected"}]
    BY DEF Inv, TypeOK, ClientTypeOK
  <2>3. call = "invoking" => frame.id \in RequestId
    BY FrameIds DEF Inv, FrameOfCall
  <2>4. Collecting /\ frame.id = i /\ Head(rx) = f
    BY <1>2, <2>1, <2>2, ClientMoves DEF Forwarding, Skipping, Ending, Taking, Breaking,
                                         Collecting, Crashing, Resting
  <2>5. /\ call = "invoking" /\ rx # <<>> /\ rx' = Tail(rx)
        /\ transcript'[i] = Append(transcript[i], f) /\ UNCHANGED <<stdout, emitted, result, Saying>>
    BY <2>1, <2>4, ClientMoves DEF Collecting, Inv, TypeOK, ClientTypeOK
  <2>6. f \in PluginFrame /\ Ends(f, i) /\ f.type = "finished" /\ f.id = i
    BY FrameIds, FrameType DEF PluginType, ForRequest, Ends, Terminal
  <2>7. FinishIn(rx, i)
    BY <2>4, <2>5, <2>6, StreamType, CountTail DEF Inv
  <2>8. Due(i) /\ result[i] = "finished"
    BY <2>7, DueResult DEF Due
  <2>9. Total(i) = emitted[i] + 2 /\ Opened(i)
    BY <1>2, <2>5, <2>8 DEF Complete
  <2>10. Waits(i)
    <3>1. call' # "crashed"
      BY <1>2, <2>4 DEF Collecting
    <3>2. ~Breaking
      BY <2>4 DEF Breaking, Collecting
    <3> QED BY <2>4, <2>5, <3>1, <3>2 DEF Waits, Dropped
  <2>11. Total(i)' = emitted[i] + 2 /\ Opened(i)' /\ Ordered(i)'
    BY <1>2, <2>1, <2>9, <2>10, ClientKeeps DEF InOrder
  <2>12. EndIn(transcript'[i], i)
    BY <2>5, <2>6, StreamType, CountAppend DEF Inv
  <2>13. Count(rx', i) = 0 /\ Count(stdout', i) = 0 /\ Count(Saying', i) = 0
    BY <2>11, <2>12 DEF Ordered, Precedes
  <2>14. Count(transcript'[i], i) \in Nat
         /\ ~StartIn(rx', i) /\ ~StartIn(stdout', i) /\ ~StartIn(Saying', i)
    BY <2>13, StreamNext DEF Inv
  <2>15. Count(transcript'[i], i) = emitted'[i] + 2
    BY <2>5, <2>11, <2>13, <2>14 DEF Total
  <2>16. StartIn(transcript'[i], i) /\ Orderly(transcript'[i], i)
    BY <2>11, <2>14 DEF Opened, Ordered
  <2>17. Len(transcript'[i]) > 0 /\ transcript'[i][Len(transcript'[i])] = f
    <3>1. transcript[i] \in Seq(PluginFrame)
      BY StreamType DEF Inv
    <3> HIDE DEF f
    <3> QED BY <2>5, <2>6, <3>1, AppendFacts
  <2> QED BY <2>5, <2>8, <2>15, <2>16, <2>17
<1> QED BY <1>1, <1>2

LEMMA OnlyProperStep ==
    ASSUME Inv, Frames, Streams, [Next]_vars, NEW i \in RequestId
    PROVE  OnlyProper(i)'
<1>0. OnlyProper(i)
  BY DEF Streams
<1>1. ASSUME NEW f, Proper(f, i) PROVE Proper(f, i)'
  BY <1>1, ResultStep DEF Proper, Own
<1>2. CASE transcript'[i] = transcript[i]
  BY <1>0, <1>1, <1>2 DEF OnlyProper
<1>3. CASE Client /\ Collecting /\ frame.id = i
  <2> DEFINE f == Head(rx)
  <2>1. /\ call = "invoking" /\ rx # <<>> /\ ~ReadError(f) /\ ~OwnError(f)
        /\ transcript'[i] = Append(transcript[i], f)
    BY <1>3 DEF Collecting, Inv, TypeOK, ClientTypeOK
  <2>2. f \in PluginFrame /\ f = rx[1] /\ 1 \in 1 .. Len(rx) /\ rx \in Seq(Received)
    BY <2>1, StreamType, TailFacts, ReceivedType DEF Inv
  <2> HIDE DEF f
  <2>3. f.type # "hello" /\ f.type # "shutdown_ack"
    BY <2>1, <2>2 DEF Frames, Greeting, Greeted, Parting, Staying, Has
  <2>4. f.type \in {"started", "event", "finished"} => f.id = i
    <3> SUFFICES ASSUME f.type \in {"started", "event", "finished"}, f.id # i PROVE FALSE
      OBVIOUS
    <3>1. PICK j \in RequestId : f.id = j
      BY <2>2 DEF Frames, Labelled
    <3>2. Own(rx[1], j)
      BY <2>2, <3>1 DEF Own
    <3>3. Count(rx, j) # 0
      BY <2>2, <3>2, CountFacts
    <3>4. outcome[j] = "none"
      BY <3>3 DEF Streams, NoneLeft
    <3>5. j >= nextId
      BY <1>3, <2>1, <3>1, <3>4, FrameIds DEF Inv, OutcomeOfCall, Under
    <3> QED BY <3>3, <3>5, Quiet DEF Streams, Silent, Unheard, Inv
  <2>5. f.type = "finished" => result[i] = "finished"
    BY <2>2, <2>4 DEF Inv, ComingHonest, Honest
  <2>6. Proper(f, i)
    BY <1>3, <2>1, <2>2, <2>3, <2>4, <2>5 DEF Proper, Own, OwnError, ReadError, PluginFrame, PluginType
  <2>7. \A k \in 1 .. Len(transcript'[i]) :
           \/ k \in 1 .. Len(transcript[i]) /\ transcript'[i][k] = transcript[i][k]
           \/ transcript'[i][k] = f
    BY <2>1, <2>2, StreamType, AppendFacts DEF Inv
  <2> QED BY <1>0, <1>1, <2>6, <2>7 DEF OnlyProper
<1>4. CASE Client
  BY <1>2, <1>3, <1>4, ClientMoves
  DEF Forwarding, Skipping, Ending, Taking, Breaking, Collecting, Crashing, Resting, Inv, TypeOK,
      ClientTypeOK
<1>5. CASE Server
  BY <1>2, <1>5, ServerMoves
<1> QED BY <1>2, <1>4, <1>5 DEF Next, Stop, vars, clientVars

\* The invocation of i is written by the call that waits for it.
LEMMA NoNewInvoke ==
    ASSUME Inv, [Next]_vars, NEW i \in RequestId,
           ~(call = "writing" /\ frame.type = "invoke" /\ frame.id = i),
           \A k \in 1 .. Len(stdin) : ~(stdin[k].type = "invoke" /\ stdin[k].id = i)
    PROVE  \A k \in 1 .. Len(stdin') : ~(stdin'[k].type = "invoke" /\ stdin'[k].id = i)
BY StdinMembers DEF Inv, WriteFrame

LEMMA NoneLeftServer ==
    ASSUME Inv, Server, NEW i \in RequestId, outcome[i] # "none", NoneLeft(i)
    PROVE  NoneLeft(i)'
<1>1. UNCHANGED <<outcome, rx, thread>>
  BY ServerMoves
<1>2. Count(rx', i) = 0
  BY <1>1 DEF NoneLeft
<1> SUFFICES ASSUME thread # "done"
             PROVE  /\ Count(stdout', i) = 0 /\ Count(Saying', i) = 0 /\ job' # i
                    /\ \A k \in 1 .. Len(stdin') : ~(stdin'[k].type = "invoke" /\ stdin'[k].id = i)
  BY <1>1, <1>2 DEF NoneLeft
<1>3. /\ Count(stdout, i) = 0 /\ Count(Saying, i) = 0 /\ job # i
      /\ \A k \in 1 .. Len(stdin) : ~(stdin[k].type = "invoke" /\ stdin[k].id = i)
  BY DEF NoneLeft
<1>4. \A k \in 1 .. Len(stdin') : ~(stdin'[k].type = "invoke" /\ stdin'[k].id = i)
  BY <1>3, NoNewInvoke DEF Inv, OutcomeOfCall, Under, Next
<1>5. ASSUME NEW f \in PluginFrame, Says(f), Meant(f)
      PROVE  Count(stdout', i) = 0 /\ Count(Saying', i) = 0 /\ job' # i
  <2>1. ~Own(f, i)
    BY <1>3, <1>5 DEF Meant, Own
  <2> QED BY <1>3, <1>5, <2>1, SaidCounts, SaidOther
<1>6. CASE Wrote
  <2>1. /\ Saying = <<answer>> /\ Saying' = <<>> /\ stdout' = Append(stdout, answer)
        /\ UNCHANGED job /\ answer \in PluginFrame /\ stdout \in Seq(PluginFrame)
    BY <1>6, StreamType DEF Wrote, Inv
  <2>2. ~Own(answer, i) /\ Count(Saying', i) = 0
    BY <1>3, <2>1, CountFew
  <2> QED BY <1>3, <1>4, <2>1, <2>2, CountAppend
<1>7. CASE Unsaid
  <2>1. Saying' = <<>> /\ UNCHANGED stdout /\ job' # i
    BY <1>3, <1>7, FrameIds DEF Unsaid, Inv
  <2>2. Count(Saying', i) = 0
    BY <2>1, CountFew, FrameType DEF PluginType
  <2> QED BY <1>3, <1>4, <2>1, <2>2
<1>8. CASE Strayed
  <2>1. /\ UNCHANGED <<Saying, job>> /\ stdout' = Append(stdout, Control("malformed"))
        /\ stdout \in Seq(PluginFrame) /\ Control("malformed") \in PluginFrame
        /\ ~Own(Control("malformed"), i)
    BY <1>8, StreamType, FrameType DEF Strayed, PluginType, Own, Control, Inv
  <2> QED BY <1>3, <1>4, <2>1, CountAppend
<1> QED BY <1>4, <1>5, <1>6, <1>7, <1>8, ServerMoves

LEMMA NoneLeftClient ==
    ASSUME Inv, Client, NEW i \in RequestId, outcome[i] # "none", NoneLeft(i)
    PROVE  NoneLeft(i)'
<1>1. UNCHANGED <<Saying, job>> /\ rx \in Seq(Received) /\ stdout \in Seq(PluginFrame)
  BY ClientMoves, StreamType DEF Inv
<1>2. /\ Count(rx, i) = 0
      /\ thread # "done" =>
            /\ Count(stdout, i) = 0 /\ Count(Saying, i) = 0 /\ job # i
            /\ \A k \in 1 .. Len(stdin) : ~(stdin[k].type = "invoke" /\ stdin[k].id = i)
  BY DEF NoneLeft
<1>3. /\ thread' # "done" => thread # "done"
      /\ Count(rx', i) = 0
      /\ thread' # "done" => Count(stdout', i) = 0
  <2>1. CASE Forwarding
    <3>1. /\ stdout # <<>> /\ stdout' = Tail(stdout) /\ rx' = Append(rx, Head(stdout))
          /\ thread = "reading" /\ Head(stdout) \in Received
      BY <1>1, <2>1, TailFacts, ReceivedType DEF Forwarding
    <3>2. Gains(Tail(stdout), stdout, Head(stdout), i) /\ Count(stdout', i) \in Nat
      BY <1>1, <3>1, Loss
    <3>3. ~Own(Head(stdout), i) /\ Count(stdout', i) = 0
      BY <1>2, <3>1, <3>2 DEF Gains
    <3> QED BY <1>1, <1>2, <3>1, <3>3, CountAppend
  <2>2. CASE Ending
    <3>1. Eof \in Received /\ ~Own(Eof, i)
      BY ReceivedType DEF Eof, Control, Own
    <3> QED BY <1>1, <1>2, <2>2, <3>1, CountAppend DEF Ending
  <2>3. CASE Taking \/ Breaking \/ Collecting
    <3>1. rx # <<>> /\ rx' = Tail(rx) /\ UNCHANGED <<thread, stdout>>
      BY <2>3 DEF Taking, Breaking, Collecting
    <3>2. Count(rx', i) \in Nat /\ Count(rx', i) <= Count(rx, i)
      BY <1>1, <3>1, Loss
    <3> QED BY <1>2, <3>1, <3>2
  <2>4. CASE Crashing
    BY <2>4, CountFew, FrameType DEF Crashing, PluginType
  <2>5. CASE Skipping \/ Resting
    BY <1>2, <2>5 DEF Skipping, Resting
  <2> QED BY <2>1, <2>2, <2>3, <2>4, <2>5, ClientMoves
<1>4. ~(call = "writing" /\ frame.type = "invoke" /\ frame.id = i)
  BY DEF Inv, OutcomeOfCall, Under
<1>5. thread' # "done" =>
         \A k \in 1 .. Len(stdin') : ~(stdin'[k].type = "invoke" /\ stdin'[k].id = i)
  BY <1>2, <1>3, <1>4, NoNewInvoke DEF Next
<1> QED BY <1>1, <1>2, <1>3, <1>5 DEF NoneLeft

\* The step by which a call returns.
LEMMA NoneLeftNew ==
    ASSUME Inv, Frames, Streams, Client, NEW i \in RequestId, outcome[i] = "none", outcome'[i] # "none"
    PROVE  NoneLeft(i)'
<1>1. /\ UNCHANGED <<Saying, job>> /\ rx \in Seq(Received)
      /\ outcome \in [RequestId -> {"none", "finished", "errored", "closed", "rejected"}]
  BY ClientMoves, StreamType DEF Inv, TypeOK, ClientTypeOK
<1>2. Ordered(i)
  BY DEF Streams, InOrder
<1>3. CASE rx' \in Seq(Received) /\ Len(rx') = 0 /\ thread' = "done"
  <2>1. Count(rx', i) = 0
    <3>1. \A k \in 1 .. Len(rx') : FALSE
      BY <1>3
    <3> QED BY <1>3, <3>1, CountFacts
  <2> QED BY <1>3, <2>1 DEF NoneLeft
<1>4. ASSUME call = "invoking", frame.id = i, rx # <<>>, rx' = Tail(rx), UNCHANGED <<stdout, thread>>,
             Ends(Head(rx), i)
      PROVE  NoneLeft(i)'
  <2>1. Count(rx', i) = 0
    BY <1>1, <1>2, <1>4, OrderlyTail DEF Ordered
  <2>2. EndIn(rx, i)
    BY <1>1, <1>4, CountTail
  <2>3. Count(stdout', i) = 0 /\ Count(Saying', i) = 0
    BY <1>1, <1>2, <1>4, <2>2 DEF Ordered, Precedes
  <2>4. Head(rx) = rx[1] /\ 1 \in 1 .. Len(rx)
    BY <1>1, <1>4, TailFacts
  <2>5. result[i] # "none"
    BY <1>4, <2>4 DEF Inv, ComingHonest, Honest, Ends, Terminal
  <2>6. job # i /\ \A k \in 1 .. Len(stdin) : ~(stdin[k].type = "invoke" /\ stdin[k].id = i)
    BY <2>5, FrameIds DEF Inv, JobOfPhase, InvokeOnce, Fresh
  <2>7. \A k \in 1 .. Len(stdin') : ~(stdin'[k].type = "invoke" /\ stdin'[k].id = i)
    BY <1>4, <2>6, NoNewInvoke DEF Next
  <2> QED BY <1>1, <2>1, <2>3, <2>6, <2>7 DEF NoneLeft
<1>5. CASE Breaking
  <2>1. frame.id = i /\ call = "invoking" /\ rx # <<>> /\ rx' = Tail(rx) /\ UNCHANGED <<stdout, thread>>
    BY <1>1, <1>5 DEF Breaking
  <2>2. /\ Head(rx) = rx[1] /\ Len(rx) \in Nat \ {0} /\ rx' \in Seq(Received)
        /\ Len(rx') = Len(rx) - 1
    BY <1>1, <2>1, TailFacts
  <2>3. CASE ReadError(Head(rx))
    <3>1. 1 = Len(rx) /\ thread = "done"
      BY <2>2, <2>3 DEF Frames, LastError, Inv, ErrorEnds
    <3> QED BY <1>3, <2>1, <2>2, <3>1
  <2>4. CASE OwnError(Head(rx))
    BY <1>4, <2>1, <2>4 DEF OwnError, Ends, Terminal
  <2> QED BY <1>5, <2>3, <2>4 DEF Breaking
<1>6. CASE Collecting
  <2>1. frame.id = i /\ call = "invoking" /\ rx # <<>> /\ rx' = Tail(rx) /\ UNCHANGED <<stdout, thread>>
        /\ Head(rx) = ForRequest("finished", i)
    BY <1>1, <1>6 DEF Collecting
  <2> QED BY <1>4, <2>1 DEF ForRequest, Ends, Terminal
<1>7. CASE Resting
  <2>1. CASE call = "writing" /\ frame.type = "invoke" /\ WriteError /\ frame.id = i
    <3>1. Unheard(i)
      BY <2>1 DEF Unheard
    <3>2. Count(rx, i) = 0 /\ Count(stdout, i) = 0 /\ Count(Saying, i) = 0
      BY <3>1, Quiet DEF Streams, Silent, Inv
    <3>3. job # i /\ \A k \in 1 .. Len(stdin) : ~(stdin[k].type = "invoke" /\ stdin[k].id = i)
      BY <2>1 DEF Inv, InvokeOnce, Fresh
    <3>4. UNCHANGED <<stdin, rx, stdout>>
      BY <2>1 DEF WriteError
    <3> QED BY <1>1, <3>2, <3>3, <3>4 DEF NoneLeft
  <2>2. CASE rx = <<>> /\ thread = "done"
    BY <1>1, <1>3, <1>7, <2>2, EmptyFacts DEF Resting
  <2> QED BY <1>1, <1>7, <2>1, <2>2 DEF Resting
<1> QED BY <1>5, <1>6, <1>7, ClientMoves DEF Forwarding, Skipping, Ending, Taking, Crashing

LEMMA NoneLeftStep ==
    ASSUME Inv, Frames, Streams, [Next]_vars, NEW i \in RequestId
    PROVE  NoneLeft(i)'
<1>0. NoneLeft(i)
  BY DEF Streams
<1>1. CASE Server
  <2>1. UNCHANGED outcome
    BY <1>1, ServerMoves
  <2> QED BY <1>0, <1>1, <2>1, NoneLeftServer DEF NoneLeft
<1>2. CASE Client
  BY <1>0, <1>2, NoneLeftClient, NoneLeftNew DEF NoneLeft
<1>3. CASE UNCHANGED vars
  BY <1>0, <1>3 DEF NoneLeft, Saying, vars, clientVars, serverVars, transportVars
<1> QED BY <1>1, <1>2, <1>3 DEF Next, Stop

LEMMA StreamsInit == Init => Streams
<1> SUFFICES ASSUME Init, NEW i \in RequestId
             PROVE  Silent(i) /\ InOrder(i) /\ Complete(i) /\ Collected(i) /\ OnlyProper(i) /\ NoneLeft(i)
  BY DEF Streams
<1>1. /\ rx = <<>> /\ stdout = <<>> /\ Saying = <<>> /\ transcript[i] = <<>>
      /\ outcome[i] = "none" /\ emitted[i] = 0 /\ job = None
  BY DEF Init, TransportInit, ClientInit, ServerInit, Saying
<1>2. /\ Count(<<>>, i) = 0 /\ ~FinishIn(<<>>, i)
  BY CountFew, FrameType DEF PluginType
<1>3. Total(i) = 0 /\ ~Due(i)
  BY <1>1, <1>2 DEF Total, Due
<1>4. TypeOK
  BY TypeInit
<1>5. Ordered(i)
  BY <1>3, <1>4, Quiet
<1>6. job # i
  BY <1>1, <1>4, FrameIds
<1>7. OnlyProper(i)
  BY <1>1, EmptyFacts DEF OnlyProper
<1> QED BY <1>1, <1>3, <1>5, <1>6, <1>7 DEF Silent, InOrder, Complete, Collected, NoneLeft

LEMMA StreamsStep ==
    ASSUME Inv, Inv', Frames, Frames', Streams, [Next]_vars
    PROVE  Streams'
<1> SUFFICES ASSUME NEW i \in RequestId
             PROVE  Silent(i)' /\ InOrder(i)' /\ Complete(i)' /\ Collected(i)' /\ OnlyProper(i)'
                    /\ NoneLeft(i)'
  BY DEF Streams
<1>1. LastError /\ LastError'
  BY DEF Frames
<1>2. Silent(i) /\ InOrder(i) /\ Complete(i) /\ Collected(i) /\ OnlyProper(i)
  BY DEF Streams
<1>3. Silent(i)'
  BY <1>1, <1>2, SilentStep
<1>4. InOrder(i)'
  BY <1>1, <1>2, InOrderStep
<1>5. Complete(i)'
  BY <1>1, <1>2, CompleteStep
<1>6. Collected(i)'
  BY <1>1, <1>2, CollectedStep
<1>7. OnlyProper(i)'
  BY OnlyProperStep
<1>8. NoneLeft(i)'
  BY NoneLeftStep
<1> QED BY <1>3, <1>4, <1>5, <1>6, <1>7, <1>8

\* What was collected, as the owner of the transcript reads it.
LEMMA CollectedWhole == TypeOK /\ Streams => TranscriptComplete
<1> SUFFICES ASSUME TypeOK, Streams, NEW i \in RequestId, outcome[i] = "finished"
             PROVE  LET whole == transcript[i]
                        own == {k \in 1 .. Len(whole) : request_id(whole[k]) = i}
                    IN /\ Cardinality(own) = emitted[i] + 2
                       /\ \A k \in own :
                             /\ whole[k].type = "started" <=> \A m \in own : k <= m
                             /\ whole[k].type = "finished" <=> k = Len(whole)
                       /\ \A k \in (1 .. Len(whole)) \ own : whole[k].type \in {"pong", "error"}
  BY DEF TranscriptComplete
<1> DEFINE whole == transcript[i]
           own == {k \in 1 .. Len(whole) : request_id(whole[k]) = i}
<1>1. /\ Count(whole, i) = emitted[i] + 2
      /\ StartIn(whole, i) /\ Orderly(whole, i)
      /\ Len(whole) > 0 /\ whole[Len(whole)] = ForRequest("finished", i)
      /\ \A k \in 1 .. Len(whole) : Proper(whole[k], i)
  BY DEF Streams, Collected, OnlyProper
<1>2. Len(whole) \in Nat
  BY StreamType
<1> HIDE DEF whole
<1>3. \A k \in 1 .. Len(whole) : request_id(whole[k]) = i <=> Own(whole[k], i)
  BY <1>1, FrameIds DEF Proper, Own, request_id
<1>4. own = {k \in 1 .. Len(whole) : Own(whole[k], i)}
  BY <1>3
<1>5. Cardinality(own) = emitted[i] + 2
  BY <1>1, <1>4 DEF Count
<1>6. \A k \in own : k \in 1 .. Len(whole) /\ Own(whole[k], i) /\ k \in Nat
  BY <1>2, <1>4
<1>7. \A k \in 1 .. Len(whole) : Own(whole[k], i) => k \in own
  BY <1>4
<1>8. \A k \in (1 .. Len(whole)) \ own : whole[k].type \in {"pong", "error"}
  BY <1>1, <1>7 DEF Proper
<1>9. Len(whole) \in own /\ whole[Len(whole)].type = "finished"
  BY <1>1, <1>2, <1>7 DEF Own, ForRequest
<1>10. PICK s \in own : whole[s].type = "started"
  BY <1>1, <1>7 DEF StartIn, Own
<1> HIDE DEF own
<1>11. ASSUME NEW k \in own
       PROVE  /\ whole[k].type = "started" <=> \A m \in own : k <= m
              /\ whole[k].type = "finished" <=> k = Len(whole)
  <2>1. ASSUME whole[k].type = "started", NEW m \in own PROVE k <= m
    BY <1>1, <1>6, <2>1 DEF Orderly
  <2>2. ASSUME \A m \in own : k <= m PROVE whole[k].type = "started"
    <3>1. k <= s /\ k \in Nat /\ s \in Nat
      BY <1>6, <2>2
    <3>2. ~(k < s)
      BY <1>1, <1>6, <1>10 DEF Orderly
    <3> QED BY <1>10, <3>1, <3>2
  <2>3. ASSUME whole[k].type = "finished" PROVE k = Len(whole)
    <3>1. Ends(whole[k], i) /\ k <= Len(whole) /\ k \in Nat
      BY <1>2, <1>6, <2>3 DEF Ends, Terminal, Own
    <3>2. ~(k < Len(whole))
      BY <1>1, <1>6, <1>9, <3>1 DEF Orderly
    <3> QED BY <1>2, <3>1, <3>2
  <2> QED BY <1>9, <2>1, <2>2, <2>3
<1> QED BY <1>5, <1>8, <1>11 DEF whole, own

\* An invoke that returns Ok hands its caller every frame of its request, once
\* and in order, and nothing of another request but pongs and errors, whatever
\* the pipes held, whoever was cancelled and however often (worker.rs 203-228).
THEOREM TranscriptsWhole == Spec => []TranscriptComplete
<1>1. Init => Frames /\ Streams
  BY FramesInit, StreamsInit
<1>2. Inv /\ Inv' /\ Frames /\ Streams /\ [Next]_vars => Frames' /\ Streams'
  BY FramesStep, StreamsStep
<1>3. Inv /\ Streams => TranscriptComplete
  BY CollectedWhole DEF Inv
<1> QED BY <1>1, <1>2, <1>3, Invariant, PTL DEF Spec
=============================================================================

------------------------ MODULE ServerAnyHostProofs ------------------------
(***************************************************************************)
(* What serve_worker guarantees against any host, for any number of        *)
(* requests, any pipe capacity and any handler.                            *)
(***************************************************************************)
EXTENDS ServerAnyHost, TLAPS

\* tx.send leaves a queue of frames a queue of frames.
LEMMA SendType ==
    ASSUME NEW q \in Seq(PluginFrame), NEW f \in PluginFrame
    PROVE  SendTo(q, f) \in Seq(PluginFrame)
BY DEF SendTo

\* The frames the server builds are plugin frames.
LEMMA FrameType ==
    /\ \A t \in PluginType : Control(t) \in PluginFrame
    /\ \A t \in PluginType, i \in RequestId \cup {None} : ForRequest(t, i) \in PluginFrame
    /\ \A t \in PluginType, n \in Nonce \cup {None} : WithNonce(t, n) \in PluginFrame
BY DEF Control, ForRequest, WithNonce, PluginFrame, None

\* Taking the head of the host's pipe.
LEMMA StdinHead ==
    ASSUME TypeOK, stdin # <<>>
    PROVE  /\ Head(stdin) \in HostFrame
           /\ Tail(stdin) \in Seq(HostFrame)
           /\ Len(Tail(stdin)) <= PipeCapacity
BY TransportAssumption DEF TypeOK, TransportTypeOK

\* A write by the plugin keeps the pipe a bounded queue of frames.
LEMMA StdoutWrite ==
    ASSUME TypeOK, NEW f \in PluginFrame, PluginWrites(f)
    PROVE  stdout' \in Seq(PluginFrame) /\ Len(stdout') <= PipeCapacity
BY TransportAssumption DEF TypeOK, TransportTypeOK, PluginWrites, StdoutHasRoom

\* The empty queues.
LEMMA EmptyType == <<>> \in Seq(HostFrame) /\ <<>> \in Seq(PluginFrame) /\ Len(<<>>) = 0
OBVIOUS

LEMMA TypeInit == Init => TypeOK
<1> SUFFICES ASSUME Init PROVE TypeOK
  OBVIOUS
<1>1. TransportTypeOK
  <2>1. stdin \in Seq(HostFrame) /\ stdout \in Seq(PluginFrame)
    BY EmptyType DEF Init, HostInit
  <2>2. Len(stdin) <= PipeCapacity /\ Len(stdout) <= PipeCapacity
    BY TransportAssumption, EmptyType DEF Init, HostInit
  <2>3. stdinOpen \in BOOLEAN /\ stdoutOpen \in BOOLEAN /\ killed \in BOOLEAN
    BY Zenon DEF Init, HostInit
  <2> QED BY <2>1, <2>2, <2>3 DEF Init, HostInit, TransportTypeOK
<1>2. ServerTypeOK
  BY ServerAssumption, EmptyType DEF Init, ServerInit, ServerTypeOK, Phase, TaskState, None
<1> QED BY <1>1, <1>2, HostAssumption DEF Init, HostInit, TypeOK

LEMMA TypeStep == TypeOK /\ [Next]_vars => TypeOK'
<1> SUFFICES ASSUME TypeOK, [Next]_vars PROVE TypeOK'
  OBVIOUS
<1> USE TransportAssumption, ServerAssumption, HostAssumption
<1>1. CASE HostSends /\ UNCHANGED serverVars
  <2>1. PICK f \in AnyFrame : HostWrites(f)
    BY <1>1 DEF HostSends
  <2>2. f \in HostFrame
    BY <2>1 DEF AnyFrame, HostFrame, HostType, Control, ForRequest, WithNonce, None
  <2>3. stdin' \in Seq(HostFrame) /\ Len(stdin') <= PipeCapacity
    BY <2>1, <2>2 DEF TypeOK, TransportTypeOK, HostWrites
  <2> QED BY <1>1, <2>3 DEF HostSends, TypeOK, TransportTypeOK, ServerTypeOK, serverVars
<1>2. CASE HostReads /\ UNCHANGED serverVars
  BY <1>2 DEF HostReads, TypeOK, TransportTypeOK, ServerTypeOK, serverVars
<1>3. CASE (HostClosesStdin \/ HostClosesStdout) /\ UNCHANGED serverVars
  BY <1>3 DEF HostClosesStdin, HostClosesStdout, TypeOK, TransportTypeOK, ServerTypeOK,
              serverVars
<1>4. CASE ServeHello /\ UNCHANGED sent
  <2>1. stdout' \in Seq(PluginFrame) /\ Len(stdout') <= PipeCapacity
    <3>1. Control("hello") \in PluginFrame
      BY FrameType DEF PluginType
    <3>2. CASE PluginWrites(Control("hello"))
      BY <3>1, <3>2, StdoutWrite
    <3>3. CASE UNCHANGED stdout
      BY <3>3 DEF TypeOK, TransportTypeOK
    <3> QED BY <1>4, <3>2, <3>3 DEF ServeHello
  <2> QED BY <1>4, <2>1, StdinHead DEF ServeHello, TypeOK, TransportTypeOK, ServerTypeOK, Phase
<1>5. CASE (RefuseHello \/ ReadTorn \/ ReadPartial \/ LoopShutdown) /\ UNCHANGED sent
  BY <1>5, StdinHead DEF RefuseHello, ReadTorn, ReadPartial, LoopShutdown, Receive, TypeOK,
                         TransportTypeOK, ServerTypeOK, Phase
<1>6. CASE LoopHello /\ UNCHANGED sent
  <2>1. ForRequest("error", None) \in PluginFrame
    BY FrameType DEF PluginType
  <2>2. outq' \in Seq(PluginFrame)
    BY <1>6, <2>1, SendType DEF LoopHello, Send, TypeOK, ServerTypeOK
  <2> QED BY <1>6, <2>2, StdinHead DEF LoopHello, Receive, TypeOK, TransportTypeOK, ServerTypeOK
<1>7. CASE LoopPing /\ UNCHANGED sent
  <2>1. Head(stdin) \in HostFrame
    BY <1>7, StdinHead DEF LoopPing, Receive
  <2>2. WithNonce("pong", Head(stdin).nonce) \in PluginFrame
    BY <2>1, FrameType DEF PluginType, HostFrame
  <2>3. outq' \in Seq(PluginFrame)
    BY <1>7, <2>2, SendType DEF LoopPing, Send, TypeOK, ServerTypeOK
  <2> QED BY <1>7, <2>3, StdinHead DEF LoopPing, Receive, TypeOK, TransportTypeOK, ServerTypeOK
<1>8. CASE LoopCancel /\ UNCHANGED sent
  <2>1. Head(stdin) \in HostFrame
    BY <1>8, StdinHead DEF LoopCancel, Receive
  <2>2. cancelId' \in RequestId \cup {None} /\ cancelled' \subseteq RequestId
    BY <1>8, <2>1 DEF LoopCancel, TokenCancelled, HostFrame, TypeOK, ServerTypeOK
  <2> QED BY <1>8, <2>2, StdinHead DEF LoopCancel, Receive, TypeOK, TransportTypeOK,
                                       ServerTypeOK, Phase
<1>9. CASE CancelReturns /\ UNCHANGED sent
  <2>1. ForRequest("error", cancelId) \in PluginFrame
    BY FrameType DEF PluginType, TypeOK, ServerTypeOK
  <2>2. outq' \in Seq(PluginFrame)
    BY <1>9, <2>1, SendType DEF CancelReturns, Send, TypeOK, ServerTypeOK
  <2> QED BY <1>9, <2>2 DEF CancelReturns, TypeOK, TransportTypeOK, ServerTypeOK, Phase,
                            transportVars
<1>10. CASE DrainDone /\ UNCHANGED sent
  <2>1. Control("shutdown_ack") \in PluginFrame
    BY FrameType DEF PluginType
  <2>2. outq' \in Seq(PluginFrame)
    BY <1>10, <2>1, SendType DEF DrainDone, Send, TypeOK, ServerTypeOK
  <2> QED BY <1>10, <2>2 DEF DrainDone, TypeOK, TransportTypeOK, ServerTypeOK, Phase,
                             transportVars
<1>11. CASE LoopInvoke /\ UNCHANGED sent
  <2> DEFINE i == Head(stdin).id
  <2>1. i \in RequestId
    BY <1>11, StdinHead DEF LoopInvoke, Receive, HostFrame
  <2>2. ForRequest("error", i) \in PluginFrame /\ ForRequest("started", i) \in PluginFrame
    BY <2>1, FrameType DEF PluginType
  <2>3. outq' \in Seq(PluginFrame)
    <3>1. CASE Send(ForRequest("error", i))
      BY <3>1, <2>2, SendType DEF Send, TypeOK, ServerTypeOK
    <3>2. CASE Send(ForRequest("started", i))
      BY <3>2, <2>2, SendType DEF Send, TypeOK, ServerTypeOK
    <3> QED BY <1>11, <3>1, <3>2 DEF LoopInvoke
  <2>4. /\ serverPending' \subseteq RequestId
        /\ cancelled' \subseteq RequestId
        /\ task' \in [RequestId -> TaskState]
        /\ emitted' \in [RequestId -> 0 .. MaxEvents]
        /\ result' \in [RequestId -> {"none", "finished", "error", "panicked"}]
    <3>1. CASE UNCHANGED <<serverPending, cancelled, task, emitted, result>>
      BY <3>1 DEF TypeOK, ServerTypeOK
    <3>2. CASE /\ serverPending' = serverPending \cup {i}
               /\ cancelled' = cancelled \ {i}
               /\ task' = [task EXCEPT ![i] = "running"]
               /\ emitted' = [emitted EXCEPT ![i] = 0]
               /\ result' = [result EXCEPT ![i] = "none"]
      BY <3>2, <2>1 DEF TypeOK, ServerTypeOK, TaskState
    <3> QED BY <1>11, <3>1, <3>2 DEF LoopInvoke
  <2> QED BY <1>11, <2>3, <2>4, StdinHead DEF LoopInvoke, Receive, TypeOK, TransportTypeOK,
                                              ServerTypeOK
<1>12. CASE ReadEof /\ UNCHANGED sent
  BY <1>12 DEF ReadEof, TypeOK, TransportTypeOK, ServerTypeOK, Phase, transportVars
<1>13. ASSUME NEW i \in RequestId, HandlerTask(i), UNCHANGED sent PROVE TypeOK'
  <2>1. CASE TaskEvent(i)
    <3>1. ForRequest("event", i) \in PluginFrame
      BY FrameType DEF PluginType
    <3>2. outq' \in Seq(PluginFrame)
      BY <2>1, <3>1, SendType DEF TaskEvent, Send, TypeOK, ServerTypeOK
    <3> QED BY <1>13, <2>1, <3>2 DEF TaskEvent, TypeOK, TransportTypeOK, ServerTypeOK,
                                     transportVars
  <2>2. CASE TaskReturn(i)
    <3>1. \A r \in {"finished", "error"} : ForRequest(r, i) \in PluginFrame
      BY FrameType DEF PluginType
    <3>2. outq' \in Seq(PluginFrame)
      <4>1. PICK r \in {"finished", "error"} : Send(ForRequest(r, i))
        BY <2>2 DEF TaskReturn
      <4>2. ForRequest(r, i) \in PluginFrame
        BY <3>1
      <4> QED BY <4>1, <4>2, SendType DEF Send, TypeOK, ServerTypeOK
    <3> QED BY <1>13, <2>2, <3>2 DEF TaskReturn, TypeOK, TransportTypeOK, ServerTypeOK,
                                     TaskState, transportVars
  <2>3. CASE TaskRemove(i) \/ TaskPanic(i)
    BY <1>13, <2>3 DEF TaskRemove, Released, TaskPanic, TypeOK, TransportTypeOK, ServerTypeOK,
                       TaskState, transportVars
  <2> QED BY <1>13, <2>1, <2>2, <2>3 DEF HandlerTask
<1>14. CASE StrayOutput /\ UNCHANGED sent
  <2>1. Control("malformed") \in PluginFrame
    BY FrameType DEF PluginType
  <2>2. stdout' \in Seq(PluginFrame) /\ Len(stdout') <= PipeCapacity
    BY <1>14, <2>1, StdoutWrite DEF StrayOutput
  <2> QED BY <1>14, <2>2 DEF StrayOutput, TypeOK, TransportTypeOK, ServerTypeOK, serverVars
<1>15. CASE WriterWrites /\ UNCHANGED sent
  <2>1. Head(outq) \in PluginFrame /\ Tail(outq) \in Seq(PluginFrame)
    BY <1>15 DEF WriterWrites, TypeOK, ServerTypeOK
  <2>2. stdout' \in Seq(PluginFrame) /\ Len(stdout') <= PipeCapacity
    BY <1>15, <2>1, StdoutWrite DEF WriterWrites
  <2> QED BY <1>15, <2>1, <2>2 DEF WriterWrites, TypeOK, TransportTypeOK, ServerTypeOK
<1>16. CASE (WriterFails \/ WriterEnds) /\ UNCHANGED sent
  BY <1>16, EmptyType DEF WriterFails, WriterEnds, TypeOK, TransportTypeOK, ServerTypeOK,
                          transportVars
<1>17. CASE (ServeReturns \/ ProcessKilled) /\ UNCHANGED sent
  <2>1. ProcessEnds
    BY <1>17 DEF ServeReturns, ProcessKilled
  <2>2. TransportTypeOK'
    BY <2>1, EmptyType DEF ProcessEnds, TypeOK, TransportTypeOK
  <2>3. ServerTypeOK'
    BY <2>1, EmptyType DEF ProcessEnds, TypeOK, ServerTypeOK, Phase, TaskState, None
  <2> QED BY <1>17, <2>2, <2>3 DEF TypeOK
<1>18. CASE UNCHANGED vars
  BY <1>18 DEF vars, transportVars, serverVars, TypeOK, TransportTypeOK, ServerTypeOK
<1> QED
  BY <1>1, <1>2, <1>3, <1>4, <1>5, <1>6, <1>7, <1>8, <1>9, <1>10, <1>11, <1>12, <1>13, <1>14,
     <1>15, <1>16, <1>17, <1>18
  DEF Next, Host, AnyHostNext, Server, ServerNext, ReadLoop, WriterLoop

\* serve_worker's state keeps its type: pipes never hold more than they can,
\* the maps hold request ids only, whatever the host writes.
THEOREM TypeCorrect == Spec => []TypeOK
BY TypeInit, TypeStep, PTL DEF Spec

(***************************************************************************)
(* The pending map and the JoinSet.                                        *)
(***************************************************************************)
LEMMA PendingStep == TypeOK /\ PendingMatchesTasks /\ [Next]_vars => PendingMatchesTasks'
<1> SUFFICES ASSUME TypeOK, PendingMatchesTasks, [Next]_vars PROVE PendingMatchesTasks'
  OBVIOUS
<1>1. CASE UNCHANGED <<serverPending, task, result>>
  BY <1>1 DEF PendingMatchesTasks, LiveTasks
<1>2. CASE LoopInvoke
  <2> DEFINE i == Head(stdin).id
  <2>1. i \in RequestId
    BY <1>2, StdinHead DEF LoopInvoke, Receive, HostFrame
  <2>2. CASE /\ serverPending' = serverPending \cup {i}
             /\ task' = [task EXCEPT ![i] = "running"]
             /\ result' = [result EXCEPT ![i] = "none"]
    BY <2>1, <2>2 DEF PendingMatchesTasks, LiveTasks, TypeOK, ServerTypeOK
  <2> QED BY <1>1, <1>2, <2>2 DEF LoopInvoke
<1>3. ASSUME NEW i \in RequestId, HandlerTask(i) PROVE PendingMatchesTasks'
  <2>1. CASE TaskEvent(i)
    BY <1>1, <2>1 DEF TaskEvent
  <2>2. CASE TaskReturn(i)
    <3>1. LiveTasks' = LiveTasks /\ UNCHANGED serverPending /\ i \in LiveTasks
      BY <2>2 DEF TaskReturn, LiveTasks, TypeOK, ServerTypeOK
    <3>2. \A j \in RequestId \ {i} : result'[j] = result[j]
      BY <2>2 DEF TaskReturn, TypeOK, ServerTypeOK
    <3> QED BY <3>1, <3>2 DEF PendingMatchesTasks, TypeOK, ServerTypeOK
  <2>3. CASE TaskRemove(i)
    BY <2>3 DEF TaskRemove, Released, PendingMatchesTasks, LiveTasks, TypeOK, ServerTypeOK
  <2>4. CASE TaskPanic(i)
    BY <2>4 DEF TaskPanic, PendingMatchesTasks, LiveTasks, TypeOK, ServerTypeOK
  <2> QED BY <1>3, <2>1, <2>2, <2>3, <2>4 DEF HandlerTask
<1>4. CASE ProcessEnds
  BY <1>4 DEF ProcessEnds, PendingMatchesTasks, LiveTasks
<1>5. CASE Host
  BY <1>1, <1>5 DEF Host, AnyHostNext, HostSends, HostReads, HostClosesStdin, HostClosesStdout, serverVars
<1>6. CASE ReadLoop \/ WriterLoop \/ StrayOutput
  BY <1>1, <1>2, <1>6
  DEF ReadLoop, ServeHello, RefuseHello, LoopHello, LoopPing, LoopCancel, CancelReturns,
      LoopShutdown, DrainDone, ReadTorn, ReadPartial, ReadEof, WriterLoop, WriterWrites,
      WriterFails, WriterEnds, StrayOutput, serverVars
<1>7. CASE UNCHANGED vars
  BY <1>1, <1>7 DEF vars, serverVars
<1> QED
  BY <1>3, <1>4, <1>5, <1>6, <1>7 DEF Next, Server, ServerNext, ServeReturns, ProcessKilled

\* A request id is in the pending map exactly while its handler task is in
\* the JoinSet, a panicked handler's id for ever: duplicate_request is never
\* said of an id whose request is over, and no entry outlives its task.
THEOREM PendingCorrect == Spec => []PendingMatchesTasks
<1>1. Init => PendingMatchesTasks
  BY DEF Init, ServerInit, PendingMatchesTasks, LiveTasks
<1> QED BY <1>1, TypeCorrect, PendingStep, PTL DEF Spec

(***************************************************************************)
(* The acknowledgement.  AckIsLast speaks of stdout \o outq; the inductive  *)
(* form speaks of the two queues apart, so that a frame moving from one to *)
(* the other keeps its place.                                              *)
(***************************************************************************)
Closed == LiveTasks = {} /\ phase \in {"closing", "exited"}

AckInv ==
    /\ \A k \in 1 .. Len(stdout) :
          stdout[k].type = "shutdown_ack" =>
              /\ Closed
              /\ \A m \in (k + 1) .. Len(stdout) : Late(stdout[m])
              /\ \A m \in 1 .. Len(outq) : Late(outq[m])
    /\ \A k \in 1 .. Len(outq) :
          outq[k].type = "shutdown_ack" =>
              /\ Closed
              /\ \A m \in (k + 1) .. Len(outq) : Late(outq[m])

\* Nothing on the wire is an acknowledgement yet.
Unacknowledged ==
    /\ \A k \in 1 .. Len(stdout) : stdout[k].type # "shutdown_ack"
    /\ \A k \in 1 .. Len(outq) : outq[k].type # "shutdown_ack"

\* Before the server closes there is no acknowledgement.
LEMMA OpenUnacknowledged == AckInv /\ ~Closed => Unacknowledged
BY DEF AckInv, Unacknowledged

\* Without an acknowledgement the invariant says nothing.
LEMMA UnacknowledgedAck == Unacknowledged => AckInv
BY DEF AckInv, Unacknowledged

\* One more frame, other than an acknowledgement, queued before the close.
LEMMA SendBeforeClose ==
    ASSUME TypeOK, AckInv, ~Closed, NEW f \in PluginFrame, f.type # "shutdown_ack",
           Send(f), UNCHANGED stdout
    PROVE  AckInv'
<1>1. Unacknowledged
  BY OpenUnacknowledged
<1>2. Unacknowledged'
  BY <1>1 DEF Unacknowledged, Send, SendTo, TypeOK, ServerTypeOK
<1>3. Unacknowledged' => AckInv'
  BY DEF AckInv, Unacknowledged
<1> QED BY <1>2, <1>3

\* The queues lose frames at most, and nothing reopens the server.
LEMMA QueuesShrink ==
    ASSUME TypeOK, AckInv, Closed => Closed', stdout' = stdout,
           outq' = outq \/ outq' = <<>>
    PROVE  AckInv'
<1>1. CASE outq' = outq
  BY <1>1 DEF AckInv
<1>2. CASE outq' = <<>>
  <2>1. \A k \in 1 .. Len(outq') : FALSE
    BY <1>2, EmptyType
  <2> QED BY <2>1 DEF AckInv
<1> QED BY <1>1, <1>2

LEMMA AckStep == TypeOK /\ AckInv /\ [Next]_vars => AckInv'
<1> SUFFICES ASSUME TypeOK, AckInv, [Next]_vars PROVE AckInv'
  OBVIOUS
<1>1. CASE UNCHANGED <<stdout, outq, phase, task>>
  BY <1>1 DEF AckInv, Closed, LiveTasks
<1>2. CASE HostReads /\ UNCHANGED serverVars
  <2>1. /\ Len(stdout') = Len(stdout) - 1
        /\ \A k \in 1 .. Len(stdout') : stdout'[k] = stdout[k + 1]
        /\ Len(stdout) \in Nat
    BY <1>2 DEF HostReads, TypeOK, TransportTypeOK
  <2>2. Closed' = Closed /\ outq' = outq
    BY <1>2 DEF HostReads, serverVars, Closed, LiveTasks
  <2>3. ASSUME NEW k \in 1 .. Len(stdout'), stdout'[k].type = "shutdown_ack"
        PROVE  /\ Closed
               /\ \A m \in (k + 1) .. Len(stdout') : Late(stdout'[m])
               /\ \A m \in 1 .. Len(outq) : Late(outq[m])
    <3>1. k + 1 \in 1 .. Len(stdout) /\ stdout[k + 1].type = "shutdown_ack"
      BY <2>1, <2>3
    <3>2. /\ Closed
          /\ \A m \in (k + 1 + 1) .. Len(stdout) : Late(stdout[m])
          /\ \A m \in 1 .. Len(outq) : Late(outq[m])
      BY <3>1 DEF AckInv
    <3>3. ASSUME NEW m \in (k + 1) .. Len(stdout') PROVE Late(stdout'[m])
      <4>1. m + 1 \in (k + 1 + 1) .. Len(stdout) /\ stdout'[m] = stdout[m + 1]
        BY <2>1
      <4> QED BY <3>2, <4>1
    <3> QED BY <3>2, <3>3
  <2> QED BY <2>2, <2>3 DEF AckInv, Late
<1>3. CASE ServeHello \/ StrayOutput
  <2>1. Unacknowledged
    BY <1>3, OpenUnacknowledged DEF ServeHello, StrayOutput, Closed
  <2>2. Unacknowledged'
    <3>1. UNCHANGED outq
      BY <1>3 DEF ServeHello, StrayOutput, serverVars
    <3>2. CASE UNCHANGED stdout
      BY <2>1, <3>1, <3>2 DEF Unacknowledged
    <3>3. ASSUME NEW t \in {"hello", "malformed"}, PluginWrites(Control(t))
          PROVE  Unacknowledged'
      <4>1. /\ Len(stdout) \in Nat
            /\ Len(stdout') = Len(stdout) + 1
            /\ \A k \in 1 .. Len(stdout) : stdout'[k] = stdout[k]
            /\ stdout'[Len(stdout) + 1] = Control(t)
        BY <3>3 DEF PluginWrites, TypeOK, TransportTypeOK
      <4>2. Control(t).type # "shutdown_ack"
        BY DEF Control
      <4> QED BY <2>1, <3>1, <4>1, <4>2 DEF Unacknowledged
    <3> QED BY <1>3, <3>2, <3>3 DEF ServeHello, StrayOutput
  <2> QED BY <2>2 DEF AckInv, Unacknowledged
<1>4. CASE RefuseHello \/ ReadTorn \/ ReadPartial \/ LoopShutdown \/ LoopCancel \/ ReadEof
  BY <1>4, QueuesShrink DEF RefuseHello, ReadTorn, ReadPartial, LoopShutdown, LoopCancel,
                            ReadEof, Receive, Closed, transportVars
<1>5. CASE LoopHello
  <2>1. ForRequest("error", None) \in PluginFrame
    BY FrameType DEF PluginType
  <2> QED BY <1>5, <2>1, SendBeforeClose DEF LoopHello, Receive, Closed, ForRequest
<1>6. CASE LoopPing
  <2>1. WithNonce("pong", Head(stdin).nonce) \in PluginFrame
    BY <1>6, StdinHead, FrameType DEF LoopPing, Receive, PluginType, HostFrame
  <2> QED BY <1>6, <2>1, SendBeforeClose DEF LoopPing, Receive, Closed, WithNonce
<1>7. CASE CancelReturns
  <2>1. ForRequest("error", cancelId) \in PluginFrame
    BY FrameType DEF PluginType, TypeOK, ServerTypeOK
  <2>2. CASE UNCHANGED outq
    BY <1>7, <2>2, QueuesShrink DEF CancelReturns, Closed, transportVars
  <2>3. CASE Send(ForRequest("error", cancelId))
    BY <1>7, <2>1, <2>3, SendBeforeClose DEF CancelReturns, Closed, ForRequest, transportVars
  <2> QED BY <1>7, <2>2, <2>3 DEF CancelReturns
<1>8. CASE DrainDone
  <2>1. Unacknowledged
    BY <1>8, OpenUnacknowledged DEF DrainDone, Closed
  <2>2. Closed' /\ UNCHANGED stdout
    BY <1>8 DEF DrainDone, AllJoined, Closed, LiveTasks, transportVars
  <2>3. CASE outq' = outq
    BY <2>1, <2>2, <2>3 DEF AckInv, Unacknowledged
  <2>4. CASE outq' = Append(outq, Control("shutdown_ack"))
    <3>1. /\ Len(outq) \in Nat
          /\ Len(outq') = Len(outq) + 1
          /\ \A k \in 1 .. Len(outq) : outq'[k] = outq[k]
      BY <2>4 DEF TypeOK, ServerTypeOK
    <3> QED BY <2>1, <2>2, <3>1 DEF AckInv, Unacknowledged
  <2> QED BY <1>8, <2>3, <2>4 DEF DrainDone, Send, SendTo
<1>9. CASE LoopInvoke
  <2> DEFINE i == Head(stdin).id
  <2>1. i \in RequestId
    BY <1>9, StdinHead DEF LoopInvoke, Receive, HostFrame
  <2>2. ForRequest("error", i) \in PluginFrame /\ ForRequest("started", i) \in PluginFrame
    BY <2>1, FrameType DEF PluginType
  <2>3. Send(ForRequest("error", i)) \/ Send(ForRequest("started", i))
    BY <1>9 DEF LoopInvoke
  <2>4. ~Closed /\ UNCHANGED stdout
    BY <1>9 DEF LoopInvoke, Receive, Closed
  <2> QED BY <2>2, <2>3, <2>4, SendBeforeClose DEF ForRequest
<1>10. ASSUME NEW i \in RequestId, HandlerTask(i) PROVE AckInv'
  <2>1. CASE task[i] # "none"
    <3>1. ~Closed
      BY <2>1 DEF Closed, LiveTasks
    <3>2. /\ ForRequest("event", i) \in PluginFrame
          /\ ForRequest("finished", i) \in PluginFrame
          /\ ForRequest("error", i) \in PluginFrame
      BY FrameType DEF PluginType
    <3>3. UNCHANGED stdout
      BY <1>10 DEF HandlerTask, TaskEvent, TaskReturn, TaskRemove, TaskPanic, transportVars
    <3>4. \/ UNCHANGED outq
          \/ \E t \in {"event", "finished", "error"} : Send(ForRequest(t, i))
      BY <1>10 DEF HandlerTask, TaskEvent, TaskReturn, TaskRemove, TaskPanic
    <3>5. CASE UNCHANGED outq
      BY <3>1, <3>3, <3>5, QueuesShrink
    <3> QED BY <3>1, <3>2, <3>3, <3>4, <3>5, SendBeforeClose DEF ForRequest
  <2>2. CASE task[i] = "none"
    <3>1. TaskEvent(i) /\ i \in Leaky
      BY <1>10, <2>2 DEF HandlerTask, TaskEvent, TaskReturn, TaskRemove, TaskPanic
    <3>2. Closed' = Closed /\ UNCHANGED stdout
      BY <3>1 DEF TaskEvent, Closed, LiveTasks, transportVars
    <3>3. CASE outq' = outq
      BY <3>2, <3>3 DEF AckInv
    <3>4. CASE outq' = Append(outq, ForRequest("event", i))
      <4>1. /\ Len(outq) \in Nat
            /\ Len(outq') = Len(outq) + 1
            /\ \A k \in 1 .. Len(outq) : outq'[k] = outq[k]
            /\ outq'[Len(outq) + 1] = ForRequest("event", i)
        BY <3>4 DEF TypeOK, ServerTypeOK
      <4>2. Late(ForRequest("event", i)) /\ ForRequest("event", i).type # "shutdown_ack"
        BY <3>1 DEF Late, ForRequest
      <4> QED BY <3>2, <4>1, <4>2 DEF AckInv
    <3> QED BY <3>1, <3>3, <3>4 DEF TaskEvent, Send, SendTo
  <2> QED BY <2>1, <2>2
<1>11. CASE WriterWrites
  <2>1. /\ outq # <<>>
        /\ Len(outq) \in Nat /\ Len(stdout) \in Nat
        /\ Len(outq') = Len(outq) - 1
        /\ \A k \in 1 .. Len(outq') : outq'[k] = outq[k + 1]
        /\ Len(stdout') = Len(stdout) + 1
        /\ \A k \in 1 .. Len(stdout) : stdout'[k] = stdout[k]
        /\ stdout'[Len(stdout) + 1] = outq[1]
        /\ Len(outq) >= 1
    BY <1>11 DEF WriterWrites, PluginWrites, TypeOK, TransportTypeOK, ServerTypeOK
  <2>2. Closed' = Closed
    BY <1>11 DEF WriterWrites, Closed, LiveTasks
  <2>3. ASSUME NEW k \in 1 .. Len(outq'), outq'[k].type = "shutdown_ack"
        PROVE  Closed /\ \A m \in (k + 1) .. Len(outq') : Late(outq'[m])
    <3>1. k + 1 \in 1 .. Len(outq) /\ outq[k + 1].type = "shutdown_ack"
      BY <2>1, <2>3
    <3>2. Closed /\ \A m \in (k + 1 + 1) .. Len(outq) : Late(outq[m])
      BY <3>1 DEF AckInv
    <3>3. ASSUME NEW m \in (k + 1) .. Len(outq') PROVE Late(outq'[m])
      <4>1. m + 1 \in (k + 1 + 1) .. Len(outq) /\ outq'[m] = outq[m + 1]
        BY <2>1
      <4> QED BY <3>2, <4>1
    <3> QED BY <3>2, <3>3
  <2>4. ASSUME NEW k \in 1 .. Len(stdout'), stdout'[k].type = "shutdown_ack"
        PROVE  /\ Closed
               /\ \A m \in (k + 1) .. Len(stdout') : Late(stdout'[m])
               /\ \A m \in 1 .. Len(outq') : Late(outq'[m])
    <3>1. CASE k \in 1 .. Len(stdout)
      <4>1. /\ Closed
            /\ \A m \in (k + 1) .. Len(stdout) : Late(stdout[m])
            /\ \A m \in 1 .. Len(outq) : Late(outq[m])
        BY <2>1, <2>4, <3>1 DEF AckInv
      <4>2. \A m \in 1 .. Len(outq') : Late(outq'[m])
        BY <2>1, <4>1
      <4>3. Late(outq[1])
        BY <2>1, <4>1
      <4>4. \A m \in (k + 1) .. Len(stdout') : Late(stdout'[m])
        BY <2>1, <4>1, <4>3
      <4> QED BY <4>1, <4>2, <4>4
    <3>2. CASE k = Len(stdout) + 1
      <4>1. 1 \in 1 .. Len(outq) /\ outq[1].type = "shutdown_ack"
        BY <2>1, <2>4, <3>2
      <4>2. Closed /\ \A m \in (1 + 1) .. Len(outq) : Late(outq[m])
        BY <4>1 DEF AckInv
      <4>3. ASSUME NEW m \in 1 .. Len(outq') PROVE Late(outq'[m])
        <5>1. m + 1 \in (1 + 1) .. Len(outq) /\ outq'[m] = outq[m + 1]
          BY <2>1
        <5> QED BY <4>2, <5>1
      <4> QED BY <2>1, <3>2, <4>2, <4>3
    <3> QED BY <2>1, <3>1, <3>2
  <2> QED BY <2>2, <2>3, <2>4 DEF AckInv, Late
<1>12. CASE WriterFails \/ WriterEnds
  BY <1>12, QueuesShrink DEF WriterFails, WriterEnds, Closed, LiveTasks, transportVars
<1>13. CASE ProcessEnds
  <2>1. Closed'
    BY <1>13 DEF ProcessEnds, Closed, LiveTasks
  <2> QED BY <1>13, <2>1, QueuesShrink DEF ProcessEnds
<1>14. CASE (HostSends \/ HostClosesStdin \/ HostClosesStdout) /\ UNCHANGED serverVars
  BY <1>1, <1>14 DEF HostSends, HostClosesStdin, HostClosesStdout, serverVars
<1>15. CASE UNCHANGED vars
  BY <1>1, <1>15 DEF vars, serverVars, transportVars
<1> QED
  BY <1>2, <1>3, <1>4, <1>5, <1>6, <1>7, <1>8, <1>9, <1>10, <1>11, <1>12, <1>13, <1>14, <1>15
  DEF Next, Host, AnyHostNext, Server, ServerNext, ReadLoop, WriterLoop, ServeReturns, ProcessKilled

\* The place of a frame on the wire.
LEMMA WireIndex ==
    ASSUME TypeOK, NEW k \in 1 .. Len(Wire)
    PROVE  /\ k <= Len(stdout) => k \in 1 .. Len(stdout) /\ Wire[k] = stdout[k]
           /\ k > Len(stdout) => /\ k - Len(stdout) \in 1 .. Len(outq)
                                 /\ Wire[k] = outq[k - Len(stdout)]
BY DEF Wire, TypeOK, TransportTypeOK, ServerTypeOK

LEMMA AckInvImplies == TypeOK /\ AckInv => AckIsLast
<1> SUFFICES ASSUME TypeOK, AckInv, NEW k \in 1 .. Len(Wire), Wire[k].type = "shutdown_ack"
             PROVE  Closed /\ \A m \in (k + 1) .. Len(Wire) : Late(Wire[m])
  BY DEF AckIsLast, Closed
<1>1. Len(stdout) \in Nat /\ Len(outq) \in Nat /\ Len(Wire) = Len(stdout) + Len(outq)
  BY DEF Wire, TypeOK, TransportTypeOK, ServerTypeOK
<1>2. CASE k <= Len(stdout)
  <2>1. k \in 1 .. Len(stdout) /\ stdout[k].type = "shutdown_ack"
    BY <1>2, WireIndex
  <2>2. /\ Closed
        /\ \A m \in (k + 1) .. Len(stdout) : Late(stdout[m])
        /\ \A m \in 1 .. Len(outq) : Late(outq[m])
    BY <2>1 DEF AckInv
  <2>3. ASSUME NEW m \in (k + 1) .. Len(Wire) PROVE Late(Wire[m])
    <3>1. m \in 1 .. Len(Wire)
      BY <1>1
    <3>2. CASE m <= Len(stdout)
      BY <1>1, <2>2, <3>1, <3>2, WireIndex
    <3>3. CASE m > Len(stdout)
      BY <1>1, <2>2, <3>1, <3>3, WireIndex
    <3> QED BY <1>1, <3>1, <3>2, <3>3
  <2> QED BY <2>2, <2>3
<1>3. CASE k > Len(stdout)
  <2> DEFINE j == k - Len(stdout)
  <2>1. j \in 1 .. Len(outq) /\ outq[j].type = "shutdown_ack"
    BY <1>3, WireIndex
  <2>2. Closed /\ \A m \in (j + 1) .. Len(outq) : Late(outq[m])
    BY <2>1 DEF AckInv
  <2>3. ASSUME NEW m \in (k + 1) .. Len(Wire) PROVE Late(Wire[m])
    <3>1. m \in 1 .. Len(Wire) /\ m > Len(stdout)
      BY <1>1, <1>3
    <3>2. Wire[m] = outq[m - Len(stdout)] /\ m - Len(stdout) \in (j + 1) .. Len(outq)
      BY <1>1, <1>3, <3>1, WireIndex
    <3> QED BY <2>2, <3>2
  <2> QED BY <2>2, <2>3
<1> QED BY <1>1, <1>2, <1>3

\* When a host reads ShutdownAck every handler has come back and every frame
\* of theirs has been written before it: only contexts that a handler let
\* outlive it can still be heard.
THEOREM AckCorrect == Spec => []AckIsLast
<1>1. Init => AckInv
  BY DEF Init, HostInit, ServerInit, AckInv
<1> QED BY <1>1, TypeCorrect, AckStep, AckInvImplies, PTL DEF Spec

(***************************************************************************)
(* Sessions on the wire.  The inductive invariant adds to SessionsSeparate *)
(* what the last frame of every id tells about the state of its task:      *)
(* while the writer task lives, an id that is free, or whose task has      *)
(* returned, was last heard with a terminal frame, and an id whose task    *)
(* runs was not last heard with Finished.                                  *)
(***************************************************************************)
Follows(w, j, k) ==
    /\ j < k
    /\ request_id(w[j]) # None
    /\ request_id(w[j]) = request_id(w[k])
    /\ \A m \in (j + 1) .. (k - 1) : request_id(w[m]) # request_id(w[j])

MayFollow(f, g) ==
    /\ f.type = "finished" => g.type \in {"started", "error"} \/ Late(g)
    /\ g.type = "started" => Terminal(f) \/ Late(f)

Separate(w) == \A j, k \in 1 .. Len(w) : Follows(w, j, k) => MayFollow(w[j], w[k])

IsLastOf(w, i, k) ==
    /\ request_id(w[k]) = i
    /\ \A m \in (k + 1) .. Len(w) : request_id(w[m]) # i

\* The last frame of i fits the state of i's task.
Fits(f, i) ==
    /\ i \notin serverPending \/ task[i] = "returned" => Terminal(f) \/ Late(f)
    /\ task[i] = "running" => f.type # "finished"

LastFits ==
    writerTask = "running" =>
        \A i \in RequestId, k \in 1 .. Len(Wire) : IsLastOf(Wire, i, k) => Fits(Wire[k], i)

SessionInv == Separate(Wire) /\ LastFits

LEMMA SessionInvImplies == SessionInv => SessionsSeparate
BY DEF SessionInv, Separate, Follows, MayFollow, SessionsSeparate

\* v is w with f behind it.
Grown(w, v, f) ==
    /\ Len(v) = Len(w) + 1
    /\ \A k \in 1 .. Len(w) : v[k] = w[k]
    /\ v[Len(w) + 1] = f

\* v keeps the frames of w that have an id, from some point on and up to some
\* point, in their order: e gives the place a frame of v has in w.
Thinned(w, v, e) ==
    /\ \A k \in 1 .. Len(v) :
          request_id(v[k]) # None => e[k] \in 1 .. Len(w) /\ w[e[k]] = v[k]
    /\ \A j, k \in 1 .. Len(v) :
          j < k /\ request_id(v[j]) # None /\ request_id(v[k]) # None => e[j] < e[k]
    /\ \A j, k \in 1 .. Len(v), m \in 1 .. Len(w) :
          e[j] < m /\ m < e[k] /\ request_id(w[m]) # None
              => \E n \in 1 .. Len(v) : e[n] = m /\ v[n] = w[m]

\* The same, and nothing at the end is lost.
KeepsLast(w, v, e) ==
    \A k \in 1 .. Len(v), m \in 1 .. Len(w) :
        e[k] < m /\ request_id(w[m]) # None
            => \E n \in 1 .. Len(v) : e[n] = m /\ v[n] = w[m]

\* A frame behind the others is compared with the last one of its id only.
LEMMA GrownSeparate ==
    ASSUME NEW w \in Seq(PluginFrame), NEW v \in Seq(PluginFrame), NEW f \in PluginFrame,
           Grown(w, v, f), Separate(w),
           \A k \in 1 .. Len(w) :
               request_id(f) # None /\ IsLastOf(w, request_id(f), k) => MayFollow(w[k], f)
    PROVE  Separate(v)
<1> SUFFICES ASSUME NEW j \in 1 .. Len(v), NEW k \in 1 .. Len(v), Follows(v, j, k)
             PROVE  MayFollow(v[j], v[k])
  BY DEF Separate
<1>1. Len(w) \in Nat /\ Len(v) = Len(w) + 1
  BY DEF Grown
<1>2. j \in 1 .. Len(w) /\ v[j] = w[j]
  BY <1>1 DEF Follows, Grown
<1>3. CASE k \in 1 .. Len(w)
  <2>1. Follows(w, j, k) /\ v[k] = w[k]
    BY <1>1, <1>2, <1>3 DEF Follows, Grown
  <2> QED BY <1>2, <1>3, <2>1 DEF Separate
<1>4. CASE k = Len(w) + 1
  <2>1. v[k] = f
    BY <1>4 DEF Grown
  <2>2. IsLastOf(w, request_id(f), j) /\ request_id(f) # None
    BY <1>1, <1>2, <1>4, <2>1 DEF IsLastOf, Follows, Grown
  <2> QED BY <1>2, <2>1, <2>2
<1> QED BY <1>1, <1>3, <1>4

LEMMA ThinnedSeparate ==
    ASSUME NEW w \in Seq(PluginFrame), NEW v \in Seq(PluginFrame), NEW e \in [1 .. Len(v) -> Nat],
           Thinned(w, v, e), Separate(w)
    PROVE  Separate(v)
<1> SUFFICES ASSUME NEW j \in 1 .. Len(v), NEW k \in 1 .. Len(v), Follows(v, j, k)
             PROVE  MayFollow(v[j], v[k])
  BY DEF Separate
<1>1. /\ e[j] \in 1 .. Len(w) /\ w[e[j]] = v[j]
      /\ e[k] \in 1 .. Len(w) /\ w[e[k]] = v[k]
      /\ e[j] < e[k]
  BY DEF Thinned, Follows
<1>2. ASSUME NEW m \in (e[j] + 1) .. (e[k] - 1)
      PROVE  request_id(w[m]) # request_id(v[j])
  <2> SUFFICES ASSUME request_id(w[m]) = request_id(v[j]) PROVE FALSE
    OBVIOUS
  <2>1. request_id(w[m]) # None
    BY DEF Follows
  <2>2. m \in 1 .. Len(w) /\ e[j] < m /\ m < e[k]
    BY <1>1
  <2>3. PICK n \in 1 .. Len(v) : e[n] = m /\ v[n] = w[m]
    BY <2>1, <2>2 DEF Thinned
  <2>4. j < n /\ n < k
    <3>1. ~(n < j) /\ n # j
      BY <2>1, <2>2, <2>3 DEF Thinned, Follows
    <3>2. ~(k < n) /\ n # k
      BY <2>1, <2>2, <2>3 DEF Thinned, Follows
    <3> QED BY <3>1, <3>2
  <2>5. n \in (j + 1) .. (k - 1)
    BY <2>4 DEF Follows
  <2>6. request_id(v[n]) # request_id(v[j])
    BY <2>5 DEF Follows
  <2> QED BY <2>3, <2>6
<1>3. Follows(w, e[j], e[k])
  BY <1>1, <1>2 DEF Follows
<1> QED BY <1>1, <1>3 DEF Separate

\* The last frame of an id stays the last one.
LEMMA ThinnedLast ==
    ASSUME NEW w \in Seq(PluginFrame), NEW v \in Seq(PluginFrame), NEW e \in [1 .. Len(v) -> Nat],
           Thinned(w, v, e), KeepsLast(w, v, e),
           NEW i \in RequestId, NEW k \in 1 .. Len(v), IsLastOf(v, i, k)
    PROVE  e[k] \in 1 .. Len(w) /\ w[e[k]] = v[k] /\ IsLastOf(w, i, e[k])
<1>1. i # None
  BY DEF RequestId, None
<1>2. e[k] \in 1 .. Len(w) /\ w[e[k]] = v[k]
  BY <1>1 DEF Thinned, IsLastOf
<1>3. ASSUME NEW m \in (e[k] + 1) .. Len(w) PROVE request_id(w[m]) # i
  <2> SUFFICES ASSUME request_id(w[m]) = i PROVE FALSE
    OBVIOUS
  <2>1. m \in 1 .. Len(w) /\ e[k] < m
    BY <1>2
  <2>2. PICK n \in 1 .. Len(v) : e[n] = m /\ v[n] = w[m]
    BY <1>1, <2>1 DEF KeepsLast
  <2>3. k < n
    <3>1. ~(n < k) /\ n # k
      BY <1>1, <2>1, <2>2 DEF Thinned, IsLastOf
    <3> QED BY <3>1
  <2> QED BY <2>2, <2>3 DEF IsLastOf
<1> QED BY <1>2, <1>3 DEF IsLastOf

\* Two queues, one behind the other.
LEMMA Concat ==
    ASSUME NEW a \in Seq(PluginFrame), NEW b \in Seq(PluginFrame)
    PROVE  /\ a \o b \in Seq(PluginFrame)
           /\ Len(a) \in Nat /\ Len(b) \in Nat /\ Len(a \o b) = Len(a) + Len(b)
           /\ \A k \in 1 .. Len(a) : (a \o b)[k] = a[k]
           /\ \A k \in 1 .. Len(b) : (a \o b)[Len(a) + k] = b[k]
           /\ \A k \in 1 .. Len(a \o b) : k > Len(a) => (a \o b)[k] = b[k - Len(a)]
OBVIOUS

LEMMA ConcatLen ==
    ASSUME NEW a \in Seq(PluginFrame), NEW b \in Seq(PluginFrame)
    PROVE  Len(a) \in Nat /\ Len(b) \in Nat /\ Len(a \o b) = Len(a) + Len(b)
OBVIOUS

\* tx.send puts a frame behind all that is on the wire.
LEMMA SendGrows ==
    ASSUME TypeOK, TypeOK', NEW f \in PluginFrame, Send(f), writerTask = "running",
           UNCHANGED stdout
    PROVE  Grown(Wire, Wire', f)
<1>1. stdout \in Seq(PluginFrame) /\ outq \in Seq(PluginFrame) /\ outq' = Append(outq, f)
  BY DEF TypeOK, TransportTypeOK, ServerTypeOK, Send, SendTo
<1>2. /\ Len(outq') = Len(outq) + 1 /\ outq'[Len(outq) + 1] = f
      /\ \A k \in 1 .. Len(outq) : outq'[k] = outq[k]
      /\ outq' \in Seq(PluginFrame)
  BY <1>1
<1>3. Wire = stdout \o outq /\ Wire' = stdout \o outq'
  BY DEF Wire
<1>4. Len(Wire) = Len(stdout) + Len(outq) /\ Len(Wire') = Len(Wire) + 1
  <2>1. Len(Wire) = Len(stdout) + Len(outq) /\ Len(stdout) \in Nat /\ Len(outq) \in Nat
    BY <1>1, <1>3, ConcatLen
  <2>2. Len(Wire') = Len(stdout) + Len(outq')
    BY <1>1, <1>2, <1>3, ConcatLen
  <2> QED BY <1>2, <2>1, <2>2
<1>5. Wire'[Len(Wire) + 1] = f
  <2>1. Len(outq) + 1 \in 1 .. Len(outq') /\ Len(Wire) + 1 = Len(stdout) + (Len(outq) + 1)
    BY <1>1, <1>2, <1>4
  <2> QED BY <1>1, <1>2, <1>3, <2>1, Concat
<1>6. ASSUME NEW k \in 1 .. Len(Wire) PROVE Wire'[k] = Wire[k]
  <2>1. CASE k \in 1 .. Len(stdout)
    BY <1>1, <1>2, <1>3, <2>1, Concat
  <2>2. CASE k > Len(stdout)
    <3>1. k - Len(stdout) \in 1 .. Len(outq) /\ k \in 1 .. Len(Wire')
      BY <1>1, <1>4, <2>2
    <3> QED BY <1>1, <1>2, <1>3, <2>2, <3>1, Concat
  <2> QED BY <1>1, <2>1, <2>2
<1> QED BY <1>4, <1>5, <1>6 DEF Grown

\* The wire is a sequence of frames.
LEMMA WireType == TypeOK => Wire \in Seq(PluginFrame)
BY Concat DEF Wire, TypeOK, TransportTypeOK, ServerTypeOK

\* A frame is sent: it must be able to follow the last one of its id and fit
\* the new state of its task; the other tasks stay as they are.
LEMMA SendSession ==
    ASSUME TypeOK, TypeOK', SessionInv, NEW f \in PluginFrame, Send(f),
           UNCHANGED <<stdout, writerTask>>,
           \A k \in 1 .. Len(Wire) :
               /\ writerTask = "running" /\ request_id(f) # None
               /\ IsLastOf(Wire, request_id(f), k)
               => MayFollow(Wire[k], f),
           request_id(f) # None => Fits(f, request_id(f))',
           \A j \in RequestId \ {request_id(f)} :
               (j \in serverPending' <=> j \in serverPending) /\ task'[j] = task[j]
    PROVE  SessionInv'
<1>1. CASE writerTask # "running"
  <2>1. Wire' = Wire
    BY <1>1 DEF Wire, Send, SendTo
  <2> QED BY <1>1, <2>1 DEF SessionInv, LastFits
<1>2. CASE writerTask = "running"
  <2>1. Grown(Wire, Wire', f)
    BY <1>2, SendGrows
  <2>2. Wire \in Seq(PluginFrame) /\ Wire' \in Seq(PluginFrame)
    BY Concat DEF Wire, TypeOK, TransportTypeOK, ServerTypeOK
  <2>3. Separate(Wire')
    BY <1>2, <2>1, <2>2, GrownSeparate DEF SessionInv
  <2>4. ASSUME NEW i \in RequestId, NEW k \in 1 .. Len(Wire'), IsLastOf(Wire', i, k)
        PROVE  Fits(Wire[k], i)' 
    <3>0. Len(Wire) \in Nat
      BY <2>2
    <3>1. CASE request_id(f) = i
      <4>1. k = Len(Wire) + 1
        BY <2>1, <2>4, <3>0, <3>1 DEF Grown, IsLastOf
      <4>2. i # None /\ Wire'[k] = f
        BY <2>1, <4>1 DEF Grown, RequestId, None
      <4> QED BY <3>1, <4>2 DEF Fits
    <3>2. CASE request_id(f) # i
      <4>1. k \in 1 .. Len(Wire) /\ Wire'[k] = Wire[k]
        BY <2>1, <2>4, <3>0, <3>2 DEF Grown, IsLastOf
      <4>2. IsLastOf(Wire, i, k)
        BY <2>1, <2>4, <3>0, <4>1 DEF Grown, IsLastOf
      <4>3. Fits(Wire[k], i)
        BY <1>2, <4>1, <4>2 DEF SessionInv, LastFits
      <4> QED BY <3>2, <4>1, <4>3 DEF Fits
    <3> QED BY <3>1, <3>2
  <2> QED BY <2>3, <2>4 DEF SessionInv, LastFits
<1> QED BY <1>1, <1>2

\* The wire is thinned and the tasks stay as they are.
LEMMA ThinnedSession ==
    ASSUME TypeOK, TypeOK', SessionInv, NEW e \in [1 .. Len(Wire') -> Nat],
           Thinned(Wire, Wire', e),
           writerTask' = "running" =>
               KeepsLast(Wire, Wire', e) /\ UNCHANGED <<writerTask, serverPending, task>>
    PROVE  SessionInv'
<1>1. Wire \in Seq(PluginFrame) /\ Wire' \in Seq(PluginFrame)
  BY Concat DEF Wire, TypeOK, TransportTypeOK, ServerTypeOK
<1>2. Separate(Wire')
  BY <1>1, ThinnedSeparate DEF SessionInv
<1>3. ASSUME writerTask' = "running",
             NEW i \in RequestId, NEW k \in 1 .. Len(Wire'), IsLastOf(Wire', i, k)
      PROVE  Fits(Wire[k], i)'
  <2>1. e[k] \in 1 .. Len(Wire) /\ Wire[e[k]] = Wire'[k] /\ IsLastOf(Wire, i, e[k])
    BY <1>1, <1>3, ThinnedLast
  <2>2. Fits(Wire[e[k]], i)
    BY <1>3, <2>1 DEF SessionInv, LastFits
  <2> QED BY <1>3, <2>1, <2>2 DEF Fits
<1> QED BY <1>2, <1>3 DEF SessionInv, LastFits

\* What has a place in neither queue's order changes nothing.
LEMMA QuietSession ==
    ASSUME SessionInv, UNCHANGED <<stdout, outq>>,
           writerTask' = "running" => UNCHANGED <<writerTask, serverPending, task>>
    PROVE  SessionInv'
<1>1. Wire' = Wire
  BY DEF Wire
<1> QED BY <1>1 DEF SessionInv, LastFits, Fits

\* Error may follow anything and fits any state.
LEMMA ErrorSession ==
    ASSUME TypeOK, TypeOK', SessionInv, NEW i \in RequestId \cup {None},
           Send(ForRequest("error", i)), UNCHANGED <<stdout, writerTask, serverPending, task>>
    PROVE  SessionInv'
<1> DEFINE f == ForRequest("error", i)
<1>1. f \in PluginFrame
  BY FrameType DEF PluginType
<1>2. \A g : MayFollow(g, f)
  BY DEF MayFollow, ForRequest
<1>3. \A j : Fits(f, j)'
  BY DEF Fits, Terminal, ForRequest
<1> HIDE DEF f
<1> QED BY <1>1, <1>2, <1>3, SendSession DEF f

\* So does a frame without an id.
LEMMA NoIdSession ==
    ASSUME TypeOK, TypeOK', SessionInv, NEW f \in PluginFrame, request_id(f) = None,
           Send(f), UNCHANGED <<stdout, writerTask, serverPending, task>>
    PROVE  SessionInv'
BY SendSession

\* Control and nonce frames have no id.
LEMMA ControlIds ==
    /\ \A t \in {"hello", "malformed", "shutdown_ack"} : request_id(Control(t)) = None
    /\ \A n : request_id(WithNonce("pong", n)) = None
BY DEF request_id, Control, WithNonce

\* Bytes without an id are written straight to stdout, ahead of the channel.
LEMMA WriteSession ==
    ASSUME TypeOK, TypeOK', SessionInv, NEW f \in PluginFrame, request_id(f) = None,
           PluginWrites(f), UNCHANGED <<outq, writerTask, serverPending, task>>
    PROVE  SessionInv'
<1> DEFINE n == Len(stdout)
           e == [k \in 1 .. Len(Wire') |-> IF k <= n THEN k ELSE k - 1]
<1>1. /\ stdout \in Seq(PluginFrame) /\ outq \in Seq(PluginFrame) /\ stdout' \in Seq(PluginFrame)
      /\ n \in Nat /\ Len(outq) \in Nat /\ Len(stdout') = n + 1 /\ stdout'[n + 1] = f
      /\ \A k \in 1 .. n : stdout'[k] = stdout[k]
  BY DEF TypeOK, TransportTypeOK, ServerTypeOK, PluginWrites
<1>2. Wire = stdout \o outq /\ Wire' = stdout' \o outq
  BY DEF Wire
<1>3. Len(Wire) = n + Len(outq) /\ Len(Wire') = Len(Wire) + 1
  <2>1. Len(Wire) = n + Len(outq)
    BY <1>1, <1>2, ConcatLen
  <2>2. Len(Wire') = n + 1 + Len(outq)
    BY <1>1, <1>2, ConcatLen
  <2> QED BY <1>1, <2>1, <2>2
<1> HIDE DEF n
<1>4. /\ \A k \in 1 .. n : Wire[k] = stdout[k] /\ Wire'[k] = stdout[k]
      /\ \A k \in 1 .. Len(Wire) : k > n => Wire[k] = outq[k - n]
      /\ \A k \in 1 .. Len(Wire') : k > n + 1 => Wire'[k] = outq[k - (n + 1)]
      /\ Wire'[n + 1] = f
  BY <1>1, <1>2, Concat DEF n
<1>5. \A k \in 1 .. Len(Wire') : k > n + 1 => Wire'[k] = Wire[k - 1] /\ k - 1 \in 1 .. Len(Wire)
  <2> SUFFICES ASSUME NEW k \in 1 .. Len(Wire'), k > n + 1
               PROVE  Wire'[k] = Wire[k - 1] /\ k - 1 \in 1 .. Len(Wire)
    OBVIOUS
  <2>1. k - 1 \in 1 .. Len(Wire) /\ k - 1 > n /\ (k - 1) - n = k - (n + 1)
    BY <1>1, <1>3
  <2>2. Wire[k - 1] = outq[(k - 1) - n] /\ Wire'[k] = outq[k - (n + 1)]
    BY <1>4, <2>1
  <2> QED BY <2>1, <2>2
<1>6. e \in [1 .. Len(Wire') -> Nat]
  BY <1>1, <1>3
<1>7. ASSUME NEW m \in 1 .. Len(Wire)
      PROVE  \E j \in 1 .. Len(Wire') : e[j] = m /\ Wire'[j] = Wire[m]
  <2>1. CASE m <= n
    <3>1. m \in 1 .. Len(Wire') /\ m \in 1 .. n
      BY <1>1, <1>3, <2>1
    <3>2. e[m] = m
      BY <2>1, <3>1
    <3>3. Wire'[m] = Wire[m]
      BY <1>4, <3>1
    <3> QED BY <3>1, <3>2, <3>3
  <2>2. CASE m > n
    <3>1. m + 1 \in 1 .. Len(Wire') /\ e[m + 1] = m /\ Wire'[m + 1] = Wire[m]
      BY <1>1, <1>3, <1>5, <2>2
    <3> QED BY <3>1
  <2> QED BY <1>1, <2>1, <2>2
<1>8. \A k \in 1 .. Len(Wire') :
         request_id(Wire'[k]) # None => e[k] \in 1 .. Len(Wire) /\ Wire[e[k]] = Wire'[k]
  BY <1>1, <1>3, <1>4, <1>5
<1>9. \A j, k \in 1 .. Len(Wire') :
         j < k /\ request_id(Wire'[j]) # None /\ request_id(Wire'[k]) # None => e[j] < e[k]
  BY <1>1, <1>3, <1>4
<1> HIDE DEF e
<1>10. Thinned(Wire, Wire', e) /\ KeepsLast(Wire, Wire', e)
  BY <1>7, <1>8, <1>9 DEF Thinned, KeepsLast
<1> QED BY <1>6, <1>10, ThinnedSession

\* The channel is dropped with what it held.
LEMMA DroppedSession ==
    ASSUME TypeOK, TypeOK', SessionInv, outq' = <<>>, UNCHANGED stdout, writerTask' # "running"
    PROVE  SessionInv'
<1> DEFINE e == [k \in 1 .. Len(Wire') |-> k]
<1>1. stdout \in Seq(PluginFrame) /\ outq \in Seq(PluginFrame) /\ outq' \in Seq(PluginFrame)
  BY DEF TypeOK, TransportTypeOK, ServerTypeOK
<1>2. Wire = stdout \o outq /\ Wire' = stdout \o outq' /\ Len(outq') = 0
  BY EmptyType DEF Wire
<1>3. /\ Len(Wire') = Len(stdout) /\ Len(Wire) >= Len(stdout) /\ Len(stdout) \in Nat
      /\ Len(Wire) \in Nat
      /\ \A k \in 1 .. Len(Wire') : Wire'[k] = Wire[k]
  BY <1>1, <1>2, Concat
<1>4. e \in [1 .. Len(Wire') -> Nat] /\ Thinned(Wire, Wire', e)
  BY <1>3 DEF Thinned
<1> HIDE DEF e
<1> QED BY <1>4, ThinnedSession

\* The host takes the first frame.
LEMMA ReadSession ==
    ASSUME TypeOK, TypeOK', SessionInv, HostReads, UNCHANGED serverVars
    PROVE  SessionInv'
<1> DEFINE e == [k \in 1 .. Len(Wire') |-> k + 1]
<1>1. /\ stdout \in Seq(PluginFrame) /\ outq \in Seq(PluginFrame) /\ stdout' \in Seq(PluginFrame)
      /\ Len(stdout) \in Nat /\ Len(stdout') \in Nat /\ Len(stdout) = Len(stdout') + 1
      /\ \A k \in 1 .. Len(stdout') : stdout'[k] = stdout[k + 1]
  BY DEF TypeOK, TransportTypeOK, ServerTypeOK, HostReads
<1>2. Wire = stdout \o outq /\ Wire' = stdout' \o outq
  BY DEF Wire, serverVars
<1>3. /\ Len(Wire) = Len(stdout) + Len(outq) /\ Len(outq) \in Nat
      /\ Len(Wire') = Len(stdout') + Len(outq) /\ Len(Wire) = Len(Wire') + 1
  <2>1. Len(Wire) = Len(stdout) + Len(outq) /\ Len(outq) \in Nat
    BY <1>1, <1>2, ConcatLen
  <2>2. Len(Wire') = Len(stdout') + Len(outq)
    BY <1>1, <1>2, ConcatLen
  <2> QED BY <1>1, <2>1, <2>2
<1>4. ASSUME NEW k \in 1 .. Len(Wire') PROVE Wire'[k] = Wire[k + 1] /\ k + 1 \in 1 .. Len(Wire)
  <2>0. k + 1 \in 1 .. Len(Wire)
    BY <1>3
  <2>1. CASE k <= Len(stdout')
    <3>1. k \in 1 .. Len(stdout') /\ k + 1 \in 1 .. Len(stdout)
      BY <1>1, <2>1
    <3> QED BY <1>1, <1>2, <2>0, <3>1, Concat
  <2>2. CASE k > Len(stdout')
    <3>1. k + 1 > Len(stdout) /\ k + 1 - Len(stdout) = k - Len(stdout')
      BY <1>1, <1>3, <2>2
    <3> QED BY <1>1, <1>2, <2>0, <2>2, <3>1, Concat
  <2> QED BY <1>1, <2>1, <2>2
<1>5. ASSUME NEW k \in 1 .. Len(Wire'), NEW m \in 1 .. Len(Wire), e[k] < m
      PROVE  \E j \in 1 .. Len(Wire') : e[j] = m /\ Wire'[j] = Wire[m]
  <2>1. m - 1 \in 1 .. Len(Wire') /\ e[m - 1] = m /\ Wire'[m - 1] = Wire[m]
    BY <1>3, <1>4, <1>5
  <2> QED BY <2>1
<1>6. /\ \A k \in 1 .. Len(Wire') : e[k] \in 1 .. Len(Wire) /\ Wire[e[k]] = Wire'[k]
      /\ \A j, k \in 1 .. Len(Wire') : j < k => e[j] < e[k]
      /\ e \in [1 .. Len(Wire') -> Nat]
  BY <1>3, <1>4
<1> HIDE DEF e
<1>7. Thinned(Wire, Wire', e) /\ KeepsLast(Wire, Wire', e)
  BY <1>5, <1>6 DEF Thinned, KeepsLast
<1> QED BY <1>6, <1>7, ThinnedSession DEF serverVars

\* A frame moves from the channel to stdout and keeps its place.
LEMMA MoveSession ==
    ASSUME TypeOK, TypeOK', SessionInv, WriterWrites
    PROVE  SessionInv'
<1> DEFINE e == [k \in 1 .. Len(Wire') |-> k]
<1>1. /\ stdout \in Seq(PluginFrame) /\ outq \in Seq(PluginFrame)
      /\ stdout' \in Seq(PluginFrame) /\ outq' \in Seq(PluginFrame)
      /\ Len(stdout) \in Nat /\ Len(stdout') = Len(stdout) + 1
      /\ Len(outq') \in Nat /\ Len(outq) = Len(outq') + 1
      /\ \A k \in 1 .. Len(stdout) : stdout'[k] = stdout[k]
      /\ stdout'[Len(stdout) + 1] = outq[1]
      /\ \A k \in 1 .. Len(outq') : outq'[k] = outq[k + 1]
  BY DEF TypeOK, TransportTypeOK, ServerTypeOK, WriterWrites, PluginWrites
<1>2. Wire = stdout \o outq /\ Wire' = stdout' \o outq'
  BY DEF Wire
<1>3. Len(Wire) = Len(stdout) + Len(outq) /\ Len(Wire') = Len(Wire)
  <2>1. Len(Wire) = Len(stdout) + Len(outq)
    BY <1>1, <1>2, ConcatLen
  <2>2. Len(Wire') = Len(stdout') + Len(outq')
    BY <1>1, <1>2, ConcatLen
  <2> QED BY <1>1, <2>1, <2>2
<1>4. ASSUME NEW k \in 1 .. Len(Wire) PROVE Wire'[k] = Wire[k]
  <2>1. CASE k <= Len(stdout)
    <3>1. k \in 1 .. Len(stdout) /\ k \in 1 .. Len(stdout')
      BY <1>1, <2>1
    <3> QED BY <1>1, <1>2, <3>1, Concat
  <2>2. CASE k = Len(stdout) + 1
    <3>1. k \in 1 .. Len(stdout') /\ k > Len(stdout) /\ k - Len(stdout) = 1
      BY <1>1, <2>2
    <3> QED BY <1>1, <1>2, <2>2, <3>1, Concat
  <2>3. CASE k > Len(stdout) + 1
    <3>1. /\ k \in 1 .. Len(Wire') /\ k > Len(stdout') /\ k > Len(stdout)
          /\ k - Len(stdout') \in 1 .. Len(outq')
          /\ k - Len(stdout') + 1 = k - Len(stdout)
      BY <1>1, <1>3, <2>3
    <3>2. Wire'[k] = outq'[k - Len(stdout')] /\ Wire[k] = outq[k - Len(stdout)]
      BY <1>1, <1>2, <3>1, Concat
    <3>3. outq'[k - Len(stdout')] = outq[k - Len(stdout') + 1]
      BY <1>1, <3>1
    <3> QED BY <3>1, <3>2, <3>3
  <2> QED BY <1>1, <2>1, <2>2, <2>3
<1>5. /\ e \in [1 .. Len(Wire') -> Nat]
      /\ \A k \in 1 .. Len(Wire') : e[k] = k
  BY <1>1, <1>3
<1> HIDE DEF e
<1>6. Thinned(Wire, Wire', e) /\ KeepsLast(Wire, Wire', e)
  BY <1>1, <1>3, <1>4, <1>5 DEF Thinned, KeepsLast
<1> QED BY <1>5, <1>6, ThinnedSession DEF WriterWrites

LEMMA SessionStep ==
    TypeOK /\ TypeOK' /\ PendingMatchesTasks /\ SessionInv /\ [Next]_vars => SessionInv'
<1> SUFFICES ASSUME TypeOK, TypeOK', PendingMatchesTasks, SessionInv, [Next]_vars
             PROVE  SessionInv'
  OBVIOUS
<1>1. CASE Host
  <2>1. CASE HostReads
    BY <1>1, <2>1, ReadSession DEF Host
  <2>2. CASE HostSends \/ HostClosesStdin \/ HostClosesStdout
    BY <1>1, <2>2, QuietSession
    DEF Host, HostSends, HostClosesStdin, HostClosesStdout, serverVars
  <2> QED BY <1>1, <2>1, <2>2 DEF Host, AnyHostNext
<1>2. CASE ServeHello
  <2>1. CASE UNCHANGED stdout
    BY <1>2, <2>1, QuietSession DEF ServeHello
  <2>2. CASE PluginWrites(Control("hello"))
    <3>1. Control("hello") \in PluginFrame
      BY FrameType DEF PluginType
    <3> QED BY <1>2, <2>2, <3>1, ControlIds, WriteSession DEF ServeHello
  <2> QED BY <1>2, <2>1, <2>2 DEF ServeHello
<1>3. CASE RefuseHello \/ LoopCancel \/ LoopShutdown \/ ReadTorn \/ ReadPartial \/ ReadEof
  BY <1>3, QuietSession
  DEF RefuseHello, LoopCancel, LoopShutdown, ReadTorn, ReadPartial, ReadEof, Receive, transportVars
<1>4. CASE LoopHello
  BY <1>4, ErrorSession DEF LoopHello
<1>5. CASE LoopPing
  <2>1. PICK n : n = Head(stdin).nonce
    OBVIOUS
  <2>2. WithNonce("pong", n) \in PluginFrame
    BY <1>5, <2>1, StdinHead, FrameType DEF LoopPing, Receive, PluginType, HostFrame
  <2> QED BY <1>5, <2>1, <2>2, ControlIds, NoIdSession DEF LoopPing
<1>6. CASE CancelReturns
  <2>1. CASE UNCHANGED outq
    BY <1>6, <2>1, QuietSession DEF CancelReturns, transportVars
  <2>2. CASE Send(ForRequest("error", cancelId))
    <3>1. PICK i \in RequestId \cup {None} : i = cancelId
      BY DEF TypeOK, ServerTypeOK
    <3> QED BY <1>6, <2>2, <3>1, ErrorSession DEF CancelReturns, transportVars
  <2> QED BY <1>6, <2>1, <2>2 DEF CancelReturns
<1>7. CASE DrainDone
  <2>1. Control("shutdown_ack") \in PluginFrame
    BY FrameType DEF PluginType
  <2> QED BY <1>7, <2>1, ControlIds, NoIdSession DEF DrainDone, transportVars
<1>8. CASE LoopInvoke
  <2>1. PICK i \in RequestId : i = Head(stdin).id
    BY <1>8, StdinHead DEF LoopInvoke, Receive, HostFrame
  <2>2. CASE Send(ForRequest("error", i)) /\ UNCHANGED <<serverPending, task>>
    BY <1>8, <2>2, ErrorSession DEF LoopInvoke
  <2>3. CASE /\ i \notin serverPending
             /\ serverPending' = serverPending \cup {i}
             /\ task' = [task EXCEPT ![i] = "running"]
             /\ Send(ForRequest("started", i))
    <3> DEFINE f == ForRequest("started", i)
    <3>1. f \in PluginFrame /\ request_id(f) = i
      BY FrameType DEF PluginType, request_id, ForRequest
    <3>2. \A k \in 1 .. Len(Wire) :
             writerTask = "running" /\ IsLastOf(Wire, i, k) => MayFollow(Wire[k], f)
      BY <2>3 DEF SessionInv, LastFits, Fits, MayFollow, ForRequest
    <3>3. Fits(f, i)'
      BY <2>3 DEF Fits, ForRequest, TypeOK, ServerTypeOK
    <3>4. \A j \in RequestId \ {i} :
             (j \in serverPending' <=> j \in serverPending) /\ task'[j] = task[j]
      BY <2>3 DEF TypeOK, ServerTypeOK
    <3>5. Send(f) /\ UNCHANGED <<stdout, writerTask>>
      BY <1>8, <2>3 DEF LoopInvoke
    <3> HIDE DEF f
    <3> QED BY <3>1, <3>2, <3>3, <3>4, <3>5, SendSession
  <2> QED BY <1>8, <2>1, <2>2, <2>3 DEF LoopInvoke, IsActive
<1>9. ASSUME NEW i \in RequestId, HandlerTask(i) PROVE SessionInv'
  <2>1. CASE TaskEvent(i)
    <3> DEFINE f == ForRequest("event", i)
    <3>1. f \in PluginFrame /\ request_id(f) = i
      BY FrameType DEF PluginType, request_id, ForRequest
    <3>2. task[i] = "running" \/ Late(f)
      BY <2>1 DEF TaskEvent, Late, ForRequest
    <3>3. task[i] = "running" => i \in serverPending
      BY DEF PendingMatchesTasks, LiveTasks
    <3>4. \A k \in 1 .. Len(Wire) :
             writerTask = "running" /\ IsLastOf(Wire, i, k) => MayFollow(Wire[k], f)
      BY <3>2 DEF SessionInv, LastFits, Fits, MayFollow, ForRequest
    <3>5. Fits(f, i)'
      BY <2>1, <3>2, <3>3 DEF TaskEvent, Fits, Late, ForRequest
    <3>6. UNCHANGED <<stdout, writerTask, serverPending, task>> /\ Send(f)
      BY <2>1 DEF TaskEvent, transportVars
    <3> HIDE DEF f
    <3> QED BY <3>1, <3>4, <3>5, <3>6, SendSession
  <2>2. CASE TaskReturn(i)
    <3>1. PICK r \in {"finished", "error"} : Send(ForRequest(r, i))
      BY <2>2 DEF TaskReturn
    <3> DEFINE f == ForRequest(r, i)
    <3>2. f \in PluginFrame /\ request_id(f) = i /\ Terminal(f) /\ f.type = r
      BY FrameType DEF PluginType, request_id, ForRequest, Terminal
    <3>3. \A k \in 1 .. Len(Wire) :
             writerTask = "running" /\ IsLastOf(Wire, i, k) => MayFollow(Wire[k], f)
      BY <2>2, <3>2 DEF TaskReturn, SessionInv, LastFits, Fits, MayFollow, Terminal
    <3>4. task'[i] = "returned"
      BY <2>2 DEF TaskReturn, TypeOK, ServerTypeOK
    <3>5. Fits(f, i)'
      BY <3>2, <3>4 DEF Fits
    <3>6. /\ UNCHANGED <<stdout, writerTask, serverPending>> /\ Send(f)
          /\ \A j \in RequestId \ {i} : task'[j] = task[j]
      BY <2>2, <3>1 DEF TaskReturn, transportVars, TypeOK, ServerTypeOK
    <3> HIDE DEF f
    <3> QED BY <3>2, <3>3, <3>5, <3>6, SendSession
  <2>3. CASE TaskRemove(i) \/ TaskPanic(i)
    <3>1. Wire' = Wire /\ writerTask' = writerTask
      BY <2>3 DEF TaskRemove, TaskPanic, Wire, transportVars
    <3>2. ASSUME NEW j \in RequestId, NEW f, Fits(f, j) PROVE Fits(f, j)'
      <4>1. CASE TaskRemove(i)
        BY <3>2, <4>1 DEF Fits, TaskRemove, Released, TypeOK, ServerTypeOK
      <4>2. CASE TaskPanic(i)
        BY <3>2, <4>2 DEF Fits, TaskPanic, TypeOK, ServerTypeOK, PendingMatchesTasks, LiveTasks
      <4> QED BY <2>3, <4>1, <4>2
    <3>3. ASSUME writerTask' = "running", NEW j \in RequestId, NEW k \in 1 .. Len(Wire),
                 IsLastOf(Wire, j, k)
          PROVE  Fits(Wire[k], j)'
      <4>1. PICK f : f = Wire[k]
        OBVIOUS
      <4>2. Fits(f, j)
        BY <3>1, <3>3, <4>1 DEF SessionInv, LastFits
      <4>3. Fits(f, j)' /\ Wire'[k] = f
        BY <3>1, <3>2, <4>1, <4>2
      <4> QED BY <4>3 DEF Fits
    <3> QED BY <3>1, <3>3 DEF SessionInv, LastFits
  <2> QED BY <1>9, <2>1, <2>2, <2>3 DEF HandlerTask
<1>10. CASE StrayOutput
  <2>1. Control("malformed") \in PluginFrame
    BY FrameType DEF PluginType
  <2> QED BY <1>10, <2>1, ControlIds, WriteSession DEF StrayOutput, serverVars
<1>11. CASE WriterWrites
  BY <1>11, MoveSession
<1>12. CASE WriterFails
  BY <1>12, DroppedSession DEF WriterFails, transportVars
<1>13. CASE WriterEnds
  BY <1>13, QuietSession DEF WriterEnds, transportVars
<1>14. CASE ProcessEnds
  BY <1>14, DroppedSession DEF ProcessEnds
<1>15. CASE UNCHANGED vars
  BY <1>15, QuietSession DEF vars, serverVars, transportVars
<1> QED
  BY <1>1, <1>2, <1>3, <1>4, <1>5, <1>6, <1>7, <1>8, <1>9, <1>10, <1>11, <1>12, <1>13, <1>14,
     <1>15
  DEF Next, Server, ServerNext, ReadLoop, WriterLoop, ServeReturns, ProcessKilled

\* Two invocations under one id never mix on the wire, however the host
\* reuses ids: Finished is the last word of its invocation, an Error or a
\* context that outlives its handler aside, and Started comes only after the
\* terminal frame of the id's earlier invocation.
THEOREM SessionsCorrect == Spec => []SessionsSeparate
<1>1. Init => SessionInv
  <2> SUFFICES ASSUME Init PROVE SessionInv
    OBVIOUS
  <2>1. stdout = <<>> /\ outq = <<>>
    BY DEF Init, HostInit, ServerInit
  <2>2. Wire \in Seq(PluginFrame) /\ Len(Wire) = 0
    BY <2>1, EmptyType, Concat DEF Wire
  <2> QED BY <2>2 DEF SessionInv, Separate, LastFits
<1> QED BY <1>1, TypeCorrect, PendingCorrect, SessionStep, SessionInvImplies, PTL DEF Spec
=============================================================================

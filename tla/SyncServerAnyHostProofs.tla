---------------------- MODULE SyncServerAnyHostProofs ----------------------
(***************************************************************************)
(* What serve_worker of the outboard crate guarantees against any host,    *)
(* for any number of requests, any pipe capacity and any handler.          *)
(***************************************************************************)
EXTENDS SyncServerAnyHost, TLAPS

\* The frames the server builds.
LEMMA FrameType ==
    /\ \A t \in PluginType : Control(t) \in PluginFrame
    /\ \A t \in PluginType, i \in RequestId \cup {None} : ForRequest(t, i) \in PluginFrame
    /\ \A t \in PluginType, n \in Nonce \cup {None} : WithNonce(t, n) \in PluginFrame
BY DEF Control, ForRequest, WithNonce, PluginFrame, None

\* The head and the tail of a queue, by index.
LEMMA TailFacts ==
    ASSUME NEW S, NEW q \in Seq(S), q # <<>>
    PROVE  /\ Len(q) \in Nat \ {0}
           /\ Head(q) = q[1] /\ Head(q) \in S
           /\ Tail(q) \in Seq(S)
           /\ Len(Tail(q)) = Len(q) - 1
           /\ \A k \in 1 .. Len(Tail(q)) : Tail(q)[k] = q[k + 1] /\ k + 1 \in 1 .. Len(q)
OBVIOUS

LEMMA AppendFacts ==
    ASSUME NEW S, NEW q \in Seq(S), NEW f \in S
    PROVE  /\ Len(q) \in Nat
           /\ Append(q, f) \in Seq(S)
           /\ Len(Append(q, f)) = Len(q) + 1
           /\ \A k \in 1 .. Len(q) : Append(q, f)[k] = q[k]
           /\ Append(q, f)[Len(q) + 1] = f
OBVIOUS

LEMMA EmptyFacts ==
    /\ \A S : <<>> \in Seq(S)
    /\ Len(<<>>) = 0
OBVIOUS

LEMMA TypeInit == Init => TypeOK
<1> SUFFICES ASSUME Init PROVE TypeOK
  OBVIOUS
<1>1. TransportTypeOK
  <2>1. stdin \in Seq(HostFrame) /\ stdout \in Seq(PluginFrame)
    BY EmptyFacts DEF Init, HostInit
  <2>2. Len(stdin) <= PipeCapacity /\ Len(stdout) <= PipeCapacity
    BY TransportAssumption, EmptyFacts DEF Init, HostInit
  <2>3. stdinOpen \in BOOLEAN /\ stdoutOpen \in BOOLEAN /\ killed \in BOOLEAN
    BY Zenon DEF Init, HostInit
  <2> QED BY <2>1, <2>2, <2>3 DEF Init, HostInit, TransportTypeOK
<1>2. ServerTypeOK
  <2>1. Control("hello") \in PluginFrame
    BY FrameType DEF PluginType
  <2> QED BY <2>1, SyncServerAssumption DEF Init, ServerInit, ServerTypeOK, Phase, None
<1> QED BY <1>1, <1>2, HostAssumption DEF Init, HostInit, TypeOK

LEMMA HostTypeStep == TypeOK /\ Host => TypeOK'
<1> SUFFICES ASSUME TypeOK, Host PROVE TypeOK'
  OBVIOUS
<1> USE TransportAssumption, HostAssumption
<1>1. ServerTypeOK'
  BY DEF Host, serverVars, TypeOK, ServerTypeOK
<1>2. CASE HostSends
  <2>1. PICK f \in AnyFrame : HostWrites(f)
    BY <1>2 DEF HostSends
  <2>2. f \in HostFrame
    BY <2>1 DEF AnyFrame, HostFrame, HostType, Control, ForRequest, WithNonce, None
  <2>3. stdin' \in Seq(HostFrame) /\ Len(stdin') <= PipeCapacity
    BY <2>1, <2>2 DEF TypeOK, TransportTypeOK, HostWrites
  <2> QED BY <1>1, <1>2, <2>3 DEF HostSends, TypeOK, TransportTypeOK
<1>3. CASE HostReads
  BY <1>1, <1>3 DEF HostReads, TypeOK, TransportTypeOK
<1>4. CASE HostClosesStdin \/ HostClosesStdout
  BY <1>1, <1>4 DEF HostClosesStdin, HostClosesStdout, TypeOK, TransportTypeOK
<1> QED BY <1>2, <1>3, <1>4 DEF Host, AnyHostNext

LEMMA ServerTypeStep == TypeOK /\ Server => TypeOK'
<1> SUFFICES ASSUME TypeOK, Server PROVE TypeOK'
  OBVIOUS
<1> USE TransportAssumption, SyncServerAssumption
<1>0. sent' \in 0 .. MaxSends
  BY DEF Server, TypeOK
<1>1. ASSUME stdin # <<>>
      PROVE  /\ Head(stdin) \in HostFrame
             /\ Tail(stdin) \in Seq(HostFrame)
             /\ Len(Tail(stdin)) <= PipeCapacity
  BY <1>1, TailFacts DEF TypeOK, TransportTypeOK
<1>2. CASE ReadHello
  <2>1. answer' \in PluginFrame
    BY <1>2, FrameType DEF ReadHello, Answers, PluginType, TypeOK, ServerTypeOK
  <2> QED BY <1>0, <1>1, <1>2, <2>1 DEF ReadHello, Answers, TypeOK, TransportTypeOK,
                                        ServerTypeOK, Phase
<1>3. CASE LoopHello \/ LoopShutdown
  <2>1. answer' \in PluginFrame
    BY <1>3, FrameType DEF LoopHello, LoopShutdown, Answers, PluginType
  <2> QED BY <1>0, <1>1, <1>3, <2>1 DEF LoopHello, LoopShutdown, Receive, Answers, TypeOK,
                                        TransportTypeOK, ServerTypeOK, Phase
<1>4. CASE LoopPing
  <2>1. answer' \in PluginFrame
    BY <1>1, <1>4, FrameType DEF LoopPing, Receive, Answers, PluginType, HostFrame
  <2> QED BY <1>0, <1>1, <1>4, <2>1 DEF LoopPing, Receive, Answers, TypeOK, TransportTypeOK,
                                        ServerTypeOK, Phase
<1>5. CASE LoopCancel
  <2>1. answer' \in PluginFrame
    BY <1>1, <1>5, FrameType DEF LoopCancel, Receive, Answers, PluginType, HostFrame, TypeOK,
                                 ServerTypeOK
  <2> QED BY <1>0, <1>1, <1>5, <2>1 DEF LoopCancel, Receive, Answers, TypeOK, TransportTypeOK,
                                        ServerTypeOK, Phase
<1>6. CASE LoopInvoke
  <2>1. Head(stdin).id \in RequestId
    BY <1>1, <1>6 DEF LoopInvoke, Receive, HostFrame
  <2>2. answer' \in PluginFrame
    BY <1>6, <2>1, FrameType DEF LoopInvoke, Answers, PluginType
  <2> QED BY <1>0, <1>1, <1>6, <2>1, <2>2 DEF LoopInvoke, Receive, Answers, TypeOK,
                                              TransportTypeOK, ServerTypeOK, Phase
<1>7. CASE ReadTorn \/ ReadEof
  BY <1>0, <1>1, <1>7 DEF ReadTorn, ReadEof, transportVars, TypeOK, TransportTypeOK,
                          ServerTypeOK, Phase
<1>8. CASE WriteAnswer
  <2>1. stdout' \in Seq(PluginFrame) /\ Len(stdout') <= PipeCapacity
    BY <1>8 DEF WriteAnswer, PluginWrites, StdoutHasRoom, TypeOK, TransportTypeOK, ServerTypeOK
  <2>2. AfterAnswer(answer) \in Phase
    BY DEF AfterAnswer, Phase
  <2> QED BY <1>0, <1>8, <2>1, <2>2 DEF WriteAnswer, TypeOK, TransportTypeOK, ServerTypeOK
<1>9. CASE AnswerFails
  BY <1>0, <1>9 DEF AnswerFails, AfterFailure, transportVars, TypeOK, TransportTypeOK,
                    ServerTypeOK, Phase
<1>10. CASE HandlerEvent
  <2>1. answer' \in PluginFrame
    BY <1>10, FrameType DEF HandlerEvent, Answers, PluginType, TypeOK, ServerTypeOK
  <2>2. emitted' \in [RequestId -> 0 .. MaxEvents]
    <3>1. CASE job \in RequestId
      <4>1. emitted[job] \in 0 .. MaxEvents /\ emitted[job] < MaxEvents
        BY <1>10, <3>1 DEF HandlerEvent, TypeOK, ServerTypeOK
      <4>2. emitted[job] + 1 \in 0 .. MaxEvents
        BY <4>1
      <4> QED BY <1>10, <3>1, <4>2 DEF HandlerEvent, TypeOK, ServerTypeOK
    <3>2. CASE job \notin RequestId
      BY <1>10, <3>2 DEF HandlerEvent, TypeOK, ServerTypeOK
    <3> QED BY <3>1, <3>2
  <2> QED BY <1>0, <1>10, <2>1, <2>2 DEF HandlerEvent, Answers, transportVars, TypeOK,
                                         TransportTypeOK, ServerTypeOK, Phase
<1>11. CASE HandlerReturn
  <2>1. PICK r \in {"finished", "error"} :
            /\ result' = [result EXCEPT ![job] = r]
            /\ Answers(ForRequest(r, job))
    BY <1>11 DEF HandlerReturn
  <2>2. answer' \in PluginFrame
    BY <2>1, FrameType DEF Answers, PluginType, TypeOK, ServerTypeOK
  <2>3. result' \in [RequestId -> {"none", "finished", "error", "panicked"}]
    BY <2>1 DEF TypeOK, ServerTypeOK
  <2> QED BY <1>0, <1>11, <2>1, <2>2, <2>3 DEF HandlerReturn, Answers, transportVars, TypeOK,
                                               TransportTypeOK, ServerTypeOK, Phase, None
<1>12. CASE HandlerPanic
  BY <1>0, <1>12 DEF HandlerPanic, transportVars, TypeOK, TransportTypeOK, ServerTypeOK,
                     Phase, None
<1>13. CASE StrayOutput
  <2>1. Control("malformed") \in PluginFrame
    BY FrameType DEF PluginType
  <2>2. stdout' \in Seq(PluginFrame) /\ Len(stdout') <= PipeCapacity
    BY <1>13, <2>1 DEF StrayOutput, PluginWrites, StdoutHasRoom, TypeOK, TransportTypeOK
  <2> QED BY <1>0, <1>13, <2>2 DEF StrayOutput, serverVars, TypeOK, TransportTypeOK,
                                   ServerTypeOK
<1>14. CASE ProcessEnds
  BY <1>0, <1>14, EmptyFacts DEF ProcessEnds, TypeOK, TransportTypeOK, ServerTypeOK, Phase, None
<1> QED
  BY <1>2, <1>3, <1>4, <1>5, <1>6, <1>7, <1>8, <1>9, <1>10, <1>11, <1>12, <1>13, <1>14
  DEF Server, ServerNext, ServerLoop, ServeReturns, ProcessKilled

\* serve_worker's state keeps its type, whatever the host writes.
THEOREM TypeCorrect == Spec => []TypeOK
<1>1. TypeOK /\ UNCHANGED vars => TypeOK'
  BY DEF vars, transportVars, serverVars, TypeOK, TransportTypeOK, ServerTypeOK
<1>2. TypeOK /\ [Next]_vars => TypeOK'
  BY <1>1, HostTypeStep, ServerTypeStep DEF Next
<1> QED BY <1>2, TypeInit, PTL DEF Spec

(***************************************************************************)
(* One invocation at a time.  The inductive invariant says of the last     *)
(* frame in stdout what it tells about the server: between invocations it  *)
(* opens nothing, and while the handler works it is a frame of the job's.  *)
(***************************************************************************)
\* g may come right behind f.
Behind(f, g) ==
    /\ Open(f) => \/ g.type = "malformed"
                  \/ g.id = f.id /\ g.type \in {"event", "finished", "error"}
    /\ g.type \in {"event", "finished"} =>
          f.type = "malformed" \/ (f.id = g.id /\ Open(f))

Paired == \A k \in 1 .. Len(stdout) - 1 : Behind(stdout[k], stdout[k + 1])

LastFits ==
    Len(stdout) > 0 =>
        LET f == stdout[Len(stdout)]
        IN /\ phase \in {"hello", "loop"} => ~Open(f)
           /\ phase = "working" => f.type = "malformed" \/ (Open(f) /\ f.id = job)
           /\ phase = "writing" => Behind(f, answer)

OpenIsJob == phase = "writing" /\ Open(answer) => answer.id = job

OneJob == Paired /\ LastFits /\ OpenIsJob

LEMMA OneJobImplies == TypeOK /\ OneJob => Sequential
<1> SUFFICES ASSUME TypeOK, OneJob, NEW k \in 1 .. Len(Wire) - 1
             PROVE  Behind(Wire[k], Wire[k + 1])
  BY DEF Sequential, Behind
<1>1. stdout \in Seq(PluginFrame) /\ answer \in PluginFrame /\ Len(stdout) \in Nat
  BY DEF TypeOK, TransportTypeOK, ServerTypeOK
<1>2. CASE phase # "writing"
  BY <1>2 DEF Wire, OneJob, Paired
<1>3. CASE phase = "writing"
  <2>1. Wire = Append(stdout, answer)
    BY <1>3 DEF Wire
  <2>2. CASE k = Len(stdout)
    BY <1>1, <1>3, <2>1, <2>2, AppendFacts DEF OneJob, LastFits
  <2>3. CASE k \in 1 .. Len(stdout) - 1
    <3>1. k \in 1 .. Len(stdout) /\ k + 1 \in 1 .. Len(stdout)
      BY <1>1, <2>3
    <3>2. Wire[k] = stdout[k] /\ Wire[k + 1] = stdout[k + 1]
      BY <1>1, <2>1, <3>1, AppendFacts
    <3> QED BY <2>3, <3>2 DEF OneJob, Paired
  <2>4. Len(Wire) = Len(stdout) + 1
    BY <1>1, <2>1, AppendFacts
  <2> QED BY <1>1, <2>2, <2>3, <2>4
<1> QED BY <1>2, <1>3

\* A frame that may come behind the last one is written.
LEMMA WritePaired ==
    ASSUME TypeOK, Paired, NEW g \in PluginFrame, stdout' = Append(stdout, g),
           Len(stdout) > 0 => Behind(stdout[Len(stdout)], g)
    PROVE  Paired' /\ stdout'[Len(stdout')] = g
<1>1. stdout \in Seq(PluginFrame)
  BY DEF TypeOK, TransportTypeOK
<1>2. /\ Len(stdout) \in Nat /\ Len(stdout') = Len(stdout) + 1
      /\ \A k \in 1 .. Len(stdout) : stdout'[k] = stdout[k]
      /\ stdout'[Len(stdout) + 1] = g
  BY <1>1, AppendFacts
<1>3. ASSUME NEW k \in 1 .. Len(stdout') - 1
      PROVE  Behind(stdout'[k], stdout'[k + 1])
  <2>1. CASE k = Len(stdout)
    BY <1>2, <2>1
  <2>2. CASE k \in 1 .. Len(stdout) - 1
    BY <1>2, <2>2 DEF Paired
  <2> QED BY <1>2, <2>1, <2>2
<1> QED BY <1>2, <1>3 DEF Paired, Behind, Open

LEMMA OneJobStep == TypeOK /\ OneJob /\ [Next]_vars => OneJob'
<1> SUFFICES ASSUME TypeOK, OneJob, [Next]_vars PROVE OneJob'
  OBVIOUS
<1>0. stdout \in Seq(PluginFrame) /\ answer \in PluginFrame /\ Len(stdout) \in Nat
  BY DEF TypeOK, TransportTypeOK, ServerTypeOK
<1>1. ASSUME UNCHANGED stdout, LastFits', OpenIsJob' PROVE OneJob'
  BY <1>1 DEF OneJob, Paired
<1>2. CASE Host
  <2>1. CASE HostReads
    <3>1. /\ Len(stdout') = Len(stdout) - 1
          /\ \A k \in 1 .. Len(stdout') : stdout'[k] = stdout[k + 1]
      BY <1>0, <2>1, TailFacts DEF HostReads
    <3>2. Paired'
      BY <1>0, <3>1 DEF OneJob, Paired, Behind, Open
    <3>3. LastFits'
      BY <1>0, <1>2, <3>1 DEF OneJob, LastFits, Behind, Open, Host, serverVars
    <3> QED BY <1>2, <3>2, <3>3 DEF OneJob, OpenIsJob, Open, Host, serverVars
  <2>2. CASE HostSends \/ HostClosesStdin \/ HostClosesStdout
    BY <1>2, <2>2 DEF OneJob, Paired, LastFits, OpenIsJob, Behind, Open, Host, HostSends,
                      HostClosesStdin, HostClosesStdout, serverVars
  <2> QED BY <1>2, <2>1, <2>2 DEF Host, AnyHostNext
<1>3. CASE ReadHello
  BY <1>1, <1>3 DEF ReadHello, Answers, OneJob, LastFits, OpenIsJob, Behind, Open, Control
<1>4. CASE LoopHello \/ LoopPing \/ LoopShutdown
  BY <1>1, <1>4 DEF LoopHello, LoopPing, LoopShutdown, Receive, Reading, Answers, OneJob,
                    LastFits, OpenIsJob, Behind, Open, Control, ForRequest, WithNonce
<1>5. CASE LoopCancel
  BY <1>1, <1>5 DEF LoopCancel, Receive, Reading, Answers, OneJob, LastFits, OpenIsJob,
                    Behind, Open, ForRequest
<1>6. CASE LoopInvoke
  BY <1>1, <1>6 DEF LoopInvoke, Receive, Reading, Answers, OneJob, LastFits, OpenIsJob,
                    Behind, Open, ForRequest
<1>7. CASE ReadTorn \/ ReadEof
  BY <1>1, <1>7 DEF ReadTorn, ReadEof, transportVars, OneJob, LastFits, OpenIsJob
<1>8. CASE WriteAnswer
  <2>1. Len(stdout) > 0 => Behind(stdout[Len(stdout)], answer)
    BY <1>8 DEF WriteAnswer, OneJob, LastFits
  <2>2. PICK g \in PluginFrame : g = answer
    BY <1>0
  <2>3. Paired' /\ stdout'[Len(stdout')] = g
    BY <1>8, <2>1, <2>2, WritePaired DEF WriteAnswer, PluginWrites, OneJob
  <2>4. phase' = AfterAnswer(g) /\ job' = job /\ (Open(g) => g.id = job)
    BY <1>8, <2>2 DEF WriteAnswer, OneJob, OpenIsJob
  <2>5. LastFits' /\ OpenIsJob'
    BY <2>3, <2>4 DEF LastFits, OpenIsJob, AfterAnswer, Open
  <2> QED BY <2>3, <2>5 DEF OneJob
<1>9. CASE AnswerFails
  <2>1. UNCHANGED <<stdout, job>> /\ phase' = AfterFailure(answer) /\ phase = "writing"
    BY <1>9 DEF AnswerFails, transportVars
  <2>2. phase' = "working" => answer.type = "event"
    BY <2>1 DEF AfterFailure
  <2>3. phase' \in {"working", "returning"}
    BY <2>1 DEF AfterFailure
  <2>4. LastFits' /\ OpenIsJob'
    BY <2>1, <2>2, <2>3 DEF OneJob, LastFits, OpenIsJob, Behind, Open
  <2> QED BY <1>1, <2>1, <2>4
<1>10. CASE HandlerEvent
  BY <1>1, <1>10 DEF HandlerEvent, Answers, transportVars, OneJob, LastFits, OpenIsJob, Behind,
                     Open, ForRequest
<1>11. CASE HandlerReturn
  BY <1>1, <1>11 DEF HandlerReturn, Answers, transportVars, OneJob, LastFits, OpenIsJob,
                     Behind, Open, ForRequest
<1>12. CASE HandlerPanic
  BY <1>1, <1>12 DEF HandlerPanic, transportVars, OneJob, LastFits, OpenIsJob
<1>13. CASE StrayOutput
  <2> DEFINE g == Control("malformed")
  <2>1. g \in PluginFrame /\ g.type = "malformed"
    BY FrameType DEF PluginType, Control
  <2>2. Len(stdout) > 0 => Behind(stdout[Len(stdout)], g)
    BY <2>1 DEF Behind
  <2> HIDE DEF g
  <2>3. Paired' /\ stdout'[Len(stdout')] = g
    BY <1>13, <2>1, <2>2, WritePaired DEF StrayOutput, PluginWrites, OneJob, g
  <2>4. LastFits' /\ OpenIsJob'
    BY <1>13, <2>1, <2>3 DEF StrayOutput, serverVars, LastFits, OpenIsJob
  <2> QED BY <2>3, <2>4 DEF OneJob
<1>14. CASE ProcessEnds
  BY <1>1, <1>14 DEF ProcessEnds, LastFits, OpenIsJob
<1>15. CASE UNCHANGED vars
  BY <1>15 DEF vars, serverVars, transportVars, OneJob, Paired, LastFits, OpenIsJob, Behind, Open
<1> QED
  BY <1>2, <1>3, <1>4, <1>5, <1>6, <1>7, <1>8, <1>9, <1>10, <1>11, <1>12, <1>13, <1>14, <1>15
  DEF Next, Server, ServerNext, ServerLoop, ServeReturns, ProcessKilled

\* The synchronous server runs one invocation at a time, whatever the host
\* writes: from Started to the terminal frame the wire carries that request's
\* frames alone, stray output aside, and no event or result stands anywhere
\* else.
THEOREM SequentialCorrect == Spec => []Sequential
<1>1. Init => OneJob
  BY EmptyFacts DEF Init, HostInit, ServerInit, OneJob, Paired, LastFits, OpenIsJob
<1> QED BY <1>1, TypeCorrect, OneJobStep, OneJobImplies, PTL DEF Spec
=============================================================================

------------------------ MODULE ProcessCaptureProofs ------------------------
(***************************************************************************)
(* What run_capture returns, for any plugin, pipe capacity, amount of      *)
(* output and timeout, descendants included.                               *)
(***************************************************************************)
EXTENDS ProcessCapture, TLAPS

\* Nothing is lost between the writer and the thread that reads.
Accounted == \A s \in Stream : written[s] = captured[s] + pipe[s]

\* A reader thread ends only after the last process that could write.
DoneMeansEof ==
    \A s \in Stream :
        drain[s] = "done" => pipe[s] = 0 /\ alive = {} /\ caller # "start"

\* What has been joined by where the caller is.
Joined ==
    /\ caller = "joinStderr" => drain["stdout"] = "done"
    /\ outcome \in {"ok", "timeout"} => \A s \in Stream : drain[s] = "done"

\* What has been reaped by where the caller is.
Reaped ==
    /\ caller \notin {"start", "polling"} /\ outcome # "spawn_error"
          => reaped /\ "child" \notin alive
    /\ outcome # "none" => caller = "returned"

CaptureInv == TypeOK /\ Accounted /\ DoneMeansEof /\ Joined /\ Reaped

LEMMA CaptureInit == Init => CaptureInv
<1> SUFFICES ASSUME Init PROVE CaptureInv
  OBVIOUS
<1>1. TypeOK
  <2>1. PICK n \in Inputs : inputLeft = n /\ feed = IF n = 0 THEN "none" ELSE "writing"
    BY DEF Init
  <2>2. inputLeft \in Nat /\ feed \in {"none", "writing", "done", "broken"}
    BY <2>1, CaptureAssumption
  <2>3. expires \in BOOLEAN /\ late \in BOOLEAN /\ forked \in BOOLEAN /\ reaped \in BOOLEAN
    BY Zenon DEF Init
  <2>4. /\ drain \in [Stream -> {"reading", "done"}]
        /\ captured \in [Stream -> 0 .. MaxOutput]
        /\ pipe \in [Stream -> 0 .. Capacity]
        /\ written \in [Stream -> 0 .. MaxOutput]
        /\ inPipe \in 0 .. Capacity
    BY CaptureAssumption DEF Init
  <2> QED BY <2>2, <2>3, <2>4 DEF Init, TypeOK, CallerState
<1> QED BY <1>1 DEF Init, CaptureInv, Accounted, DoneMeansEof, Joined, Reaped, Stream

LEMMA CaptureStep == CaptureInv /\ [Next]_vars => CaptureInv'
<1> SUFFICES ASSUME CaptureInv, [Next]_vars PROVE CaptureInv'
  OBVIOUS
<1> USE CaptureAssumption DEF CaptureInv
<1>1. ASSUME NEW s \in Stream, Write(s) PROVE CaptureInv'
  <2>1. TypeOK'
    BY <1>1 DEF Write, TypeOK, callerVars, threadVars, processVars
  <2>2. Accounted'
    BY <1>1 DEF Write, Accounted, TypeOK, threadVars
  <2>3. DoneMeansEof' /\ Joined' /\ Reaped'
    BY <1>1 DEF Write, DoneMeansEof, Joined, Reaped, TypeOK, callerVars, threadVars, processVars
  <2> QED BY <2>1, <2>2, <2>3
<1>2. CASE ReadInput
  BY <1>2 DEF ReadInput, TypeOK, Accounted, DoneMeansEof, Joined, Reaped, callerVars, threadVars,
              processVars
<1>3. CASE Fork
  BY <1>3 DEF Fork, TypeOK, Accounted, DoneMeansEof, Joined, Reaped, Process, callerVars,
              threadVars, pipeVars
<1>4. ASSUME NEW p \in Process, Exit(p) PROVE CaptureInv'
  BY <1>4 DEF Exit, TypeOK, Accounted, DoneMeansEof, Joined, Reaped, callerVars, threadVars,
              pipeVars
<1>5. ASSUME NEW s \in Stream, DrainThread(s) PROVE CaptureInv'
  <2>1. CASE pipe[s] > 0 /\ pipe' = [pipe EXCEPT ![s] = @ - 1]
             /\ captured' = [captured EXCEPT ![s] = @ + 1] /\ UNCHANGED drain
    <3>1. captured[s] + 1 <= MaxOutput
      BY <1>5, <2>1 DEF Accounted, TypeOK
    <3>2. TypeOK'
      BY <1>5, <2>1, <3>1 DEF DrainThread, TypeOK, callerVars, processVars
    <3>3. Accounted'
      BY <1>5, <2>1 DEF DrainThread, Accounted, TypeOK
    <3>4. DoneMeansEof'
      BY <1>5, <2>1 DEF DrainThread, DoneMeansEof, TypeOK, callerVars, processVars
    <3>5. Joined' /\ Reaped'
      BY <1>5, <2>1 DEF DrainThread, Joined, Reaped, callerVars, processVars
    <3> QED BY <3>2, <3>3, <3>4, <3>5
  <2>2. CASE pipe[s] = 0 /\ alive = {} /\ drain' = [drain EXCEPT ![s] = "done"]
             /\ UNCHANGED <<pipe, captured>>
    <3>1. TypeOK' /\ Accounted'
      BY <1>5, <2>2 DEF DrainThread, TypeOK, Accounted, callerVars, processVars
    <3>2. DoneMeansEof'
      BY <1>5, <2>2 DEF DrainThread, DrainEnabled, Spawned, DoneMeansEof, TypeOK, callerVars,
                        processVars
    <3>3. Joined' /\ Reaped'
      BY <1>5, <2>2 DEF DrainThread, Joined, Reaped, Stream, TypeOK, callerVars, processVars
    <3> QED BY <3>1, <3>2, <3>3
  <2> QED BY <1>5, <2>1, <2>2 DEF DrainThread
<1>6. CASE FeedThread
  <2>1. TypeOK'
    BY <1>6 DEF FeedThread, TypeOK, callerVars, processVars
  <2> QED BY <1>6, <2>1 DEF FeedThread, Accounted, DoneMeansEof, Joined, Reaped, callerVars,
                            processVars
<1>7. CASE Spawn
  <2>1. TypeOK'
    BY <1>7 DEF Spawn, Return, TypeOK, CallerState, Process, threadVars, pipeVars
  <2>2. \A s \in Stream : drain[s] # "done"
    BY <1>7 DEF Spawn, DoneMeansEof
  <2>3. outcome = "none"
    BY <1>7 DEF Spawn, Reaped
  <2> QED BY <1>7, <2>1, <2>2, <2>3 DEF Spawn, Return, Accounted, DoneMeansEof, Joined, Reaped,
                                       threadVars, pipeVars
<1>8. CASE PollExited \/ PollExpired
  <2>1. TypeOK'
    BY <1>8 DEF PollExited, PollExpired, TypeOK, CallerState, threadVars, pipeVars
  <2>2. Accounted' /\ DoneMeansEof'
    BY <1>8 DEF PollExited, PollExpired, Accounted, DoneMeansEof, threadVars, pipeVars
  <2>3. outcome = "none" /\ UNCHANGED outcome
    BY <1>8 DEF PollExited, PollExpired, Reaped
  <2>4. Joined' /\ Reaped'
    BY <1>8, <2>3 DEF PollExited, PollExpired, Joined, Reaped
  <2> QED BY <2>1, <2>2, <2>4
<1>9. CASE JoinStdin \/ JoinStdout \/ JoinStderr
  <2>1. TypeOK'
    BY <1>9 DEF JoinStdin, JoinStdout, JoinStderr, Return, TypeOK, CallerState, threadVars,
                pipeVars, processVars
  <2>2. Accounted' /\ DoneMeansEof'
    BY <1>9 DEF JoinStdin, JoinStdout, JoinStderr, Return, Accounted, DoneMeansEof, threadVars,
                pipeVars, processVars
  <2>3. outcome = "none"
    BY <1>9 DEF JoinStdin, JoinStdout, JoinStderr, Reaped
  <2>4. Joined'
    BY <1>9, <2>3 DEF JoinStdin, JoinStdout, JoinStderr, StderrJoined, Return, Joined, Stream,
                      threadVars
  <2>5. Reaped'
    BY <1>9, <2>3 DEF JoinStdin, JoinStdout, JoinStderr, Return, Reaped, processVars
  <2> QED BY <2>1, <2>2, <2>4, <2>5
<1>10. CASE UNCHANGED vars
  BY <1>10 DEF vars, callerVars, threadVars, pipeVars, processVars, TypeOK, Accounted,
               DoneMeansEof, Joined, Reaped
<1> QED
  BY <1>1, <1>2, <1>3, <1>4, <1>5, <1>6, <1>7, <1>8, <1>9, <1>10
  DEF Next, Plugin, Threads, Caller, Idle

\* The result of run_capture holds exactly what was written to each stream,
\* by a plugin that ended or was killed and by any descendant it left.
THEOREM CaptureComplete == Spec => []OutputComplete
<1>1. CaptureInv => OutputComplete
  <2> SUFFICES ASSUME CaptureInv, outcome \in {"ok", "timeout"} PROVE captured = written
    BY DEF OutputComplete
  <2>1. \A s \in Stream : pipe[s] = 0 /\ written[s] = captured[s] + pipe[s]
    BY DEF CaptureInv, Joined, DoneMeansEof, Accounted
  <2>2. \A s \in Stream : captured[s] = written[s]
    BY <2>1 DEF CaptureInv, TypeOK
  <2> QED BY <2>2 DEF CaptureInv, TypeOK
<1> QED BY <1>1, CaptureInit, CaptureStep, PTL DEF Spec

\* When run_capture returns, after the exit of its child or after the timeout,
\* the child is dead and has been waited for (process.rs 105-109).
THEOREM CaptureReaps == Spec => []ChildReaped
<1>1. CaptureInv => ChildReaped
  BY DEF CaptureInv, Reaped, ChildReaped
<1> QED BY <1>1, CaptureInit, CaptureStep, PTL DEF Spec
=============================================================================

----------------------------- MODULE Conformance -----------------------------
(***************************************************************************)
(* Who looks at one plugin executable before and when it is used:          *)
(*                                                                         *)
(*   harness   check_plugin of outboard-testing                            *)
(*   doctor    the management command `plugins doctor KIND:NAME [--deep]`  *)
(*   host      resolve, spawn_with_interfaces, ping and shutdown           *)
(*                                                                         *)
(* one after another, each step running whatever executable is at the path *)
(* by then.  The executable is replaced meanwhile, the manifest cache that *)
(* doctor and host share may be stale, and any run may be too slow.  The   *)
(* session of a synchronous WorkerClient is its spawn, ping and shutdown.  *)
(***************************************************************************)
EXTENDS ControlPlane

CONSTANTS
    Executable,    \* what may be installed at the path
    Replacement,   \* what may replace it
    NoExecutable,
    NoManifest,
    CandidateId,   \* the identity in the path's file name
    Scenario,      \* who acts, with which options and requirement
    MaxReplaced,   \* bound: replacements of the executable
    MaxFaults      \* bound: operations that exceed their timeout by chance

Driver == {"harness", "doctor", "host"}

\* The host comes last; the harness has three things to require.
ASSUME ConformanceAssumption ==
    /\ MaxReplaced \in Nat /\ MaxFaults \in Nat
    /\ NoExecutable \notin Executable \cup Replacement
    /\ \A x \in Executable \cup Replacement :
          /\ x \in ExecutableType({x.manifest, x.serves})
          /\ x.manifest # NoManifest
          /\ x.manifest.control \subseteq ControlOperation
          /\ LET l == x.manifest.interfaces IN l \in Seq({l[k] : k \in DOMAIN l})
    /\ \A s \in Scenario :
          /\ s.require \subseteq {"worker", "doctor", "cli-schema"}
          /\ s.drivers \in Seq(Driver)
          /\ \A k \in DOMAIN s.drivers : s.drivers[k] = "host" => k = Len(s.drivers)

VARIABLES
    installed,  \* the executable at the path
    cached,     \* its manifest in the cache, or NoManifest
    scenario,
    drivers,    \* who still acts, the first of them now
    pc,         \* where it is
    known,      \* the manifest it goes by
    worker,     \* the executable that runs as its worker, or holds it
    checks,     \* the report of the harness: names of checks with their status
    results,    \* how each driver ended
    replaced,
    faults

vars == <<installed, cached, scenario, drivers, pc, known, worker, checks, results,
          replaced, faults>>

\* What the cache, which goes by the file and not by its name, may hold from
\* before: the manifest inspected under this name or under another one, a link.
Remembered ==
    {x.manifest : x \in {y \in {installed} \ {NoExecutable} :
        Answer(y, "manifest") = "manifest" /\ "manifest" \notin y.keeps /\ validate(y.manifest)}}

Init ==
    /\ installed \in Executable \cup {NoExecutable}
    /\ cached \in {NoManifest} \cup Remembered
    /\ scenario \in Scenario
    /\ drivers = scenario.drivers
    /\ pc = "start"
    /\ known = NoManifest
    /\ worker = NoExecutable
    /\ checks = {}
    /\ results = [d \in Driver |-> "none"]
    /\ replaced = 0
    /\ faults = 0

At(d, step) == drivers # <<>> /\ Head(drivers) = d /\ pc = step

\* The driver goes on at a step, or is done.
Goto(step) == pc' = step /\ UNCHANGED <<drivers, results>>
Return(result) ==
    /\ pc' = "start"
    /\ drivers' = Tail(drivers)
    /\ results' = [results EXCEPT ![Head(drivers)] = result]

\* run_capture_args of the control plane: "err" if it cannot be started or does
\* not end in time.  Ended or killed, it returns when its streams are at their
\* end, so never if somebody keeps them.
Reply(request) ==
    IF installed = NoExecutable THEN "err"
    ELSE IF Answer(installed, request) = "hangs" THEN "err" ELSE Answer(installed, request)

Keeps(x, request) == x # NoExecutable /\ request \in x.keeps

Captured(request, a) ==
    /\ ~Keeps(installed, request)
    /\ \/ a = Reply(request) /\ UNCHANGED faults
       \/ a = "err" /\ Reply(request) # "err" /\ faults < MaxFaults /\ faults' = faults + 1

Printed == IF installed = NoExecutable THEN NoManifest ELSE installed.manifest

(***************************************************************************)
(* check_plugin.                                                           *)
(***************************************************************************)
Check(name, ok) == {<<name, IF ok THEN "pass" ELSE "fail">>}
Push(new) == checks' = checks \cup new

\* is_healthy of the finished report.
Report(new) ==
    /\ Push(new)
    /\ Return(IF \A c \in checks \cup new : c[2] # "fail" THEN "healthy" ELSE "failing")

\* A new report.
CheckExists ==
    /\ At("harness", "start")
    /\ known' = NoManifest /\ worker' = NoExecutable
    /\ \/ /\ installed = NoExecutable
          /\ checks' = Check("executable.exists", FALSE) /\ Return("failing")
       \/ /\ installed # NoExecutable
          /\ checks' = Check("executable.exists", TRUE) /\ Goto("manifest")
    /\ UNCHANGED <<installed, cached, scenario, replaced, faults>>

CheckManifest ==
    /\ At("harness", "manifest")
    /\ \E a \in {Reply("manifest"), "err"} :
          /\ Captured("manifest", a)
          /\ \/ /\ a = "manifest"
                /\ known' = Printed
                /\ Push(Check("control.manifest", TRUE)) /\ Goto("contents")
             \/ /\ a # "manifest"
                /\ Report(Check("control.manifest", FALSE))
                /\ UNCHANGED known
    /\ UNCHANGED <<installed, cached, scenario, worker, replaced>>

\* Mutant of Contents: an invalid manifest is passed over.
SomeContents(m) ==
    (UNION {Check("manifest.identity", m.id = id) : id \in scenario.expected_id})
    \cup (UNION {Check("interface", Provides(m, r)) : r \in scenario.interfaces})
\* validate, the expected identity and the required interfaces.
Contents(m) ==
    Check("manifest.validate", validate(m))
    \cup (UNION {Check("manifest.identity", m.id = id) : id \in scenario.expected_id})
    \cup (UNION {Check("interface", Provides(m, r)) : r \in scenario.interfaces})

CheckContents ==
    /\ At("harness", "contents")
    /\ Push(Contents(known)) /\ Goto("doctor")
    /\ UNCHANGED <<installed, cached, scenario, known, worker, replaced, faults>>

\* check_doctor, check_cli_schema, check_control_ping: an operation that is not
\* advertised is not run, and fails if it is required.
CheckControl(op, good, next) ==
    /\ At("harness", op)
    /\ \/ /\ op \notin known.control
          /\ Push(IF op \in scenario.require THEN Check(op, FALSE) ELSE {})
          /\ UNCHANGED faults
       \/ /\ op \in known.control
          /\ \E a \in {Reply(op), "err"} : Captured(op, a) /\ Push(Check(op, a \in good))
    /\ Goto(next)
    /\ UNCHANGED <<installed, cached, scenario, known, worker, replaced>>

\* Mutant of HealthyReports: only a report without warnings is healthy.
OnlyPass == {"pass"}
HealthyReports == {s \in {"pass", "warn", "fail"} : is_healthy(s)}

CheckWorker ==
    /\ At("harness", "worker")
    /\ \/ supports(known, "worker") /\ Goto("spawn") /\ UNCHANGED checks
       \/ /\ ~supports(known, "worker")
          /\ Report(IF "worker" \in scenario.require THEN Check("worker.advertised", FALSE)
                    ELSE {})
    /\ UNCHANGED <<installed, cached, scenario, known, worker, replaced, faults>>

HarnessStep ==
    \/ CheckExists \/ CheckManifest \/ CheckContents
    \/ CheckControl("doctor", HealthyReports, "cli-schema")
    \/ CheckControl("cli-schema", {"object"}, "ping")
    \/ CheckControl("ping", {"ok"}, "worker")
    \/ CheckWorker

(***************************************************************************)
(* Registry::inspect, `plugins doctor` and a host's resolve.               *)
(***************************************************************************)
\* inspect ends with the manifest m, NoManifest for an error.
Inspected(m) ==
    LET good == validate(Printed) /\ Printed.id = CandidateId
    IN \/ /\ cached # NoManifest
          /\ m = IF cached.id = CandidateId THEN cached ELSE NoManifest
          /\ cached' = m
          /\ UNCHANGED faults
       \/ /\ cached = NoManifest
          /\ \E a \in {Reply("manifest"), "err"} :
                /\ Captured("manifest", a)
                /\ m = IF a = "manifest" /\ good THEN Printed ELSE NoManifest
          /\ cached' = m

\* discover and inspect: select of the management commands, the candidates of
\* resolve_best.
Find(m) ==
    \/ /\ installed = NoExecutable /\ m = NoManifest
       /\ UNCHANGED <<cached, faults>>
    \/ installed # NoExecutable /\ Inspected(m)

DoctorSelect ==
    /\ At("doctor", "start")
    /\ \E m \in {Printed, cached, NoManifest} :
          /\ Find(m)
          /\ known' = m
          /\ IF m = NoManifest THEN Return("error") ELSE Goto("doctor")
    /\ worker' = NoExecutable
    /\ UNCHANGED <<installed, scenario, checks, replaced>>

\* The report is printed whatever it says.
DoctorReport ==
    /\ At("doctor", "doctor")
    /\ \E a \in {Reply("doctor"), "err"} :
          /\ Captured("doctor", a)
          /\ \/ a \notin {"pass", "warn", "fail"} /\ Return("error")
             \/ /\ a \in {"pass", "warn", "fail"}
                /\ IF scenario.deep /\ supports(known, "worker") THEN Goto("spawn")
                   ELSE Return("report")
    /\ UNCHANGED <<installed, cached, scenario, known, worker, checks, replaced>>

HostResolve ==
    /\ At("host", "start")
    /\ \E m \in {Printed, cached, NoManifest} :
          /\ Find(m)
          /\ known' = m
          /\ \/ m = NoManifest /\ Return("rejected")
             \/ /\ m # NoManifest
                /\ IF compatibility_issues(m, scenario.requirement) = {} THEN Goto("spawn")
                   ELSE Return("rejected")
    /\ worker' = NoExecutable
    /\ UNCHANGED <<installed, scenario, checks, replaced>>

\* The request that the driver runs and captures now, if any.
Runs(request) ==
    \/ At("harness", "manifest") /\ request = "manifest"
    \/ request \in ControlOperation /\ At("harness", request) /\ request \in known.control
    \/ At("doctor", "doctor") /\ request = "doctor"
    \/ /\ At("doctor", "start") \/ At("host", "start")
       /\ cached = NoManifest /\ request = "manifest"

\* The joins of run_capture have no bound.
CaptureHeld ==
    /\ \E request \in ControlRequest : Runs(request) /\ Keeps(installed, request)
    /\ worker' = installed
    /\ Goto("held")
    /\ UNCHANGED <<installed, cached, scenario, known, checks, replaced, faults>>

(***************************************************************************)
(* The WorkerClient of each of them.                                       *)
(***************************************************************************)
Requested ==
    CASE Head(drivers) = "harness" -> scenario.interfaces
      [] Head(drivers) = "doctor" -> {}
      [] Head(drivers) = "host" -> scenario.requested

Following == [handshake |-> "pong", ping |-> "stop", shutdown |-> "start"]

\* The end of a client joins its reader thread, without a bound too.
JoinHeld ==
    /\ Keeps(worker, "serve")
    /\ Goto("held") /\ UNCHANGED checks

\* An operation succeeded.
Succeeds(op) ==
    CASE Head(drivers) = "harness" ->
             IF op = "shutdown" THEN Report(Check(op, TRUE))
             ELSE Push(Check(op, TRUE)) /\ Goto(Following[op])
      [] Head(drivers) = "doctor" ->
             /\ IF op = "shutdown" THEN Return("pass") ELSE Goto(Following[op])
             /\ UNCHANGED checks
      [] Head(drivers) = "host" ->
             /\ IF op = "shutdown" THEN Return("served") ELSE Goto(Following[op])
             /\ UNCHANGED checks

Passed(op) ==
    \/ op = "shutdown" /\ JoinHeld
    \/ ~(op = "shutdown" /\ Keeps(worker, "serve")) /\ Succeeds(op)

\* It failed: the harness notes it, and shuts down also after a failed ping;
\* the others give up, and drop the client.
GivesUp(op, why) ==
    CASE Head(drivers) = "harness" ->
             IF op = "ping" THEN Push(Check(op, FALSE)) /\ Goto("stop")
             ELSE Report(Check(op, FALSE))
      [] Head(drivers) = "doctor" -> Return("error") /\ UNCHANGED checks
      [] Head(drivers) = "host" -> Return(why) /\ UNCHANGED checks

Failed(op, why) ==
    LET ends == op # "ping" \/ Head(drivers) # "harness"
    IN \/ ends /\ JoinHeld
       \/ ~(ends /\ Keeps(worker, "serve")) /\ GivesUp(op, why)

Working(step) == drivers # <<>> /\ pc = step

Spawn ==
    /\ Working("spawn")
    /\ \/ ~supports(known, "worker") /\ Failed("handshake", "unsupported") /\ UNCHANGED worker
       \/ /\ supports(known, "worker") /\ installed = NoExecutable
          /\ Failed("handshake", "lost") /\ UNCHANGED worker
       \/ /\ supports(known, "worker") /\ installed # NoExecutable
          /\ worker' = installed
          /\ Goto("hello") /\ UNCHANGED checks
    /\ UNCHANGED <<installed, cached, scenario, known, replaced, faults>>

\* The worker reads the hello in serve_worker, and answers it if it accepts it.
Serving == worker.answers["serve"] = "library" /\ worker.serve \notin {"exits", "silent"}
Accepts == validate_hello(worker.serves, HostHello(Requested))

\* Mutant of SameManifest: any hello is as good.
AnyManifest == TRUE
SameManifest == worker.serves = known

HelloPasses ==
    /\ Working("hello")
    /\ Serving /\ Accepts /\ SameManifest /\ worker.protocol \in HostProtocol
    /\ Passed("handshake")
    /\ UNCHANGED <<installed, cached, scenario, known, worker, replaced, faults>>

\* The stream ends or is no frame, the worker refuses, or its hello is wrong.
HelloFails ==
    /\ Working("hello")
    /\ worker.serve # "silent" /\ worker.answers["serve"] # "hangs"
    /\ ~(Serving /\ Accepts /\ SameManifest /\ worker.protocol \in HostProtocol)
    /\ Failed("handshake", IF ~Serving THEN "lost" ELSE IF ~Accepts THEN "refused"
                           ELSE IF ~SameManifest THEN "changed" ELSE "protocol")
    /\ UNCHANGED <<installed, cached, scenario, known, worker, replaced, faults>>

\* recv_control gives up: the worker says nothing, or not in time.
\* Mutant of Mute: a silent worker is waited for.
WaitsForMute(step) == FALSE
Mute(step) ==
    \/ step = "hello" /\ (worker.serve = "silent" \/ worker.answers["serve"] = "hangs")
    \/ step \in {"pong", "stop"} /\ worker.serve = "deaf"

Operation == [hello |-> "handshake", pong |-> "ping", stop |-> "shutdown"]

ControlTimeout ==
    \E step \in DOMAIN Operation :
        /\ Working(step)
        /\ \/ Mute(step) /\ UNCHANGED faults
           \/ ~Mute(step) /\ faults < MaxFaults /\ faults' = faults + 1
        /\ Failed(Operation[step], "lost")
        /\ UNCHANGED <<installed, cached, scenario, known, worker, replaced>>

PingAnswered ==
    /\ Working("pong")
    /\ \/ worker.serve \in {"serves", "lingers"} /\ Passed("ping")
       \/ worker.serve = "errors" /\ Failed("ping", "lost")
    /\ UNCHANGED <<installed, cached, scenario, known, worker, replaced, faults>>

ShutdownAck ==
    /\ Working("stop")
    /\ worker.serve \in {"serves", "lingers", "errors"}
    /\ Goto("wait")
    /\ UNCHANGED <<installed, cached, scenario, known, worker, checks, replaced, faults>>

\* child.wait() has no timeout.
Exited ==
    /\ Working("wait")
    /\ worker.serve # "lingers"
    /\ Passed("shutdown")
    /\ UNCHANGED <<installed, cached, scenario, known, worker, replaced, faults>>

\* The client waits: every frame that is not the awaited one starts the timeout
\* of ping and shutdown anew, and the exit and the joins have none.
Waits == drivers # <<>> /\ pc \in {"hello", "pong", "stop", "wait", "held"} /\ UNCHANGED vars

\* A host may drop its client instead.
HostDrops ==
    /\ \E step \in {"pong", "stop"} : At("host", step)
    /\ \/ JoinHeld
       \/ ~Keeps(worker, "serve") /\ Return("served") /\ UNCHANGED checks
    /\ UNCHANGED <<installed, cached, scenario, known, worker, replaced, faults>>

(***************************************************************************)
(* The world.                                                              *)
(***************************************************************************)
\* A replacement usually changes the fingerprint and so ends the cache entry.
Replace ==
    /\ replaced < MaxReplaced /\ drivers # <<>>
    /\ replaced' = replaced + 1
    /\ installed' \in (Replacement \cup {NoExecutable}) \ {installed}
    /\ cached' \in {cached, NoManifest}
    /\ UNCHANGED <<scenario, drivers, pc, known, worker, checks, results, faults>>

Stop == drivers = <<>> /\ UNCHANGED vars

Step ==
    \/ HarnessStep \/ DoctorSelect \/ DoctorReport \/ HostResolve \/ CaptureHeld
    \/ Spawn \/ HelloPasses \/ HelloFails \/ ControlTimeout
    \/ PingAnswered \/ ShutdownAck \/ Exited

Next == Step \/ Waits \/ HostDrops \/ Replace \/ Stop

Spec == Init /\ [][Next]_vars /\ WF_vars(Step)

(***************************************************************************)
(* Properties.                                                             *)
(***************************************************************************)
Undisturbed == replaced = 0 /\ faults = 0

\* What a plugin must be to pass: valid, as expected, true to the operations it
\* advertises and to the worker mode, with one and the same manifest.
WellMade(x) ==
    LET m == x.manifest
        advertised == {"manifest"} \cup m.control
                      \cup (IF "worker" \in m.execution THEN {"serve"} ELSE {})
    IN /\ \A r \in advertised : x.answers[r] = "library" /\ r \notin x.keeps
       /\ validate(m)
       /\ scenario.expected_id \subseteq {m.id}
       /\ \A r \in scenario.interfaces : \E k \in DOMAIN m.interfaces :
             m.interfaces[k].id = r.id /\ m.interfaces[k].version \in r.version
       /\ scenario.require \subseteq m.control \cup (m.execution \cap {"worker"})
       /\ "doctor" \in m.control => x.doctor # "fail"
       /\ "cli-schema" \in m.control => x.schema = "object"
       /\ "worker" \in m.execution =>
             /\ x.serve = "serves" /\ x.serves = m /\ x.protocol \in HostProtocol
             /\ FrameworkVersion \in m.framework /\ ProtocolVersion \in m.worker_protocol

\* If nothing is replaced or too slow, check_plugin reports a plugin healthy
\* exactly if it is well made; and the deep doctor says "pass" only of an
\* executable that has said hello with the manifest inspected, answered a ping
\* and exited when told to (AGENT_TESTING.md 77: "plugins doctor engine:echo
\* --deep and the conformance harness must fail the worker handshake").
ReportRight ==
    /\ results["harness"] # "none" /\ Undisturbed =>
          (results["harness"] = "healthy" <=> installed # NoExecutable /\ WellMade(installed))
    /\ results["doctor"] = "pass" /\ pc = "start" /\ drivers = Tail(scenario.drivers) =>
          worker.serve = "serves" /\ worker.serves = known /\ worker.serves.id = CandidateId

\* A host that asks for worker execution, and for no interface the harness did
\* not, gets a session with a plugin the harness found healthy under the name
\* it is installed by: no check of the way is stricter than the harness.
HealthyIsUsable ==
    LET req == scenario.requirement
    IN /\ Undisturbed
       /\ results["harness"] = "healthy" /\ results["host"] # "none"
       /\ scenario.expected_id = {CandidateId} /\ "worker" \in scenario.require
       /\ req.kind = CandidateId.kind /\ req.name \subseteq {CandidateId.name}
       /\ req.execution = {"worker"} /\ req.capabilities = {}
       /\ req.interface \cup scenario.requested \subseteq scenario.interfaces
       => results["host"] = "served"

\* However stale the cache and whatever is replaced between resolving and
\* spawning, a session that opens is with a worker whose own manifest is the
\* one resolved, and meets the requirement (worker.rs ManifestChanged).
SessionFits ==
    drivers # <<>> /\ pc \in {"pong", "stop", "wait"} =>
        /\ worker.serves = known
        /\ worker.protocol \in HostProtocol
        /\ Head(drivers) # "harness" => validate(known) /\ known.id = CandidateId
        /\ Head(drivers) = "host" => Satisfies(worker.serves, scenario.requirement)

\* compatibility_issues and validate_hello agree: a worker is not refused at
\* the handshake what it was resolved for.
ResolvedIsAccepted ==
    results["host"] = "refused" =>
        \/ scenario.requirement.execution # {"worker"}
        \/ ~(scenario.requested \subseteq scenario.requirement.interface)
        \/ worker.serves # known

\* Everybody ends, unless a worker floods a ping or a shutdown with other
\* frames, or acknowledges a shutdown and stays, or what an executable has
\* started outlives it and keeps its output, which no timeout bounds
\* (process.rs 111-121, worker.rs 139).
Held ==
    /\ drivers # <<>>
    /\ \/ pc \in {"pong", "stop", "wait"} /\ worker.serve \in {"chatters", "lingers"}
       \/ pc = "held" /\ \E request \in ControlRequest : Keeps(worker, request)
DriversEnd == <>[](drivers = <<>> \/ Held)
=============================================================================

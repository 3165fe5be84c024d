-------------------------- MODULE ConformanceProofs --------------------------
(***************************************************************************)
(* That the three checks of a manifest's contract agree, for all manifests *)
(* and requirements, and what this means for a host and the worker that it *)
(* resolved, however often the executable is replaced.                     *)
(***************************************************************************)
EXTENDS Conformance, TLAPS

(***************************************************************************)
(* compatibility_issues, Satisfies and validate_hello.                     *)
(***************************************************************************)
\* No issue is the conjunction of the checks (manifest.rs compatibility_issues).
LEMMA NoIssue ==
    ASSUME NEW m, NEW req, compatibility_issues(m, req) = {}
    PROVE  /\ FrameworkVersion \in m.framework
           /\ \A n \in req.name : m.id.name = n
           /\ m.id.kind = req.kind
           /\ \A mode \in req.execution : mode \in m.execution
           /\ \A r \in req.interface : Provides(m, r)
           /\ \A r \in req.capabilities :
                 /\ capability(m, r.id) # {}
                 /\ \A c \in capability(m, r.id) : Grants(c, r)
           /\ "worker" \in req.execution => ProtocolVersion \in m.worker_protocol
  <1>1. /\ FrameworkIssue(m) = {} /\ IdentityIssues(m, req) = {}
        /\ ExecutionIssues(m, req) = {} /\ InterfaceIssues(m, req) = {}
        /\ CapabilityIssues(m, req) = {} /\ ProtocolIssue(m, req) = {}
    BY DEF compatibility_issues
  <1>2. FrameworkVersion \in m.framework
    BY <1>1 DEF FrameworkIssue, Issue, matches
  <1>3. (\A n \in req.name : m.id.name = n) /\ m.id.kind = req.kind
    BY <1>1 DEF IdentityIssues, Issue
  <1>4. \A mode \in req.execution : mode \in m.execution
    BY <1>1 DEF ExecutionIssues, Issue, supports
  <1>5. \A r \in req.interface : Provides(m, r)
    BY <1>1 DEF InterfaceIssues, Issue
  <1>6. \A r \in req.capabilities :
           /\ capability(m, r.id) # {}
           /\ \A c \in capability(m, r.id) : Grants(c, r)
    BY <1>1 DEF CapabilityIssues, Issue
  <1>7. "worker" \in req.execution => ProtocolVersion \in m.worker_protocol
    BY <1>1 DEF ProtocolIssue, Issue, matches
  <1> QED
    BY <1>2, <1>3, <1>4, <1>5, <1>6, <1>7

\* The converse.
LEMMA AllChecked ==
    ASSUME NEW m, NEW req,
           FrameworkVersion \in m.framework,
           \A n \in req.name : m.id.name = n,
           m.id.kind = req.kind,
           \A mode \in req.execution : mode \in m.execution,
           \A r \in req.interface : Provides(m, r),
           \A r \in req.capabilities :
              /\ capability(m, r.id) # {}
              /\ \A c \in capability(m, r.id) : Grants(c, r),
           "worker" \in req.execution => ProtocolVersion \in m.worker_protocol
    PROVE  compatibility_issues(m, req) = {}
  <1>1. FrameworkIssue(m) = {}
    BY DEF FrameworkIssue, Issue, matches
  <1>2. IdentityIssues(m, req) = {}
    BY DEF IdentityIssues, Issue
  <1>3. ExecutionIssues(m, req) = {}
    BY DEF ExecutionIssues, Issue, supports
  <1>4. InterfaceIssues(m, req) = {}
    <2>1. \A r \in req.interface : interface(m, r.id) # {}
      BY DEF Provides
    <2> QED
      BY <2>1 DEF InterfaceIssues, Issue
  <1>5. CapabilityIssues(m, req) = {}
    BY DEF CapabilityIssues, Issue
  <1>6. ProtocolIssue(m, req) = {}
    BY DEF ProtocolIssue, Issue, matches
  <1> QED
    BY <1>1, <1>2, <1>3, <1>4, <1>5, <1>6 DEF compatibility_issues

\* interface() and capability() find an entry of that identifier in the list.
LEMMA FirstIsEntry ==
    ASSUME NEW s, NEW id, NEW e \in First(s, id)
    PROVE  \E k \in DOMAIN s : s[k] = e /\ s[k].id = id
  BY DEF First

\* In a list that validate accepts every entry is the first of its identifier.
LEMMA EntryIsFirst ==
    ASSUME NEW S, NEW s \in Seq(S), ValidList(s), NEW k \in DOMAIN s
    PROVE  First(s, s[k].id) = {s[k]}
  <1>1. \A j \in 1 .. k - 1 : j \in DOMAIN s /\ j # k
    OBVIOUS
  <1>2. \A j \in 1 .. k - 1 : s[j].id # s[k].id
    BY <1>1 DEF ValidList
  <1>3. \A j \in DOMAIN s : s[j].id = s[k].id => j = k
    BY DEF ValidList
  <1> QED
    BY <1>2, <1>3 DEF First

\* A manifest without issues satisfies the requirement.
LEMMA NoIssueSatisfies ==
    ASSUME NEW m, NEW req, compatibility_issues(m, req) = {}
    PROVE  Satisfies(m, req)
  <1>1. \A r \in req.interface : \E k \in DOMAIN m.interfaces :
           m.interfaces[k].id = r.id /\ m.interfaces[k].version \in r.version
    <2> SUFFICES ASSUME NEW r \in req.interface
                 PROVE  \E k \in DOMAIN m.interfaces :
                           m.interfaces[k].id = r.id /\ m.interfaces[k].version \in r.version
      OBVIOUS
    <2>1. PICK i \in interface(m, r.id) : i.version \in r.version
      BY NoIssue DEF Provides, matches
    <2>2. i \in First(m.interfaces, r.id)
      BY <2>1 DEF interface
    <2> QED
      BY <2>1, <2>2, FirstIsEntry
  <1>2. \A r \in req.capabilities : \E k \in DOMAIN m.capabilities :
           m.capabilities[k].id = r.id /\ Grants(m.capabilities[k], r)
    <2> SUFFICES ASSUME NEW r \in req.capabilities
                 PROVE  \E k \in DOMAIN m.capabilities :
                           m.capabilities[k].id = r.id /\ Grants(m.capabilities[k], r)
      OBVIOUS
    <2>1. PICK c \in capability(m, r.id) : Grants(c, r)
      BY NoIssue
    <2>2. c \in First(m.capabilities, r.id)
      BY <2>1 DEF capability
    <2> QED
      BY <2>1, <2>2, FirstIsEntry
  <1> QED
    BY <1>1, <1>2, NoIssue DEF Satisfies

\* Of a valid manifest compatibility_issues reports an issue exactly if the
\* requirement is not met (manifest.rs compatibility_issues, validate): that no
\* entry hides another is what the checks for duplicates are for.
THEOREM CompatibilityExact ==
    ASSUME NEW m, NEW req, NEW S,
           m.interfaces \in Seq(S), m.capabilities \in Seq(S), validate(m)
    PROVE  compatibility_issues(m, req) = {} <=> Satisfies(m, req)
  <1> SUFFICES ASSUME Satisfies(m, req)
               PROVE  compatibility_issues(m, req) = {}
    BY NoIssueSatisfies
  <1>1. ValidList(m.interfaces) /\ ValidList(m.capabilities)
    BY DEF validate
  <1>2. ASSUME NEW r \in req.interface
        PROVE  Provides(m, r)
    <2>1. PICK k \in DOMAIN m.interfaces :
             m.interfaces[k].id = r.id /\ m.interfaces[k].version \in r.version
      BY DEF Satisfies
    <2>2. First(m.interfaces, m.interfaces[k].id) = {m.interfaces[k]}
      BY <1>1, EntryIsFirst
    <2> QED
      BY <2>1, <2>2 DEF Provides, interface, matches
  <1>3. ASSUME NEW r \in req.capabilities
        PROVE  /\ capability(m, r.id) # {}
               /\ \A c \in capability(m, r.id) : Grants(c, r)
    <2>1. PICK k \in DOMAIN m.capabilities :
             m.capabilities[k].id = r.id /\ Grants(m.capabilities[k], r)
      BY DEF Satisfies
    <2>2. First(m.capabilities, m.capabilities[k].id) = {m.capabilities[k]}
      BY <1>1, EntryIsFirst
    <2> QED
      BY <2>1, <2>2 DEF capability
  <1> QED
    BY <1>2, <1>3, AllChecked DEF Satisfies

\* A worker resolved for worker execution accepts the hello of a host that asks
\* for interfaces of its requirement (worker.rs validate_hello).
LEMMA ResolvedAcceptsHello ==
    ASSUME NEW m, NEW req, NEW asked,
           compatibility_issues(m, req) = {},
           "worker" \in req.execution, asked \subseteq req.interface
    PROVE  validate_hello(m, HostHello(asked))
  <1>1. \A r \in asked : Provides(m, r)
    BY NoIssue
  <1>2. FrameworkVersion \in m.framework /\ ProtocolVersion \in m.worker_protocol
    BY NoIssue
  <1> QED
    BY <1>1, <1>2 DEF validate_hello, HostHello, matches

(***************************************************************************)
(* The host and its worker.                                                *)
(***************************************************************************)
\* What inspect hands on.
Usable(m) == validate(m) /\ m.id = CandidateId

Session == {"pong", "stop", "wait"}

\* A driver that has not begun, or will not go on.
Idle == {"start", "held"}

\* How a driver ends.
Result == {"none", "healthy", "failing", "error", "report", "pass", "rejected",
           "unsupported", "lost", "refused", "changed", "protocol", "served"}

\* The host comes last, so that its result is the end.
Order ==
    /\ drivers \in Seq(Driver)
    /\ \A k \in DOMAIN drivers : drivers[k] = "host" => k = Len(drivers)
    /\ results \in [Driver -> Result]
    /\ results["host"] # "none" => drivers = <<>>

\* What a driver goes by, beyond its first step.
Informed ==
    /\ cached # NoManifest => validate(cached)
    /\ drivers # <<>> /\ Head(drivers) # "harness" /\ pc \notin Idle => Usable(known)
    /\ drivers # <<>> /\ Head(drivers) = "host" /\ pc \notin Idle =>
          compatibility_issues(known, scenario.requirement) = {}

\* The worker has said hello as the manifest the driver goes by, or has refused.
Connected ==
    /\ drivers # <<>> /\ pc \in Session =>
          worker.serves = known /\ worker.protocol \in HostProtocol
    /\ results["host"] = "refused" =>
          /\ compatibility_issues(known, scenario.requirement) = {}
          /\ ~validate_hello(worker.serves, HostHello(scenario.requested))

Inv == Order /\ Informed /\ Connected

\* The drivers that are left when the first has returned.
LEMMA TailOrder ==
    ASSUME Order, drivers # <<>>
    PROVE  /\ Tail(drivers) \in Seq(Driver)
           /\ Head(drivers) \in Driver
           /\ \A k \in DOMAIN Tail(drivers) :
                 Tail(drivers)[k] = "host" => k = Len(Tail(drivers))
           /\ Head(drivers) = "host" => Tail(drivers) = <<>>
  <1>1. drivers \in Seq(Driver) /\ Len(drivers) \in Nat /\ Len(drivers) > 0
    BY DEF Order
  <1>2. /\ Tail(drivers) \in Seq(Driver)
        /\ Len(Tail(drivers)) = Len(drivers) - 1
        /\ \A k \in 1 .. Len(drivers) - 1 : Tail(drivers)[k] = drivers[k + 1]
    BY <1>1
  <1>3. \A k \in DOMAIN Tail(drivers) : Tail(drivers)[k] = "host" => k = Len(Tail(drivers))
    BY <1>1, <1>2 DEF Order
  <1>4. Head(drivers) = drivers[1] /\ 1 \in DOMAIN drivers
    BY <1>1
  <1>5. Head(drivers) = "host" => Tail(drivers) = <<>>
    BY <1>1, <1>2, <1>4 DEF Order
  <1> QED
    BY <1>1, <1>2, <1>3, <1>4, <1>5 DEF Driver

\* A step that goes on, or returns, keeps the order.
LEMMA GotoOrder ==
    ASSUME Order, NEW step, Goto(step)
    PROVE  Order'
  BY DEF Order, Goto

LEMMA ReturnOrder ==
    ASSUME Order, drivers # <<>>, NEW r \in Result, Return(r)
    PROVE  /\ Order'
           /\ results'["host"] # "none" => Head(drivers) = "host" /\ results'["host"] = r
           /\ pc' = "start"
  <1>1. /\ drivers' = Tail(drivers) /\ pc' = "start"
        /\ results' = [results EXCEPT ![Head(drivers)] = r]
    BY DEF Return
  <1>2. results["host"] = "none" /\ results \in [Driver -> Result] /\ "host" \in Driver
    BY DEF Order, Driver
  <1>3. /\ results' \in [Driver -> Result]
        /\ results'["host"] # "none" => Head(drivers) = "host" /\ results'["host"] = r
    BY <1>1, <1>2, TailOrder
  <1> QED
    BY <1>1, <1>3, TailOrder DEF Order

\* inspect hands on what it has validated under the name it looks at, and caches
\* nothing else, whatever name the cached manifest was inspected under.
LEMMA FindUsable ==
    ASSUME cached # NoManifest => validate(cached), NEW m, Find(m)
    PROVE  /\ m # NoManifest => Usable(m)
           /\ cached' # NoManifest => validate(cached')
  BY DEF Find, Inspected, Usable

\* The two ways in which a driver's step ends, and what the step has to see to.
LEMMA GotoInv ==
    ASSUME Inv, drivers # <<>>, NEW step, Goto(step),
           cached' # NoManifest => validate(cached'),
           scenario' = scenario,
           Head(drivers) # "harness" => Usable(known'),
           Head(drivers) = "host" => compatibility_issues(known', scenario.requirement) = {},
           step \in Session => worker'.serves = known' /\ worker'.protocol \in HostProtocol
    PROVE  Inv'
  <1>1. Order'
    BY GotoOrder DEF Inv
  <1>2. drivers' = drivers /\ pc' = step /\ results' = results /\ results["host"] = "none"
    BY DEF Inv, Order, Goto
  <1>3. Informed'
    BY <1>2 DEF Informed
  <1>4. Connected'
    BY <1>2 DEF Connected
  <1> QED
    BY <1>1, <1>3, <1>4 DEF Inv

LEMMA HeldInv ==
    ASSUME Inv, drivers # <<>>, Goto("held"), cached' = cached, scenario' = scenario
    PROVE  Inv'
  <1>1. Order'
    BY GotoOrder DEF Inv
  <1>2. drivers' = drivers /\ pc' = "held" /\ results' = results /\ results["host"] = "none"
    BY DEF Inv, Order, Goto
  <1>3. Informed'
    BY <1>2 DEF Inv, Informed, Idle
  <1>4. Connected'
    BY <1>2 DEF Connected, Session
  <1> QED
    BY <1>1, <1>3, <1>4 DEF Inv

LEMMA ReturnInv ==
    ASSUME Inv, drivers # <<>>, NEW r \in Result, Return(r),
           cached' # NoManifest => validate(cached'),
           Head(drivers) = "host" /\ r = "refused" =>
              /\ compatibility_issues(known', scenario'.requirement) = {}
              /\ ~validate_hello(worker'.serves, HostHello(scenario'.requested))
    PROVE  Inv'
  <1>1. Order' /\ pc' = "start"
        /\ (results'["host"] # "none" => Head(drivers) = "host" /\ results'["host"] = r)
    BY ReturnOrder DEF Inv
  <1>2. Informed'
    BY <1>1 DEF Informed, Idle
  <1>3. Connected'
    BY <1>1 DEF Connected, Session
  <1> QED
    BY <1>1, <1>2, <1>3 DEF Inv

\* The harness returns what its report says.
LEMMA ReportReturns ==
    ASSUME NEW new, Report(new)
    PROVE  Return("healthy") \/ Return("failing")
  <1>1. CASE \A c \in checks \cup new : c[2] # "fail"
    BY <1>1 DEF Report
  <1>2. CASE ~(\A c \in checks \cup new : c[2] # "fail")
    BY <1>2 DEF Report
  <1> QED
    BY <1>1, <1>2

\* The harness looks at nothing that the others rely on.
LEMMA HarnessKeeps ==
    ASSUME Inv, HarnessStep
    PROVE  Inv'
  <1>1. drivers # <<>> /\ Head(drivers) = "harness" /\ UNCHANGED <<cached, scenario>>
    BY DEF HarnessStep, CheckExists, CheckManifest, CheckContents, CheckControl,
           CheckWorker, At
  <1> DEFINE Goes == \/ Goto("manifest") \/ Goto("contents") \/ Goto("doctor")
                     \/ Goto("cli-schema") \/ Goto("ping") \/ Goto("worker") \/ Goto("spawn")
             Ends == Return("healthy") \/ Return("failing")
  <1>2. Goes \/ Ends
    <2>1. CASE CheckExists
      BY <2>1, ReportReturns DEF CheckExists
    <2>2. CASE CheckManifest
      BY <2>2, ReportReturns DEF CheckManifest
    <2>3. CASE CheckContents
      BY <2>3 DEF CheckContents
    <2>4. CASE \/ CheckControl("doctor", HealthyReports, "cli-schema")
               \/ CheckControl("cli-schema", {"object"}, "ping")
               \/ CheckControl("ping", {"ok"}, "worker")
      BY <2>4 DEF CheckControl
    <2>5. CASE CheckWorker
      BY <2>5, ReportReturns DEF CheckWorker
    <2> QED
      BY <2>1, <2>2, <2>3, <2>4, <2>5 DEF HarnessStep
  <1>3. cached' # NoManifest => validate(cached')
    BY <1>1 DEF Inv, Informed
  <1>4. CASE Goes
    <2>1. Session \cap {"manifest", "contents", "doctor", "cli-schema", "ping", "worker", "spawn"} = {}
      BY DEF Session
    <2>2. "host" # "harness"
      OBVIOUS
    <2>3. ASSUME NEW step, Goto(step), step \notin Session
          PROVE  Inv'
      BY <1>1, <1>3, <2>2, <2>3, GotoInv, Zenon
    <2> QED
      BY <1>4, <2>1, <2>3
  <1>5. CASE Ends
    <2>1. {"healthy", "failing"} \subseteq Result /\ "host" # "harness"
      BY DEF Result
    <2>2. ASSUME NEW r \in Result, Return(r)
          PROVE  Inv'
      BY <1>1, <1>3, <2>1, <2>2, ReturnInv, Zenon
    <2> QED
      BY <1>5, <2>1, <2>2
  <1> QED
    BY <1>2, <1>4, <1>5

\* `plugins doctor` before it spawns, and resolve.
LEMMA FindersKeep ==
    ASSUME Inv, DoctorSelect \/ DoctorReport \/ HostResolve
    PROVE  Inv'
  <1>0. cached # NoManifest => validate(cached)
    BY DEF Inv, Informed
  <1>a. ASSUME NEW r \in Result, r # "refused", drivers # <<>>, Return(r),
               cached' # NoManifest => validate(cached')
        PROVE  Inv'
    BY <1>a, ReturnInv, Zenon
  <1>b. {"error", "report", "rejected"} \subseteq Result \ {"refused"}
    BY DEF Result
  <1>1. CASE DoctorSelect
    <2>1. PICK m : /\ Find(m) /\ known' = m
                   /\ IF m = NoManifest THEN Return("error") ELSE Goto("doctor")
      BY <1>1 DEF DoctorSelect
    <2>2. /\ drivers # <<>> /\ Head(drivers) = "doctor" /\ scenario' = scenario
          /\ "doctor" \notin Session /\ "doctor" # "host"
      BY <1>1 DEF DoctorSelect, At, Session
    <2>3. (m # NoManifest => Usable(m)) /\ (cached' # NoManifest => validate(cached'))
      BY <1>0, <2>1, FindUsable
    <2>4. CASE m = NoManifest
      BY <1>a, <1>b, <2>1, <2>2, <2>3, <2>4
    <2>5. CASE m # NoManifest
      BY <2>1, <2>2, <2>3, <2>5, GotoInv, Zenon
    <2> QED
      BY <2>4, <2>5
  <1>2. CASE DoctorReport
    <2>1. /\ drivers # <<>> /\ Head(drivers) = "doctor" /\ scenario' = scenario
          /\ known' = known /\ cached' = cached /\ Usable(known)
          /\ "spawn" \notin Session /\ "doctor" # "host"
      BY <1>2 DEF DoctorReport, At, Inv, Informed, Session, Idle
    <2>2. Return("error") \/ Return("report") \/ Goto("spawn")
      BY <1>2 DEF DoctorReport
    <2>3. CASE Goto("spawn")
      BY <1>0, <2>1, <2>3, GotoInv, Zenon
    <2>4. CASE Return("error") \/ Return("report")
      BY <1>0, <1>a, <1>b, <2>1, <2>4
    <2> QED
      BY <2>2, <2>3, <2>4
  <1>3. CASE HostResolve
    <2>1. PICK m : /\ Find(m) /\ known' = m
                   /\ \/ Return("rejected")
                      \/ /\ m # NoManifest /\ Goto("spawn")
                         /\ compatibility_issues(m, scenario.requirement) = {}
      BY <1>3 DEF HostResolve
    <2>2. /\ drivers # <<>> /\ Head(drivers) = "host" /\ scenario' = scenario
          /\ "spawn" \notin Session
      BY <1>3 DEF HostResolve, At, Session
    <2>3. (m # NoManifest => Usable(m)) /\ (cached' # NoManifest => validate(cached'))
      BY <1>0, <2>1, FindUsable
    <2>4. CASE Return("rejected")
      BY <1>a, <1>b, <2>2, <2>3, <2>4
    <2>5. CASE /\ m # NoManifest /\ Goto("spawn")
               /\ compatibility_issues(m, scenario.requirement) = {}
      BY <2>1, <2>2, <2>3, <2>5, GotoInv, Zenon
    <2> QED
      BY <2>1, <2>4, <2>5
  <1> QED
    BY <1>1, <1>2, <1>3

\* A capture that does not return.
LEMMA CaptureHolds ==
    ASSUME CaptureHeld
    PROVE  /\ drivers # <<>> /\ Goto("held")
           /\ UNCHANGED <<installed, cached, scenario, known, checks, replaced, faults>>
  BY DEF CaptureHeld, Runs, At

\* A client ends, or its join holds it.
LEMMA FailedEither ==
    ASSUME NEW op, NEW why, Failed(op, why)
    PROVE  Goto("held") \/ GivesUp(op, why)
  BY DEF Failed, JoinHeld

\* The sessions.
LEMMA SessionKeeps ==
    ASSUME Inv, Spawn \/ HelloPasses \/ HelloFails \/ ControlTimeout \/ PingAnswered
                \/ ShutdownAck \/ Exited \/ HostDrops
    PROVE  Inv'
  <1>1. /\ drivers # <<>> /\ pc \notin Idle
        /\ cached' = cached /\ scenario' = scenario /\ known' = known
    BY DEF Spawn, HelloPasses, HelloFails, ControlTimeout, PingAnswered, ShutdownAck,
           Exited, HostDrops, Working, At, Operation, Idle
  <1>0. Goto("held") => Inv'
    BY <1>1, HeldInv
  <1>2. /\ cached' # NoManifest => validate(cached')
        /\ Head(drivers) # "harness" => Usable(known')
        /\ Head(drivers) = "host" => compatibility_issues(known', scenario.requirement) = {}
    BY <1>1 DEF Inv, Informed
  <1>3. ASSUME NEW step, Goto(step),
               step \in Session => worker'.serves = known' /\ worker'.protocol \in HostProtocol
        PROVE  Inv'
    BY <1>1, <1>2, <1>3, GotoInv, Zenon
  <1>4. ASSUME NEW r \in Result, Return(r),
               Head(drivers) = "host" /\ r = "refused" =>
                  ~validate_hello(worker'.serves, HostHello(scenario.requested))
        PROVE  Inv'
    BY <1>1, <1>2, <1>4, ReturnInv, Zenon
  <1>5. ASSUME NEW r \in Result \ {"refused"}, Return(r)
        PROVE  Inv'
    BY <1>4, <1>5
  <1>6. Head(drivers) \in Driver
    BY <1>1, TailOrder DEF Inv
  <1> DEFINE Fits == worker'.serves = known' /\ worker'.protocol \in HostProtocol
  <1> HIDE DEF Fits
  <1>7. ASSUME NEW step, Goto(step), step \in Session => Fits
        PROVE  Inv'
    BY <1>3, <1>7, Zenon DEF Fits
  <1>8. ASSUME NEW op, NEW why \in Result \ {"refused"}, Failed(op, why), op = "ping" => Fits
        PROVE  Inv'
    <2>0. Goto("held") \/ GivesUp(op, why)
      BY <1>8, FailedEither
    <2>1. \/ Return("healthy") \/ Return("failing") \/ Return("error") \/ Return(why)
          \/ (Goto("stop") /\ op = "ping") \/ Goto("held")
      BY <1>6, <2>0, ReportReturns DEF GivesUp, Driver
    <2>2. {"healthy", "failing", "error"} \subseteq Result \ {"refused"}
      BY DEF Result
    <2>3. CASE Goto("stop") /\ op = "ping"
      BY <1>7, <1>8, <2>3, Zenon
    <2>4. CASE Return("healthy") \/ Return("failing") \/ Return("error") \/ Return(why)
      BY <1>5, <1>8, <2>2, <2>4
    <2> QED
      BY <1>0, <2>1, <2>3, <2>4
  <1>9. ASSUME NEW op \in {"handshake", "ping"}, Passed(op), Fits
        PROVE  Inv'
    <2>1. Succeeds(op) /\ op # "shutdown"
      BY <1>9 DEF Passed
    <2>2. Goto(Following[op])
      BY <1>6, <2>1 DEF Succeeds, Driver
    <2> QED
      BY <1>7, <1>9, <2>2, Zenon
  <1>10. pc \in Session /\ worker' = worker => Fits
    BY <1>1 DEF Inv, Connected, Fits
  <1>11. {"unsupported", "lost", "changed", "protocol", "served", "pass", "healthy", "failing"}
            \subseteq Result \ {"refused"}
    BY DEF Result
  <1>12. CASE Spawn
    <2>1. \/ Failed("handshake", "unsupported") \/ Failed("handshake", "lost")
          \/ Goto("hello")
      BY <1>12 DEF Spawn
    <2>2. "handshake" # "ping" /\ "hello" \notin Session
      BY DEF Session
    <2>3. CASE Goto("hello")
      BY <1>7, <2>2, <2>3, Zenon
    <2>4. CASE Failed("handshake", "unsupported") \/ Failed("handshake", "lost")
      BY <1>8, <1>11, <2>2, <2>4
    <2> QED
      BY <2>1, <2>3, <2>4
  <1>13. CASE HelloPasses
    <2>1. Fits /\ Passed("handshake")
      BY <1>1, <1>13 DEF HelloPasses, SameManifest, Fits
    <2> QED
      BY <1>9, <2>1
  <1>14. CASE HelloFails
    <2> DEFINE why == IF ~Serving THEN "lost" ELSE IF ~Accepts THEN "refused"
                      ELSE IF ~SameManifest THEN "changed" ELSE "protocol"
    <2>1. Failed("handshake", why) /\ worker' = worker /\ "handshake" # "ping"
      BY <1>14 DEF HelloFails
    <2>2. CASE ~Accepts /\ why = "refused"
      <3>1. CASE Head(drivers) = "host"
        <4>1. Goto("held") \/ Return("refused")
          BY <2>1, <2>2, <3>1, FailedEither DEF GivesUp
        <4>2. ~validate_hello(worker'.serves, HostHello(scenario.requested))
          BY <2>1, <2>2, <3>1 DEF Accepts, Requested
        <4>3. "refused" \in Result
          BY DEF Result
        <4> QED
          BY <1>0, <1>4, <4>1, <4>2, <4>3
      <3>2. CASE Head(drivers) # "host"
        <4>1. Failed("handshake", "lost")
          BY <1>6, <2>1, <3>2 DEF Failed, GivesUp, Driver
        <4> QED
          BY <1>8, <1>11, <2>1, <4>1
      <3> QED
        BY <3>1, <3>2
    <2>3. CASE why # "refused"
      <3>1. why \in {"lost", "changed", "protocol"}
        BY <2>3
      <3> QED
        BY <1>8, <1>11, <2>1, <3>1
    <2> QED
      BY <2>2, <2>3
  <1>15. CASE ControlTimeout
    <2>1. PICK step \in DOMAIN Operation :
             Working(step) /\ Failed(Operation[step], "lost") /\ worker' = worker
      BY <1>15 DEF ControlTimeout
    <2>2. Operation[step] = "ping" => pc \in Session
      BY <2>1 DEF Operation, Working, Session
    <2> QED
      BY <1>8, <1>10, <1>11, <2>1, <2>2
  <1>16. CASE PingAnswered
    <2>1. (Passed("ping") \/ Failed("ping", "lost")) /\ worker' = worker /\ pc \in Session
      BY <1>16 DEF PingAnswered, Working, Session
    <2> QED
      BY <1>8, <1>9, <1>10, <1>11, <2>1
  <1>17. CASE ShutdownAck
    <2>1. Goto("wait") /\ worker' = worker /\ pc \in Session
      BY <1>17 DEF ShutdownAck, Working, Session
    <2> QED
      BY <1>7, <1>10, <2>1, Zenon
  <1>18. CASE Exited
    <2>0. Goto("held") \/ Succeeds("shutdown")
      BY <1>18 DEF Exited, Passed, JoinHeld
    <2>1. \/ Return("healthy") \/ Return("failing") \/ Return("pass") \/ Return("served")
          \/ Goto("held")
      BY <1>6, <2>0, ReportReturns DEF Succeeds, Driver
    <2> QED
      BY <1>0, <1>5, <1>11, <2>1
  <1>19. CASE HostDrops
    BY <1>0, <1>5, <1>11, <1>19 DEF HostDrops, JoinHeld
  <1> QED
    BY <1>12, <1>13, <1>14, <1>15, <1>16, <1>17, <1>18, <1>19

\* The invariant is inductive.
LEMMA InvInductive ==
    ASSUME Inv, [Next]_vars
    PROVE  Inv'
  <1>1. CASE Waits \/ Stop \/ UNCHANGED vars
    BY <1>1 DEF Waits, Stop, vars, Inv, Order, Informed, Connected
  <1>2. CASE Replace
    BY <1>2 DEF Replace, Inv, Order, Informed, Connected
  <1>3. CASE CaptureHeld
    BY <1>3, CaptureHolds, HeldInv
  <1> QED
    BY <1>1, <1>2, <1>3, HarnessKeeps, FindersKeep, SessionKeeps DEF Next, Step

LEMMA InvInitially ==
    ASSUME Init
    PROVE  Inv
  <1>1. Order
    BY ConformanceAssumption DEF Init, Order, Result, Driver
  <1>2. cached # NoManifest => validate(cached)
    BY DEF Init, Remembered
  <1>3. Informed /\ Connected
    BY <1>2 DEF Init, Informed, Connected, Session, Idle, Driver
  <1> QED
    BY <1>1, <1>3 DEF Inv

LEMMA InvAlways == Spec => []Inv
  <1>1. Init => Inv
    BY InvInitially
  <1>2. Inv /\ [Next]_vars => Inv'
    BY InvInductive
  <1> QED
    BY <1>1, <1>2, PTL DEF Spec

\* A session that opens is with a worker whose manifest is the one resolved and
\* meets the requirement, for all executables and any number of replacements
\* and timeouts (worker.rs ManifestChanged, registry.rs inspect).
THEOREM SessionFitsAlways == Spec => []SessionFits
  <1>1. Inv => SessionFits
    <2> SUFFICES ASSUME Inv, drivers # <<>>, pc \in {"pong", "stop", "wait"}
                 PROVE  /\ worker.serves = known
                        /\ worker.protocol \in HostProtocol
                        /\ Head(drivers) # "harness" => validate(known) /\ known.id = CandidateId
                        /\ Head(drivers) = "host" =>
                              Satisfies(worker.serves, scenario.requirement)
      BY DEF SessionFits
    <2>1. worker.serves = known /\ worker.protocol \in HostProtocol
      BY DEF Inv, Connected, Session
    <2>2. /\ Head(drivers) # "harness" => Usable(known)
          /\ Head(drivers) = "host" => compatibility_issues(known, scenario.requirement) = {}
      BY DEF Inv, Informed, Idle
    <2> QED
      BY <2>1, <2>2, NoIssueSatisfies DEF Usable
  <1> QED
    BY <1>1, InvAlways, PTL

\* No worker refuses at the handshake what it was resolved for, for all
\* manifests and requirements (manifest.rs compatibility_issues, worker.rs
\* validate_hello).
THEOREM ResolvedIsAcceptedAlways == Spec => []ResolvedIsAccepted
  <1>1. Inv => ResolvedIsAccepted
    <2> SUFFICES ASSUME Inv, results["host"] = "refused",
                        scenario.requirement.execution = {"worker"},
                        scenario.requested \subseteq scenario.requirement.interface,
                        worker.serves = known
                 PROVE  FALSE
      BY DEF ResolvedIsAccepted
    <2>1. /\ compatibility_issues(known, scenario.requirement) = {}
          /\ ~validate_hello(worker.serves, HostHello(scenario.requested))
      BY DEF Inv, Connected
    <2> QED
      BY <2>1, ResolvedAcceptsHello
  <1> QED
    BY <1>1, InvAlways, PTL

(***************************************************************************)
(* The harness and the deep doctor.                                        *)
(***************************************************************************)
Known ==
    /\ replaced \in Nat /\ faults \in Nat
    /\ scenario \in Scenario
    /\ installed \in Executable \cup Replacement \cup {NoExecutable}

\* No check of a set has failed.
Clean(new) == \A c \in new : c[2] # "fail"

\* What the harness has to find, in the order in which it looks.
GoodContents(m) ==
    /\ validate(m)
    /\ scenario.expected_id \subseteq {m.id}
    /\ \A r \in scenario.interfaces : Provides(m, r)
Answered(x, request) == x.answers[request] = "library" /\ request \notin x.keeps
GoodDoctor(x) ==
    IF "doctor" \in x.manifest.control THEN Answered(x, "doctor") /\ x.doctor # "fail"
    ELSE "doctor" \notin scenario.require
GoodSchema(x) ==
    IF "cli-schema" \in x.manifest.control THEN Answered(x, "cli-schema") /\ x.schema = "object"
    ELSE "cli-schema" \notin scenario.require
GoodPing(x) == "ping" \in x.manifest.control => Answered(x, "ping")
GoodAnswers(x) ==
    GoodContents(x.manifest) /\ GoodDoctor(x) /\ GoodSchema(x) /\ GoodPing(x)
GoodHello(x) ==
    /\ x.answers["serve"] = "library"
    /\ x.serves = x.manifest /\ x.protocol \in HostProtocol
    /\ validate_hello(x.serves, HostHello(scenario.interfaces))

\* While nobody disturbs it, the report of the harness says at each step what
\* the executable is.
Judged(x) ==
    /\ pc # "manifest" => Answered(x, "manifest") /\ known = x.manifest
    /\ pc \in {"manifest", "contents"} => Clean(checks)
    /\ pc = "doctor" => (Clean(checks) <=> GoodContents(x.manifest))
    /\ pc = "cli-schema" => (Clean(checks) <=> GoodContents(x.manifest) /\ GoodDoctor(x))
    /\ pc = "ping" =>
          (Clean(checks) <=> GoodContents(x.manifest) /\ GoodDoctor(x) /\ GoodSchema(x))
    /\ pc \in {"worker", "spawn", "hello", "pong"} => (Clean(checks) <=> GoodAnswers(x))
    /\ pc \in {"stop", "wait"} =>
          (Clean(checks) <=> GoodAnswers(x) /\ x.serve \in {"serves", "lingers"})
    /\ pc \in {"spawn", "hello"} \cup Session => "worker" \in x.manifest.execution
    /\ pc \in {"hello"} \cup Session => worker = x
    /\ pc \in Session => GoodHello(x)

Harness ==
    Undisturbed =>
        /\ drivers # <<>> /\ Head(drivers) = "harness" /\ pc \notin Idle =>
              installed # NoExecutable /\ Judged(installed)
        /\ results["harness"] # "none" =>
              (results["harness"] = "healthy" <=> installed # NoExecutable /\ WellMade(installed))

\* The deep doctor shuts down only a worker that has answered its ping; the
\* results are those of the drivers that are gone.
Doctor ==
    /\ drivers # <<>> /\ Head(drivers) = "doctor" /\ pc \in {"stop", "wait"} =>
          worker.serve \in {"serves", "lingers"}
    /\ Len(drivers) <= Len(scenario.drivers)
    /\ Len(drivers) = Len(scenario.drivers) => \A d \in Driver : results[d] = "none"
    /\ results["doctor"] = "pass" /\ pc = "start" /\ Len(drivers) + 1 = Len(scenario.drivers) =>
          worker.serve = "serves" /\ worker.serves = known /\ Usable(known)

\* A host that asks for no more than the harness did, of an executable that is
\* well made.
Asked ==
    /\ Undisturbed /\ installed # NoExecutable /\ WellMade(installed)
    /\ scenario.expected_id = {CandidateId} /\ "worker" \in scenario.require
    /\ scenario.requirement.kind = CandidateId.kind
    /\ scenario.requirement.name \subseteq {CandidateId.name}
    /\ scenario.requirement.execution = {"worker"} /\ scenario.requirement.capabilities = {}
    /\ scenario.requirement.interface \cup scenario.requested \subseteq scenario.interfaces

Host ==
    /\ Undisturbed /\ cached # NoManifest => installed # NoExecutable /\ cached = installed.manifest
    /\ Asked =>
          /\ results["host"] \in {"none", "served"}
          /\ drivers # <<>> /\ Head(drivers) = "host" /\ pc # "start" =>
                /\ known = installed.manifest
                /\ pc \in {"hello"} \cup Session => worker = installed

Reports == Inv /\ Known /\ Harness /\ Doctor /\ Host

\* An interface of a valid manifest is provided exactly if it is in the list.
LEMMA ProvidesExact ==
    ASSUME NEW m, NEW S, m.interfaces \in Seq(S), validate(m), NEW r
    PROVE  Provides(m, r) <=> \E k \in DOMAIN m.interfaces :
              m.interfaces[k].id = r.id /\ m.interfaces[k].version \in r.version
  <1>1. ASSUME Provides(m, r)
        PROVE  \E k \in DOMAIN m.interfaces :
                  m.interfaces[k].id = r.id /\ m.interfaces[k].version \in r.version
    <2>1. PICK i \in First(m.interfaces, r.id) : i.version \in r.version
      BY <1>1 DEF Provides, matches, interface
    <2> QED
      BY <2>1, FirstIsEntry
  <1>2. ASSUME NEW k \in DOMAIN m.interfaces,
               m.interfaces[k].id = r.id, m.interfaces[k].version \in r.version
        PROVE  Provides(m, r)
    <2>1. First(m.interfaces, r.id) = {m.interfaces[k]}
      BY <1>2, EntryIsFirst DEF validate
    <2> QED
      BY <1>2, <2>1 DEF Provides, matches, interface
  <1> QED
    BY <1>1, <1>2

\* The report of a well made plugin is made of the checks it passes: what the
\* harness looks at is what WellMade says.
LEMMA WellMadeExact ==
    ASSUME Known, installed # NoExecutable
    PROVE  WellMade(installed) <=>
              /\ Answered(installed, "manifest")
              /\ GoodAnswers(installed)
              /\ "worker" \in scenario.require => "worker" \in installed.manifest.execution
              /\ "worker" \in installed.manifest.execution =>
                    /\ installed.serve = "serves" /\ GoodHello(installed)
                    /\ "serve" \notin installed.keeps
  <1>1. PICK x : x = installed
    OBVIOUS
  <1>2. PICK m : m = x.manifest
    OBVIOUS
  <1>3. /\ m.control \subseteq {"doctor", "cli-schema", "ping"}
        /\ m.interfaces \in Seq({m.interfaces[k] : k \in DOMAIN m.interfaces})
        /\ scenario.require \subseteq {"worker", "doctor", "cli-schema"}
    BY <1>1, <1>2, ConformanceAssumption DEF Known, ControlOperation
  <1>4. scenario.require \subseteq m.control \cup (m.execution \cap {"worker"})
           <=> /\ "worker" \in scenario.require => "worker" \in m.execution
               /\ "doctor" \in scenario.require => "doctor" \in m.control
               /\ "cli-schema" \in scenario.require => "cli-schema" \in m.control
    BY <1>3
  <1>5. validate(m) => ((\A r \in scenario.interfaces : Provides(m, r)) <=>
           \A r \in scenario.interfaces : \E k \in DOMAIN m.interfaces :
              m.interfaces[k].id = r.id /\ m.interfaces[k].version \in r.version)
    BY <1>3, ProvidesExact
  <1>6. (\A r \in scenario.interfaces : Provides(m, r)) =>
           (GoodHello(x) <=> /\ x.answers["serve"] = "library"
                             /\ x.serves = m /\ x.protocol \in HostProtocol
                             /\ FrameworkVersion \in m.framework
                             /\ ProtocolVersion \in m.worker_protocol)
    BY <1>2 DEF GoodHello, validate_hello, HostHello, matches
  <1> DEFINE advertised == {"manifest"} \cup m.control
                           \cup (IF "worker" \in m.execution THEN {"serve"} ELSE {})
  <1>a. (\A r \in advertised : x.answers[r] = "library" /\ r \notin x.keeps) <=>
           /\ Answered(x, "manifest")
           /\ "doctor" \in m.control => Answered(x, "doctor")
           /\ "cli-schema" \in m.control => Answered(x, "cli-schema")
           /\ "ping" \in m.control => Answered(x, "ping")
           /\ "worker" \in m.execution => Answered(x, "serve")
    <2>1. \A r : Answered(x, r) <=> x.answers[r] = "library" /\ r \notin x.keeps
      BY DEF Answered
    <2>2. (\A r \in advertised : Answered(x, r)) <=>
             /\ Answered(x, "manifest")
             /\ \A r \in m.control : Answered(x, r)
             /\ "worker" \in m.execution => Answered(x, "serve")
      OBVIOUS
    <2>3. (\A r \in m.control : Answered(x, r)) <=>
             /\ "doctor" \in m.control => Answered(x, "doctor")
             /\ "cli-schema" \in m.control => Answered(x, "cli-schema")
             /\ "ping" \in m.control => Answered(x, "ping")
      BY <1>3
    <2> QED
      BY <2>1, <2>2, <2>3
  <1>7. WellMade(x) <=>
           /\ \A r \in advertised : x.answers[r] = "library" /\ r \notin x.keeps
           /\ validate(m)
           /\ scenario.expected_id \subseteq {m.id}
           /\ \A r \in scenario.interfaces : \E k \in DOMAIN m.interfaces :
                 m.interfaces[k].id = r.id /\ m.interfaces[k].version \in r.version
           /\ scenario.require \subseteq m.control \cup (m.execution \cap {"worker"})
           /\ "doctor" \in m.control => x.doctor # "fail"
           /\ "cli-schema" \in m.control => x.schema = "object"
           /\ "worker" \in m.execution =>
                 /\ x.serve = "serves" /\ x.serves = m /\ x.protocol \in HostProtocol
                 /\ FrameworkVersion \in m.framework /\ ProtocolVersion \in m.worker_protocol
    BY <1>2, Zenon DEF WellMade
  <1>8. GoodAnswers(x) <=>
           /\ validate(m) /\ scenario.expected_id \subseteq {m.id}
           /\ \A r \in scenario.interfaces : Provides(m, r)
           /\ "doctor" \in m.control => Answered(x, "doctor") /\ x.doctor # "fail"
           /\ "doctor" \in scenario.require => "doctor" \in m.control
           /\ "cli-schema" \in m.control => Answered(x, "cli-schema") /\ x.schema = "object"
           /\ "cli-schema" \in scenario.require => "cli-schema" \in m.control
           /\ "ping" \in m.control => Answered(x, "ping")
    BY <1>2 DEF GoodAnswers, GoodContents, GoodDoctor, GoodSchema, GoodPing
  <1>b. Answered(x, "serve") <=> x.answers["serve"] = "library" /\ "serve" \notin x.keeps
    BY DEF Answered
  <1> HIDE DEF advertised
  <1>9. WellMade(x) <=>
              /\ Answered(x, "manifest")
              /\ GoodAnswers(x)
              /\ "worker" \in scenario.require => "worker" \in m.execution
              /\ "worker" \in m.execution =>
                    x.serve = "serves" /\ GoodHello(x) /\ "serve" \notin x.keeps
    BY <1>4, <1>5, <1>6, <1>7, <1>8, <1>a, <1>b, Zenon
  <1> QED
    BY <1>1, <1>2, <1>9

\* What an executable prints that uses the library for a request, and one that
\* does not.
LEMMA Answers ==
    ASSUME NEW x
    PROVE  /\ x.answers["manifest"] = "library" => Answer(x, "manifest") = "manifest"
           /\ x.answers["doctor"] = "library" =>
                 Answer(x, "doctor") = IF x.doctor = "none" THEN "pass" ELSE x.doctor
           /\ x.answers["cli-schema"] = "library" =>
                 Answer(x, "cli-schema") = IF x.schema = "none" THEN "exit" ELSE x.schema
           /\ x.answers["ping"] = "library" => Answer(x, "ping") = "ok"
  <1>1. \A r \in ControlRequest : detect_control_request(<<"__outboard", r>>) = r
    BY DEF detect_control_request
  <1>2. /\ detect_control_request(<<"__outboard", "manifest">>) = "manifest"
        /\ detect_control_request(<<"__outboard", "doctor">>) = "doctor"
        /\ detect_control_request(<<"__outboard", "cli-schema">>) = "cli-schema"
        /\ detect_control_request(<<"__outboard", "ping">>) = "ping"
    BY <1>1 DEF ControlRequest
  <1> QED
    BY <1>2 DEF Answer, dispatch, from_checks

LEMMA Rubbish ==
    ASSUME Known, installed # NoExecutable, NEW request \in ControlRequest,
           installed.answers[request] # "library"
    PROVE  Reply(request) \in {"not_json", "other_json", "exit", "err"}
  <1>1. installed \in ExecutableType({installed.manifest, installed.serves})
    BY ConformanceAssumption DEF Known
  <1>2. installed.answers \in
           [ControlRequest -> {"library", "not_json", "other_json", "exit", "hangs"}]
    BY <1>1 DEF ExecutableType
  <1>3. installed.answers[request] \in {"not_json", "other_json", "exit", "hangs"}
    BY <1>2
  <1> QED
    BY <1>3 DEF Reply, Answer

\* The harness disturbs nothing but by being too slow.
LEMMA HarnessCounts ==
    ASSUME HarnessStep
    PROVE  /\ UNCHANGED <<installed, cached, scenario, replaced>>
           /\ faults' = faults \/ faults' = faults + 1
  <1>1. CASE CheckExists \/ CheckContents \/ CheckWorker
    BY <1>1 DEF CheckExists, CheckContents, CheckWorker
  <1>2. CASE CheckManifest
    BY <1>2 DEF CheckManifest, Captured
  <1>3. ASSUME NEW op, NEW good, NEW next, CheckControl(op, good, next)
        PROVE  /\ UNCHANGED <<installed, cached, scenario, replaced>>
               /\ faults' = faults \/ faults' = faults + 1
    BY <1>3 DEF CheckControl, Captured
  <1> QED
    BY <1>1, <1>2, <1>3, Zenon DEF HarnessStep

\* While nobody disturbs, the executable stays and so does what it is.
LEMMA Calm ==
    ASSUME Known, [Next]_vars
    PROVE  /\ scenario' = scenario
           /\ Undisturbed' => Undisturbed /\ installed' = installed /\ faults' = faults
  <1>1. CASE HarnessStep
    BY <1>1, HarnessCounts DEF Known, Undisturbed
  <1>2. CASE DoctorSelect \/ HostResolve
    BY <1>2 DEF DoctorSelect, HostResolve, Find, Inspected, Captured, Known, Undisturbed
  <1>3. CASE DoctorReport
    BY <1>3 DEF DoctorReport, Captured, Known, Undisturbed
  <1>4. CASE ControlTimeout
    BY <1>4 DEF ControlTimeout, Known, Undisturbed
  <1>5. CASE Spawn \/ HelloPasses \/ HelloFails \/ PingAnswered \/ ShutdownAck \/ Exited
             \/ HostDrops \/ CaptureHeld
    BY <1>5 DEF Spawn, HelloPasses, HelloFails, PingAnswered, ShutdownAck, Exited,
                HostDrops, CaptureHeld, Undisturbed
  <1>6. CASE Replace
    BY <1>6 DEF Replace, Known, Undisturbed
  <1>7. CASE Waits \/ Stop \/ UNCHANGED vars
    BY <1>7 DEF Waits, Stop, vars, Undisturbed
  <1> QED
    BY <1>1, <1>2, <1>3, <1>4, <1>5, <1>6, <1>7 DEF Next, Step

LEMMA SameAsBefore ==
    ASSUME scenario' = scenario, installed' = installed
    PROVE  /\ WellMade(installed)' <=> WellMade(installed)
           /\ GoodContents(installed.manifest)' <=> GoodContents(installed.manifest)
           /\ GoodDoctor(installed)' <=> GoodDoctor(installed)
           /\ GoodSchema(installed)' <=> GoodSchema(installed)
           /\ GoodAnswers(installed)' <=> GoodAnswers(installed)
           /\ GoodHello(installed)' <=> GoodHello(installed)
           /\ Answered(installed, "manifest")' <=> Answered(installed, "manifest")
  BY DEF WellMade, GoodContents, GoodDoctor, GoodSchema, GoodPing, GoodAnswers, GoodHello,
         Answered

LEMMA KnownInductive ==
    ASSUME Known, [Next]_vars
    PROVE  Known'
  <1>1. scenario' \in Scenario
    BY Calm DEF Known
  <1>2. CASE HarnessStep
    BY <1>1, <1>2, HarnessCounts DEF Known
  <1>3. CASE DoctorSelect \/ HostResolve
    BY <1>1, <1>3 DEF DoctorSelect, HostResolve, Find, Inspected, Captured, Known
  <1>4. CASE DoctorReport
    BY <1>1, <1>4 DEF DoctorReport, Captured, Known
  <1>5. CASE ControlTimeout
    BY <1>1, <1>5 DEF ControlTimeout, Known
  <1>6. CASE Spawn \/ HelloPasses \/ HelloFails \/ PingAnswered \/ ShutdownAck \/ Exited
             \/ HostDrops \/ CaptureHeld
    BY <1>1, <1>6 DEF Spawn, HelloPasses, HelloFails, PingAnswered, ShutdownAck, Exited,
                      HostDrops, CaptureHeld, Known
  <1>7. CASE Replace
    BY <1>1, <1>7 DEF Replace, Known
  <1>8. CASE Waits \/ Stop \/ UNCHANGED vars
    BY <1>1, <1>8 DEF Waits, Stop, vars, Known
  <1> QED
    BY <1>2, <1>3, <1>4, <1>5, <1>6, <1>7, <1>8 DEF Next, Step

\* What checks say of a plugin.
LEMMA CleanUnion ==
    ASSUME NEW S, NEW T
    PROVE  Clean(S \cup T) <=> Clean(S) /\ Clean(T)
  BY DEF Clean

LEMMA CleanCheck ==
    ASSUME NEW name
    PROVE  Clean(Check(name, TRUE)) /\ ~Clean(Check(name, FALSE)) /\ Clean({})
  BY DEF Clean, Check

LEMMA CleanContents ==
    ASSUME NEW m
    PROVE  Clean(Contents(m)) <=> GoodContents(m)
  <1>1. Clean(Check("manifest.validate", validate(m))) <=> validate(m)
    BY DEF Clean, Check
  <1>2. Clean(UNION {Check("manifest.identity", m.id = id) : id \in scenario.expected_id})
           <=> scenario.expected_id \subseteq {m.id}
    <2>1. \A id : Clean(Check("manifest.identity", m.id = id)) <=> m.id = id
      BY DEF Clean, Check
    <2> QED
      BY <2>1 DEF Clean
  <1>3. Clean(UNION {Check("interface", Provides(m, r)) : r \in scenario.interfaces})
           <=> \A r \in scenario.interfaces : Provides(m, r)
    <2>1. \A r : Clean(Check("interface", Provides(m, r))) <=> Provides(m, r)
      BY DEF Clean, Check
    <2> QED
      BY <2>1 DEF Clean
  <1> DEFINE A == Check("manifest.validate", validate(m))
             B == UNION {Check("manifest.identity", m.id = id) : id \in scenario.expected_id}
             C == UNION {Check("interface", Provides(m, r)) : r \in scenario.interfaces}
  <1>4. Contents(m) = A \cup B \cup C
    BY DEF Contents
  <1> HIDE DEF A, B, C
  <1>5. Clean(A \cup B \cup C) <=> Clean(A) /\ Clean(B) /\ Clean(C)
    BY CleanUnion
  <1> QED
    BY <1>1, <1>2, <1>3, <1>4, <1>5 DEF A, B, C, GoodContents

\* The report is healthy exactly if no check has failed.
LEMMA ReportMeans ==
    ASSUME NEW new, Report(new)
    PROVE  \E r \in {"healthy", "failing"} :
              Return(r) /\ (r = "healthy" <=> Clean(checks) /\ Clean(new))
  <1>1. CASE \A c \in checks \cup new : c[2] # "fail"
    BY <1>1 DEF Report, Clean
  <1>2. CASE ~(\A c \in checks \cup new : c[2] # "fail")
    BY <1>2 DEF Report, Clean
  <1> QED
    BY <1>1, <1>2

\* How a step of the harness keeps the invariant.
LEMMA HarnessGoes ==
    ASSUME Harness, Undisturbed, installed' = installed, scenario' = scenario,
           installed # NoExecutable, NEW step, Goto(step), Judged(installed)'
    PROVE  Harness'
  BY SameAsBefore DEF Harness, Goto

LEMMA HarnessHeld ==
    ASSUME Harness, Undisturbed, installed' = installed, scenario' = scenario, Goto("held")
    PROVE  Harness'
  BY SameAsBefore DEF Harness, Goto, Idle

LEMMA HarnessReturns ==
    ASSUME Order, installed' = installed, scenario' = scenario,
           drivers # <<>>, Head(drivers) = "harness", NEW r \in {"healthy", "failing"}, Return(r),
           r = "healthy" <=> installed # NoExecutable /\ WellMade(installed)
    PROVE  Harness'
  <1>1. pc' = "start" /\ results'["harness"] = r
    BY DEF Order, Return, Driver
  <1> QED
    BY <1>1, SameAsBefore DEF Harness, Idle

LEMMA HarnessUntouched ==
    ASSUME Order, Harness, Undisturbed, installed' = installed, scenario' = scenario,
           drivers # <<>>, Head(drivers) # "harness",
           (\E step : Goto(step)) \/ (\E r : Return(r))
    PROVE  Harness'
  <1>1. CASE \E step : Goto(step)
    BY <1>1, SameAsBefore DEF Harness, Goto, Idle
  <1>2. CASE \E r : Return(r)
    <2>1. pc' = "start" /\ results'["harness"] = results["harness"]
      BY <1>2, TailOrder DEF Order, Return, Driver
    <2> QED
      BY <2>1, SameAsBefore DEF Harness, Idle
  <1> QED
    BY <1>1, <1>2

\* The steps of the harness before it spawns the worker.
LEMMA HarnessStepJudged ==
    ASSUME Inv, Known, Harness, HarnessStep, Undisturbed'
    PROVE  Harness'
  <1>0. /\ Undisturbed /\ installed' = installed /\ scenario' = scenario /\ faults' = faults
        /\ faults \in Nat /\ Order
    BY Calm DEF Known, Inv, Next, Step
  <1>h. drivers # <<>> /\ Head(drivers) = "harness" /\ pc # "held"
    BY DEF HarnessStep, CheckExists, CheckManifest, CheckContents, CheckControl,
           CheckWorker, At
  <1>j. pc # "start" => installed # NoExecutable /\ Judged(installed)
    BY <1>0, <1>h DEF Harness, Idle
  <1>c. ASSUME NEW request, NEW a, Captured(request, a)
        PROVE  a = Reply(request) /\ (installed # NoExecutable => request \notin installed.keeps)
    BY <1>0, <1>c DEF Captured, Keeps
  <1>1. CASE CheckExists
    <2>1. CASE installed = NoExecutable
      BY <1>0, <1>1, <1>h, <2>1, HarnessReturns DEF CheckExists
    <2>2. CASE installed # NoExecutable
      <3>1. checks' = Check("executable.exists", TRUE) /\ Goto("manifest")
        BY <1>1, <2>2 DEF CheckExists
      <3>2. Clean(checks)' /\ pc' = "manifest"
        BY <3>1, CleanCheck DEF Clean, Goto
      <3>3. Judged(installed)'
        BY <3>2 DEF Judged, Session
      <3> QED
        BY <1>0, <2>2, <3>1, <3>3, HarnessGoes
    <2> QED
      BY <2>1, <2>2
  <1>2. CASE CheckManifest
    <2>0. pc = "manifest" /\ installed # NoExecutable /\ Clean(checks)
      BY <1>2, <1>j DEF CheckManifest, At, Judged
    <2>1. PICK a : /\ a = Reply("manifest") /\ "manifest" \notin installed.keeps
                   /\ \/ /\ a = "manifest"
                         /\ known' = Printed
                         /\ Push(Check("control.manifest", TRUE)) /\ Goto("contents")
                      \/ /\ a # "manifest"
                         /\ Report(Check("control.manifest", FALSE))
      BY <1>2, <1>c, <2>0 DEF CheckManifest
    <2>2. Answered(installed, "manifest") <=> a = "manifest"
      <3>1. CASE installed.answers["manifest"] = "library"
        BY <2>0, <2>1, <3>1, Answers DEF Reply, Answered
      <3>2. CASE installed.answers["manifest"] # "library"
        BY <2>0, <2>1, <3>2, Rubbish DEF Answered, ControlRequest
      <3> QED
        BY <3>1, <3>2
    <2>3. CASE a = "manifest"
      <3>1. /\ checks' = checks \cup Check("control.manifest", TRUE) /\ Goto("contents")
            /\ known' = installed.manifest
        BY <2>0, <2>1, <2>3 DEF Push, Printed
      <3>2. Clean(checks)' /\ pc' = "contents"
        BY <2>0, <3>1, CleanCheck DEF Clean, Goto
      <3>3. Judged(installed)'
        BY <1>0, <2>2, <2>3, <3>1, <3>2, SameAsBefore DEF Judged, Session
      <3> QED
        BY <1>0, <2>0, <3>1, <3>3, HarnessGoes
    <2>4. CASE a # "manifest"
      <3>1. Return("failing")
        BY <2>1, <2>4, ReportMeans, CleanCheck
      <3>2. ~WellMade(installed)
        BY <2>0, <2>2, <2>4, WellMadeExact
      <3> QED
        BY <1>0, <1>h, <3>1, <3>2, HarnessReturns
    <2> QED
      BY <2>3, <2>4
  <1>3. CASE CheckContents
    <2>0. /\ pc = "contents" /\ installed # NoExecutable /\ Clean(checks)
          /\ Answered(installed, "manifest") /\ known = installed.manifest
      BY <1>3, <1>j DEF CheckContents, At, Judged
    <2>1. /\ checks' = checks \cup Contents(known) /\ Goto("doctor") /\ known' = known
          /\ pc' = "doctor"
      BY <1>3 DEF CheckContents, Push, Goto
    <2>2. Clean(checks)' <=> GoodContents(installed.manifest)
      BY <2>0, <2>1, CleanContents, CleanUnion DEF Clean
    <2>3. Judged(installed)'
      BY <1>0, <2>0, <2>1, <2>2, SameAsBefore DEF Judged, Session
    <2> QED
      BY <1>0, <2>0, <2>1, <2>3, HarnessGoes
  <1>4. ASSUME NEW op \in {"doctor", "cli-schema", "ping"}, NEW good, NEW next,
               CheckControl(op, good, next)
        PROVE  /\ pc = op /\ Goto(next) /\ known' = known /\ pc # "start"
               /\ op \in known.control /\ installed # NoExecutable => op \notin installed.keeps
               /\ Clean(checks)' <=>
                     /\ Clean(checks)
                     /\ IF op \in known.control THEN Reply(op) \in good
                        ELSE op \notin scenario.require
    <2>1. /\ pc = op /\ Goto(next) /\ known' = known /\ pc # "start"
          /\ op \in known.control /\ installed # NoExecutable => op \notin installed.keeps
          /\ \/ /\ op \notin known.control
                /\ checks' = checks \cup (IF op \in scenario.require THEN Check(op, FALSE) ELSE {})
             \/ /\ op \in known.control
                /\ checks' = checks \cup Check(op, Reply(op) \in good)
      BY <1>4, <1>c DEF CheckControl, At, Push
    <2>2. CASE op \notin known.control
      BY <2>1, <2>2, CleanUnion, CleanCheck DEF Clean
    <2>3. CASE op \in known.control
      <3>1. Clean(Check(op, Reply(op) \in good)) <=> Reply(op) \in good
        BY DEF Clean, Check
      <3> QED
        BY <2>1, <2>3, <3>1, CleanUnion DEF Clean
    <2> QED
      BY <2>1, <2>2, <2>3
  <1>5. pc \notin {"start", "manifest"} =>
           /\ installed # NoExecutable /\ Answered(installed, "manifest")
           /\ known = installed.manifest
           /\ Reply("doctor") \in HealthyReports <=>
                 installed.answers["doctor"] = "library" /\ installed.doctor # "fail"
           /\ Reply("cli-schema") = "object" <=>
                 installed.answers["cli-schema"] = "library" /\ installed.schema = "object"
           /\ Reply("ping") = "ok" <=> installed.answers["ping"] = "library"
    <2> SUFFICES ASSUME pc \notin {"start", "manifest"}
                 PROVE  /\ installed # NoExecutable /\ Answered(installed, "manifest")
                        /\ known = installed.manifest
                        /\ Reply("doctor") \in HealthyReports <=>
                              installed.answers["doctor"] = "library" /\ installed.doctor # "fail"
                        /\ Reply("cli-schema") = "object" <=>
                              /\ installed.answers["cli-schema"] = "library"
                              /\ installed.schema = "object"
                        /\ Reply("ping") = "ok" <=> installed.answers["ping"] = "library"
      OBVIOUS
    <2>1. /\ installed # NoExecutable /\ Answered(installed, "manifest")
          /\ known = installed.manifest
      BY <1>j DEF Judged
    <2>2. installed \in Executable \cup Replacement
      BY <2>1 DEF Known
    <2>3. /\ installed.doctor \in {"none", "pass", "warn", "fail"}
          /\ installed.schema \in {"none", "object", "value"}
      BY <2>2, ConformanceAssumption DEF ExecutableType
    <2>4. HealthyReports = {"pass", "warn"}
      BY DEF HealthyReports, is_healthy
    <2>5. ASSUME NEW r \in ControlRequest, installed.answers[r] # "library"
          PROVE  Reply(r) \in {"not_json", "other_json", "exit", "err"}
      BY <2>1, <2>5, Rubbish
    <2>6. Reply("doctor") \in HealthyReports <=>
             installed.answers["doctor"] = "library" /\ installed.doctor # "fail"
      <3>1. CASE installed.answers["doctor"] = "library"
        <4>1. Reply("doctor") = IF installed.doctor = "none" THEN "pass" ELSE installed.doctor
          BY <2>1, <2>3, <3>1, Answers DEF Reply
        <4> QED
          BY <2>3, <2>4, <3>1, <4>1
      <3>2. CASE installed.answers["doctor"] # "library"
        BY <2>4, <2>5, <3>2 DEF ControlRequest
      <3> QED
        BY <3>1, <3>2
    <2>7. Reply("cli-schema") = "object" <=>
             installed.answers["cli-schema"] = "library" /\ installed.schema = "object"
      <3>1. CASE installed.answers["cli-schema"] = "library"
        <4>1. Reply("cli-schema") = IF installed.schema = "none" THEN "exit" ELSE installed.schema
          BY <2>1, <2>3, <3>1, Answers DEF Reply
        <4> QED
          BY <2>3, <3>1, <4>1
      <3>2. CASE installed.answers["cli-schema"] # "library"
        BY <2>5, <3>2 DEF ControlRequest
      <3> QED
        BY <3>1, <3>2
    <2>8. Reply("ping") = "ok" <=> installed.answers["ping"] = "library"
      <3>1. CASE installed.answers["ping"] = "library"
        BY <2>1, <3>1, Answers DEF Reply
      <3>2. CASE installed.answers["ping"] # "library"
        BY <2>5, <3>2 DEF ControlRequest
      <3> QED
        BY <3>1, <3>2
    <2> QED
      BY <2>1, <2>6, <2>7, <2>8
  <1>6. CASE CheckControl("doctor", HealthyReports, "cli-schema")
    <2>1. /\ pc = "doctor" /\ Goto("cli-schema") /\ known' = known
          /\ "doctor" \in known.control /\ installed # NoExecutable => "doctor" \notin installed.keeps
          /\ Clean(checks)' <=>
                /\ Clean(checks)
                /\ IF "doctor" \in known.control THEN Reply("doctor") \in HealthyReports
                   ELSE "doctor" \notin scenario.require
      BY <1>4, <1>6
    <2>2. Clean(checks)' <=> GoodContents(installed.manifest) /\ GoodDoctor(installed)
      BY <1>5, <1>j, <2>1 DEF Judged, GoodDoctor, Answered
    <2>3. Judged(installed)'
      BY <1>0, <1>5, <2>1, <2>2, SameAsBefore DEF Judged, Session, Goto
    <2> QED
      BY <1>0, <1>5, <2>1, <2>3, HarnessGoes
  <1>7. CASE CheckControl("cli-schema", {"object"}, "ping")
    <2>1. /\ pc = "cli-schema" /\ Goto("ping") /\ known' = known
          /\ "cli-schema" \in known.control /\ installed # NoExecutable =>
                "cli-schema" \notin installed.keeps
          /\ Clean(checks)' <=>
                /\ Clean(checks)
                /\ IF "cli-schema" \in known.control THEN Reply("cli-schema") \in {"object"}
                   ELSE "cli-schema" \notin scenario.require
      BY <1>4, <1>7
    <2>2. Clean(checks)' <=> /\ GoodContents(installed.manifest)
                             /\ GoodDoctor(installed) /\ GoodSchema(installed)
      BY <1>5, <1>j, <2>1 DEF Judged, GoodSchema, Answered
    <2>3. Judged(installed)'
      BY <1>0, <1>5, <2>1, <2>2, SameAsBefore DEF Judged, Session, Goto
    <2> QED
      BY <1>0, <1>5, <2>1, <2>3, HarnessGoes
  <1>8. CASE CheckControl("ping", {"ok"}, "worker")
    <2>1. /\ pc = "ping" /\ Goto("worker") /\ known' = known
          /\ "ping" \in known.control /\ installed # NoExecutable => "ping" \notin installed.keeps
          /\ Clean(checks)' <=>
                /\ Clean(checks)
                /\ IF "ping" \in known.control THEN Reply("ping") \in {"ok"}
                   ELSE "ping" \notin scenario.require
      BY <1>4, <1>8
    <2>2. "ping" \notin scenario.require
      BY ConformanceAssumption DEF Known
    <2>3. Clean(checks)' <=> GoodAnswers(installed)
      BY <1>5, <1>j, <2>1, <2>2 DEF Judged, GoodPing, GoodAnswers, Answered
    <2>4. Judged(installed)'
      BY <1>0, <1>5, <2>1, <2>3, SameAsBefore DEF Judged, Session, Goto
    <2> QED
      BY <1>0, <1>5, <2>1, <2>4, HarnessGoes
  <1>9. CASE CheckWorker
    <2>1. pc = "worker" /\ known' = known /\ (Clean(checks) <=> GoodAnswers(installed))
      BY <1>9, <1>j DEF CheckWorker, At, Judged
    <2>2. CASE supports(known, "worker")
      <3>1. Goto("spawn") /\ checks' = checks
        BY <1>9, <2>2 DEF CheckWorker
      <3>2. Judged(installed)'
        BY <1>0, <1>5, <2>1, <2>2, <3>1, SameAsBefore DEF Judged, Session, Goto, supports, Clean
      <3> QED
        BY <1>0, <1>5, <2>1, <3>1, <3>2, HarnessGoes
    <2>3. CASE ~supports(known, "worker")
      <3>1. Report(IF "worker" \in scenario.require THEN Check("worker.advertised", FALSE)
                   ELSE {})
        BY <1>9, <2>3 DEF CheckWorker
      <3>2. PICK r \in {"healthy", "failing"} :
               Return(r) /\ (r = "healthy" <=> Clean(checks) /\ "worker" \notin scenario.require)
        <4>1. Clean(IF "worker" \in scenario.require THEN Check("worker.advertised", FALSE)
                    ELSE {}) <=> "worker" \notin scenario.require
          BY CleanCheck
        <4> QED
          BY <3>1, <4>1, ReportMeans
      <3>3. WellMade(installed) <=> GoodAnswers(installed) /\ "worker" \notin scenario.require
        BY <1>5, <2>1, <2>3, WellMadeExact DEF supports
      <3> QED
        BY <1>0, <1>5, <1>h, <2>1, <3>2, <3>3, HarnessReturns
    <2> QED
      BY <2>2, <2>3
  <1> QED
    BY <1>1, <1>2, <1>3, <1>6, <1>7, <1>8, <1>9 DEF HarnessStep

\* Every step of a driver goes on or returns.
LEMMA HarnessMoves ==
    ASSUME HarnessStep
    PROVE  (\E step : Goto(step) /\ step # "start") \/ (\E r : Return(r))
  <1>1. \/ Goto("manifest") \/ Goto("contents") \/ Goto("doctor") \/ Goto("cli-schema")
        \/ Goto("ping") \/ Goto("worker") \/ Goto("spawn")
        \/ Return("healthy") \/ Return("failing")
    <2>1. CASE CheckExists
      BY <2>1 DEF CheckExists
    <2>2. CASE CheckManifest
      BY <2>2, ReportReturns DEF CheckManifest
    <2>3. CASE CheckContents
      BY <2>3 DEF CheckContents
    <2>4. CASE \/ CheckControl("doctor", HealthyReports, "cli-schema")
               \/ CheckControl("cli-schema", {"object"}, "ping")
               \/ CheckControl("ping", {"ok"}, "worker")
      BY <2>4 DEF CheckControl
    <2>5. CASE CheckWorker
      BY <2>5, ReportReturns DEF CheckWorker
    <2> QED
      BY <2>1, <2>2, <2>3, <2>4, <2>5 DEF HarnessStep
  <1>2. \A step \in {"manifest", "contents", "doctor", "cli-schema", "ping", "worker", "spawn"} :
           step # "start"
    OBVIOUS
  <1> QED
    BY <1>1, <1>2, Zenon

LEMMA MovesOn ==
    ASSUME Order, DoctorSelect \/ DoctorReport \/ HostResolve \/ Spawn \/ HelloPasses
                  \/ HelloFails \/ ControlTimeout \/ PingAnswered \/ ShutdownAck \/ Exited
                  \/ HostDrops \/ CaptureHeld
    PROVE  /\ drivers # <<>>
           /\ (\E step : Goto(step) /\ step # "start") \/ (\E r : Return(r))
  <1>1. drivers # <<>>
    BY DEF DoctorSelect, DoctorReport, HostResolve, Spawn, HelloPasses, HelloFails,
           ControlTimeout, PingAnswered, ShutdownAck, Exited, HostDrops, CaptureHeld,
           Runs, At, Working
  <1>2. Head(drivers) \in Driver
    BY <1>1, TailOrder
  <1>3. ASSUME NEW op, NEW why, Failed(op, why)
        PROVE  (\E step : Goto(step) /\ step # "start") \/ (\E r : Return(r))
    <2>0. Goto("held") \/ GivesUp(op, why)
      BY <1>3, FailedEither
    <2>1. Goto("held") \/ Goto("stop") \/ (\E r : Return(r))
      BY <1>2, <2>0, ReportReturns DEF GivesUp, Driver
    <2>2. \A step \in {"held", "stop"} : step # "start"
      OBVIOUS
    <2> QED
      BY <2>1, <2>2, Zenon
  <1>4. ASSUME NEW op \in {"handshake", "ping", "shutdown"}, Passed(op)
        PROVE  (\E step : Goto(step) /\ step # "start") \/ (\E r : Return(r))
    <2>0. Goto("held") \/ Succeeds(op)
      BY <1>4 DEF Passed, JoinHeld
    <2>1. (\E step \in {"held", "pong", "stop"} : Goto(step)) \/ (\E r : Return(r))
      <3>1. CASE Succeeds(op) /\ op = "shutdown"
        BY <1>2, <3>1, ReportReturns DEF Succeeds, Driver
      <3>2. CASE Succeeds(op) /\ op # "shutdown"
        <4>1. Goto(Following[op])
          BY <1>2, <3>2 DEF Succeeds, Driver
        <4>2. Following[op] \in {"pong", "stop"}
          BY <3>2 DEF Following
        <4> QED
          BY <4>1, <4>2, Zenon
      <3> QED
        BY <2>0, <3>1, <3>2
    <2>2. \A step \in {"held", "pong", "stop"} : step # "start"
      OBVIOUS
    <2> QED
      BY <2>1, <2>2, Zenon
  <1>5. CASE DoctorSelect \/ DoctorReport \/ HostResolve
    BY <1>1, <1>5 DEF DoctorSelect, DoctorReport, HostResolve
  <1>6. CASE Spawn
    BY <1>1, <1>3, <1>6 DEF Spawn
  <1>7. CASE HelloPasses \/ Exited
    BY <1>1, <1>4, <1>7 DEF HelloPasses, Exited
  <1>8. CASE HelloFails \/ ControlTimeout
    BY <1>1, <1>3, <1>8 DEF HelloFails, ControlTimeout
  <1>9. CASE PingAnswered
    BY <1>1, <1>3, <1>4, <1>9 DEF PingAnswered
  <1>10. CASE ShutdownAck \/ HostDrops \/ CaptureHeld
    BY <1>1, <1>10 DEF ShutdownAck, HostDrops, CaptureHeld, JoinHeld
  <1> QED
    BY <1>5, <1>6, <1>7, <1>8, <1>9, <1>10

\* The harness and the worker that it has spawned.
LEMMA HarnessSessionJudged ==
    ASSUME Inv, Known, Harness, Undisturbed', Head(drivers) = "harness",
           Spawn \/ HelloPasses \/ HelloFails \/ ControlTimeout \/ PingAnswered
           \/ ShutdownAck \/ Exited
    PROVE  Harness'
  <1>0. /\ Undisturbed /\ installed' = installed /\ scenario' = scenario /\ faults' = faults
        /\ faults \in Nat /\ Order
    BY Calm DEF Known, Inv, Next, Step
  <1>h. drivers # <<>> /\ pc \notin Idle /\ known' = known
    BY DEF Spawn, HelloPasses, HelloFails, ControlTimeout, PingAnswered, ShutdownAck,
           Exited, Working, Operation, Idle
  <1>i. Goto("held") => Harness'
    BY <1>0, HarnessHeld
  <1>j. installed # NoExecutable /\ Judged(installed)
    BY <1>0, <1>h DEF Harness
  <1>p. ASSUME NEW op \in {"handshake", "ping"}, Passed(op)
        PROVE  Goto(Following[op]) /\ (Clean(checks)' <=> Clean(checks))
    <2>1. checks' = checks \cup Check(op, TRUE) /\ Goto(Following[op])
      BY <1>p DEF Passed, Succeeds, Push
    <2> QED
      BY <2>1, CleanUnion, CleanCheck DEF Clean
  <1>f. ASSUME NEW op \in {"handshake", "shutdown"}, NEW why, Failed(op, why),
               ~WellMade(installed)
        PROVE  Harness'
    <2>0. Goto("held") \/ GivesUp(op, why)
      BY <1>f, FailedEither
    <2>1. CASE GivesUp(op, why)
      <3>1. Report(Check(op, FALSE))
        BY <1>f, <2>1 DEF GivesUp
      <3>2. Return("failing")
        BY <3>1, ReportMeans, CleanCheck
      <3> QED
        BY <1>0, <1>h, <1>f, <3>2, HarnessReturns
    <2> QED
      BY <1>i, <2>0, <2>1
  <1>q. ASSUME NEW why, Failed("ping", why)
        PROVE  Goto("stop") /\ ~Clean(checks)'
    <2>1. checks' = checks \cup Check("ping", FALSE) /\ Goto("stop")
      BY <1>q DEF Failed, GivesUp, Push
    <2> QED
      BY <2>1, CleanUnion, CleanCheck DEF Clean
  <1>w. /\ pc \in {"spawn", "hello"} \cup Session =>
              /\ Answered(installed, "manifest") /\ known = installed.manifest
              /\ "worker" \in installed.manifest.execution
              /\ WellMade(installed) => installed.serve = "serves" /\ GoodHello(installed)
        /\ pc \in {"hello"} \cup Session => worker = installed
    BY <1>j, WellMadeExact DEF Judged, Session
  <1>1. CASE Spawn
    <2>1. pc = "spawn" /\ supports(known, "worker")
      BY <1>1, <1>w DEF Spawn, Working, supports
    <2>2. worker' = installed /\ Goto("hello") /\ checks' = checks
      BY <1>1, <1>j, <2>1 DEF Spawn
    <2>3. Judged(installed)'
      BY <1>0, <1>h, <1>j, <1>w, <2>1, <2>2, SameAsBefore DEF Judged, Session, Goto, Clean
    <2> QED
      BY <1>0, <1>j, <2>2, <2>3, HarnessGoes
  <1>2. CASE HelloPasses
    <2>1. pc = "hello" /\ worker' = worker /\ Passed("handshake")
      BY <1>2 DEF HelloPasses, Working
    <2>2. Goto("pong") /\ (Clean(checks)' <=> Clean(checks))
      BY <1>p, <2>1 DEF Following
    <2>3. GoodHello(installed)
      BY <1>2, <1>w, <2>1 DEF HelloPasses, Serving, Accepts, Requested, SameManifest, GoodHello
    <2>4. Judged(installed)'
      BY <1>0, <1>h, <1>j, <1>w, <2>1, <2>2, <2>3, SameAsBefore DEF Judged, Session, Goto
    <2> QED
      BY <1>0, <1>j, <2>2, <2>4, HarnessGoes
  <1>3. CASE HelloFails
    <2>1. /\ pc = "hello" /\ \E why : Failed("handshake", why)
          /\ ~(Serving /\ Accepts /\ SameManifest /\ worker.protocol \in HostProtocol)
      BY <1>3 DEF HelloFails, Working
    <2>2. ~(installed.serve = "serves" /\ GoodHello(installed))
      BY <1>w, <2>1 DEF Serving, Accepts, Requested, SameManifest, GoodHello
    <2> QED
      BY <1>f, <1>w, <2>1, <2>2
  <1>4. CASE ControlTimeout
    <2>1. PICK step \in {"hello", "pong", "stop"} :
             /\ pc = step /\ Mute(step) /\ Failed(Operation[step], "lost") /\ worker' = worker
      BY <1>0, <1>4 DEF ControlTimeout, Working, Operation
    <2>2. ~(installed.serve = "serves" /\ installed.answers["serve"] = "library")
      BY <1>w, <2>1 DEF Mute, Session
    <2>3. ~WellMade(installed)
      BY <1>w, <2>1, <2>2 DEF Session, GoodHello
    <2>4. CASE step \in {"hello", "stop"}
      BY <1>f, <2>1, <2>3, <2>4 DEF Operation
    <2>5. CASE step = "pong"
      <3>1. Goto("stop") /\ ~Clean(checks)'
        BY <1>q, <2>1, <2>5 DEF Operation
      <3>2. installed.serve = "deaf"
        BY <1>w, <2>1, <2>5 DEF Mute, Session
      <3>3. Judged(installed)'
        BY <1>0, <1>h, <1>j, <1>w, <2>1, <2>5, <3>1, <3>2, SameAsBefore DEF Judged, Session, Goto
      <3> QED
        BY <1>0, <1>j, <3>1, <3>3, HarnessGoes
    <2> QED
      BY <2>4, <2>5
  <1>5. CASE PingAnswered
    <2>1. /\ pc = "pong" /\ worker' = worker
          /\ \/ worker.serve \in {"serves", "lingers"} /\ Passed("ping")
             \/ worker.serve = "errors" /\ Failed("ping", "lost")
      BY <1>5 DEF PingAnswered, Working
    <2>2. /\ Goto("stop")
          /\ Clean(checks)' <=> Clean(checks) /\ worker.serve \in {"serves", "lingers"}
      BY <1>p, <1>q, <2>1 DEF Following
    <2>3. Judged(installed)'
      BY <1>0, <1>h, <1>j, <1>w, <2>1, <2>2, SameAsBefore DEF Judged, Session, Goto
    <2> QED
      BY <1>0, <1>j, <2>2, <2>3, HarnessGoes
  <1>6. CASE ShutdownAck
    <2>1. pc = "stop" /\ worker' = worker /\ Goto("wait") /\ checks' = checks
      BY <1>6 DEF ShutdownAck, Working
    <2>2. Judged(installed)'
      BY <1>0, <1>h, <1>j, <1>w, <2>1, SameAsBefore DEF Judged, Session, Goto, Clean
    <2> QED
      BY <1>0, <1>j, <2>1, <2>2, HarnessGoes
  <1>7. CASE Exited
    <2>0. /\ pc = "wait" /\ worker.serve # "lingers" /\ worker = installed
          /\ \/ Goto("held")
             \/ ~Keeps(worker, "serve") /\ Report(Check("shutdown", TRUE))
      BY <1>7, <1>w DEF Exited, Working, Passed, Succeeds, JoinHeld, Session
    <2> SUFFICES ASSUME ~Keeps(worker, "serve") /\ Report(Check("shutdown", TRUE))
                 PROVE  Harness'
      BY <1>i, <2>0
    <2>1. pc = "wait" /\ worker.serve # "lingers" /\ "serve" \notin installed.keeps
      BY <1>j, <2>0 DEF Keeps
    <2>2. PICK r \in {"healthy", "failing"} : Return(r) /\ (r = "healthy" <=> Clean(checks))
      BY <2>1, ReportMeans, CleanCheck
    <2>3. Clean(checks) <=> WellMade(installed)
      <3>1. /\ Clean(checks) <=> GoodAnswers(installed) /\ installed.serve \in {"serves", "lingers"}
            /\ GoodHello(installed)
        BY <1>j, <2>1 DEF Judged, Session
      <3> QED
        BY <1>j, <1>w, <2>0, <2>1, <3>1, WellMadeExact DEF Session
    <2> QED
      BY <1>0, <1>h, <1>j, <2>2, <2>3, HarnessReturns
  <1> QED
    BY <1>1, <1>2, <1>3, <1>4, <1>5, <1>6, <1>7

LEMMA HarnessInductive ==
    ASSUME Inv, Known, Harness, [Next]_vars
    PROVE  Harness'
  <1> SUFFICES ASSUME Undisturbed'
               PROVE  Harness'
    BY DEF Harness
  <1>0. /\ Undisturbed /\ installed' = installed /\ scenario' = scenario /\ Order
    BY Calm DEF Inv
  <1>1. CASE Waits \/ Stop \/ UNCHANGED vars
    <2>1. UNCHANGED vars
      BY <1>1 DEF Waits, Stop
    <2>2. Judged(installed)' <=> Judged(installed)
      BY <1>0, <2>1, SameAsBefore DEF vars, Judged, Clean
    <2> QED
      BY <1>0, <2>1, <2>2, SameAsBefore DEF vars, Harness
  <1>2. ~Replace
    BY <1>0 DEF Replace, Undisturbed, Known
  <1>3. CASE HarnessStep
    BY <1>3, HarnessStepJudged
  <1>4. CASE Spawn \/ HelloPasses \/ HelloFails \/ ControlTimeout \/ PingAnswered
             \/ ShutdownAck \/ Exited
    BY <1>0, <1>4, HarnessSessionJudged, HarnessUntouched, MovesOn
  <1>6. CASE CaptureHeld
    BY <1>0, <1>6, CaptureHolds, HarnessHeld
  <1>5. CASE DoctorSelect \/ DoctorReport \/ HostResolve \/ HostDrops
    <2>1. Head(drivers) # "harness"
      BY <1>5 DEF DoctorSelect, DoctorReport, HostResolve, HostDrops, At
    <2> QED
      BY <1>0, <1>5, <2>1, HarnessUntouched, MovesOn
  <1> QED
    BY <1>1, <1>2, <1>3, <1>4, <1>5, <1>6 DEF Next, Step

\* How a step keeps what is known of the deep doctor.
LEMMA DoctorGoes ==
    ASSUME Doctor, scenario' = scenario, NEW step, Goto(step), step # "start",
           Head(drivers) = "doctor" /\ step \in {"stop", "wait"} =>
              worker'.serve \in {"serves", "lingers"}
    PROVE  Doctor'
  BY DEF Doctor, Goto

LEMMA DoctorReturns ==
    ASSUME Order, Known, Doctor, scenario' = scenario, drivers # <<>>, NEW r, Return(r),
           Head(drivers) = "doctor" /\ r = "pass" =>
              worker'.serve = "serves" /\ worker'.serves = known' /\ Usable(known')
    PROVE  Doctor'
  <1>1. /\ Len(drivers) \in Nat /\ Len(drivers') = Len(drivers) - 1
        /\ Len(scenario.drivers) \in Nat
    BY ConformanceAssumption DEF Order, Known, Return
  <1>2. /\ pc' = "start"
        /\ results'["doctor"] = IF Head(drivers) = "doctor" THEN r ELSE results["doctor"]
    BY TailOrder DEF Order, Return, Driver
  <1>3. Len(drivers') + 1 = Len(scenario.drivers) => results["doctor"] = "none"
    BY <1>1 DEF Doctor, Driver
  <1> QED
    BY <1>1, <1>2, <1>3 DEF Doctor

LEMMA DoctorInductive ==
    ASSUME Inv, Known, Doctor, [Next]_vars
    PROVE  Doctor'
  <1>0. scenario' = scenario /\ Order
    BY Calm DEF Inv
  <1>1. CASE Waits \/ Stop \/ Replace \/ UNCHANGED vars
    <2>1. UNCHANGED <<scenario, drivers, pc, known, worker, results>>
      BY <1>1 DEF Waits, Stop, Replace, vars
    <2> QED
      BY <2>1 DEF Doctor, Usable
  <1>a. ASSUME drivers # <<>>, Head(drivers) # "doctor",
               (\E step : Goto(step) /\ step # "start") \/ (\E r : Return(r))
        PROVE  Doctor'
    BY <1>0, <1>a, DoctorGoes, DoctorReturns
  <1>2. CASE HarnessStep
    <2>1. drivers # <<>> /\ Head(drivers) # "doctor"
      BY <1>2 DEF HarnessStep, CheckExists, CheckManifest, CheckContents, CheckControl,
             CheckWorker, At
    <2>2. (\E step : Goto(step) /\ step # "start") \/ (\E r : Return(r))
      BY <1>2, HarnessMoves
    <2> QED
      BY <1>a, <2>1, <2>2
  <1>3. CASE /\ Head(drivers) # "doctor"
             /\ DoctorSelect \/ DoctorReport \/ HostResolve \/ Spawn \/ HelloPasses
                \/ HelloFails \/ ControlTimeout \/ PingAnswered \/ ShutdownAck \/ Exited
                \/ HostDrops \/ CaptureHeld
    BY <1>0, <1>3, <1>a, MovesOn
  <1>4. CASE Head(drivers) = "doctor"
    <2>r. ASSUME NEW r, Return(r), r # "pass", drivers # <<>>
          PROVE  Doctor'
      BY <1>0, <2>r, DoctorReturns
    <2>g. ASSUME NEW step, Goto(step), step \notin {"start", "stop", "wait"}
          PROVE  Doctor'
      BY <1>0, <2>g, DoctorGoes
    <2>f. ASSUME NEW op, NEW why, Failed(op, why), drivers # <<>>
          PROVE  Doctor'
      <3>1. Goto("held") \/ Return("error")
        BY <1>4, <2>f, FailedEither DEF GivesUp
      <3> QED
        BY <2>f, <2>g, <2>r, <3>1
    <2>1. CASE DoctorSelect
      BY <2>1, <2>r, <2>g DEF DoctorSelect, At
    <2>2. CASE DoctorReport
      BY <2>2, <2>r, <2>g DEF DoctorReport, At
    <2>3. CASE Spawn
      BY <2>3, <2>f, <2>g DEF Spawn, Working
    <2>4. CASE HelloPasses
      <3>1. Goto("pong")
        BY <1>4, <2>4 DEF HelloPasses, Passed, Succeeds, Following
      <3> QED
        BY <2>g, <3>1
    <2>5. CASE HelloFails \/ ControlTimeout
      BY <2>5, <2>f DEF HelloFails, ControlTimeout, Working
    <2>6. CASE PingAnswered
      <3>1. CASE worker.serve \in {"serves", "lingers"} /\ Passed("ping")
        <4>1. Goto("stop") /\ worker' = worker
          BY <1>4, <2>6, <3>1 DEF PingAnswered, Passed, Succeeds, Following
        <4> QED
          BY <1>0, <3>1, <4>1, DoctorGoes
      <3>2. CASE Failed("ping", "lost")
        BY <2>6, <2>f, <3>2 DEF PingAnswered, Working
      <3> QED
        BY <2>6, <3>1, <3>2 DEF PingAnswered
    <2>7. CASE ShutdownAck
      <3>1. /\ Goto("wait") /\ worker' = worker /\ pc = "stop" /\ drivers # <<>>
        BY <2>7 DEF ShutdownAck, Working
      <3>2. worker.serve \in {"serves", "lingers"}
        BY <1>4, <3>1 DEF Doctor
      <3> QED
        BY <1>0, <3>1, <3>2, DoctorGoes
    <2>8. CASE Exited
      <3>0. /\ Goto("held") \/ Return("pass")
            /\ worker' = worker /\ known' = known
            /\ pc = "wait" /\ drivers # <<>> /\ worker.serve # "lingers"
        BY <1>4, <2>8 DEF Exited, Working, Passed, Succeeds, JoinHeld
      <3> SUFFICES ASSUME Return("pass")
                   PROVE  Doctor'
        BY <2>g, <3>0
      <3>1. /\ Return("pass") /\ worker' = worker /\ known' = known
            /\ pc = "wait" /\ drivers # <<>> /\ worker.serve # "lingers"
        BY <3>0
      <3>2. worker.serve = "serves" /\ worker.serves = known /\ Usable(known)
        BY <1>4, <3>1 DEF Doctor, Inv, Connected, Informed, Session, Idle
      <3>3. worker'.serve = "serves" /\ worker'.serves = known' /\ Usable(known')
        BY <3>1, <3>2 DEF Usable
      <3> QED
        BY <1>0, <3>1, <3>3, DoctorReturns
    <2>9. ~HostResolve /\ ~HostDrops
      BY <1>4 DEF HostResolve, HostDrops, At
    <2>10. CASE CaptureHeld
      BY <2>10, <2>g, CaptureHolds
    <2> QED
      BY <1>1, <1>2, <2>1, <2>2, <2>3, <2>4, <2>5, <2>6, <2>7, <2>8, <2>9, <2>10
         DEF Next, Step
  <1> QED
    BY <1>1, <1>2, <1>3, <1>4 DEF Next, Step

(***************************************************************************)
(* The host of a plugin that the harness found healthy.                    *)
(***************************************************************************)
\* What it asks for is there, at every check on the way.
LEMMA AskedIsThere ==
    ASSUME Known, Asked
    PROVE  /\ installed # NoExecutable
           /\ Answered(installed, "manifest") /\ Answered(installed, "serve")
           /\ installed.serve = "serves" /\ installed.serves = installed.manifest
           /\ installed.protocol \in HostProtocol
           /\ "worker" \in installed.manifest.execution
           /\ installed.manifest # NoManifest /\ Usable(installed.manifest)
           /\ compatibility_issues(installed.manifest, scenario.requirement) = {}
           /\ validate_hello(installed.manifest, HostHello(scenario.requested))
  <1>1. PICK m : m = installed.manifest
    OBVIOUS
  <1>2. /\ installed # NoExecutable /\ Answered(installed, "manifest")
        /\ GoodAnswers(installed) /\ "worker" \in m.execution
        /\ installed.serve = "serves" /\ GoodHello(installed)
        /\ "serve" \notin installed.keeps
    BY <1>1, WellMadeExact DEF Asked
  <1>3. /\ validate(m) /\ m.id = CandidateId
        /\ \A r \in scenario.interfaces : Provides(m, r)
        /\ m # NoManifest
    BY <1>1, <1>2, ConformanceAssumption DEF GoodAnswers, GoodContents, Asked, Known
  <1>4. /\ installed.serves = m /\ installed.protocol \in HostProtocol
        /\ FrameworkVersion \in m.framework /\ ProtocolVersion \in m.worker_protocol
    BY <1>1, <1>2 DEF GoodHello, validate_hello, HostHello, matches
  <1>5. compatibility_issues(m, scenario.requirement) = {}
    <2>1. /\ \A n \in scenario.requirement.name : m.id.name = n
          /\ m.id.kind = scenario.requirement.kind
          /\ \A mode \in scenario.requirement.execution : mode \in m.execution
          /\ \A r \in scenario.requirement.interface : Provides(m, r)
          /\ scenario.requirement.capabilities = {}
      BY <1>2, <1>3 DEF Asked
    <2> QED
      BY <1>4, <2>1, AllChecked
  <1>6. validate_hello(m, HostHello(scenario.requested))
    BY <1>3, <1>4 DEF Asked, validate_hello, HostHello, matches
  <1>7. Answered(installed, "serve")
    BY <1>2 DEF GoodHello, Answered
  <1> QED
    BY <1>1, <1>2, <1>3, <1>4, <1>5, <1>6, <1>7 DEF Usable

LEMMA CachedStays ==
    ASSUME Inv, Known, Host, [Next]_vars, Undisturbed', cached' # NoManifest
    PROVE  installed' # NoExecutable /\ cached' = installed'.manifest
  <1>0. Undisturbed /\ installed' = installed
    BY Calm
  <1>1. CASE DoctorSelect \/ HostResolve
    <2>1. PICK m : Find(m)
      BY <1>1 DEF DoctorSelect, HostResolve
    <2> QED
      BY <1>0, <2>1 DEF Find, Inspected, Printed, Host
  <1>2. ~Replace
    BY <1>0 DEF Replace, Undisturbed, Known
  <1>3. CASE ~(DoctorSelect \/ HostResolve)
    <2>1. cached' = cached
      <3>1. CASE HarnessStep
        BY <3>1, HarnessCounts
      <3>2. CASE DoctorReport \/ Spawn \/ HelloPasses \/ HelloFails \/ ControlTimeout
                 \/ PingAnswered \/ ShutdownAck \/ Exited \/ HostDrops \/ CaptureHeld
        BY <3>2 DEF DoctorReport, Spawn, HelloPasses, HelloFails, ControlTimeout,
                    PingAnswered, ShutdownAck, Exited, HostDrops, CaptureHeld
      <3>3. CASE Waits \/ Stop \/ UNCHANGED vars
        BY <3>3 DEF Waits, Stop, vars
      <3> QED
        BY <1>2, <1>3, <3>1, <3>2, <3>3 DEF Next, Step
    <2> QED
      BY <1>0, <2>1 DEF Host
  <1> QED
    BY <1>1, <1>3

\* A step of another driver.
LEMMA HostUntouched ==
    ASSUME Inv, Host, Asked, installed' = installed,
           drivers # <<>>, Head(drivers) # "host",
           (\E step : Goto(step)) \/ (\E r : Return(r))
    PROVE  /\ results'["host"] \in {"none", "served"}
           /\ drivers' # <<>> /\ Head(drivers') = "host" /\ pc' # "start" => FALSE
  <1>1. CASE \E step : Goto(step)
    BY <1>1 DEF Host, Goto
  <1>2. CASE \E r : Return(r)
    BY <1>2, TailOrder DEF Host, Return, Inv, Order, Driver
  <1> QED
    BY <1>1, <1>2

LEMMA HostInductive ==
    ASSUME Inv, Known, Host, [Next]_vars
    PROVE  Host'
  <1> SUFFICES ASSUME Asked'
               PROVE  /\ results'["host"] \in {"none", "served"}
                      /\ drivers' # <<>> /\ Head(drivers') = "host" /\ pc' # "start" =>
                            /\ known' = installed'.manifest
                            /\ pc' \in {"hello"} \cup Session => worker' = installed'
    BY CachedStays DEF Host
  <1>0. /\ Undisturbed /\ installed' = installed /\ scenario' = scenario /\ faults' = faults
        /\ faults \in Nat /\ Order /\ Undisturbed'
    BY Calm DEF Inv, Known, Asked
  <1>1. Asked
    BY <1>0, SameAsBefore DEF Asked
  <1>2. /\ results["host"] \in {"none", "served"}
        /\ drivers # <<>> /\ Head(drivers) = "host" /\ pc # "start" =>
              /\ known = installed.manifest
              /\ pc \in {"hello"} \cup Session => worker = installed
    BY <1>1 DEF Host
  <1>3. CASE Waits \/ Stop \/ UNCHANGED vars
    BY <1>0, <1>2, <1>3 DEF Waits, Stop, vars
  <1>4. ~Replace
    BY <1>0 DEF Replace, Undisturbed, Known
  <1>5. CASE HarnessStep
    <2>1. drivers # <<>> /\ Head(drivers) # "host"
      BY <1>5 DEF HarnessStep, CheckExists, CheckManifest, CheckContents, CheckControl,
             CheckWorker, At
    <2>2. (\E step : Goto(step)) \/ (\E r : Return(r))
      BY <1>5, HarnessMoves
    <2> QED
      BY <1>0, <1>1, <2>1, <2>2, HostUntouched
  <1>6. CASE /\ Head(drivers) # "host"
             /\ DoctorSelect \/ DoctorReport \/ HostResolve \/ Spawn \/ HelloPasses
                \/ HelloFails \/ ControlTimeout \/ PingAnswered \/ ShutdownAck \/ Exited
                \/ HostDrops \/ CaptureHeld
    <2>1. drivers # <<>> /\ ((\E step : Goto(step)) \/ (\E r : Return(r)))
      BY <1>0, <1>6, MovesOn
    <2> QED
      BY <1>0, <1>1, <1>6, <2>1, HostUntouched
  <1>7. CASE Head(drivers) = "host"
    <2>0. /\ installed # NoExecutable
          /\ Answered(installed, "manifest") /\ Answered(installed, "serve")
          /\ installed.serve = "serves" /\ installed.serves = installed.manifest
          /\ installed.protocol \in HostProtocol
          /\ "worker" \in installed.manifest.execution
          /\ installed.manifest # NoManifest /\ Usable(installed.manifest)
          /\ compatibility_issues(installed.manifest, scenario.requirement) = {}
          /\ validate_hello(installed.manifest, HostHello(scenario.requested))
      BY <1>1, AskedIsThere
    <2>g. ASSUME NEW step, Goto(step), known' = installed.manifest,
                 step \in {"hello"} \cup Session => worker' = installed
          PROVE  /\ results'["host"] \in {"none", "served"}
                 /\ drivers' # <<>> /\ Head(drivers') = "host" /\ pc' # "start" =>
                       /\ known' = installed'.manifest
                       /\ pc' \in {"hello"} \cup Session => worker' = installed'
      BY <1>0, <1>2, <2>g DEF Goto
    <2>r. ASSUME drivers # <<>>, Return("served")
          PROVE  /\ results'["host"] \in {"none", "served"}
                 /\ drivers' # <<>> /\ Head(drivers') = "host" /\ pc' # "start" => FALSE
      BY <1>0, <1>7, <2>r DEF Return, Order, Driver
    <2>1. CASE HostResolve
      <3>1. PICK m : /\ Find(m) /\ known' = m
                     /\ \/ m = NoManifest /\ Return("rejected")
                        \/ /\ m # NoManifest
                           /\ IF compatibility_issues(m, scenario.requirement) = {}
                              THEN Goto("spawn") ELSE Return("rejected")
        BY <2>1 DEF HostResolve
      <3>2. m = installed.manifest
        <4>1. CASE cached # NoManifest
          BY <1>0, <2>0, <3>1, <4>1 DEF Find, Inspected, Host, Usable
        <4>2. CASE cached = NoManifest
          <5>1. PICK a : /\ Captured("manifest", a)
                         /\ m = IF a = "manifest" /\ validate(Printed) /\ Printed.id = CandidateId
                                THEN Printed ELSE NoManifest
            BY <2>0, <3>1, <4>2 DEF Find, Inspected
          <5>2. a = Reply("manifest")
            BY <1>0, <5>1 DEF Captured
          <5>3. a = "manifest"
            BY <2>0, <5>2, Answers DEF Reply, Answered
          <5> QED
            BY <2>0, <5>1, <5>3 DEF Printed, Usable
        <4> QED
          BY <4>1, <4>2
      <3>3. Goto("spawn") /\ "spawn" \notin {"hello"} \cup Session
        BY <2>0, <3>1, <3>2 DEF Session
      <3> QED
        BY <2>g, <3>1, <3>2, <3>3
    <2>2. CASE Spawn
      <3>1. pc = "spawn" /\ drivers # <<>> /\ known' = known /\ known = installed.manifest
        BY <1>2, <1>7, <2>2 DEF Spawn, Working
      <3>2. worker' = installed /\ Goto("hello")
        BY <2>0, <2>2, <3>1 DEF Spawn, supports
      <3> QED
        BY <2>g, <3>1, <3>2
    <2>3. CASE HelloPasses \/ HelloFails
      <3>1. /\ pc = "hello" /\ drivers # <<>> /\ known' = known /\ known = installed.manifest
            /\ worker' = worker /\ worker = installed
        BY <1>2, <1>7, <2>3 DEF HelloPasses, HelloFails, Working
      <3>2. Serving /\ Accepts /\ SameManifest /\ worker.protocol \in HostProtocol
        BY <1>7, <2>0, <3>1 DEF Serving, Accepts, SameManifest, Requested, Answered
      <3>3. Goto("pong")
        BY <1>7, <2>3, <3>2 DEF HelloPasses, HelloFails, Passed, Succeeds, Following
      <3> QED
        BY <2>g, <3>1, <3>3
    <2>4. CASE ControlTimeout
      <3>1. PICK step \in {"hello", "pong", "stop"} : pc = step /\ Mute(step) /\ drivers # <<>>
        BY <1>0, <2>4 DEF ControlTimeout, Working, Operation
      <3>2. worker = installed
        BY <1>2, <1>7, <3>1 DEF Session
      <3> QED
        BY <2>0, <3>1, <3>2 DEF Mute, Answered
    <2>5. CASE PingAnswered \/ ShutdownAck
      <3>1. /\ pc \in {"pong", "stop"} /\ drivers # <<>> /\ known' = known
            /\ worker' = worker
        BY <2>5 DEF PingAnswered, ShutdownAck, Working
      <3>2. known = installed.manifest /\ worker = installed
        BY <1>2, <1>7, <3>1 DEF Session
      <3>3. Goto("stop") \/ Goto("wait")
        BY <1>7, <2>0, <2>5, <3>2 DEF PingAnswered, ShutdownAck, Passed, Succeeds, Following
      <3> QED
        BY <2>g, <3>1, <3>2, <3>3
    <2>6. CASE Exited
      <3>1. worker = installed
        BY <1>2, <1>7, <2>6 DEF Exited, Working, Session
      <3>2. drivers # <<>> /\ Return("served")
        BY <1>7, <2>0, <2>6, <3>1 DEF Exited, Working, Passed, JoinHeld, Succeeds, Keeps, Answered
      <3> QED
        BY <2>r, <3>2
    <2>7. CASE HostDrops
      <3>1. drivers # <<>> /\ worker = installed
        BY <1>2, <1>7, <2>7 DEF HostDrops, At, Session
      <3>2. Return("served")
        BY <2>0, <2>7, <3>1 DEF HostDrops, JoinHeld, Keeps, Answered
      <3> QED
        BY <2>r, <3>1, <3>2
    <2>8. ~DoctorSelect /\ ~DoctorReport /\ ~CaptureHeld
      BY <1>7, <2>0 DEF DoctorSelect, DoctorReport, CaptureHeld, Runs, Keeps, Answered, At
    <2> QED
      BY <1>3, <1>4, <1>5, <2>1, <2>2, <2>3, <2>4, <2>5, <2>6, <2>7, <2>8 DEF Next, Step
  <1> QED
    BY <1>3, <1>4, <1>5, <1>6, <1>7 DEF Next, Step

LEMMA ReportsInitially ==
    ASSUME Init
    PROVE  Reports
  <1>1. Known
    BY DEF Init, Known
  <1>2. /\ pc = "start" /\ drivers = scenario.drivers
        /\ \A d \in Driver : results[d] = "none"
        /\ cached # NoManifest => installed # NoExecutable /\ cached = installed.manifest
    BY DEF Init, Remembered
  <1>3. Len(drivers) \in Nat /\ {"harness", "doctor", "host"} \subseteq Driver
    BY <1>1, <1>2, ConformanceAssumption DEF Known, Driver
  <1>4. Harness
    BY <1>2, <1>3 DEF Harness, Idle
  <1>5. Doctor
    BY <1>2, <1>3 DEF Doctor
  <1>6. Host
    BY <1>2, <1>3 DEF Host
  <1> QED
    BY <1>1, <1>4, <1>5, <1>6, InvInitially DEF Reports

LEMMA ReportsAlways == Spec => []Reports
  <1>1. Reports /\ [Next]_vars => Reports'
    BY InvInductive, KnownInductive, HarnessInductive, DoctorInductive, HostInductive
       DEF Reports
  <1> QED
    BY <1>1, ReportsInitially, PTL DEF Spec

\* If nothing is replaced or too slow, check_plugin reports a plugin healthy
\* exactly if it is well made, and whatever is replaced the deep doctor says
\* "pass" only of a worker that has answered and gone, for all executables and
\* all options (outboard-testing check_plugin, management.rs doctor).
THEOREM ReportRightAlways == Spec => []ReportRight
  <1>1. Reports => ReportRight
    <2> SUFFICES ASSUME Reports
                 PROVE  ReportRight
      OBVIOUS
    <2>1. /\ Len(drivers) \in Nat /\ scenario.drivers \in Seq(Driver)
      BY ConformanceAssumption DEF Reports, Known, Inv, Order
    <2>2. ASSUME results["doctor"] = "pass", pc = "start", drivers = Tail(scenario.drivers)
          PROVE  worker.serve = "serves" /\ worker.serves = known /\ Usable(known)
      <3>1. Len(drivers) # Len(scenario.drivers) /\ Len(drivers) <= Len(scenario.drivers)
        BY <2>2 DEF Reports, Doctor, Driver
      <3>2. scenario.drivers # <<>>
        BY <2>1, <3>1
      <3>3. Len(drivers) + 1 = Len(scenario.drivers)
        BY <2>1, <2>2, <3>2
      <3> QED
        BY <2>2, <3>3 DEF Reports, Doctor
    <2> QED
      BY <2>2 DEF Reports, Harness, ReportRight, Usable
  <1> QED
    BY <1>1, ReportsAlways, PTL

\* A host that asks for no more than the harness did is served by every plugin
\* the harness found healthy: none of inspect, compatibility_issues, the spawn
\* and the handshake is stricter than the harness, for all executables, options
\* and requirements (outboard-testing check_plugin; registry.rs inspect,
\* manifest.rs compatibility_issues, worker.rs handshake).
THEOREM HealthyIsUsableAlways == Spec => []HealthyIsUsable
  <1>1. Reports => HealthyIsUsable
    <2> SUFFICES ASSUME Reports, Undisturbed, results["harness"] = "healthy",
                        results["host"] # "none",
                        scenario.expected_id = {CandidateId}, "worker" \in scenario.require,
                        scenario.requirement.kind = CandidateId.kind,
                        scenario.requirement.name \subseteq {CandidateId.name},
                        scenario.requirement.execution = {"worker"},
                        scenario.requirement.capabilities = {},
                        scenario.requirement.interface \cup scenario.requested
                           \subseteq scenario.interfaces
                 PROVE  results["host"] = "served"
      BY DEF HealthyIsUsable
    <2>1. installed # NoExecutable /\ WellMade(installed)
      BY DEF Reports, Harness
    <2>2. Asked
      BY <2>1 DEF Asked
    <2> QED
      BY <2>2 DEF Reports, Host
  <1> QED
    BY <1>1, ReportsAlways, PTL
=============================================================================

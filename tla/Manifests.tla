------------------------------ MODULE Manifests ------------------------------
(***************************************************************************)
(* The manifest of outboard-core and the checks of its contract: validate  *)
(* when it is read, compatibility_issues when a host resolves, and the     *)
(* validate_hello of both worker servers when that host connects.          *)
(*                                                                         *)
(* A VersionReq is the set of the versions it matches, an Option a set of  *)
(* at most one element.  Texts, metadata and the wording of the issues     *)
(* are left out.                                                           *)
(***************************************************************************)
EXTENDS Naturals, Sequences

CONSTANTS
    Version,           \* semver versions
    FrameworkVersion,  \* OUTBOARD_FRAMEWORK_VERSION of the host
    ProtocolVersion,   \* OUTBOARD_PROTOCOL_VERSION of the host
    HostProtocol,      \* the ^1.0 a host demands of a worker's protocol
    MANIFEST_VERSION,
    Identifier         \* what validate_identifier accepts

ASSUME ManifestAssumption ==
    /\ {FrameworkVersion, ProtocolVersion} \subseteq Version
    /\ HostProtocol \subseteq Version
    /\ ProtocolVersion \in HostProtocol

VersionReq == SUBSET Version
ExecutionMode == {"one_shot", "worker"}
ControlOperation == {"doctor", "cli-schema", "ping"}

\* ManifestBuilder::new: what a plugin that sets nothing declares.  It accepts
\* the hosts compatible with the framework that the plugin was built with.
ManifestBuilder(id, compatible) ==
    [manifest_version |-> MANIFEST_VERSION,
     id |-> id,
     framework |-> compatible,
     worker_protocol |-> HostProtocol,
     interfaces |-> <<>>,
     execution |-> {"one_shot"},
     capabilities |-> <<>>,
     control |-> {"doctor", "ping"}]

matches(req, version) == version \in req

(***************************************************************************)
(* validate.                                                               *)
(***************************************************************************)
\* PluginId::new.
ValidId(id) == {id.namespace, id.kind, id.name} \subseteq Identifier

\* Every identifier is valid and none is given twice.
ValidList(s) ==
    /\ \A k \in DOMAIN s : s[k].id \in Identifier
    /\ \A j, k \in DOMAIN s : s[j].id = s[k].id => j = k

validate(m) ==
    /\ m.manifest_version = MANIFEST_VERSION
    /\ ValidId(m.id)
    /\ m.execution # {}
    /\ ValidList(m.interfaces)
    /\ ValidList(m.capabilities)

(***************************************************************************)
(* compatibility_issues.                                                   *)
(***************************************************************************)
\* interface and capability: the first entry of that identifier, if any.
First(s, id) ==
    {s[k] : k \in {k \in DOMAIN s : s[k].id = id /\ \A j \in 1 .. k - 1 : s[j].id # id}}
interface(m, id) == First(m.interfaces, id)
capability(m, id) == First(m.capabilities, id)

supports(m, mode) == mode \in m.execution

\* An InterfaceRequirement that the manifest meets.
Provides(m, r) == \E i \in interface(m, r.id) : matches(r.version, i.version)

\* A CapabilityRequirement that the entry c meets: a version is compared only
\* if one is required, and an entry without a version has none that matches.
Grants(c, r) ==
    /\ \A req \in r.version : \E v \in c.version : matches(req, v)
    /\ r.properties \subseteq c.properties

Issue(found, what) == IF found THEN {what} ELSE {}

FrameworkIssue(m) == Issue(~matches(m.framework, FrameworkVersion), "Framework")

IdentityIssues(m, req) ==
    Issue(\E n \in req.name : m.id.name # n, "WrongName")
    \cup Issue(m.id.kind # req.kind, "WrongKind")

ExecutionIssues(m, req) ==
    Issue(\E mode \in req.execution : ~supports(m, mode), "ExecutionMode")

InterfaceIssues(m, req) ==
    Issue(\E r \in req.interface : interface(m, r.id) = {}, "MissingInterface")
    \cup Issue(\E r \in req.interface :
                  interface(m, r.id) # {} /\ ~Provides(m, r), "InterfaceVersion")

CapabilityIssues(m, req) ==
    Issue(\E r \in req.capabilities : capability(m, r.id) = {}, "MissingCapability")
    \cup Issue(\E r \in req.capabilities :
                  \E c \in capability(m, r.id) : ~Grants(c, r), "Capability")

\* Mutant of ProtocolIssue: the protocol is left to the handshake.
NoProtocolIssue(m, req) == {}
ProtocolIssue(m, req) ==
    Issue("worker" \in req.execution /\ ~matches(m.worker_protocol, ProtocolVersion),
          "WorkerProtocol")

compatibility_issues(m, req) ==
    FrameworkIssue(m) \cup IdentityIssues(m, req) \cup ExecutionIssues(m, req)
    \cup InterfaceIssues(m, req) \cup CapabilityIssues(m, req) \cup ProtocolIssue(m, req)

(***************************************************************************)
(* validate_hello.                                                         *)
(***************************************************************************)
HostHello(interfaces) ==
    [framework |-> FrameworkVersion, protocol |-> ProtocolVersion,
     requested_interfaces |-> interfaces]

validate_hello(m, hello) ==
    /\ matches(m.framework, hello.framework)
    /\ matches(m.worker_protocol, hello.protocol)
    /\ \A r \in hello.requested_interfaces : Provides(m, r)

(***************************************************************************)
(* What a requirement means, whatever the order of the manifest's lists.   *)
(***************************************************************************)
Satisfies(m, req) ==
    /\ FrameworkVersion \in m.framework
    /\ m.id.kind = req.kind /\ req.name \subseteq {m.id.name}
    /\ req.execution \subseteq m.execution
    /\ \A r \in req.interface : \E k \in DOMAIN m.interfaces :
          m.interfaces[k].id = r.id /\ m.interfaces[k].version \in r.version
    /\ \A r \in req.capabilities : \E k \in DOMAIN m.capabilities :
          m.capabilities[k].id = r.id /\ Grants(m.capabilities[k], r)
    /\ "worker" \in req.execution => ProtocolVersion \in m.worker_protocol
=============================================================================

---------------------------- MODULE MCConformance ----------------------------
EXTENDS Conformance

Id == [namespace |-> "n", kind |-> "k", name |-> "p"]

Interface(v) == [id |-> "i", version |-> v]
Capability(v) == [id |-> "c", version |-> v, properties |-> {<<"key", 1>>}]

GoodManifest ==
    [ManifestBuilder(Id, {1}) EXCEPT
        !.interfaces = <<Interface(1)>>, !.capabilities = <<Capability({1})>>,
        !.execution = {"one_shot", "worker"}, !.control = ControlOperation]

\* The good manifest with one thing changed.
OtherManifests ==
    {[GoodManifest EXCEPT !.manifest_version = 2],
     [GoodManifest EXCEPT !.id.name = "q"],
     [GoodManifest EXCEPT !.id.name = "not valid"],
     [GoodManifest EXCEPT !.framework = {2}],
     [GoodManifest EXCEPT !.worker_protocol = {2}],
     [GoodManifest EXCEPT !.execution = {"one_shot"}],
     [GoodManifest EXCEPT !.execution = {}]}
    \cup {[GoodManifest EXCEPT !.interfaces = l] :
             l \in {<<>>, <<Interface(2)>>, <<Interface(1), Interface(2)>>}}
    \cup {[GoodManifest EXCEPT !.capabilities = l] :
             l \in {<<>>, <<Capability({})>>, <<Capability({2})>>,
                    <<Capability({1}), Capability({2})>>}}
    \cup {[GoodManifest EXCEPT !.control = c] : c \in {{}, {"doctor", "ping"}}}

Good(m) ==
    [manifest |-> m, serves |-> m, protocol |-> 1,
     answers |-> [r \in ControlRequest |-> "library"], keeps |-> {},
     doctor |-> "pass", schema |-> "object", serve |-> "serves"]

\* An executable with one thing changed beside its manifest.
Others(x) ==
    {[x EXCEPT !.answers = [r \in ControlRequest |-> a]] :
        a \in {"not_json", "other_json", "exit", "hangs"}}
    \cup {[x EXCEPT !.answers[r] = "exit"] : r \in ControlRequest}
    \cup {[x EXCEPT !.keeps = {r}] : r \in ControlRequest}
    \cup {[x EXCEPT !.doctor = d] : d \in {"none", "warn", "fail"}}
    \cup {[x EXCEPT !.schema = s] : s \in {"none", "value"}}
    \cup {[x EXCEPT !.serve = s] :
             s \in {"exits", "silent", "deaf", "errors", "chatters", "lingers"}}
    \cup {[x EXCEPT !.protocol = 2], [x EXCEPT !.serves.framework = {1, 2}]}

OneShotOnly == [GoodManifest EXCEPT !.execution = {"one_shot"}]
NothingAdvertised == [GoodManifest EXCEPT !.control = {}]

SomeExecutables ==
    {Good(m) : m \in {GoodManifest} \cup OtherManifests}
    \cup UNION {Others(Good(m)) : m \in {GoodManifest, OneShotOnly, NothingAdvertised}}

\* What replaces them.
Replacements ==
    {Good(m) : m \in {GoodManifest, OneShotOnly, [GoodManifest EXCEPT !.framework = {2}],
                      [GoodManifest EXCEPT !.id.name = "q"],
                      [GoodManifest EXCEPT !.capabilities = <<>>]}}
    \cup {[Good(GoodManifest) EXCEPT !.serve = "exits"]}

Needs(v) == [id |-> "i", version |-> v]
Requirement(modes, faces, needs) ==
    [kind |-> "k", name |-> {"p"}, execution |-> modes, interface |-> faces,
     capabilities |-> needs]
NeedsCapability == [id |-> "c", version |-> {{1}}, properties |-> {<<"key", 1>>}]

Requirements ==
    {Requirement({"worker"}, {Needs({1})}, {}),
     Requirement({"worker"}, {Needs({1})}, {NeedsCapability}),
     Requirement({}, {}, {})}

Strict == [expected_id |-> {Id}, interfaces |-> {Needs({1})},
           require |-> {"worker", "doctor", "cli-schema"}]
Lax == [expected_id |-> {}, interfaces |-> {}, require |-> {}]

Acts(who, options, deep, req, requested) ==
    [drivers |-> who, expected_id |-> options.expected_id,
     interfaces |-> options.interfaces, require |-> options.require, deep |-> deep,
     requirement |-> req, requested |-> requested]

Scenarios ==
    {Acts(<<"harness", "host">>, o, FALSE, r, {Needs({1})}) :
        o \in {Strict, Lax}, r \in Requirements}
    \cup {Acts(<<"doctor", "host">>, Lax, deep, r, {Needs({1})}) :
             deep \in BOOLEAN, r \in Requirements}
=============================================================================

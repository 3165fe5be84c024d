---------------------------- MODULE ControlPlane ----------------------------
(***************************************************************************)
(* What a plugin executable does with the arguments it is run with:        *)
(* ControlDispatcher of the outboard crate, and the reports of doctor.rs   *)
(* that it prints.  An executable that does not use the library, or not as *)
(* it is meant, is described by "answers", request by request, and one     *)
(* that starts a process of its own, which outlives it and keeps its       *)
(* output streams open, by "keeps".                                        *)
(***************************************************************************)
EXTENDS Manifests

ControlRequest == {"manifest", "doctor", "cli-schema", "ping", "serve"}

\* An executable: the manifest it prints and the one it serves, its closures,
\* and what becomes of a worker session (see Conformance).
ExecutableType(Manifest) ==
    [manifest : Manifest,
     serves   : Manifest,
     protocol : Version,                                \* of the library it was built with
     answers  : [ControlRequest -> {"library", "not_json", "other_json", "exit", "hangs"}],
     keeps    : SUBSET ControlRequest,
     doctor   : {"none", "pass", "warn", "fail"},       \* the report's status
     schema   : {"none", "object", "value"},
     serve    : {"serves", "exits", "silent", "deaf", "errors", "chatters", "lingers"}]

\* detect_control_request, of the arguments after the program's name.
detect_control_request(args) ==
    IF args = <<>> \/ Head(args) # "__outboard" THEN "none"
    ELSE IF Len(args) > 1 /\ args[2] \in ControlRequest THEN args[2] ELSE "error"

\* DoctorReport::from_checks: the worst of the checks.
from_checks(statuses) ==
    IF "fail" \in statuses THEN "fail" ELSE IF "warn" \in statuses THEN "warn" ELSE "pass"

is_healthy(status) == status # "fail"

\* dispatch: what is printed, "exit" for an error and the exit status of main.
\* A plugin without a doctor is healthy, one without a schema has no answer.
dispatch(x, args) ==
    LET request == detect_control_request(args)
    IN CASE request = "manifest" -> "manifest"
         [] request = "doctor" -> IF x.doctor = "none" THEN from_checks({"pass"}) ELSE x.doctor
         [] request = "cli-schema" -> IF x.schema = "none" THEN "exit" ELSE x.schema
         [] request = "ping" -> "ok"
         [] request = "serve" -> "serve"
         [] request = "none" -> "not_control"
         [] request = "error" -> "exit"

\* What a host that captures `x __outboard request` gets.
Answer(x, request) ==
    IF x.answers[request] = "library" THEN dispatch(x, <<"__outboard", request>>)
    ELSE x.answers[request]
=============================================================================

--------------------------- MODULE WorkerService ---------------------------
(***************************************************************************)
(* What a persistent worker promises the callers of a host, with no frame, *)
(* pipe, task or process in it: a request is worked on at most once at a   *)
(* time, its caller learns what the work came to and nothing else, a call  *)
(* breaks off only when the link to the worker is lost, and a shutdown     *)
(* that succeeds leaves no work undone and no caller without an answer.    *)
(***************************************************************************)
CONSTANT Request

VARIABLES
    call,   \* a request as its caller sees it
    work,   \* the worker's work on it
    link    \* the connection of host and worker

serviceVars == <<call, work, link>>

ServiceTypeOK ==
    /\ call \in [Request -> {"idle", "open", "finished", "errored", "closed", "gone"}]
    /\ work \in [Request -> {"none", "running", "finished", "error"}]
    /\ link \in {"up", "lost", "shut"}

Init ==
    /\ call = [i \in Request |-> "idle"]
    /\ work = [i \in Request |-> "none"]
    /\ link = "up"

Submit(i) ==
    /\ call[i] = "idle" /\ link # "shut"
    /\ call' = [call EXCEPT ![i] = "open"]
    /\ UNCHANGED <<work, link>>

Begin(i) ==
    /\ call[i] # "idle" /\ work[i] = "none" /\ link # "shut"
    /\ work' = [work EXCEPT ![i] = "running"]
    /\ UNCHANGED <<call, link>>

Complete(i) ==
    /\ work[i] = "running" /\ link # "shut"
    /\ \E r \in {"finished", "error"} : work' = [work EXCEPT ![i] = r]
    /\ UNCHANGED <<call, link>>

\* The caller is told the outcome of its own work.
Resolve(i) ==
    /\ call[i] = "open"
    /\ \/ work[i] = "finished" /\ call' = [call EXCEPT ![i] = "finished"]
       \/ work[i] = "error" /\ call' = [call EXCEPT ![i] = "errored"]
    /\ UNCHANGED <<work, link>>

\* The caller gives up.
Forget(i) ==
    /\ call[i] \in {"idle", "open"}
    /\ call' = [call EXCEPT ![i] = "gone"]
    /\ UNCHANGED <<work, link>>

\* The caller is told that the link broke: only if it did.
Disconnect(i) ==
    /\ call[i] = "open" /\ link = "lost"
    /\ call' = [call EXCEPT ![i] = "closed"]
    /\ UNCHANGED <<work, link>>

Lose == link = "up" /\ link' = "lost" /\ UNCHANGED <<call, work>>

\* The worker dies, and the work it was doing with it.
WorkerDies ==
    /\ link # "shut"
    /\ work' = [i \in Request |-> IF work[i] = "running" THEN "none" ELSE work[i]]
    /\ UNCHANGED <<call, link>>

\* A clean shutdown: no work is left, and every caller has its answer coming.
Shut ==
    /\ link # "shut"
    /\ \A i \in Request :
          /\ work[i] # "running"
          /\ call[i] = "open" => work[i] # "none"
    /\ link' = "shut"
    /\ UNCHANGED <<call, work>>

\* The host dies, and its calls with it, those it was about to submit too.
HostDies ==
    /\ link' = "lost"
    /\ \E submitting \in SUBSET {i \in Request : call[i] = "idle"} :
          call' = [i \in Request |->
                      IF call[i] = "open" \/ i \in submitting THEN "gone" ELSE call[i]]
    /\ UNCHANGED work

Next ==
    \/ \E i \in Request :
          Submit(i) \/ Begin(i) \/ Complete(i) \/ Resolve(i) \/ Forget(i) \/ Disconnect(i)
    \/ Lose \/ WorkerDies \/ Shut \/ HostDies

Spec == Init /\ [][Next]_serviceVars
=============================================================================

------------------------------ MODULE AnyHost ------------------------------
(***************************************************************************)
(* A host that keeps no rule of the worker protocol: it writes any frame   *)
(* at any time, reuses request ids, repeats its hello, cancels what never  *)
(* was, stops writing, stops reading.                                      *)
(***************************************************************************)
EXTENDS WorkerTransport

CONSTANT MaxSends      \* bound: frames the host writes

ASSUME HostAssumption == MaxSends \in Nat

VARIABLE sent          \* frames the host has written

\* The child has been spawned.
HostInit ==
    /\ stdin = <<>>
    /\ stdout = <<>>
    /\ stdinOpen = TRUE
    /\ stdoutOpen = TRUE
    /\ child = "running"
    /\ killed = FALSE
    /\ sent = 0

AnyFrame ==
    {Control("hello"), Control("shutdown"), Control("torn")}
        \cup {ForRequest("invoke", i) : i \in RequestId}
        \cup {ForRequest("cancel", i) : i \in RequestId}
        \cup {WithNonce("ping", n) : n \in Nonce}

HostSends ==
    /\ sent < MaxSends
    /\ \E f \in AnyFrame : HostWrites(f)
    /\ sent' = sent + 1
    /\ UNCHANGED <<stdout, stdinOpen, stdoutOpen, child, killed>>

HostReads ==
    /\ stdoutOpen /\ stdout # <<>>
    /\ stdout' = Tail(stdout)
    /\ UNCHANGED <<stdin, stdinOpen, stdoutOpen, child, killed, sent>>

HostClosesStdin ==
    /\ stdinOpen
    /\ stdinOpen' = FALSE
    /\ UNCHANGED <<stdin, stdout, stdoutOpen, child, killed, sent>>

HostClosesStdout ==
    /\ stdoutOpen
    /\ stdoutOpen' = FALSE
    /\ UNCHANGED <<stdin, stdout, stdinOpen, child, killed, sent>>

AnyHostNext == HostSends \/ HostReads \/ HostClosesStdin \/ HostClosesStdout
=============================================================================

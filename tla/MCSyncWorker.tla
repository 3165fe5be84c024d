---------------------------- MODULE MCSyncWorker ----------------------------
EXTENDS SyncWorker

\* A plugin that is as it was resolved, and one wrong in each way.
Good == [worker |-> TRUE, same |-> TRUE, protocol |-> TRUE, accepts |-> TRUE]

AllPlugins ==
    {Good,
     [Good EXCEPT !.worker = FALSE],
     [Good EXCEPT !.same = FALSE],
     [Good EXCEPT !.protocol = FALSE],
     [Good EXCEPT !.accepts = FALSE]}
=============================================================================

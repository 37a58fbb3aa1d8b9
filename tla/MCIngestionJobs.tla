-------------------------- MODULE MCIngestionJobs --------------------------
(* Instances of IngestionJobs for TLC.                                     *)
EXTENDS IngestionJobs, TLC

CONSTANTS k1, p1, p2, n1, n2, acme

Request(t, k, p, n) == [tenant |-> t, key |-> k, payload |-> p, name |-> n]

\* Asynchronous uploads: replays and conflicts under one key, and an upload
\* without a key, which is always a job of its own.
AsyncRequests == {Request(Default, k1, p1, n1), Request(Default, k1, p2, n1),
                  Request(Default, NoKey, p1, n2)}

\* Asynchronous uploads that are always two jobs.
TwoJobRequests == {Request(Default, NoKey, p1, n1), Request(Default, NoKey, p1, n2)}

\* Synchronous uploads: a key, a payload, a file name in common or not.
SyncRequests == {Request(acme, k1, p1, n1), Request(acme, k1, p2, n1),
                 Request(acme, NoKey, p1, n1), Request(acme, NoKey, p1, n2)}

\* The same beside synchronous uploads, with the key and without.
KeyedRequests == AsyncRequests \cup {Request(acme, k1, p1, n1), Request(acme, NoKey, p1, n1)}

\* One tenant of each kind.
MixedRequests == SyncRequests \cup TwoJobRequests

SymWorkers == Permutations(Workers)
=============================================================================

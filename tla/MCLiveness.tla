------------------------------ MODULE MCLiveness ------------------------------
(***************************************************************************)
(* Instances for TLC of the components in which something must happen in   *)
(* the end: an accepted job finishes, the lock of an index is freed, an    *)
(* ask returns, its capacity comes back, the circuit closes and every mail *)
(* is taken.  They share no state in these models, so a behaviour of this  *)
(* module is a behaviour of one of them, chosen by the initial state; the  *)
(* others rest.                                                            *)
(***************************************************************************)
EXTENDS AskCapacity, OllamaBreaker, Channels

CONSTANTS j1, j2, w1, n1, n2, payload, noKey, default, None, i1, i2, a1, a2

VARIABLES
    part,  \* the component that runs
    \* IngestionJobs
    req, status, ready, started, since, lease, left, bound, issued, inflight, rpc, target,
    wpc, wjob, wtok, lost, beat, corpus, docs, receipt, log, activeDocs,
    \* VectorIndex
    lock, manifest, inventory, recordedAt, clock, store, named, indexPc, mode, cand, indexSeen,
    indexSnap, todo, cmd, plan, failed, resolved,
    \* ConversationSession
    busy, epoch, activeTurn, history, pending, pc, sessionTurn, outcome, version, confirm,
    replyTo, expected, run, snap, subject, result, ticket, cleared, clears

\* Two asynchronous uploads; the second was left running by an earlier version.
Upload(name) == [tenant |-> default, key |-> noKey, payload |-> payload, name |-> name]

Job == INSTANCE IngestionJobs WITH
    Jobs <- {j1, j2}, Workers <- {w1}, Tenants <- {default}, Default <- default,
    Requests <- {Upload(n1), Upload(n2)}, NoKey <- noKey, LegacyJobs <- {j2},
    Lease <- 2, Heartbeat <- 1, Offsets <- {0}, QueuedStale <- 2, LegacyStale <- 3, Punctual <- FALSE,
    MaxCopies <- 2, active <- activeDocs

Index == INSTANCE VectorIndex WITH
    Procs <- {i1, i2}, Readers <- {}, MaxVersions <- 2,
    MaxBuilds <- 1, MaxGeneration <- 2, pc <- indexPc, seen <- indexSeen, snap <- indexSnap

Session == INSTANCE ConversationSession WITH
    Asks <- {a1, a2}, Budgeted <- {a1}, MaxHistory <- 1, MaxClears <- 1,
    active <- activeTurn, turn <- sessionTurn

jobVars == <<req, status, ready, started, since, lease, left, bound, issued, inflight, rpc, target,
             wpc, wjob, wtok, lost, beat, corpus, docs, receipt, log, activeDocs>>

indexVars == <<lock, manifest, inventory, recordedAt, clock, store, named, indexPc, mode, cand,
               indexSeen, indexSnap, todo, cmd, plan, failed, resolved>>

sessionVars == <<busy, epoch, activeTurn, history, pending, pc, sessionTurn, outcome, version,
                 confirm, replyTo, expected, run, snap, subject, result, ticket, cleared, clears>>

livenessVars == <<part, jobVars, indexVars, sessionVars, capacityVars, breakerVars, channelVars>>

LivenessInit ==
    /\ part \in {"jobs", "index", "session", "capacity", "breaker", "channels"}
    /\ Job!Init /\ (part = "jobs" \/ \A j \in {j1, j2} : req[j] = Upload(n1))
    /\ Index!Init /\ (part = "index" \/ store[Index!Legacy] = "absent")
    /\ Session!Init
    /\ CapacityInit
    /\ BreakerInit
    /\ ChannelsInit

\* Every component but the one that runs rests.
OthersRest ==
    /\ UNCHANGED part
    /\ part # "jobs" => UNCHANGED jobVars
    /\ part # "index" => UNCHANGED indexVars
    /\ part # "session" => UNCHANGED sessionVars
    /\ part # "capacity" => UNCHANGED capacityVars
    /\ part # "breaker" => UNCHANGED breakerVars
    /\ part # "channels" => UNCHANGED channelVars

LivenessNext ==
    \/ part = "jobs" /\ Job!Next /\ OthersRest
    \/ part = "index" /\ Index!HostileNext /\ OthersRest
    \/ part = "session" /\ Session!Next /\ OthersRest
    \/ part = "capacity" /\ CapacityNext /\ OthersRest
    \/ part = "breaker" /\ BreakerNext /\ OthersRest
    \/ part = "channels" /\ ChannelsNext /\ OthersRest

\* The fairness of each component, while it is the one that runs.
LivenessFairness ==
    /\ WF_jobVars(part = "jobs" /\ Job!Tick)
    /\ WF_jobVars(part = "jobs" /\ Job!ReapStaleJobs)
    /\ WF_jobVars(part = "jobs" /\ Job!WorkStep(w1))
    /\ \A p \in {i1, i2} : WF_indexVars(part = "index" /\ Index!Step(p))
    /\ \A a \in {a1, a2} : WF_sessionVars(part = "session" /\ Session!CallerStep(a))
    /\ WF_sessionVars(part = "session" /\ Session!WorkerStep(a2))
    /\ \A r \in Asks :
          /\ WF_capacityVars(part = "capacity" /\ HandlerStep(r))
          /\ WF_capacityVars(part = "capacity" /\ ThreadStep(r))
    /\ \A d \in Dialogs : WF_capacityVars(part = "capacity" /\ ClearReturns(d))
    /\ \A c \in Invokers :
          /\ WF_breakerVars(part = "breaker" /\ Admit(c))
          /\ WF_breakerVars(part = "breaker" /\ Settle(c))
    /\ WF_breakerVars(part = "breaker" /\ ClockTick)
    /\ WF_channelVars(part = "channels" /\ PollerStep)
    /\ SF_channelVars(part = "channels" /\ FetchMail)

LivenessSpec == LivenessInit /\ [][LivenessNext]_livenessVars /\ LivenessFairness

----------------------------------------------------------------------------
(* The liveness properties of the instances; the job of an earlier version is there when  *)
(* another component runs, too, and nothing is said of it then.                           *)

\* Every accepted asynchronous job reaches a terminal status, whatever dies (IngestionJobs).
JobsTerminate ==
    \A j \in {j1, j2} :
        (part = "jobs" /\ Job!Exists(j) /\ Job!Async(j)) ~> status[j] \in Job!Terminal

\* However a command on an index fails, the tenant's lock is released in the end (VectorIndex).
LocksAreFreed == Index!LockIsFreed

\* Every ask returns although the worker of a budgeted one may hang (ConversationSession).
AsksReturn == Session!AskReturns
=============================================================================

---------------------------- MODULE JobLifecycle ----------------------------
(***************************************************************************)
(* What the durable job contract promises to a client that polls           *)
(* GET /api/jobs/{job_id}: a job moves forward through its statuses, ends  *)
(* once, and switches the tenant's index at most once, before it is        *)
(* reported completed.  The switch may still happen in a job that was      *)
(* reaped to failed meanwhile: the contract does not exclude it.           *)
(***************************************************************************)
CONSTANTS Jobs

VARIABLES
    state,    \* the public status, or "absent"
    effect    \* the job's build has switched the active index

lifecycleVars == <<state, effect>>

\* Rows can be left running by a previous release.
Init == /\ state \in [Jobs -> {"absent", "running"}]
        /\ effect = [j \in Jobs |-> FALSE]

Move(j, from, to) ==
    /\ state[j] \in from
    /\ state' = [state EXCEPT ![j] = to]
    /\ UNCHANGED effect

Submit(j) == Move(j, {"absent"}, "queued")

Start(j) == Move(j, {"queued"}, "running")

SwitchIndex(j) ==
    /\ state[j] \in {"running", "failed"}
    /\ ~effect[j]
    /\ effect' = [effect EXCEPT ![j] = TRUE]
    /\ UNCHANGED state

Complete(j) == effect[j] /\ Move(j, {"running"}, "completed")

\* A sweep of the reaper fails several jobs at once.
Fail(J) ==
    /\ \A j \in J : state[j] \in {"queued", "running"}
    /\ state' = [j \in Jobs |-> IF j \in J THEN "failed" ELSE state[j]]
    /\ UNCHANGED effect

Next ==
    \/ \E j \in Jobs : Submit(j) \/ Start(j) \/ SwitchIndex(j) \/ Complete(j)
    \/ \E J \in SUBSET Jobs : Fail(J)

Spec == Init /\ [][Next]_lifecycleVars
=============================================================================

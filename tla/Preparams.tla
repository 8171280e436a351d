------------------------------ MODULE Preparams ------------------------------
(***************************************************************************)
(* The pre-parameter controller (internal/preparams/controller.go) between *)
(* the MPC core's pool, the DKG jobs that consume it and the scheduler     *)
(* that waits for it.                                                      *)
(*                                                                         *)
(* observe reads the core's snapshot before it takes the mutex and posts   *)
(* the wakeup after it has left it, so its three steps interleave with     *)
(* other observers and with jobs.  The pool, its refill and the pause      *)
(* switch belong to the core and are external.  The DKG permit is left     *)
(* out: the controller keeps two jobs apart by itself.                     *)
(***************************************************************************)
EXTENDS Naturals

CONSTANTS
  Jobs,         \* DKG sessions that may call BeginJob
  Probes        \* goroutines that only observe: Run's ticker, health probes

\* ProductionProfile: TargetSize and MaxConcurrency.
TargetSize == 2
MaxConcurrency == 1

ASSUME PreparamsAssumption ==
  /\ Jobs \cap Probes = {}
  /\ "scheduler" \notin Jobs \cup Probes

Observers == Jobs \cup Probes \cup {"scheduler"}

VARIABLES
  pool,         \* core: entries in the pool
  inflight,     \* core: generations running
  refillPaused, \* core: no new generation may start
  jobActive,    \* Controller.jobActive
  ready,        \* Controller.ready
  wakeups,      \* a token in Controller.wakeups
  repoll,       \* a token in Scheduler.repollCh
  forwarding,   \* forwardProvisioningWakeups has a token and calls Wake
  seen,         \* an observer's place in observe
  at,           \* a job's place
  sched,        \* the scheduler's place
  skipped       \* its last poll passed a DKG over for want of pre-parameters

coreVars == <<pool, inflight, refillPaused>>
wakeVars == <<wakeups, repoll, forwarding>>
schedVars == <<sched, skipped>>
vars == <<coreVars, jobActive, ready, wakeVars, seen, at, schedVars>>

Init ==
  /\ pool = 0 /\ inflight = 0 /\ refillPaused = FALSE
  /\ jobActive = FALSE /\ ready = FALSE
  /\ wakeups = FALSE /\ repoll = FALSE /\ forwarding = FALSE
  /\ seen = [o \in Observers |-> "idle"]
  /\ at = [j \in Jobs |-> "idle"]
  /\ sched = "wait" /\ skipped = FALSE

-----------------------------------------------------------------------------
(* The core.                                                               *)

Generate ==
  /\ ~refillPaused /\ inflight < MaxConcurrency /\ pool + inflight < TargetSize
  /\ inflight' = inflight + 1
  /\ UNCHANGED <<pool, refillPaused, jobActive, ready, wakeVars, seen, at, schedVars>>

Generated ==
  /\ inflight > 0 /\ inflight' = inflight - 1
  /\ pool' \in {pool, pool + 1}
  /\ UNCHANGED <<refillPaused, jobActive, ready, wakeVars, seen, at, schedVars>>

-----------------------------------------------------------------------------
(* observe.                                                                *)

Eligible == pool >= TargetSize /\ inflight = 0

MayObserve(o) ==
  \/ o \in Probes
  \/ o \in Jobs /\ at[o] = "observe"
  \/ o = "scheduler" /\ sched = "poll"

Snapshot(o) ==
  /\ seen[o] = "idle" /\ MayObserve(o)
  /\ seen' = [seen EXCEPT ![o] = IF Eligible THEN "ready" ELSE "unready"]
  /\ UNCHANGED <<coreVars, jobActive, ready, wakeVars, at, schedVars>>

\* observe returns hint: a job is over, and the scheduler launches a session
\* or passes the DKG over.
Returned(o, hint) ==
  /\ CASE o \in Probes -> UNCHANGED <<at, schedVars>>
       [] o \in Jobs -> at' = [at EXCEPT ![o] = "idle"] /\ UNCHANGED schedVars
       [] OTHER ->
            /\ sched' = "wait" /\ skipped' = ~hint
            /\ \/ UNCHANGED at
               \/ hint /\ \E j \in Jobs : at[j] = "idle" /\ at' = [at EXCEPT ![j] = "begin"]

Observed(o) == seen[o] = "ready" /\ ~jobActive

UpdateIfReady(o) ==
  /\ seen[o] \in {"ready", "unready"}
  /\ ready' = (ready \/ Observed(o))
  /\ IF Observed(o) /\ ~ready
     THEN seen' = [seen EXCEPT ![o] = "post"] /\ UNCHANGED <<at, schedVars>>
     ELSE seen' = [seen EXCEPT ![o] = "idle"] /\ Returned(o, Observed(o))
  /\ UNCHANGED <<coreVars, jobActive, wakeVars>>

\* The section under the mutex.
Update(o) ==
  /\ seen[o] \in {"ready", "unready"}
  /\ ready' = Observed(o)
  /\ IF Observed(o) /\ ~ready
     THEN seen' = [seen EXCEPT ![o] = "post"] /\ UNCHANGED <<at, schedVars>>
     ELSE seen' = [seen EXCEPT ![o] = "idle"] /\ Returned(o, Observed(o))
  /\ UNCHANGED <<coreVars, jobActive, wakeVars>>

\* The post never blocks: a token that is there already is enough.
Post(o) ==
  /\ seen[o] = "post" /\ seen' = [seen EXCEPT ![o] = "idle"]
  /\ wakeups' = TRUE
  /\ Returned(o, TRUE)
  /\ UNCHANGED <<coreVars, jobActive, ready, repoll, forwarding>>

Observe(o) == Snapshot(o) \/ Update(o) \/ Post(o)

-----------------------------------------------------------------------------
(* A job: BeginJob, the two acquisitions, the runtimes, and finishJob.     *)

JobTo(j, to) == at' = [at EXCEPT ![j] = to]

otherThanJob == <<wakeVars, seen, schedVars>>

\* A second job is refused with ErrJobAlreadyActive.
BeginJob(j) ==
  /\ at[j] = "begin"
  /\ IF jobActive
     THEN JobTo(j, "idle") /\ UNCHANGED <<jobActive, ready>>
     ELSE JobTo(j, "pause") /\ jobActive' = TRUE /\ ready' = FALSE
  /\ UNCHANGED <<coreVars, otherThanJob>>

PausePreParamsRefill(j) ==
  /\ at[j] = "pause" /\ refillPaused' = TRUE /\ JobTo(j, "await")
  /\ UNCHANGED <<pool, inflight, jobActive, ready, otherThanJob>>

\* The first look at the snapshot, then one at every tick until nothing is in
\* flight or the context ends.
WaitForGenerationIdle(j) ==
  /\ \/ at[j] \in {"await", "waiting"} /\ inflight = 0 /\ JobTo(j, "run")
     \/ at[j] = "await" /\ inflight > 0 /\ JobTo(j, "waiting")
     \/ at[j] = "waiting" /\ JobTo(j, "resume")
  /\ UNCHANGED <<coreVars, jobActive, ready, otherThanJob>>

\* Takes an entry.  The observe that follows runs under jobActive, so
\* whatever it saw the hint is FALSE.
AcquireDKGPreParams(j) ==
  /\ at[j] = "run" /\ pool > 0 /\ pool' = pool - 1
  /\ ready' = FALSE /\ UNCHANGED at
  /\ UNCHANGED <<inflight, refillPaused, jobActive, otherThanJob>>

\* An acquisition failed, or the local runtimes have returned.
RunEnds(j) ==
  /\ at[j] = "run" /\ ready' = FALSE /\ JobTo(j, "resume")
  /\ UNCHANGED <<coreVars, jobActive, otherThanJob>>

ResumeTo(j, to) ==
  /\ refillPaused' = FALSE /\ JobTo(j, to)
  /\ UNCHANGED <<pool, inflight, jobActive, ready, otherThanJob>>

DeactivateTo(j, to) ==
  /\ jobActive' = FALSE /\ JobTo(j, to)
  /\ UNCHANGED <<coreVars, ready, otherThanJob>>

DeactivateFirst(j) ==
  \/ at[j] = "resume" /\ DeactivateTo(j, "clear")
  \/ at[j] = "clear" /\ ResumeTo(j, "observe")

DeactivateOnly(j) == at[j] \in {"resume", "clear"} /\ DeactivateTo(j, "observe")

\* finishJob, and the same steps when BeginJob fails: Resume comes first, so
\* it cannot undo the pause of the next job.
FinishJob(j) ==
  \/ at[j] = "resume" /\ ResumeTo(j, "clear")
  \/ at[j] = "clear" /\ DeactivateTo(j, "observe")

Job(j) ==
  \/ BeginJob(j) \/ PausePreParamsRefill(j) \/ WaitForGenerationIdle(j)
  \/ AcquireDKGPreParams(j) \/ RunEnds(j) \/ FinishJob(j)

-----------------------------------------------------------------------------
(* The scheduler.                                                          *)

ForwardProvisioningWakeups ==
  /\ \/ ~forwarding /\ wakeups /\ wakeups' = FALSE /\ forwarding' = TRUE /\ UNCHANGED repoll
     \/ forwarding /\ forwarding' = FALSE /\ repoll' = TRUE /\ UNCHANGED wakeups
  /\ UNCHANGED <<coreVars, jobActive, ready, seen, at, schedVars>>

\* Run's select: the token in repollCh, or the timer.
Repoll ==
  /\ sched = "wait" /\ repoll /\ repoll' = FALSE
  /\ sched' = "poll" /\ skipped' = FALSE
  /\ UNCHANGED <<coreVars, jobActive, ready, wakeups, forwarding, seen, at>>

Timer ==
  /\ sched = "wait" /\ sched' = "poll" /\ skipped' = FALSE
  /\ UNCHANGED <<coreVars, jobActive, ready, wakeVars, seen, at>>

\* The poll fails, or lists no DKG that gets as far as the hint.
NoDKGPending ==
  /\ sched = "poll" /\ seen["scheduler"] = "idle" /\ sched' = "wait"
  /\ UNCHANGED <<coreVars, jobActive, ready, wakeVars, seen, at, skipped>>

Next ==
  \/ Generate \/ Generated
  \/ \E o \in Observers : Observe(o)
  \/ \E j \in Jobs : Job(j)
  \/ ForwardProvisioningWakeups \/ Repoll \/ Timer \/ NoDKGPending

Spec == Init /\ [][Next]_vars

\* Goroutines run, and a session ends by its deadline at the latest.  The
\* scheduler's timer gets no fairness: the wakeups must do without it.
Fairness ==
  /\ \A o \in Observers : WF_vars(Snapshot(o)) /\ WF_vars(Update(o)) /\ WF_vars(Post(o))
  /\ \A j \in Jobs :
       /\ WF_vars(BeginJob(j)) /\ WF_vars(PausePreParamsRefill(j))
       /\ WF_vars(WaitForGenerationIdle(j)) /\ WF_vars(RunEnds(j)) /\ WF_vars(FinishJob(j))
  /\ WF_vars(ForwardProvisioningWakeups) /\ WF_vars(Repoll)

FairSpec == Spec /\ Fairness

-----------------------------------------------------------------------------
(* Properties.                                                             *)

\* The pool stays within its target size and is never overdrawn, and at most
\* one generation runs.
TypeOK ==
  /\ pool \in 0 .. TargetSize /\ inflight \in 0 .. MaxConcurrency
  /\ refillPaused \in BOOLEAN /\ jobActive \in BOOLEAN /\ ready \in BOOLEAN
  /\ wakeups \in BOOLEAN /\ repoll \in BOOLEAN /\ forwarding \in BOOLEAN
  /\ seen \in [Observers -> {"idle", "ready", "unready", "post"}]
  /\ at \in [Jobs -> {"idle", "begin", "pause", "await", "waiting", "run", "resume", "clear",
                   "observe"}]
  /\ sched \in {"wait", "poll"} /\ skipped \in BOOLEAN

\* While the runtimes of a job may be active nothing is generated and nothing
\* can start to be, whoever is beginning or finishing a job at the same time:
\* "No refill may start while either local B/C runtime is active"
\* (docs/runbooks/recovery-artifact.md).
NoRefillDuringJob ==
  \A j \in Jobs : at[j] = "run" => refillPaused /\ inflight = 0

\* A scheduler that waits after it passed a DKG over has a wakeup on its way
\* whenever the controller says the pool is ready, however old the snapshots
\* are that the observers apply: readiness is announced on a change only, and
\* a change nobody announced would leave the DKG to the poll timer.
SkippedIsWoken ==
  skipped /\ sched = "wait" /\ ready =>
    wakeups \/ forwarding \/ repoll \/ \E o \in Observers : seen[o] = "post"

Stocked == Eligible /\ \A j \in Jobs : at[j] = "idle"

\* A DKG that was passed over is looked at again once the pool is stocked and
\* no job is left, without the scheduler's timer.
SkippedIsRetried == skipped /\ sched = "wait" /\ Stocked ~> sched = "poll"

\* A pause always ends, also when BeginJob gives up while it waits.
RefillResumes == refillPaused ~> ~refillPaused

=============================================================================

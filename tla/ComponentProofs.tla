--------------------------- MODULE ComponentProofs ---------------------------
(***************************************************************************)
(* The components that stand alone: the pre-parameter controller, for any  *)
(* number of jobs and observers, and the initialization of the approval    *)
(* journal, for any number of starts and crashes.                          *)
(***************************************************************************)
EXTENDS Preparams, JournalInit, TLAPS

-----------------------------------------------------------------------------
(* The pre-parameter controller.                                           *)

Places == {"idle", "begin", "pause", "await", "waiting", "run", "resume", "clear", "observe"}

\* A generation in flight has its place in the pool.
PoolInv == TypeOK /\ pool + inflight <= TargetSize

\* From BeginJob's critical section to finishJob's.
InJob == {"pause", "await", "waiting", "run", "resume", "clear"}

\* The job is the only one between those two sections, and inside it holds the
\* pause from Pause to Resume.
JobInv ==
  /\ \A j \in Jobs : at[j] \in InJob => jobActive
  /\ \A j, k \in Jobs : at[j] \in InJob /\ at[k] \in InJob => j = k
  /\ \A j \in Jobs : at[j] \in {"await", "waiting", "run", "resume"} => refillPaused
  /\ \A j \in Jobs : at[j] = "run" => inflight = 0

\* A scheduler that polls has not passed anything over yet.
PollInv == sched = "poll" => ~skipped

LEMMA InitInv == Init => PoolInv /\ JobInv /\ PollInv /\ SkippedIsWoken
<1> SUFFICES ASSUME Init PROVE PoolInv /\ JobInv /\ PollInv /\ SkippedIsWoken
  OBVIOUS
<1> USE DEF Init
<1>1. pool \in 0 .. TargetSize /\ inflight \in 0 .. MaxConcurrency /\ pool + inflight <= TargetSize
  BY DEF TargetSize, MaxConcurrency
<1>2. \A j \in Jobs : at[j] = "idle"
  BY Zenon
<1>3. seen \in [Observers -> {"idle", "ready", "unready", "post"}] /\ at \in [Jobs -> Places]
  BY DEF Places
<1>4. PoolInv
  BY <1>1, <1>3, Zenon DEF PoolInv, TypeOK, Places
<1>5. JobInv
  BY <1>2 DEF JobInv, InJob
<1>6. PollInv /\ SkippedIsWoken
  BY DEF PollInv, SkippedIsWoken
<1> QED
  BY <1>4, <1>5, <1>6

\* What observe returns moves its caller, and starts no job.
LEMMA ReturnedMoves ==
  ASSUME TypeOK, NEW o \in Observers, NEW hint \in BOOLEAN, Returned(o, hint)
  PROVE  /\ at' \in [Jobs -> Places]
         /\ sched' \in {"wait", "poll"} /\ skipped' \in BOOLEAN
         /\ \A j \in Jobs : at'[j] \in InJob => at'[j] = at[j]
         /\ o # "scheduler" => skipped' = skipped /\ sched' = sched
         /\ o = "scheduler" => skipped' = ~hint /\ sched' = "wait"
<1>1. CASE o \in Probes
  BY <1>1, PreparamsAssumption DEF TypeOK, Returned, Places, InJob, schedVars
<1>2. CASE o \in Jobs
  BY <1>2, PreparamsAssumption DEF TypeOK, Returned, Places, InJob, schedVars
<1>3. CASE o = "scheduler"
  BY <1>3, PreparamsAssumption, Zenon DEF TypeOK, Returned, Places, InJob, Observers
<1> QED
  BY <1>1, <1>2, <1>3, Zenon DEF Observers

LEMMA PoolStep == PoolInv /\ [Next]_vars => PoolInv'
<1> SUFFICES ASSUME PoolInv, [Next]_vars PROVE PoolInv'
  OBVIOUS
<1> USE DEF PoolInv, TargetSize, MaxConcurrency
<1>1. CASE Generate
  <2>1. pool' \in 0 .. TargetSize /\ inflight' \in 0 .. MaxConcurrency /\ pool' + inflight' <= TargetSize
    BY <1>1 DEF Generate, TypeOK
  <2> QED
    BY <1>1, <2>1, Zenon DEF Generate, TypeOK, wakeVars, schedVars
<1>2. CASE Generated
  <2>1. pool' \in 0 .. TargetSize /\ inflight' \in 0 .. MaxConcurrency /\ pool' + inflight' <= TargetSize
    <3>1. pool \in 0 .. 2 /\ inflight \in 0 .. 1 /\ pool + inflight <= 2
      BY DEF TypeOK
    <3>2. inflight > 0 /\ inflight' = inflight - 1 /\ (pool' = pool \/ pool' = pool + 1)
      BY <1>2 DEF Generated
    <3> QED
      BY <3>1, <3>2
  <2> QED
    BY <1>2, <2>1, Zenon DEF Generated, TypeOK, wakeVars, schedVars
<1>3. ASSUME NEW o \in Observers, Observe(o) PROVE PoolInv'
  <2>1. CASE Snapshot(o)
    BY <2>1 DEF Snapshot, TypeOK, coreVars, wakeVars, schedVars
  <2>2. CASE Update(o)
    <3>1. Observed(o) \in BOOLEAN
      BY DEF Observed, TypeOK
    <3>2. CASE Observed(o) /\ ~ready
      BY <2>2, <3>2 DEF Update, TypeOK, coreVars, wakeVars, schedVars
    <3>3. CASE ~(Observed(o) /\ ~ready)
      BY <2>2, <3>1, <3>3, ReturnedMoves DEF Update, TypeOK, Places, coreVars, wakeVars
    <3> QED
      BY <3>2, <3>3
  <2>3. CASE Post(o)
    BY <2>3, ReturnedMoves, Zenon DEF Post, TypeOK, Places, coreVars
  <2> QED
    BY <1>3, <2>1, <2>2, <2>3 DEF Observe
<1>4. ASSUME NEW j \in Jobs, Job(j) PROVE PoolInv'
  <2> USE DEF TypeOK, JobTo, otherThanJob, coreVars, wakeVars, schedVars
  <2>1. CASE BeginJob(j)
    <3>1. at' \in [Jobs -> Places]
      BY <2>1 DEF BeginJob, Places
    <3>2. jobActive' \in BOOLEAN /\ ready' \in BOOLEAN
      BY <2>1, Zenon DEF BeginJob
    <3> QED
      BY <2>1, <3>1, <3>2, Zenon DEF BeginJob, Places
  <2>2. CASE PausePreParamsRefill(j)
    BY <2>2 DEF PausePreParamsRefill
  <2>3. CASE WaitForGenerationIdle(j)
    BY <2>3 DEF WaitForGenerationIdle
  <2>4. CASE AcquireDKGPreParams(j)
    <3>1. pool' \in 0 .. TargetSize /\ inflight' \in 0 .. MaxConcurrency /\ pool' + inflight' <= TargetSize
      BY <2>4 DEF AcquireDKGPreParams
    <3> QED
      BY <2>4, <3>1, Zenon DEF AcquireDKGPreParams
  <2>5. CASE RunEnds(j)
    BY <2>5, Zenon DEF RunEnds
  <2>6. CASE FinishJob(j)
    BY <2>6, Zenon DEF FinishJob, ResumeTo, DeactivateTo
  <2> QED
    BY <1>4, <2>1, <2>2, <2>3, <2>4, <2>5, <2>6, Zenon DEF Job
<1>5. CASE ForwardProvisioningWakeups \/ Repoll \/ Timer \/ NoDKGPending
  <2> USE DEF TypeOK, coreVars, wakeVars, schedVars
  <2>1. CASE ForwardProvisioningWakeups
    BY <2>1, Zenon DEF ForwardProvisioningWakeups
  <2>2. CASE Repoll \/ Timer
    BY <2>2, Zenon DEF Repoll, Timer
  <2>3. CASE NoDKGPending
    BY <2>3, Zenon DEF NoDKGPending
  <2> QED
    BY <1>5, <2>1, <2>2, <2>3, Zenon
<1>6. CASE UNCHANGED vars
  BY <1>6 DEF vars, TypeOK, coreVars, wakeVars, schedVars
<1> QED
  BY <1>1, <1>2, <1>3, <1>4, <1>5, <1>6, Zenon DEF Next

LEMMA JobStep == PoolInv /\ JobInv /\ [Next]_vars => JobInv'
<1> SUFFICES ASSUME PoolInv, JobInv, [Next]_vars PROVE JobInv'
  OBVIOUS
<1> USE DEF JobInv, InJob
<1>1. CASE Generate
  BY <1>1, Zenon DEF Generate
<1>2. CASE Generated
  BY <1>2 DEF Generated, PoolInv, TypeOK, MaxConcurrency
<1>3. ASSUME NEW o \in Observers, Observe(o) PROVE JobInv'
  <2>1. CASE Snapshot(o)
    BY <2>1, Zenon DEF Snapshot, coreVars
  <2>2. CASE Update(o)
    <3>1. Observed(o) \in BOOLEAN
      BY DEF Observed, PoolInv, TypeOK
    <3>2. CASE Observed(o) /\ ~ready
      BY <2>2, <3>2, Zenon DEF Update, coreVars
    <3>3. CASE ~(Observed(o) /\ ~ready)
      BY <2>2, <3>1, <3>3, ReturnedMoves, Zenon DEF Update, PoolInv, coreVars
    <3> QED
      BY <3>2, <3>3, Zenon
  <2>3. CASE Post(o)
    BY <2>3, ReturnedMoves, Zenon DEF Post, PoolInv, coreVars
  <2> QED
    BY <1>3, <2>1, <2>2, <2>3, Zenon DEF Observe
<1>4. ASSUME NEW j \in Jobs, Job(j) PROVE JobInv'
  <2> USE DEF PoolInv, TypeOK, JobTo, coreVars
  <2>1. CASE BeginJob(j)
    BY <2>1 DEF BeginJob
  <2>2. CASE PausePreParamsRefill(j)
    BY <2>2 DEF PausePreParamsRefill
  <2>3. CASE WaitForGenerationIdle(j)
    BY <2>3 DEF WaitForGenerationIdle
  <2>4. CASE AcquireDKGPreParams(j)
    BY <2>4, Zenon DEF AcquireDKGPreParams
  <2>5. CASE RunEnds(j)
    BY <2>5 DEF RunEnds
  <2>6. CASE FinishJob(j)
    BY <2>6 DEF FinishJob, ResumeTo, DeactivateTo
  <2> QED
    BY <1>4, <2>1, <2>2, <2>3, <2>4, <2>5, <2>6, Zenon DEF Job
<1>5. CASE ForwardProvisioningWakeups \/ Repoll \/ Timer \/ NoDKGPending
  BY <1>5 DEF ForwardProvisioningWakeups, Repoll, Timer, NoDKGPending, coreVars
<1>6. CASE UNCHANGED vars
  BY <1>6, Zenon DEF vars, coreVars
<1> QED
  BY <1>1, <1>2, <1>3, <1>4, <1>5, <1>6, Zenon DEF Next

LEMMA PollStep == PoolInv /\ PollInv /\ [Next]_vars => PollInv'
<1> SUFFICES ASSUME PoolInv, PollInv, [Next]_vars PROVE PollInv'
  OBVIOUS
<1> USE DEF PollInv
<1>1. ASSUME NEW o \in Observers, Observe(o) PROVE PollInv'
  <2>1. CASE UNCHANGED schedVars
    BY <2>1 DEF schedVars
  <2>2. CASE Update(o) /\ Returned(o, Observed(o))
    <3>1. Observed(o) \in BOOLEAN
      BY DEF Observed
    <3> QED
      BY <2>2, <3>1, ReturnedMoves DEF PoolInv
  <2>3. CASE Post(o)
    BY <2>3, ReturnedMoves, Zenon DEF Post, PoolInv
  <2> QED
    BY <1>1, <2>1, <2>2, <2>3, Zenon DEF Observe, Snapshot, Update
<1>2. CASE \/ Generate \/ Generated \/ (\E j \in Jobs : Job(j))
           \/ ForwardProvisioningWakeups \/ UNCHANGED vars
  <2>1. UNCHANGED schedVars
    BY <1>2, Zenon DEF Generate, Generated, Job, BeginJob, PausePreParamsRefill,
                WaitForGenerationIdle, AcquireDKGPreParams, RunEnds, FinishJob, ResumeTo,
                DeactivateTo, otherThanJob, ForwardProvisioningWakeups, vars
  <2> QED
    BY <2>1 DEF schedVars
<1>3. CASE Repoll \/ Timer \/ NoDKGPending
  BY <1>3 DEF Repoll, Timer, NoDKGPending
<1> QED
  BY <1>1, <1>2, <1>3 DEF Next

\* Every way ready can become TRUE leaves its announcer behind, and a token
\* only moves on towards the scheduler.
LEMMA WakeStep == PoolInv /\ PollInv /\ SkippedIsWoken /\ [Next]_vars => SkippedIsWoken'
<1> SUFFICES ASSUME PoolInv, PollInv, SkippedIsWoken, [Next]_vars PROVE SkippedIsWoken'
  OBVIOUS
<1> USE DEF SkippedIsWoken
<1>1. CASE Generate \/ Generated
  BY <1>1, Zenon DEF Generate, Generated, wakeVars, schedVars
<1>2. ASSUME NEW o \in Observers, Observe(o) PROVE SkippedIsWoken'
  <2> USE DEF PoolInv, TypeOK
  <2>1. CASE Snapshot(o)
    BY <2>1, Zenon DEF Snapshot, wakeVars, schedVars
  <2>2. CASE Update(o)
    <3>1. Observed(o) \in BOOLEAN /\ ready' = Observed(o) /\ UNCHANGED wakeVars
      BY <2>2, Zenon DEF Observed, Update
    <3>2. CASE Observed(o) /\ ~ready
      <4>1. seen'[o] = "post"
        BY <2>2, <3>2, Zenon DEF Update
      <4> QED
        BY <4>1
    <3>3. CASE ~(Observed(o) /\ ~ready)
      <4>1. Returned(o, Observed(o)) /\ seen' = [seen EXCEPT ![o] = "idle"]
        BY <2>2, <3>3, Zenon DEF Update
      <4>2. CASE o = "scheduler"
        BY <3>1, <4>1, <4>2, ReturnedMoves, Zenon
      <4>3. CASE o # "scheduler"
        <5>1. UNCHANGED <<skipped, sched>>
          BY <3>1, <4>1, <4>3, ReturnedMoves, Zenon
        <5>2. \A q \in Observers : seen[q] = "post" => seen'[q] = "post"
          BY <2>2, <4>1, Zenon DEF Update
        <5> QED
          BY <3>1, <3>3, <5>1, <5>2, Zenon DEF wakeVars
      <4> QED
        BY <4>2, <4>3, Zenon
    <3> QED
      BY <3>2, <3>3, Zenon
  <2>3. CASE Post(o)
    BY <2>3, Zenon DEF Post
  <2> QED
    BY <1>2, <2>1, <2>2, <2>3, Zenon DEF Observe
<1>3. ASSUME NEW j \in Jobs, Job(j) PROVE SkippedIsWoken'
  <2>1. ready' = ready \/ ready' = FALSE
    BY <1>3, Zenon DEF Job, BeginJob, PausePreParamsRefill, WaitForGenerationIdle,
                AcquireDKGPreParams, RunEnds, FinishJob, ResumeTo, DeactivateTo
  <2>2. UNCHANGED <<wakeVars, seen, schedVars>>
    BY <1>3, Zenon DEF Job, BeginJob, PausePreParamsRefill, WaitForGenerationIdle, otherThanJob,
                AcquireDKGPreParams, RunEnds, FinishJob, ResumeTo, DeactivateTo
  <2> QED
    BY <2>1, <2>2, Zenon DEF wakeVars, schedVars
<1>4. CASE ForwardProvisioningWakeups \/ Repoll \/ Timer \/ NoDKGPending
  <2>1. CASE ForwardProvisioningWakeups
    <3>1. forwarding' \/ repoll'
      BY <2>1, Zenon DEF ForwardProvisioningWakeups
    <3> QED
      BY <3>1, Zenon
  <2>2. CASE Repoll \/ Timer
    BY <2>2, Zenon DEF Repoll, Timer
  <2>3. CASE NoDKGPending
    BY <2>3, Zenon DEF NoDKGPending, PollInv
  <2> QED
    BY <1>4, <2>1, <2>2, <2>3, Zenon
<1>5. CASE UNCHANGED vars
  BY <1>5 DEF vars, wakeVars, schedVars
<1> QED
  BY <1>1, <1>2, <1>3, <1>4, <1>5, Zenon DEF Next

\* The pool is never overdrawn nor overfilled by acquisitions and generations.
THEOREM PoolBounded == Spec => []TypeOK
<1>1. PoolInv => TypeOK
  BY DEF PoolInv
<1> QED
  BY <1>1, InitInv, PoolStep, PTL DEF Spec

\* While the runtimes of any job may be active, refill is paused and nothing
\* is in flight: finishJob resumes before it lets another BeginJob in.
THEOREM RefillStaysPaused == Spec => []NoRefillDuringJob
<1>1. JobInv => NoRefillDuringJob
  BY DEF JobInv, NoRefillDuringJob
<1> QED
  BY <1>1, InitInv, PoolStep, JobStep, PTL DEF Spec

\* A scheduler that passed a DKG over has a wakeup on its way whenever the
\* controller says ready, whatever snapshots observe applies late.
THEOREM SkippedSchedulerIsWoken == Spec => []SkippedIsWoken
  BY InitInv, PoolStep, PollStep, WakeStep, PTL DEF Spec

-----------------------------------------------------------------------------
(* Opening the journal.                                                    *)

OpenTypeOK ==
  /\ dir \in {"absent", "visible", "durable"}
  /\ marker \in Nat /\ identity \in Nat /\ drawn \in Nat /\ starts \in Nat
  /\ fsynced \subseteq {"marker", "identity"}
  /\ opening \in {"down", "checked", "made", "marked", "open"}
  /\ missing \in {"none", "marker", "journal"}

\* A first initialization has nothing to overwrite, and draws a real identity.
FirstInv ==
  /\ opening \in {"checked", "made", "marked"} => drawn # 0
  /\ opening \in {"made", "marked"} => handed = {} /\ identity = 0 /\ dir = "durable"
  /\ opening = "marked" => marker = drawn /\ "marker" \in fsynced
  /\ handed = {} => missing = "none"

\* The evidence that pins a journal once it was handed out: the half an
\* operator has not lost is durable and names that journal, and the lost half
\* is empty.
PinnedInv ==
  handed # {} =>
    /\ opening \in {"down", "checked", "open"} /\ dir # "visible"
    /\ missing # "journal" => identity # 0 /\ handed = {identity} /\ "identity" \in fsynced
    /\ missing # "marker" => marker # 0 /\ handed = {marker} /\ "marker" \in fsynced
    /\ missing = "marker" => marker = 0
    /\ missing = "journal" => identity = 0

OpenInv == OpenTypeOK /\ FirstInv /\ PinnedInv

LEMMA OpenInvStep == OpenInv /\ [OpenNext]_openVars => OpenInv'
<1> SUFFICES ASSUME OpenInv, [OpenNext]_openVars PROVE OpenInv'
  OBVIOUS
<1> USE DEF OpenInv, OpenTypeOK, FirstInv, PinnedInv, openDisk
<1>1. CASE OpenStart
  BY <1>1 DEF OpenStart
<1>2. CASE OpenExisting
  BY <1>2, Zenon DEF OpenExisting, Matches
<1>3. CASE RefuseEvidenceLoss
  BY <1>3 DEF RefuseEvidenceLoss, Refuse
<1>4. CASE MakeDirectory
  BY <1>4 DEF MakeDirectory
<1>5. CASE MakeDirectoryFails
  BY <1>5 DEF MakeDirectoryFails
<1>6. CASE PublishMarker
  BY <1>6, Zenon DEF PublishMarker
<1>7. CASE PublishIdentity
  BY <1>7, Zenon DEF PublishIdentity
<1>8. CASE PublicationFails
  BY <1>8, Zenon DEF PublicationFails, Refuse
<1>9. CASE OpenCrash
  BY <1>9 DEF OpenCrash
<1>10. CASE LoseEvidence
  <2>1. CASE missing' = "marker" /\ marker' = 0 /\ fsynced' = fsynced \ {"marker"}
               /\ UNCHANGED <<dir, identity>>
    BY <1>10, <2>1, Zenon DEF LoseEvidence
  <2>2. CASE missing' = "journal" /\ identity' = 0 /\ fsynced' = fsynced \ {"identity"}
               /\ dir' \in {"absent", "durable"} /\ UNCHANGED marker
    BY <1>10, <2>2, Zenon DEF LoseEvidence
  <2> QED
    BY <1>10, <2>1, <2>2, Zenon DEF LoseEvidence
<1>11. CASE UNCHANGED openVars
  BY <1>11 DEF openVars
<1> QED
  BY <1>1, <1>2, <1>3, <1>4, <1>5, <1>6, <1>7, <1>8, <1>9, <1>10, <1>11, Zenon DEF OpenNext

\* Over any number of starts, however initialization is interrupted, whatever
\* a power loss takes and whichever half of the evidence an operator loses,
\* the program is handed one journal and never an unidentified one
\* (journal_init.go).
THEOREM JournalIsUnique == OpenSpec => []OneJournal
<1>1. OpenInit => OpenInv
  BY DEF OpenInit, OpenInv, OpenTypeOK, FirstInv, PinnedInv
<1>2. OpenInv => OneJournal
  <2> SUFFICES ASSUME OpenInv, handed # {} PROVE OneJournal
    BY DEF OneJournal
  <2>1. PICK x : handed = {x} /\ x # 0
    BY DEF OpenInv, OpenTypeOK, PinnedInv
  <2> QED
    BY <2>1 DEF OneJournal
<1> QED
  BY <1>1, <1>2, OpenInvStep, PTL DEF OpenSpec
=============================================================================

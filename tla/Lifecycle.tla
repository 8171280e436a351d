------------------------------ MODULE Lifecycle ------------------------------
(***************************************************************************)
(* The lifecycle coordinator (internal/lifecycle/coordinator.go) with the  *)
(* one-slot startup publisher (internal/terminal/single_slot.go), the      *)
(* readiness snapshot and health endpoint (internal/health/server.go) and  *)
(* the wiring of cmd/co-signer.                                            *)
(*                                                                         *)
(* Four goroutines meet here: main, which runs Start and then Shutdown, or *)
(* Start and abortStartup; the publisher, which delivers the terminal      *)
(* result a previous process left behind and then calls publicationDone;   *)
(* the scheduler with its sessions; and a health request.  Shared state is *)
(* read and written in the order of the code, and the mutex c.mu is held   *)
(* where the code holds it.                                                *)
(***************************************************************************)
EXTENDS Naturals

CONSTANT SigningDisabled    \* no approval configuration: provisioning only

ASSUME SigningAssumption == SigningDisabled \in BOOLEAN

VARIABLES
    main,          \* where main is
    aborting,      \* main is in abortStartup, not in Shutdown
    signal,        \* the process was told to stop: the parent context is done
    cancelled,     \* c.cancel was called
    lock,          \* the lifetime lock is held
    capabilities,  \* stores, journal and preparams pool are open
    disposition,   \* what reconciliation found
    draft,         \* the snapshot Start is about to publish

    mu,            \* who holds c.mu across two steps: "free" or "publisher"
    stopping, latched, confirmed,

    pub,           \* where the publisher goroutine is
    seen,          \* the snapshot publicationDone has read
    delivered,     \* history: the backend has acknowledged the result

    admission,     \* Scheduler.dkgAdmissionOpen
    sched,         \* the scheduler goroutine
    busy,          \* some session holds a permit
    drained,       \* Drain holds every permit
    admitted,      \* history: a DKG intent was admitted

    readiness,     \* health.Readiness
    listening,     \* the health server accepts requests
    request,       \* a health request: "none", or "probing" after its first look
    response       \* the last answer

resVars == <<signal, cancelled, lock, capabilities>>
foundVars == <<disposition, draft>>
mainVars == <<main, aborting, resVars, foundVars>>
coordVars == <<mu, stopping, latched, confirmed>>
pubVars == <<pub, seen, delivered>>
schedVars == <<admission, sched, busy, drained, admitted>>
healthVars == <<readiness, listening, request, response>>
otherVars == <<coordVars, pubVars, schedVars, healthVars>>
vars == <<mainVars, otherVars>>

Reasons == {"none", "deferred", "unconfirmed", "unavailable"}
\* A snapshot with ready provisioning gives no reason against it.
Snapshots ==
    {s \in [process: BOOLEAN, signing: BOOLEAN, provisioning: BOOLEAN,
            reason: Reasons] : s.provisioning => s.reason = "none"}
NoSnapshot == [process |-> FALSE, signing |-> FALSE, provisioning |-> FALSE,
               reason |-> "none"]

CtxDone == signal \/ cancelled

\* ProvisioningReady with the reason that goes with it.
Provisioning(snapshot, ready) ==
    [snapshot EXCEPT !.provisioning = ready,
                     !.reason = IF ready THEN "none" ELSE "unavailable"]

Goto(step) == main' = step

\* Start returns an error: its deferred function runs abortStartup.
Abort == Goto("stop") /\ aborting' = TRUE

-----------------------------------------------------------------------------
(* Coordinator.Start                                                       *)

AcquireLock ==
    /\ main = "start"
    /\ \/ lock' = TRUE /\ Goto("open") /\ UNCHANGED aborting
       \/ Abort /\ UNCHANGED lock
    /\ UNCHANGED <<signal, cancelled, capabilities, foundVars, otherVars>>

OpenCapabilities ==
    /\ main = "open"
    /\ \/ capabilities' = TRUE /\ Goto("publisher") /\ UNCHANGED aborting
       \/ Abort /\ UNCHANGED capabilities
    /\ UNCHANGED <<signal, cancelled, lock, foundVars, otherVars>>

\* SingleSlot.Start refuses a context that is already done.
StartPublisher ==
    /\ main = "publisher"
    /\ IF CtxDone THEN Abort ELSE Goto("reconcile") /\ UNCHANGED aborting
    /\ UNCHANGED <<resVars, foundVars, otherVars>>

\* Reconcile fails, finds the listing inconsistent, or asks to be called again
\* when the context is already done.
ReconcileFails ==
    /\ main = "reconcile"
    /\ Abort
    /\ UNCHANGED <<resVars, foundVars, otherVars>>

\* No claimed DKG is left: admission opens.
ReconcileEligible ==
    /\ main = "reconcile"
    /\ disposition' = "eligible"
    /\ admission' = TRUE
    /\ Goto("scheduler")
    /\ UNCHANGED <<aborting, resVars, draft, coordVars, pubVars, sched, busy,
                   drained, admitted, healthVars>>

\* A capability needed for the decision is missing: admission stays closed
\* for the life of the process.
ReconcileDeferred ==
    /\ main = "reconcile"
    /\ disposition' = "deferred"
    /\ latched' = TRUE
    /\ admission' = FALSE
    /\ Goto("scheduler")
    /\ UNCHANGED <<aborting, resVars, draft, mu, stopping, confirmed,
                   pubVars, sched, busy, drained, admitted, healthVars>>

\* A terminal result must be published first: SingleSlot.Handoff starts the
\* publisher goroutine unless the context is done.
ReconcilePublish ==
    /\ main = "reconcile"
    /\ disposition' = "publish"
    /\ admission' = FALSE
    /\ IF CtxDone THEN Abort /\ UNCHANGED pub
       ELSE pub' = "publishing" /\ Goto("scheduler") /\ UNCHANGED aborting
    /\ UNCHANGED <<resVars, draft, coordVars, seen, delivered, sched, busy,
                   drained, admitted, healthVars>>

StartScheduler ==
    /\ main = "scheduler"
    /\ sched' = "idle"
    /\ Goto("intake")
    /\ UNCHANGED <<aborting, resVars, foundVars, coordVars, pubVars,
                   admission, busy, drained, admitted, healthVars>>

StartIntake ==
    /\ main = "intake"
    /\ \/ listening' = TRUE /\ Goto("observe") /\ UNCHANGED aborting
       \/ Abort /\ UNCHANGED listening
    /\ UNCHANGED <<resVars, foundVars, coordVars, pubVars, schedVars,
                   readiness, request, response>>

\* Mutant: a pending publication is reported like no publication at all.
ObserveOptimistic ==
    /\ main = "observe"
    /\ \E signing, ready \in BOOLEAN :
          draft' = Provisioning([NoSnapshot EXCEPT !.process = signing],
                                signing /\ ready)
    /\ Goto("publish")
    /\ UNCHANGED <<aborting, resVars, disposition, otherVars>>

\* The snapshot Start will publish: the two probes, and for a publication the
\* value of confirmed, read under c.mu.
Observe ==
    /\ main = "observe"
    /\ disposition = "publish" => mu = "free"
    /\ \E signing, ready \in BOOLEAN :
          LET base == [NoSnapshot EXCEPT
                           !.process = signing,
                           !.signing = signing /\ ~SigningDisabled]
          IN draft' =
               CASE disposition = "deferred" ->
                      [base EXCEPT !.reason = "deferred"]
                 [] disposition = "publish" /\ ~confirmed ->
                      [base EXCEPT !.reason = "unconfirmed"]
                 [] OTHER -> Provisioning(base, signing /\ ready)
    /\ Goto("publish")
    /\ UNCHANGED <<aborting, resVars, disposition, otherVars>>

\* Readiness.Set, outside c.mu; Start returns.
Publish ==
    /\ main = "publish"
    /\ readiness' = draft
    /\ Goto("running")
    /\ UNCHANGED <<aborting, resVars, foundVars, coordVars, pubVars,
                   schedVars, listening, request, response>>

-----------------------------------------------------------------------------
(* The publisher goroutine and Coordinator.publicationDone                 *)

\* Publisher.Publish returns without an error only once the backend has
\* acknowledged this result or declared a conflict.
PublishSucceeds ==
    /\ pub = "publishing"
    /\ pub' = "check"
    /\ delivered' = TRUE
    /\ UNCHANGED <<mainVars, coordVars, seen, schedVars, healthVars>>

\* Mutant: publicationDone does not look at result.Err.
PublishStopsUnnoticed ==
    /\ pub = "publishing"
    /\ CtxDone
    /\ pub' = "check"
    /\ UNCHANGED <<mainVars, coordVars, seen, delivered, schedVars,
                   healthVars>>

\* It retries everything else until the context is done; publicationDone then
\* returns at once.
PublishStops ==
    /\ pub = "publishing"
    /\ CtxDone
    /\ pub' = "done"
    /\ UNCHANGED <<mainVars, coordVars, seen, delivered, schedVars,
                   healthVars>>

\* The first critical section of publicationDone.
Confirm ==
    /\ pub = "check"
    /\ mu = "free"
    /\ IF stopping \/ latched
       THEN pub' = "done" /\ UNCHANGED confirmed
       ELSE pub' = "open" /\ confirmed' = TRUE
    /\ UNCHANGED <<mainVars, mu, stopping, latched, seen, delivered,
                   schedVars, healthVars>>

\* setAdmission(true), outside c.mu.
OpenAdmission ==
    /\ pub = "open"
    /\ admission' = TRUE
    /\ pub' = "recheck"
    /\ UNCHANGED <<mainVars, coordVars, seen, delivered, sched, busy,
                   drained, admitted, healthVars>>

\* Mutant: the second critical section does not look at stopping.
RecheckUnguarded ==
    /\ pub = "recheck"
    /\ mu = "free"
    /\ mu' = "publisher"
    /\ seen' = readiness
    /\ pub' = "write"
    /\ UNCHANGED <<mainVars, stopping, latched, confirmed, delivered,
                   schedVars, healthVars>>

\* The second critical section: it holds c.mu while it reads the snapshot,
\* probes the stores and writes the snapshot back.
Recheck ==
    /\ pub = "recheck"
    /\ mu = "free"
    /\ IF stopping \/ latched
       THEN pub' = "done" /\ UNCHANGED <<mu, seen>>
       ELSE /\ mu' = "publisher"
            /\ seen' = readiness
            /\ pub' = "write"
    /\ UNCHANGED <<mainVars, stopping, latched, confirmed, delivered,
                   schedVars, healthVars>>

Refresh ==
    /\ pub = "write"
    /\ \E ready \in BOOLEAN :
          readiness' = Provisioning(seen, seen.process /\ ready)
    /\ mu' = "free"
    /\ pub' = "done"
    /\ seen' = NoSnapshot
    /\ UNCHANGED <<mainVars, stopping, latched, confirmed, delivered,
                   schedVars, listening, request, response>>

-----------------------------------------------------------------------------
(* Shutdown, abortStartup and the steps they share                         *)

\* run waits for the signal and calls Shutdown.
Signalled ==
    /\ main = "running"
    /\ signal
    /\ Goto("stop")
    /\ UNCHANGED <<aborting, resVars, foundVars, otherVars>>

\* stopping is set and admission closed in one critical section.
Stop ==
    /\ main = "stop"
    /\ mu = "free"
    /\ stopping' = TRUE
    /\ admission' = FALSE
    /\ Goto("clear")
    /\ UNCHANGED <<aborting, resVars, foundVars, mu, latched, confirmed,
                   pubVars, sched, busy, drained, admitted, healthVars>>

ClearReadiness ==
    /\ main = "clear"
    /\ readiness' = NoSnapshot
    /\ Goto("stopIntake")
    /\ UNCHANGED <<aborting, resVars, foundVars, coordVars, pubVars,
                   schedVars, listening, request, response>>

\* Only Shutdown stops the intake.  http.Server.Shutdown closes the listener
\* and waits for open requests until its own timeout.
StopIntake ==
    /\ main = "stopIntake"
    /\ listening' = (listening /\ aborting)
    /\ Goto("cancel")
    /\ UNCHANGED <<aborting, resVars, foundVars, coordVars, pubVars,
                   schedVars, readiness, request, response>>

\* Mutant: the context is left to the signal.
CancelForgotten ==
    /\ main = "cancel"
    /\ Goto("drain")
    /\ UNCHANGED <<aborting, resVars, foundVars, otherVars>>

Cancel ==
    /\ main = "cancel"
    /\ cancelled' = TRUE
    /\ Goto("drain")
    /\ UNCHANGED <<aborting, signal, lock, capabilities, foundVars, otherVars>>

\* Drain takes every permit; Shutdown's own timeout may end it early, which is
\* only reported.
Drain ==
    /\ main = "drain"
    /\ \/ ~busy /\ drained' = capabilities
       \/ ~aborting /\ UNCHANGED drained
    /\ Goto("waitPublisher")
    /\ UNCHANGED <<aborting, resVars, foundVars, coordVars, pubVars,
                   admission, sched, busy, admitted, healthVars>>

\* Mutant: the publisher is not waited for.
WaitPublisherSkipped ==
    /\ main = "waitPublisher"
    /\ Goto("close")
    /\ UNCHANGED <<aborting, resVars, foundVars, otherVars>>

WaitPublisher ==
    /\ main = "waitPublisher"
    /\ pub \in {"none", "done"}
    /\ Goto("close")
    /\ UNCHANGED <<aborting, resVars, foundVars, otherVars>>

\* applicationResources.Close waits for the scheduler's Run, then closes the
\* journal and the preparams pool.
CloseCapabilities ==
    /\ main = "close"
    /\ sched \in {"off", "exited"}
    /\ capabilities' = FALSE
    /\ Goto("unlock")
    /\ UNCHANGED <<aborting, signal, cancelled, lock, foundVars, otherVars>>

ReleaseLock ==
    /\ main = "unlock"
    /\ lock' = FALSE
    /\ Goto("exit")
    /\ UNCHANGED <<aborting, signal, cancelled, capabilities, foundVars,
                   otherVars>>

-----------------------------------------------------------------------------
(* The scheduler as the coordinator sees it (module Scheduler in detail)   *)

\* dispatchBatch has looked at the context and goes on to one entry.
ConsiderEntry ==
    /\ sched = "idle"
    /\ ~CtxDone
    /\ sched' = "dispatching"
    /\ UNCHANGED <<mainVars, coordVars, pubVars, admission, busy, drained,
                   admitted, healthVars>>

\* The entry is skipped.
SkipEntry ==
    /\ sched = "dispatching"
    /\ sched' = "idle"
    /\ UNCHANGED <<mainVars, coordVars, pubVars, admission, busy, drained,
                   admitted, healthVars>>

\* The entry gets a permit: a DKG entry only while admission is open.
LaunchEntry(dkg) ==
    /\ sched = "dispatching"
    /\ ~drained
    /\ dkg => admission
    /\ sched' = "idle"
    /\ busy' = TRUE
    /\ admitted' = (admitted \/ dkg)
    /\ UNCHANGED <<mainVars, coordVars, pubVars, admission, drained,
                   healthVars>>

\* The last session returns its permits.
SessionsEnd ==
    /\ busy
    /\ busy' = FALSE
    /\ UNCHANGED <<mainVars, coordVars, pubVars, admission, sched, drained,
                   admitted, healthVars>>

\* Run returns after its sessions.
RunReturns ==
    /\ sched = "idle"
    /\ CtxDone
    /\ ~busy
    /\ sched' = "exited"
    /\ UNCHANGED <<mainVars, coordVars, pubVars, admission, busy, drained,
                   admitted, healthVars>>

-----------------------------------------------------------------------------
(* health.Handler.ServeHTTP                                                *)

canRefreshProvisioning(snapshot) ==
    snapshot.process /\ snapshot.reason \in {"none", "unavailable"}

\* What a request may answer on a snapshot: the signing probe and the shares
\* directory can only take readiness away.
Answers(snapshot) ==
    {snapshot,
     [NoSnapshot EXCEPT !.reason = "unavailable"],
     [NoSnapshot EXCEPT !.reason = snapshot.reason]}

\* A snapshot that allows no refresh is answered as it is.
HealthDirect ==
    /\ listening /\ request = "none"
    /\ ~canRefreshProvisioning(readiness)
    /\ response' \in Answers(readiness)
    /\ UNCHANGED <<mainVars, coordVars, pubVars, schedVars, readiness,
                   listening, request>>

\* Otherwise the stores are probed ...
HealthProbe ==
    /\ listening /\ request = "none"
    /\ canRefreshProvisioning(readiness)
    /\ request' = "probing"
    /\ UNCHANGED <<mainVars, coordVars, pubVars, schedVars, readiness,
                   listening, response>>

\* Mutant: the probe's result is applied whatever the second snapshot says.
HealthRefreshStale ==
    /\ request = "probing"
    /\ \E ready \in BOOLEAN :
          response' \in Answers(Provisioning(readiness, ready))
    /\ request' = "none"
    /\ UNCHANGED <<mainVars, coordVars, pubVars, schedVars, readiness,
                   listening>>

\* ... and the snapshot is read again, since the gates may have moved.
HealthRefresh ==
    /\ request = "probing"
    /\ \E ready \in BOOLEAN :
          response' \in Answers(IF canRefreshProvisioning(readiness)
                               THEN Provisioning(readiness, ready)
                               ELSE readiness)
    /\ request' = "none"
    /\ UNCHANGED <<mainVars, coordVars, pubVars, schedVars, readiness,
                   listening>>

-----------------------------------------------------------------------------
Signal ==
    /\ ~signal
    /\ signal' = TRUE
    /\ UNCHANGED <<main, aborting, cancelled, lock, capabilities, foundVars,
                   otherVars>>

Init ==
    /\ main = "start" /\ aborting = FALSE
    /\ signal = FALSE /\ cancelled = FALSE
    /\ lock = FALSE /\ capabilities = FALSE
    /\ disposition = "unknown" /\ draft = NoSnapshot
    /\ mu = "free" /\ stopping = FALSE /\ latched = FALSE /\ confirmed = FALSE
    /\ pub = "none" /\ seen = NoSnapshot /\ delivered = FALSE
    /\ admission = FALSE /\ sched = "off" /\ busy = FALSE /\ drained = FALSE
    /\ admitted = FALSE
    /\ readiness = NoSnapshot /\ listening = FALSE
    /\ request = "none" /\ response = NoSnapshot

Start ==
    \/ AcquireLock \/ OpenCapabilities \/ StartPublisher
    \/ ReconcileFails \/ ReconcileEligible \/ ReconcileDeferred
    \/ ReconcilePublish \/ StartScheduler \/ StartIntake
    \/ Observe \/ Publish

Shutdown ==
    \/ Signalled \/ Stop \/ ClearReadiness \/ StopIntake \/ Cancel \/ Drain
    \/ WaitPublisher \/ CloseCapabilities \/ ReleaseLock

PublicationDone == Confirm \/ OpenAdmission \/ Recheck \/ Refresh

Publisher == PublishSucceeds \/ PublishStops \/ PublicationDone

SchedulerSteps ==
    \/ ConsiderEntry \/ SkipEntry \/ (\E dkg \in BOOLEAN : LaunchEntry(dkg))
    \/ SessionsEnd \/ RunReturns

Health == HealthDirect \/ HealthProbe \/ HealthRefresh

Next == Start \/ Shutdown \/ Publisher \/ SchedulerSteps \/ Health \/ Signal

Spec == Init /\ [][Next]_vars

\* Every goroutine that can move does.  A session ends once the context is
\* done (module Scheduler, ShutdownCompletes), and so does a publication; that
\* the backend ever acknowledges one is not assumed.
Fairness ==
    /\ WF_vars(Start \/ Shutdown)
    /\ WF_vars(PublishStops)
    /\ WF_vars(PublicationDone)
    /\ WF_vars(SkipEntry \/ \E dkg \in BOOLEAN : LaunchEntry(dkg))
    /\ WF_vars(CtxDone /\ SessionsEnd)
    /\ WF_vars(RunReturns)

FairSpec == Spec /\ Fairness

-----------------------------------------------------------------------------
MainSteps ==
    {"start", "open", "publisher", "reconcile", "scheduler", "intake",
     "observe", "publish", "running", "stop", "clear", "stopIntake", "cancel",
     "drain", "waitPublisher", "close", "unlock", "exit"}

FlagsOK ==
    /\ aborting \in BOOLEAN /\ signal \in BOOLEAN /\ cancelled \in BOOLEAN
    /\ lock \in BOOLEAN /\ capabilities \in BOOLEAN
    /\ stopping \in BOOLEAN /\ latched \in BOOLEAN /\ confirmed \in BOOLEAN
    /\ delivered \in BOOLEAN
    /\ admission \in BOOLEAN /\ busy \in BOOLEAN /\ drained \in BOOLEAN
    /\ admitted \in BOOLEAN /\ listening \in BOOLEAN

SnapshotsOK ==
    /\ draft \in Snapshots /\ seen \in Snapshots
    /\ readiness \in Snapshots /\ response \in Snapshots

\* Every variable has its type, and no snapshot that offers provisioning, in
\* readiness or in a health answer, carries a reason against it.
TypeOK ==
    /\ main \in MainSteps
    /\ disposition \in {"unknown", "eligible", "deferred", "publish"}
    /\ mu \in {"free", "publisher"}
    /\ pub \in {"none", "publishing", "check", "open", "recheck", "write",
               "done"}
    /\ sched \in {"off", "idle", "dispatching", "exited"}
    /\ request \in {"none", "probing"}
    /\ FlagsOK
    /\ SnapshotsOK

\* The lifetime lock covers everything the process does: while it is not
\* held, stores and journal are closed, no session runs, the scheduler has
\* not started or has returned, and no startup publication is in progress.
LockCoversWork ==
    ~lock => /\ ~capabilities /\ ~busy
             /\ sched \in {"off", "exited"}
             /\ pub \in {"none", "done"}

\* No DKG is admitted before the fate of the one a previous process left
\* behind is settled: there is none, or the backend has its result.
NoDKGBeforeResolution ==
    admitted => disposition = "eligible" \/ delivered

\* Published readiness is backed by what it promises: a ready process owns its
\* lock, its stores and a started scheduler; ready provisioning also means
\* that nothing is left unconfirmed.
ReadinessJustified ==
    /\ readiness.process => lock /\ capabilities /\ sched # "off"
    /\ readiness.provisioning =>
          readiness.process /\ (disposition = "eligible" \/ delivered)

\* Once Shutdown or abortStartup has cleared readiness, a late confirmation
\* does not write it again.
StopClosesReadiness ==
    main \in {"stopIntake", "cancel", "drain", "waitPublisher", "close",
              "unlock", "exit"} => readiness = NoSnapshot

\* The health endpoint never offers DKG from a process that is not ready, or
\* whose gate is closed, although its probe and the gates move separately.
HealthHonest ==
    response.provisioning =>
        response.process /\ (disposition = "eligible" \/ delivered)

\* A process that is told to stop, or whose startup fails, gets to the end of
\* its shutdown and gives the lock back.
StopCompletes == (signal \/ main = "stop") ~> main = "exit"

\* What coordinator_test.go asserts of a confirmation that comes while Start is
\* still running: once both are through, readiness does not say that the
\* result is unconfirmed.
ConfirmationVisible ==
    main = "running" /\ pub = "done" /\ confirmed
        => readiness.reason # "unconfirmed"

\* What coordinator_test.go asserts of a confirmation that comes during
\* Shutdown: it does not leave DKG admission open.
AdmissionStaysClosed == main = "exit" /\ ~aborting => ~admission
=============================================================================

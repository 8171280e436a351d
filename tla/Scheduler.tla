------------------------------ MODULE Scheduler ------------------------------
(***************************************************************************)
(* The intent scheduler of the co-signer (internal/worker/scheduler.go),   *)
(* its permit pools (permits.go) and the sessions it launches              *)
(* (session_worker.go, session_result.go), against the backend that owns   *)
(* the intents.                                                            *)
(*                                                                         *)
(* One goroutine, Run, polls the backend, walks the listing it got and     *)
(* launches one goroutine per admitted intent.  Everything below runs      *)
(* concurrently with it: the sessions, the lifecycle coordinator (which    *)
(* opens and closes DKG admission, cancels the context and drains the      *)
(* general pool) and the backend (which may end an intent by itself).      *)
(*                                                                         *)
(* The course of a session between a successful claim and the delivery of  *)
(* its result is one step here.  What is kept is everything that decides   *)
(* when a permit, a reservation or the claim itself is given up.           *)
(***************************************************************************)
EXTENDS Integers, FiniteSets

CONSTANTS
    Intents,          \* intent identifiers the backend may list
    DKGIntents,       \* those of kind DKG; the others are of kind SIGN
    Workers,          \* session goroutines (a slot is reused after exit)
    MaxConcurrent,    \* CO_SIGNER_MAX_CONCURRENT: capacity of the general pool
    SigningDisabled,  \* provisioning-only startup
    NoWorker,         \* Run is not waiting for a session
    NoIntent          \* a session slot without a session

ASSUME ConstantsAssumption ==
    /\ DKGIntents \subseteq Intents
    /\ IsFiniteSet(Workers)
    /\ MaxConcurrent \in Nat \ {0}
    /\ SigningDisabled \in BOOLEAN
    /\ NoWorker \notin Workers
    /\ NoIntent \notin Intents

VARIABLES
    ctxDone,        \* the run context is cancelled
    admission,      \* Scheduler.dkgAdmissionOpen
    general,        \* occupied slots of the general pool
    guard,          \* occupied slots of the DKG pool, of capacity 1
    repoll,         \* a token is in repollCh, of capacity 1
    inFlight,       \* Scheduler.inFlightIntentIDs
    drained,        \* general slots taken by drainWorkers

    spc,            \* where Run is
    batch,          \* entries of the listing not yet looked at
    dkgConsidered,  \* dispatchBatch has looked at its one DKG intent
    current,        \* the entry that passed the admission checks
    awaiting,       \* the session whose claimDispatched is still open while
                    \* Run waits for it

    pc,             \* where each session is
    job,            \* the entry each session was launched with
    uncertain,      \* claimWithRecovery has seen an unknown outcome

    backend,        \* the backend's view of each intent

    executions,     \* history: how often the protocol was run for an intent
    starved         \* history: why the current listing was not served in full

control == <<ctxDone, admission, drained>>
pools == <<general, guard, repoll, inFlight>>
runVars == <<spc, batch, dkgConsidered, current, starved>>
sessVars == <<pc, job, uncertain>>
vars == <<control, pools, runVars, awaiting, sessVars, backend, executions>>

\* What dispatchBatch and a session read of an intent: its identifier, which
\* fixes its kind, and Intent.DiscoveryStatus.
Entries == [id: Intents, status: {"PENDING", "CLAIMED"}]
NoEntry == [id |-> NoIntent, status |-> "PENDING"]

\* Phases of a session in which it still holds its general permit.
Holding == {"start", "claiming", "recover", "claimed", "running", "hold",
            "deliver", "relGeneral"}
Phases == Holding \cup {"idle", "relGuard", "relWake", "notify", "unreserve"}

IsDKG(w) == job[w].id \in DKGIntents
Live(w) == pc[w] # "idle"
HoldsGeneral(w) == pc[w] \in Holding
HoldsGuard(w) == IsDKG(w) /\ pc[w] \in Holding \cup {"relGuard"}

Goto(w, phase) == pc' = [pc EXCEPT ![w] = phase]

\* notifyDispatch closes claimDispatched once; only a Run that still waits for
\* this very session can tell.
NotifyDispatch(w) == awaiting' = IF awaiting = w THEN NoWorker ELSE awaiting

-----------------------------------------------------------------------------
(* Backend listing and pools.                                              *)

\* GetPendingIntents: own claimed SIGN intents and every pending intent.  An
\* own claimed DKG intent is never listed: only startup reconciliation sees it.
Listing ==
    {[id |-> i, status |-> "CLAIMED"] :
        i \in {j \in Intents \ DKGIntents :
                backend[j] \in {"claimed", "orphaned"}}}
    \cup {[id |-> i, status |-> "PENDING"] :
            i \in {j \in Intents : backend[j] = "pending"}}

\* tryAcquireSIGN takes a general slot; tryAcquireDKG takes the guard and a
\* general slot and gives the guard back when the general pool is full.  Run
\* is the only caller, so nobody sees the guard in between.
CanAcquire(i) ==
    /\ general < MaxConcurrent
    /\ i \in DKGIntents => guard = 0

-----------------------------------------------------------------------------
(* Scheduler.Run                                                           *)

\* The select fires on the timer (the repoll token stays) or on repollCh (the
\* token goes), and GetPendingIntents fails or lists nothing.
PollNothing ==
    /\ spc = "select"
    /\ repoll' \in {repoll, FALSE}
    /\ starved' = {}
    /\ UNCHANGED <<control, general, guard, inFlight, spc, batch,
                   dkgConsidered, current, awaiting, sessVars, backend,
                   executions>>

\* The poll returns a listing, which dispatchBatch will walk while the world
\* moves on.  A poll on a cancelled context fails.
PollListing ==
    /\ spc = "select"
    /\ ~ctxDone
    /\ Listing # {}
    /\ repoll' \in {repoll, FALSE}
    /\ batch' = Listing
    /\ dkgConsidered' = FALSE
    /\ spc' = "batch"
    /\ starved' = {}
    /\ UNCHANGED <<control, general, guard, inFlight, current, awaiting,
                   sessVars, backend, executions>>

\* The loop over the listing ends, or stops early on a cancelled context.
EndBatch ==
    /\ spc = "batch"
    /\ batch = {} \/ ctxDone
    /\ batch' = {}
    /\ spc' = "select"
    /\ UNCHANGED <<control, pools, dkgConsidered, current, starved, awaiting,
                   sessVars, backend, executions>>

\* The entry the loop looks at next.  GetPendingIntents puts own claimed SIGN
\* intents first; the order within each group is the backend's.
NextEntry(e) ==
    /\ spc = "batch"
    /\ ~ctxDone
    /\ e \in batch
    /\ e.status = "PENDING" => \A f \in batch : f.status = "PENDING"
    /\ batch' = batch \ {e}

\* A DKG intent: the first one of the batch is checked against admission and
\* the provisioning hint, any further one is passed over.
ConsiderDKG(e) ==
    /\ NextEntry(e)
    /\ e.id \in DKGIntents
    /\ dkgConsidered' = TRUE
    /\ \/ /\ dkgConsidered
          /\ UNCHANGED <<spc, current, starved>>
       \/ /\ ~dkgConsidered /\ ~admission
          /\ starved' = starved \cup {"admission"}
          /\ UNCHANGED <<spc, current>>
       \/ /\ ~dkgConsidered /\ admission   \* provisioning hint is false
          /\ UNCHANGED <<spc, current, starved>>
       \/ /\ ~dkgConsidered /\ admission   \* provisioning hint is true
          /\ spc' = "admit"
          /\ current' = e
          /\ UNCHANGED starved
    /\ UNCHANGED <<control, pools, awaiting, sessVars, backend, executions>>

\* A SIGN intent is passed over in a provisioning-only process.
ConsiderSIGN(e) ==
    /\ NextEntry(e)
    /\ e.id \notin DKGIntents
    /\ IF SigningDisabled
       THEN UNCHANGED <<spc, current>>
       ELSE spc' = "admit" /\ current' = e
    /\ UNCHANGED <<control, pools, dkgConsidered, starved, awaiting, sessVars,
                   backend, executions>>

\* Mutant: tryAcquireDKG keeps the guard when the general pool is full.
AdmitRefusedLeaking ==
    /\ spc = "admit"
    /\ current.id \in inFlight \/ ~CanAcquire(current.id)
    /\ guard' = IF current.id \in DKGIntents \ inFlight /\ guard = 0
                THEN 1 ELSE guard
    /\ spc' = "batch"
    /\ current' = NoEntry
    /\ UNCHANGED <<control, general, repoll, inFlight, batch, dkgConsidered,
                   starved, awaiting, sessVars, backend, executions>>

\* reserveIntentID fails, or the reservation is undone because a pool is full.
AdmitRefused ==
    /\ spc = "admit"
    /\ current.id \in inFlight \/ ~CanAcquire(current.id)
    /\ starved' = IF current.id \in inFlight THEN starved
                  ELSE starved \cup
                       {IF current.id \in DKGIntents THEN "DKG" ELSE "SIGN"}
    /\ spc' = "batch"
    /\ current' = NoEntry
    /\ UNCHANGED <<control, pools, batch, dkgConsidered, awaiting, sessVars,
                   backend, executions>>

\* reserveIntentID, tryAcquire and launchSession; Run then waits for the
\* session to report its claim dispatched.
Launch(w) ==
    /\ spc = "admit"
    /\ current.id \notin inFlight
    /\ CanAcquire(current.id)
    /\ pc[w] = "idle"
    /\ inFlight' = inFlight \cup {current.id}
    /\ general' = general + 1
    /\ guard' = IF current.id \in DKGIntents THEN guard + 1 ELSE guard
    /\ job' = [job EXCEPT ![w] = current]
    /\ Goto(w, "start")
    /\ spc' = "await"
    /\ current' = NoEntry
    /\ awaiting' = w
    /\ UNCHANGED <<control, repoll, batch, dkgConsidered, starved, uncertain,
                   backend, executions>>

\* waitForClaimDispatch: the session reported, or the context is cancelled
\* and dispatchBatch returns.
Awaited ==
    /\ spc = "await"
    /\ \/ awaiting = NoWorker /\ spc' = "batch" /\ UNCHANGED batch
       \/ ctxDone /\ spc' = "select" /\ batch' = {}
    /\ awaiting' = NoWorker
    /\ UNCHANGED <<control, pools, dkgConsidered, current, starved, sessVars,
                   backend, executions>>

\* The select sees the cancelled context; the deferred sessions.Wait holds
\* Run until every session goroutine has exited.
RunReturns ==
    /\ \/ spc = "select" /\ ctxDone /\ spc' = "join"
       \/ spc = "join" /\ (\A w \in Workers : ~Live(w)) /\ spc' = "exited"
    /\ UNCHANGED <<control, pools, batch, dkgConsidered, current, starved,
                   awaiting, sessVars, backend, executions>>

-----------------------------------------------------------------------------
(* One session: runSessionWithClock                                        *)

\* A session step that stays inside the session.
SessionOnly ==
    UNCHANGED <<control, pools, runVars, job>>

\* A SIGN intent discovered as CLAIMED has no live session: it is not run,
\* only failed.
OrphanCleanup(w) ==
    /\ pc[w] = "start"
    /\ ~IsDKG(w) /\ job[w].status = "CLAIMED"
    /\ NotifyDispatch(w)
    /\ Goto(w, "deliver")
    /\ SessionOnly
    /\ UNCHANGED <<uncertain, backend, executions>>

\* Head of the loop of claimWithRecovery, also reached after the wait between
\* two attempts.
AtLoopHead(w) ==
    \/ pc[w] = "recover"
    \/ pc[w] = "start" /\ (IsDKG(w) \/ job[w].status = "PENDING")

\* A cancelled context ends the session without delivery.
ClaimCancelled(w) ==
    /\ AtLoopHead(w)
    /\ ctxDone
    /\ Goto(w, "relGeneral")
    /\ SessionOnly
    /\ UNCHANGED <<awaiting, uncertain, backend, executions>>

\* Past its absolute deadline the intent is failed, claimed or not.
ClaimExpired(w) ==
    /\ AtLoopHead(w)
    /\ ~ctxDone
    /\ Goto(w, "deliver")
    /\ SessionOnly
    /\ UNCHANGED <<awaiting, uncertain, backend, executions>>

ClaimSent(w) ==
    /\ AtLoopHead(w)
    /\ ~ctxDone
    /\ Goto(w, "claiming")
    /\ SessionOnly
    /\ UNCHANGED <<awaiting, uncertain, backend, executions>>

\* The backend applies the claim to a pending intent and repeats its answer
\* for an intent this installation has already claimed.
ApplyClaim(i) ==
    /\ backend[i] # "terminal"
    /\ backend' = [backend EXCEPT ![i] = "claimed"]

\* The claim is answered.
ClaimAccepted(w) ==
    /\ pc[w] = "claiming"
    /\ ApplyClaim(job[w].id)
    /\ NotifyDispatch(w)
    /\ Goto(w, "claimed")
    /\ SessionOnly
    /\ UNCHANGED <<uncertain, executions>>

\* The request or its answer is lost (ErrClaimOutcomeUnknown): the backend may
\* or may not have applied the claim.
ClaimUnknown(w) ==
    /\ pc[w] = "claiming"
    /\ \/ ApplyClaim(job[w].id)
       \/ UNCHANGED backend
    /\ NotifyDispatch(w)
    /\ uncertain' = [uncertain EXCEPT ![w] = TRUE]
    /\ Goto(w, "recover")
    /\ SessionOnly
    /\ UNCHANGED executions

\* Mutant: the claim error path notifies before it releases.
ClaimRefusedNotifying(w) ==
    /\ pc[w] = "claiming"
    /\ NotifyDispatch(w)
    /\ IF uncertain[w] /\ ~ctxDone
       THEN Goto(w, "deliver")
       ELSE Goto(w, "relGeneral")
    /\ SessionOnly
    /\ UNCHANGED <<uncertain, backend, executions>>

\* A definite refusal.  ErrNotFound is only answered for an intent that is no
\* longer actionable.  After an unknown outcome any other refusal needs
\* cleanup, because the lost attempt may have been applied.
ClaimRefused(w) ==
    /\ pc[w] = "claiming"
    /\ \E notFound \in BOOLEAN :
          /\ notFound => backend[job[w].id] = "terminal"
          /\ IF uncertain[w] /\ ~notFound /\ ~ctxDone
             THEN Goto(w, "deliver")
             ELSE Goto(w, "relGeneral")
    /\ SessionOnly
    /\ UNCHANGED <<awaiting, uncertain, backend, executions>>

\* The claim is rejected by a local check, the session never becomes ready or
\* is not authorised: a failure is delivered.  A claim of the wrong kind, and
\* a DKG result no terminal job can be built from, hold the permit instead.
ClaimRejected(w) ==
    /\ pc[w] = "claimed"
    /\ Goto(w, "deliver") \/ Goto(w, "hold")
    /\ SessionOnly
    /\ UNCHANGED <<awaiting, uncertain, backend, executions>>

\* The session is ready and authorised; transport and protocol start.
Execute(w) ==
    /\ pc[w] = "claimed"
    /\ executions' = [executions EXCEPT ![job[w].id] = @ + 1]
    /\ Goto(w, "running")
    /\ SessionOnly
    /\ UNCHANGED <<awaiting, uncertain, backend>>

\* Mutant: the general permit is given back before the result is delivered.
FinishReleasing(w) ==
    /\ pc[w] = "running"
    /\ general' = general - 1
    /\ Goto(w, "deliver")
    /\ UNCHANGED <<control, guard, repoll, inFlight, runVars, awaiting, job,
                   uncertain, backend, executions>>

\* The protocol has returned and the transport is closed.
Finish(w) ==
    /\ pc[w] = "running"
    /\ \/ Goto(w, "deliver")
       \/ IsDKG(w) /\ Goto(w, "hold")
    /\ SessionOnly
    /\ UNCHANGED <<awaiting, uncertain, backend, executions>>

\* Mutant: the wait does not listen to the context.
HoldForever(w) == pc[w] = "hold" /\ UNCHANGED vars

\* A result that cannot be delivered keeps its permit until shutdown.
HoldEnds(w) ==
    /\ pc[w] = "hold"
    /\ ctxDone
    /\ Goto(w, "relGeneral")
    /\ SessionOnly
    /\ UNCHANGED <<awaiting, uncertain, backend, executions>>

\* One attempt of deliverSignResult or of the DKG publisher reaches a claimed
\* intent and ends it; the answer may be lost.
DeliverApplied(w) ==
    /\ pc[w] = "deliver"
    /\ backend[job[w].id] \in {"claimed", "orphaned"}
    /\ backend' = [backend EXCEPT ![job[w].id] = "terminal"]
    /\ Goto(w, "relGeneral") \/ UNCHANGED pc
    /\ SessionOnly
    /\ UNCHANGED <<awaiting, uncertain, executions>>

\* The attempt meets an ended intent: exact replay, conflict, or the session
\* is observed in a terminal state.
DeliverResolved(w) ==
    /\ pc[w] = "deliver"
    /\ backend[job[w].id] = "terminal"
    /\ Goto(w, "relGeneral")
    /\ SessionOnly
    /\ UNCHANGED <<awaiting, uncertain, backend, executions>>

\* Mutant: a failed attempt ends the delivery.
DeliverOnce(w) ==
    /\ pc[w] = "deliver"
    /\ Goto(w, "relGeneral")
    /\ SessionOnly
    /\ UNCHANGED <<awaiting, uncertain, backend, executions>>

\* Only a cancelled context (for SIGN: or the five seconds granted after it)
\* ends an unresolved delivery.
DeliverGivesUp(w) ==
    /\ pc[w] = "deliver"
    /\ ctxDone
    /\ Goto(w, "relGeneral")
    /\ SessionOnly
    /\ UNCHANGED <<awaiting, uncertain, backend, executions>>

\* jobPermitLease.Release: the general slot, then the guard, then the wakeup.
ReleaseGeneral(w) ==
    /\ pc[w] = "relGeneral"
    /\ general' = general - 1
    /\ Goto(w, IF IsDKG(w) THEN "relGuard" ELSE "relWake")
    /\ UNCHANGED <<control, guard, repoll, inFlight, runVars, awaiting, job,
                   uncertain, backend, executions>>

ReleaseGuard(w) ==
    /\ pc[w] = "relGuard"
    /\ guard' = guard - 1
    /\ Goto(w, "relWake")
    /\ UNCHANGED <<control, general, repoll, inFlight, runVars, awaiting, job,
                   uncertain, backend, executions>>

ReleaseWake(w) ==
    /\ pc[w] = "relWake"
    /\ repoll' = TRUE
    /\ Goto(w, "notify")
    /\ UNCHANGED <<control, general, guard, inFlight, runVars, awaiting, job,
                   uncertain, backend, executions>>

\* notifyDispatch, a no-op when it has run before.
Notify(w) ==
    /\ pc[w] = "notify"
    /\ NotifyDispatch(w)
    /\ Goto(w, "unreserve")
    /\ SessionOnly
    /\ UNCHANGED <<uncertain, backend, executions>>

\* The deferred releaseIntent of launchSession; the goroutine exits.
Unreserve(w) ==
    /\ pc[w] = "unreserve"
    /\ inFlight' = inFlight \ {job[w].id}
    /\ job' = [job EXCEPT ![w] = NoEntry]
    /\ uncertain' = [uncertain EXCEPT ![w] = FALSE]
    /\ Goto(w, "idle")
    /\ UNCHANGED <<control, general, guard, repoll, runVars, awaiting,
                   backend, executions>>

-----------------------------------------------------------------------------
(* The lifecycle coordinator and the backend                               *)

\* Mutant: opening admission does not wake Run.
SetAdmissionSilently(open) ==
    /\ admission' = open
    /\ UNCHANGED <<ctxDone, drained, pools, runVars, awaiting, sessVars,
                   backend, executions>>

\* SetDKGAdmissionOpen stores the flag and, when it opens, wakes Run.
SetDKGAdmissionOpen(open) ==
    /\ admission' = open
    /\ repoll' = (repoll \/ open)
    /\ UNCHANGED <<ctxDone, drained, general, guard, inFlight, runVars,
                   awaiting, sessVars, backend, executions>>

\* Wake, as called by forwardProvisioningWakeups when preparams are ready.
Wake ==
    /\ ~ctxDone
    /\ repoll' = TRUE
    /\ UNCHANGED <<control, general, guard, inFlight, runVars, awaiting,
                   sessVars, backend, executions>>

\* A signal or Coordinator.shutdown cancels the run context.
Cancel ==
    /\ ~ctxDone
    /\ ctxDone' = TRUE
    /\ UNCHANGED <<admission, drained, pools, runVars, awaiting, sessVars,
                   backend, executions>>

\* drainWorkers, called after the cancellation, takes the general slots one
\* by one as they become free and never returns them.
DrainSlot ==
    /\ ctxDone
    /\ general < MaxConcurrent
    /\ general' = general + 1
    /\ drained' = drained + 1
    /\ UNCHANGED <<ctxDone, admission, guard, repoll, inFlight, runVars,
                   awaiting, sessVars, backend, executions>>

\* The backend ends an intent on its own: a deadline, another party's failure.
BackendEnds(i) ==
    /\ backend[i] # "terminal"
    /\ backend' = [backend EXCEPT ![i] = "terminal"]
    /\ UNCHANGED <<control, pools, runVars, awaiting, sessVars,
                   executions>>

-----------------------------------------------------------------------------

\* A SIGN intent may have been left claimed by the previous process.
Init ==
    /\ ctxDone = FALSE /\ admission = FALSE
    /\ general = 0 /\ guard = 0 /\ drained = 0
    /\ repoll = FALSE
    /\ inFlight = {}
    /\ spc = "select" /\ batch = {} /\ dkgConsidered = FALSE
    /\ current = NoEntry
    /\ awaiting = NoWorker
    /\ pc = [w \in Workers |-> "idle"]
    /\ job = [w \in Workers |-> NoEntry]
    /\ uncertain = [w \in Workers |-> FALSE]
    /\ backend \in [Intents -> {"pending", "orphaned"}]
    /\ \A i \in DKGIntents : backend[i] = "pending"
    /\ executions = [i \in Intents |-> 0]
    /\ starved = {}

Run ==
    \/ PollNothing \/ PollListing \/ EndBatch
    \/ \E e \in batch : ConsiderDKG(e) \/ ConsiderSIGN(e)
    \/ AdmitRefused
    \/ \E w \in Workers : Launch(w)
    \/ Awaited \/ RunReturns

Claim(w) ==
    \/ ClaimCancelled(w) \/ ClaimExpired(w) \/ ClaimSent(w)
    \/ ClaimAccepted(w) \/ ClaimUnknown(w) \/ ClaimRefused(w)

Deliver(w) == DeliverApplied(w) \/ DeliverResolved(w) \/ DeliverGivesUp(w)

Release(w) ==
    \/ ReleaseGeneral(w) \/ ReleaseGuard(w) \/ ReleaseWake(w)
    \/ Notify(w) \/ Unreserve(w)

Session(w) ==
    \/ OrphanCleanup(w) \/ Claim(w)
    \/ ClaimRejected(w) \/ Execute(w) \/ Finish(w) \/ HoldEnds(w)
    \/ Deliver(w) \/ Release(w)

Environment ==
    \/ \E open \in BOOLEAN : SetDKGAdmissionOpen(open)
    \/ Wake \/ Cancel \/ DrainSlot
    \/ \E i \in Intents : BackendEnds(i)

Next == Run \/ (\E w \in Workers : Session(w)) \/ Environment

Spec == Init /\ [][Next]_vars

\* Goroutines are scheduled, HTTP calls return and polls succeed again and
\* again; a session that keeps retrying its claim meets the deadline; the
\* backend ends an intent whose delivery stays unresolved.
Fairness ==
    /\ WF_vars(Run)
    /\ WF_vars(PollListing)
    /\ WF_vars(RunReturns)
    /\ \A w \in Workers :
          /\ WF_vars(Session(w))
          /\ SF_vars(pc[w] = "recover" /\ ClaimExpired(w))
          /\ WF_vars(pc[w] = "deliver" /\ BackendEnds(job[w].id))

FairSpec == Spec /\ Fairness

-----------------------------------------------------------------------------
(* Properties                                                              *)

\* The variables have their types, and no pool runs below empty or beyond its
\* capacity (a token released twice would block permitToken.release forever).
TypeOK ==
    /\ ctxDone \in BOOLEAN /\ admission \in BOOLEAN
    /\ repoll \in BOOLEAN /\ dkgConsidered \in BOOLEAN
    /\ general \in 0 .. MaxConcurrent
    /\ guard \in 0 .. 1
    /\ drained \in 0 .. MaxConcurrent
    /\ inFlight \subseteq Intents
    /\ spc \in {"select", "batch", "admit", "await", "join", "exited"}
    /\ batch \subseteq Entries
    /\ current \in Entries \cup {NoEntry}
    /\ awaiting \in Workers \cup {NoWorker}
    /\ pc \in [Workers -> Phases]
    /\ job \in [Workers -> Entries \cup {NoEntry}]
    /\ uncertain \in [Workers -> BOOLEAN]
    /\ backend \in [Intents -> {"pending", "orphaned", "claimed", "terminal"}]
    /\ executions \in [Intents -> Nat]
    /\ starved \subseteq {"admission", "DKG", "SIGN"}

\* Every occupied slot has exactly one owner: a session between its admission
\* and its Release, or drainWorkers.  Nothing leaks when tryAcquireDKG backs
\* out, and Release gives each token back once although it is called twice on
\* the claim error path (permits.go:106, session_worker.go:107 and 172).
PermitAccounting ==
    /\ general = Cardinality({w \in Workers : HoldsGeneral(w)}) + drained
    /\ guard = Cardinality({w \in Workers : HoldsGuard(w)})

\* From before its claim until its terminal result is resolved, at most one
\* DKG session exists in the process (the lease comment, permits.go:95-98).
OneDKGSession ==
    \A v, w \in Workers : HoldsGuard(v) /\ HoldsGuard(w) => v = w

\* The reservation of launchSession outlives the session: an intent that is
\* listed again while its session lives is never given a second one.
OneSessionPerIntent ==
    /\ inFlight = {job[w].id : w \in {v \in Workers : Live(v)}}
    /\ \A v, w \in Workers :
          Live(v) /\ Live(w) /\ job[v].id = job[w].id => v = w

\* Whatever claims are lost, repeated or retried, the protocol is run at most
\* once for an intent.
AtMostOneExecution == \A i \in Intents : executions[i] <= 1

\* Until shutdown an intent claimed by this process has a session that has not
\* yet given up its permit: a claim whose answer was lost is recovered or
\* cleaned up, and a result is retried until the backend resolves it.
NoAbandonedClaim ==
    \A i \in Intents :
        backend[i] = "claimed" /\ ~ctxDone =>
            \E w \in Workers :
                /\ job[w].id = i
                /\ pc[w] \in Holding \ {"start", "relGeneral"}

\* The reason for which the last batch left work behind has gone away.
Servable ==
    \/ "admission" \in starved /\ admission
    \/ "SIGN" \in starved /\ general < MaxConcurrent
    \/ "DKG" \in starved /\ general < MaxConcurrent /\ guard = 0

\* No wakeup is lost: while Run sleeps although work it had to leave behind
\* could be admitted now, a repoll token waits for it or is about to be sent.
\* This needs the token to be sent after both permits are back, and the
\* capacity 1 of repollCh to suffice for any number of senders.
NoLostWakeup ==
    spc = "select" /\ ~ctxDone /\ Servable =>
        repoll \/ \E w \in Workers : pc[w] \in {"relGuard", "relWake"}

\* When drainWorkers has taken every slot no session is left that could still
\* claim, run the protocol or deliver, and none can start: the coordinator
\* closes the stores and the instance lock on the strength of this.
DrainBarrier ==
    drained = MaxConcurrent => \A w \in Workers : ~HoldsGeneral(w)

\* When Run has returned, every session is over, every reservation is undone
\* and the only slots still occupied are those taken by drainWorkers.
ExitIsClean ==
    spc = "exited" =>
        /\ \A w \in Workers : ~Live(w)
        /\ inFlight = {} /\ guard = 0 /\ general = drained

\* A cancelled context makes Run return.
ShutdownCompletes == ctxDone ~> spc = "exited"

\* A pending SIGN intent is not passed over for ever, whatever happens to the
\* DKG intents listed with it: a refused claim gives its permit back before
\* Run looks at the next entry (session_worker.go:172-173).
PendingSignServed ==
    \A i \in Intents \ DKGIntents :
        backend[i] = "pending" ~>
            \/ backend[i] # "pending" \/ i \in inFlight
            \/ ctxDone \/ \E w \in Workers : pc[w] = "hold"
=============================================================================

--------------------------- MODULE SchedulerProofs ---------------------------
(***************************************************************************)
(* Proofs about Scheduler for any number of intents, session goroutines    *)
(* and permits: the permits and the wakeup, then the reservations, claims  *)
(* and executions on top of the typing and permit invariants.              *)
(***************************************************************************)
EXTENDS Scheduler, FiniteSetTheorems, TLAPS

\* A session that is not idle runs an intent of the backend, an idle slot none;
\* only a DKG session comes to release a guard.
JobOK ==
    /\ \A w \in Workers : IF Live(w) THEN job[w] \in Entries ELSE job[w] = NoEntry
    /\ \A w \in Workers : pc[w] = "relGuard" => IsDKG(w)
    /\ spc = "admit" => current \in Entries

PoolInv == TypeOK /\ JobOK /\ PermitAccounting

\* A step of a session strictly inside the span of its lease.
InnerStep(w) ==
    /\ pc[w] \in Holding \ {"relGeneral"}
    /\ \E phase \in Holding \ {"start"} : pc' = [pc EXCEPT ![w] = phase]
    /\ SessionOnly
    /\ awaiting' \in {awaiting, NoWorker}
    /\ uncertain' \in [Workers -> BOOLEAN]
    /\ backend' \in [Intents -> {"pending", "orphaned", "claimed", "terminal"}]
    /\ executions' \in [Intents -> Nat]

\* Every session step is one inside the lease or one of its release.
LEMMA SessionSteps ==
    ASSUME TypeOK, JobOK, NEW w \in Workers, Session(w)
    PROVE  InnerStep(w) \/ Release(w)
<1> USE DEF InnerStep, Holding, Goto, NotifyDispatch, TypeOK
<1>0. Live(w) => job[w].id \in Intents
  BY Zenon DEF JobOK, Entries
<1>1. CASE OrphanCleanup(w)
  BY <1>1, Zenon DEF OrphanCleanup
<1>2. CASE Claim(w)
  <2>1. CASE ClaimCancelled(w) \/ ClaimExpired(w) \/ ClaimSent(w)
    BY <2>1, Zenon DEF ClaimCancelled, ClaimExpired, ClaimSent, AtLoopHead
  <2>2. CASE ClaimAccepted(w)
    BY <1>0, <2>2, Zenon DEF ClaimAccepted, Live, ApplyClaim
  <2>3. CASE ClaimUnknown(w)
    BY <1>0, <2>3, Zenon DEF ClaimUnknown, Live, ApplyClaim
  <2>4. CASE ClaimRefused(w)
    BY <2>4, Zenon DEF ClaimRefused
  <2> QED  BY <1>2, <2>1, <2>2, <2>3, <2>4, Zenon DEF Claim
<1>3. CASE ClaimRejected(w) \/ Finish(w) \/ HoldEnds(w)
  BY <1>3, Zenon DEF ClaimRejected, Finish, HoldEnds
<1>4. CASE Execute(w)
  <2>1. executions' \in [Intents -> Nat]
    BY <1>0, <1>4 DEF Execute, Live
  <2>2. UNCHANGED <<awaiting, uncertain, backend>> /\ SessionOnly
    BY <1>4, Zenon DEF Execute
  <2>3. pc[w] = "claimed" /\ pc' = [pc EXCEPT ![w] = "running"]
    BY <1>4, Zenon DEF Execute
  <2> QED  BY <2>1, <2>2, <2>3, Zenon
<1>5. CASE Deliver(w)
  BY <1>5 DEF Deliver, DeliverApplied, DeliverResolved, DeliverGivesUp
<1> QED
  BY <1>1, <1>2, <1>3, <1>4, <1>5, Zenon DEF Session

-----------------------------------------------------------------------------
(* Permits                                                                 *)

GeneralHolders == {w \in Workers : HoldsGeneral(w)}
GuardHolders == {w \in Workers : HoldsGuard(w)}

\* Sets of session slots are finite, and so are counted.
LEMMA HoldersFinite ==
    /\ IsFiniteSet(GeneralHolders) /\ Cardinality(GeneralHolders) \in Nat
    /\ IsFiniteSet(GuardHolders) /\ Cardinality(GuardHolders) \in Nat
<1>1. GeneralHolders \subseteq Workers /\ GuardHolders \subseteq Workers
  BY DEF GeneralHolders, GuardHolders
<1>2. IsFiniteSet(GeneralHolders) /\ IsFiniteSet(GuardHolders)
  BY <1>1, FS_Subset, ConstantsAssumption, Zenon
<1> QED  BY <1>2, FS_CardinalityType

\* A step that changes neither the phases nor the jobs keeps the holders.
LEMMA HoldersUnchanged ==
    ASSUME UNCHANGED <<pc, job>>
    PROVE  GeneralHolders' = GeneralHolders /\ GuardHolders' = GuardHolders
BY DEF GeneralHolders, GuardHolders, HoldsGeneral, HoldsGuard, IsDKG

\* The accounting in terms of the two sets.
LEMMA Accounting ==
    PermitAccounting <=> /\ general = Cardinality(GeneralHolders) + drained
                         /\ guard = Cardinality(GuardHolders)
BY DEF PermitAccounting, GeneralHolders, GuardHolders

\* NewScheduler starts with empty pools and no session.
LEMMA PoolInit == Init => PoolInv
<1> SUFFICES ASSUME Init PROVE PoolInv
  OBVIOUS
<1>1. TypeOK
  <2>1. uncertain \in [Workers -> BOOLEAN] /\ executions \in [Intents -> Nat]
    BY DEF Init
  <2>2. /\ pc \in [Workers -> Phases]
        /\ job \in [Workers -> Entries \cup {NoEntry}]
        /\ backend \in [Intents -> {"pending", "orphaned", "claimed", "terminal"}]
    BY DEF Init, Phases
  <2>3. general \in 0 .. MaxConcurrent /\ drained \in 0 .. MaxConcurrent
    BY ConstantsAssumption DEF Init
  <2>4. /\ ctxDone \in BOOLEAN /\ admission \in BOOLEAN
        /\ repoll \in BOOLEAN /\ dkgConsidered \in BOOLEAN
    BY Zenon DEF Init
  <2>5. /\ guard \in 0 .. 1
        /\ inFlight \subseteq Intents /\ batch \subseteq Entries
        /\ spc \in {"select", "batch", "admit", "await", "join", "exited"}
        /\ starved \subseteq {"admission", "DKG", "SIGN"}
        /\ current \in Entries \cup {NoEntry}
        /\ awaiting \in Workers \cup {NoWorker}
    BY DEF Init
  <2> QED  BY <2>1, <2>2, <2>3, <2>4, <2>5, Zenon DEF TypeOK
<1>2. JobOK
  BY DEF Init, JobOK, Live
<1>3. GeneralHolders = {} /\ GuardHolders = {}
  BY DEF Init, GeneralHolders, GuardHolders, HoldsGeneral, HoldsGuard, Holding
<1>4. PermitAccounting
  BY <1>3, FS_EmptySet, Accounting DEF Init
<1> QED  BY <1>1, <1>2, <1>4 DEF PoolInv

\* Steps inside a lease leave the pools and their holders alone.
LEMMA InnerPool ==
    ASSUME PoolInv, NEW w \in Workers, InnerStep(w)
    PROVE  PoolInv'
<1> USE DEF PoolInv
<1>1. PICK phase \in Holding \ {"start"} : pc' = [pc EXCEPT ![w] = phase]
  BY Zenon DEF InnerStep
<1>2. UNCHANGED <<control, pools, runVars, job>>
  BY DEF InnerStep, SessionOnly
<1>3. pc' \in [Workers -> Phases]
  BY <1>1, Zenon DEF TypeOK, Phases
<1>4. TypeOK'
  BY <1>2, <1>3 DEF InnerStep, TypeOK, control, pools, runVars
<1>5. \A v \in Workers : /\ HoldsGeneral(v)' <=> HoldsGeneral(v)
                         /\ HoldsGuard(v)' <=> HoldsGuard(v)
                         /\ Live(v)' <=> Live(v)
  BY <1>1, <1>2, Zenon
     DEF TypeOK, InnerStep, HoldsGeneral, HoldsGuard, IsDKG, Live, Holding
<1>6. JobOK'
  BY <1>1, <1>2, <1>5, Zenon DEF JobOK, IsDKG, Holding, TypeOK, runVars
<1>7. GeneralHolders' = GeneralHolders /\ GuardHolders' = GuardHolders
  BY <1>5 DEF GeneralHolders, GuardHolders
<1>8. PermitAccounting'
  BY <1>2, <1>7, Zenon DEF PermitAccounting, GeneralHolders, GuardHolders, pools, control
<1> QED  BY <1>4, <1>6, <1>8

\* Launching a session adds one holder to each pool it draws from.
LEMMA LaunchPool ==
    ASSUME PoolInv, NEW w \in Workers, Launch(w)
    PROVE  PoolInv'
<1> USE DEF PoolInv
<1>1. /\ pc[w] = "idle" /\ pc' = [pc EXCEPT ![w] = "start"]
      /\ job' = [job EXCEPT ![w] = current]
      /\ current \in Entries
      /\ UNCHANGED <<control, repoll, batch, dkgConsidered, starved, uncertain,
                     backend, executions>>
      /\ spc' = "await" /\ current' = NoEntry /\ awaiting' = w
  BY Zenon DEF Launch, Goto, JobOK
<1>2. /\ general < MaxConcurrent /\ general' = general + 1
      /\ inFlight' = inFlight \cup {current.id}
      /\ guard' = IF current.id \in DKGIntents THEN guard + 1 ELSE guard
      /\ current.id \in DKGIntents => guard = 0
  BY Zenon DEF Launch, CanAcquire
<1>3. TypeOK'
  <2>1. pc' \in [Workers -> Phases]
    BY <1>1, Zenon DEF TypeOK, Phases, Holding
  <2>2. job' \in [Workers -> Entries \cup {NoEntry}]
    BY <1>1, Zenon DEF TypeOK
  <2>3. general' \in 0 .. MaxConcurrent /\ guard' \in 0 .. 1
    BY <1>2, ConstantsAssumption DEF TypeOK
  <2>4. inFlight' \subseteq Intents
    BY <1>1, <1>2, Zenon DEF TypeOK, Entries
  <2> QED  BY <1>1, <2>1, <2>2, <2>3, <2>4, Zenon DEF TypeOK, control
<1>4. JobOK'
  BY <1>1, Zenon DEF JobOK, TypeOK, Live, IsDKG
<1>5. w \notin GeneralHolders /\ w \notin GuardHolders
  BY <1>1, Zenon DEF GeneralHolders, GuardHolders, HoldsGeneral, HoldsGuard, Holding
<1>6. GeneralHolders' = GeneralHolders \cup {w}
  BY <1>1 DEF GeneralHolders, HoldsGeneral, Holding, TypeOK
<1>7. GuardHolders' = IF current.id \in DKGIntents THEN GuardHolders \cup {w}
                      ELSE GuardHolders
  BY <1>1 DEF GuardHolders, HoldsGuard, IsDKG, Holding, TypeOK
<1>8. PermitAccounting'
  <2>1. Cardinality(GeneralHolders') = Cardinality(GeneralHolders) + 1
    BY <1>5, <1>6, HoldersFinite, FS_AddElement, Zenon
  <2>2. Cardinality(GuardHolders \cup {w}) = Cardinality(GuardHolders) + 1
    BY <1>5, HoldersFinite, FS_AddElement, Zenon
  <2>3. general' = Cardinality(GeneralHolders') + drained'
    BY <1>1, <1>2, <2>1, HoldersFinite, Accounting DEF control, TypeOK
  <2>4. guard' = Cardinality(GuardHolders')
    BY <1>2, <1>7, <2>2, Accounting, Zenon
  <2> QED  BY <2>3, <2>4, Zenon DEF PermitAccounting, GeneralHolders, GuardHolders
<1> QED  BY <1>3, <1>4, <1>8

\* Each step of a release gives back exactly what the session held.
LEMMA ReleasePool ==
    ASSUME PoolInv, NEW w \in Workers, Release(w)
    PROVE  PoolInv'
<1> USE DEF PoolInv
<1>0. /\ general \in Int /\ guard \in Int /\ drained \in Nat
      /\ general = Cardinality(GeneralHolders) + drained
      /\ guard = Cardinality(GuardHolders)
  BY Accounting DEF TypeOK
<1>1. CASE ReleaseGeneral(w)
  <2>1. /\ general' = general - 1
        /\ pc[w] = "relGeneral"
        /\ pc' = [pc EXCEPT ![w] = IF IsDKG(w) THEN "relGuard" ELSE "relWake"]
        /\ UNCHANGED <<control, guard, repoll, inFlight, runVars, awaiting, job,
                       uncertain, backend, executions>>
    BY <1>1 DEF ReleaseGeneral, Goto
  <2>2. w \in GeneralHolders
    BY <2>1 DEF GeneralHolders, HoldsGeneral, Holding
  <2>3. GeneralHolders' = GeneralHolders \ {w} /\ GuardHolders' = GuardHolders
    BY <2>1, Zenon DEF GeneralHolders, GuardHolders, HoldsGeneral, HoldsGuard, IsDKG,
                Holding, TypeOK
  <2>4. Cardinality(GeneralHolders') = Cardinality(GeneralHolders) - 1
    BY <2>2, <2>3, HoldersFinite, FS_RemoveElement, Zenon
  <2>5. Cardinality(GeneralHolders') \in Nat
    BY <2>3, HoldersFinite, FS_RemoveElement, FS_CardinalityType, Zenon
  <2>6. PermitAccounting'
    <3>1. drained' = drained
      BY <2>1 DEF control
    <3>2. general' = Cardinality(GeneralHolders') + drained'
      BY <1>0, <2>1, <2>4, <3>1, HoldersFinite
    <3>3. guard' = Cardinality(GuardHolders')
      BY <1>0, <2>1, <2>3, Zenon
    <3> QED  BY <3>2, <3>3, Zenon DEF PermitAccounting, GeneralHolders, GuardHolders
  <2>7. general' \in 0 .. MaxConcurrent
    <3>1. general' >= 0
      BY <1>0, <2>1, <2>4, <2>5, HoldersFinite
    <3> QED  BY <2>1, <3>1, ConstantsAssumption DEF TypeOK
  <2>8. pc' \in [Workers -> Phases]
    BY <2>1, Zenon DEF TypeOK, Phases
  <2>9. TypeOK'
    BY <2>1, <2>7, <2>8 DEF TypeOK, control, runVars
  <2>10. JobOK'
    BY <2>1, Zenon DEF JobOK, Live, IsDKG, TypeOK, runVars
  <2> QED  BY <2>6, <2>9, <2>10
<1>2. CASE ReleaseGuard(w)
  <2>1. /\ guard' = guard - 1
        /\ pc[w] = "relGuard" /\ pc' = [pc EXCEPT ![w] = "relWake"]
        /\ UNCHANGED <<control, general, repoll, inFlight, runVars, awaiting, job,
                       uncertain, backend, executions>>
    BY <1>2 DEF ReleaseGuard, Goto
  <2>2. w \in GuardHolders
    BY <2>1, Zenon DEF JobOK, GuardHolders, HoldsGuard
  <2>3. GeneralHolders' = GeneralHolders /\ GuardHolders' = GuardHolders \ {w}
    BY <2>1, Zenon DEF GeneralHolders, GuardHolders, HoldsGeneral, HoldsGuard, IsDKG,
                Holding, TypeOK
  <2>4. Cardinality(GuardHolders') = Cardinality(GuardHolders) - 1
    BY <2>2, <2>3, HoldersFinite, FS_RemoveElement, Zenon
  <2>5. Cardinality(GuardHolders') \in Nat
    BY <2>3, HoldersFinite, FS_RemoveElement, FS_CardinalityType, Zenon
  <2>6. PermitAccounting'
    BY <1>0, <2>1, <2>3, <2>4, HoldersFinite, Zenon
       DEF PermitAccounting, GeneralHolders, GuardHolders, control
  <2>7. guard' \in 0 .. 1
    BY <1>0, <2>1, <2>4, <2>5 DEF TypeOK
  <2>8. pc' \in [Workers -> Phases]
    BY <2>1, Zenon DEF TypeOK, Phases
  <2>9. TypeOK'
    BY <2>1, <2>7, <2>8 DEF TypeOK, control, runVars
  <2>10. JobOK'
    BY <2>1, Zenon DEF JobOK, Live, IsDKG, TypeOK, runVars
  <2> QED  BY <2>6, <2>9, <2>10
<1>3. CASE ReleaseWake(w) \/ Notify(w)
  <2>1. PICK phase \in {"notify", "unreserve"} :
           /\ pc[w] \in {"relWake", "notify"} /\ pc' = [pc EXCEPT ![w] = phase]
           /\ repoll' \in {repoll, TRUE}
           /\ awaiting' \in {awaiting, NoWorker}
           /\ UNCHANGED <<control, general, guard, inFlight, runVars, job,
                          uncertain, backend, executions>>
    BY <1>3, Zenon DEF ReleaseWake, Notify, Goto, NotifyDispatch, SessionOnly, pools
  <2>2. GeneralHolders' = GeneralHolders /\ GuardHolders' = GuardHolders
    BY <2>1, Zenon DEF GeneralHolders, GuardHolders, HoldsGeneral, HoldsGuard, IsDKG,
                Holding, TypeOK
  <2>3. PermitAccounting'
    BY <2>1, <2>2, Zenon DEF PermitAccounting, GeneralHolders, GuardHolders, control
  <2>4. pc' \in [Workers -> Phases]
    BY <2>1, Zenon DEF TypeOK, Phases
  <2>5. repoll' \in BOOLEAN
    BY <2>1, Zenon DEF TypeOK
  <2>6. TypeOK'
    BY <2>1, <2>4, <2>5 DEF TypeOK, control, runVars
  <2>7. JobOK'
    BY <2>1, Zenon DEF JobOK, Live, IsDKG, TypeOK, runVars
  <2> QED  BY <2>3, <2>6, <2>7
<1>4. CASE Unreserve(w)
  <2>1. /\ pc[w] = "unreserve" /\ pc' = [pc EXCEPT ![w] = "idle"]
        /\ inFlight' = inFlight \ {job[w].id}
        /\ job' = [job EXCEPT ![w] = NoEntry]
        /\ uncertain' = [uncertain EXCEPT ![w] = FALSE]
        /\ UNCHANGED <<control, general, guard, repoll, runVars, awaiting,
                       backend, executions>>
    BY <1>4, Zenon DEF Unreserve, Goto
  <2>2. GeneralHolders' = GeneralHolders /\ GuardHolders' = GuardHolders
    BY <2>1, Zenon DEF GeneralHolders, GuardHolders, HoldsGeneral, HoldsGuard, IsDKG,
                Holding, TypeOK
  <2>3. PermitAccounting'
    BY <2>1, <2>2, Zenon DEF PermitAccounting, GeneralHolders, GuardHolders, control
  <2>4. pc' \in [Workers -> Phases] /\ job' \in [Workers -> Entries \cup {NoEntry}]
    BY <2>1, Zenon DEF TypeOK, Phases
  <2>5. uncertain' \in [Workers -> BOOLEAN]
    BY <2>1, Zenon DEF TypeOK
  <2>6. inFlight' \subseteq Intents
    BY <2>1, Zenon DEF TypeOK
  <2>7. TypeOK'
    BY <2>1, <2>4, <2>5, <2>6 DEF TypeOK, control, runVars
  <2>8. JobOK'
    BY <2>1, Zenon DEF JobOK, Live, IsDKG, TypeOK, runVars
  <2> QED  BY <2>3, <2>7, <2>8
<1> QED  BY <1>1, <1>2, <1>3, <1>4, Zenon DEF Release

\* The other steps of Run hold no permit.
LEMMA RunPool ==
    ASSUME PoolInv, Run, ~ \E w \in Workers : Launch(w)
    PROVE  PoolInv'
<1> USE DEF PoolInv
<1>1. /\ UNCHANGED <<control, general, guard, inFlight, sessVars, backend,
                     executions>>
      /\ awaiting' \in {awaiting, NoWorker}
  BY Zenon DEF Run, PollNothing, PollListing, EndBatch, ConsiderDKG, ConsiderSIGN,
         AdmitRefused, Awaited, RunReturns, pools
<1>2. repoll' \in BOOLEAN /\ dkgConsidered' \in BOOLEAN
  BY Zenon DEF Run, PollNothing, PollListing, EndBatch, ConsiderDKG, ConsiderSIGN,
         AdmitRefused, Awaited, RunReturns, pools, TypeOK
<1>3. batch' \subseteq Entries
  <2>1. Listing \subseteq Entries
    BY DEF Listing, Entries
  <2> QED
    BY <2>1, Zenon DEF Run, PollNothing, PollListing, EndBatch, ConsiderDKG,
         ConsiderSIGN, NextEntry, AdmitRefused, Awaited, RunReturns, TypeOK
<1>4. /\ spc' \in {"select", "batch", "admit", "await", "join", "exited"}
      /\ starved' \subseteq {"admission", "DKG", "SIGN"}
  BY Zenon DEF Run, PollNothing, PollListing, EndBatch, ConsiderDKG, ConsiderSIGN,
         AdmitRefused, Awaited, RunReturns, TypeOK
<1>5. /\ current' \in Entries \cup {NoEntry}
      /\ spc' = "admit" => current' \in Entries
  BY Zenon DEF Run, PollNothing, PollListing, EndBatch, ConsiderDKG, ConsiderSIGN,
         NextEntry, AdmitRefused, Awaited, RunReturns, TypeOK
<1>6. TypeOK'
  BY <1>1, <1>2, <1>3, <1>4, <1>5, Zenon DEF TypeOK, control, sessVars
<1>7. JobOK'
  BY <1>1, <1>5, Zenon DEF JobOK, Live, IsDKG, sessVars
<1>8. PermitAccounting'
  BY <1>1, HoldersUnchanged, Zenon
     DEF PermitAccounting, GeneralHolders, GuardHolders, control, sessVars
<1> QED  BY <1>6, <1>7, <1>8

\* The environment only takes free slots.
LEMMA EnvironmentPool ==
    ASSUME PoolInv, Environment
    PROVE  PoolInv'
<1> USE DEF PoolInv
<1>1. UNCHANGED <<guard, inFlight, runVars, awaiting, sessVars, executions>>
  BY Zenon DEF Environment, SetDKGAdmissionOpen, Wake, Cancel, DrainSlot, BackendEnds,
         pools
<1>2. GeneralHolders' = GeneralHolders /\ GuardHolders' = GuardHolders
  BY <1>1, HoldersUnchanged DEF sessVars
<1>3. JobOK'
  BY <1>1, Zenon DEF JobOK, Live, IsDKG, sessVars, runVars
<1>4. /\ ctxDone' \in BOOLEAN /\ admission' \in BOOLEAN /\ repoll' \in BOOLEAN
  BY Zenon DEF Environment, SetDKGAdmissionOpen, Wake, Cancel, DrainSlot, BackendEnds,
         pools, control, TypeOK
<1>5. backend' \in [Intents -> {"pending", "orphaned", "claimed", "terminal"}]
  BY Zenon DEF Environment, SetDKGAdmissionOpen, Wake, Cancel, DrainSlot, BackendEnds,
         TypeOK
<1>6. /\ general = Cardinality(GeneralHolders) + drained
      /\ guard = Cardinality(GuardHolders)
  BY Accounting
<1>7. \/ UNCHANGED <<general, drained>>
      \/ /\ general < MaxConcurrent
         /\ general' = general + 1 /\ drained' = drained + 1
  BY Zenon DEF Environment, SetDKGAdmissionOpen, Wake, Cancel, DrainSlot, BackendEnds,
         pools, control
<1>8. general' = Cardinality(GeneralHolders') + drained'
  BY <1>2, <1>6, <1>7, HoldersFinite DEF TypeOK
<1>9. general' \in 0 .. MaxConcurrent /\ drained' \in 0 .. MaxConcurrent
  BY <1>2, <1>7, <1>8, HoldersFinite, ConstantsAssumption DEF TypeOK
<1>10. TypeOK'
  BY <1>1, <1>4, <1>5, <1>9, Zenon DEF TypeOK, runVars, sessVars
<1>11. PermitAccounting'
  BY <1>1, <1>2, <1>6, <1>8, Zenon DEF PermitAccounting, GeneralHolders, GuardHolders
<1> QED  BY <1>3, <1>10, <1>11

\* Every step keeps the types and the permit accounting.
LEMMA PoolStep == PoolInv /\ [Next]_vars => PoolInv'
<1> SUFFICES ASSUME PoolInv, [Next]_vars PROVE PoolInv'
  OBVIOUS
<1>1. CASE \E w \in Workers : Launch(w)
  BY <1>1, LaunchPool
<1>2. CASE Run /\ ~ \E w \in Workers : Launch(w)
  BY <1>2, RunPool
<1>3. ASSUME NEW w \in Workers, Session(w) PROVE PoolInv'
  BY <1>3, SessionSteps, InnerPool, ReleasePool, Zenon DEF PoolInv
<1>4. CASE Environment
  BY <1>4, EnvironmentPool
<1>5. CASE UNCHANGED vars
  <2>1. UNCHANGED <<control, pools, runVars, awaiting, sessVars, backend,
                    executions>>
    BY <1>5 DEF vars
  <2>2. TypeOK' /\ JobOK'
    BY <2>1 DEF PoolInv, TypeOK, JobOK, Live, IsDKG, control, pools, runVars,
                sessVars
  <2>3. PermitAccounting'
    BY <2>1, HoldersUnchanged, Zenon
       DEF PoolInv, PermitAccounting, GeneralHolders, GuardHolders, control,
           pools, sessVars
  <2> QED  BY <2>2, <2>3 DEF PoolInv
<1> QED  BY <1>1, <1>2, <1>3, <1>4, <1>5 DEF Next

\* For every number of intents, sessions and permits: the variables keep their
\* types, and no pool is over- or underdrawn.
THEOREM TypeCorrect == Spec => []TypeOK
<1>1. PoolInv => TypeOK
  BY DEF PoolInv
<1> QED  BY PoolInit, PoolStep, <1>1, PTL DEF Spec

\* For every instance, each occupied slot of either pool belongs to exactly one
\* session inside its lease, or to drainWorkers.
THEOREM PermitsAccounted == Spec => []PermitAccounting
<1>1. PoolInv => PermitAccounting
  BY DEF PoolInv
<1> QED  BY PoolInit, PoolStep, <1>1, PTL DEF Spec

\* For every instance, a completed drain leaves no session inside its lease.
THEOREM DrainIsBarrier == Spec => []DrainBarrier
<1>1. PoolInv => DrainBarrier
  <2> SUFFICES ASSUME PoolInv, drained = MaxConcurrent
               PROVE  \A w \in Workers : ~HoldsGeneral(w)
    BY DEF DrainBarrier
  <2>1. general = Cardinality(GeneralHolders) + drained
    BY Accounting DEF PoolInv
  <2>2. general <= MaxConcurrent
    BY ConstantsAssumption DEF PoolInv, TypeOK
  <2>3. Cardinality(GeneralHolders) = 0
    BY <2>1, <2>2, HoldersFinite, ConstantsAssumption
  <2>4. GeneralHolders = {}
    BY <2>3, HoldersFinite, FS_EmptySet
  <2> QED  BY <2>4 DEF GeneralHolders
<1> QED  BY PoolInit, PoolStep, <1>1, PTL DEF Spec

\* For every instance, at most one DKG session is inside its lease.
THEOREM DKGIsExclusive == Spec => []OneDKGSession
<1>1. PoolInv => OneDKGSession
  <2> SUFFICES ASSUME PoolInv, NEW v \in Workers, NEW w \in Workers,
                      HoldsGuard(v), HoldsGuard(w), v # w
               PROVE  FALSE
    BY DEF OneDKGSession
  <2>1. v \in GuardHolders /\ w \in GuardHolders \ {v}
    BY DEF GuardHolders
  <2>2. /\ IsFiniteSet(GuardHolders \ {v})
        /\ Cardinality(GuardHolders \ {v}) = Cardinality(GuardHolders) - 1
    BY <2>1, HoldersFinite, FS_RemoveElement, Zenon
  <2>3. /\ IsFiniteSet((GuardHolders \ {v}) \ {w})
        /\ Cardinality((GuardHolders \ {v}) \ {w})
             = Cardinality(GuardHolders \ {v}) - 1
    BY <2>1, <2>2, FS_RemoveElement, Zenon
  <2>4. Cardinality((GuardHolders \ {v}) \ {w}) \in Nat
    BY <2>3, FS_CardinalityType, Zenon
  <2>5. Cardinality(GuardHolders) <= 1
    BY Accounting DEF PoolInv, TypeOK
  <2> QED  BY <2>2, <2>3, <2>4, <2>5, HoldersFinite
<1> QED  BY PoolInit, PoolStep, <1>1, PTL DEF Spec

-----------------------------------------------------------------------------
(* Wakeups                                                                 *)

\* The strengthening of NoLostWakeup that is inductive: a reason to look again
\* that arises in the middle of a batch must be remembered too.
WakeInv ==
    Servable => repoll \/ \E w \in Workers : pc[w] \in {"relGuard", "relWake"}

\* Run: a poll forgets the reasons together with the token, a refusal records
\* a reason only while it holds.
LEMMA RunWake ==
    ASSUME PoolInv, WakeInv, Run
    PROVE  WakeInv'
<1>1. CASE PollNothing \/ PollListing
  BY <1>1, Zenon DEF PollNothing, PollListing, WakeInv, Servable
<1>2. CASE EndBatch \/ Awaited \/ RunReturns
  BY <1>2, Zenon DEF EndBatch, Awaited, RunReturns, WakeInv, Servable, control, pools,
              sessVars
<1>3. ASSUME NEW e \in batch, ConsiderDKG(e) \/ ConsiderSIGN(e) PROVE WakeInv'
  <2>1. /\ UNCHANGED <<admission, general, guard, repoll, pc>>
        /\ starved' \subseteq starved \cup {"admission"}
        /\ ~admission \/ starved' = starved
    BY <1>3, Zenon DEF ConsiderDKG, ConsiderSIGN, control, pools, sessVars
  <2> QED  BY <2>1 DEF WakeInv, Servable
<1>4. CASE AdmitRefused
  <2>1. UNCHANGED <<admission, general, guard, repoll, pc>>
    BY <1>4, Zenon DEF AdmitRefused, control, pools, sessVars
  <2>2. \/ starved' = starved
        \/ /\ starved' = starved \cup {"SIGN"} /\ ~ general < MaxConcurrent
        \/ /\ starved' = starved \cup {"DKG"}
           /\ ~(general < MaxConcurrent /\ guard = 0)
    BY <1>4, Zenon DEF AdmitRefused, CanAcquire
  <2> QED  BY <2>1, <2>2 DEF WakeInv, Servable
<1>5. ASSUME NEW w \in Workers, Launch(w) PROVE WakeInv'
  <2>1. /\ UNCHANGED <<admission, repoll, starved>>
        /\ general' = general + 1 /\ (guard' = guard \/ guard' = guard + 1)
        /\ pc[w] = "idle" /\ pc' = [pc EXCEPT ![w] = "start"]
    BY <1>5, Zenon DEF Launch, Goto, control
  <2>2. Servable' => Servable
    BY <2>1, ConstantsAssumption DEF Servable, PoolInv, TypeOK
  <2>3. \A v \in Workers : pc[v] \in {"relGuard", "relWake"} => pc'[v] = pc[v]
    BY <2>1, Zenon DEF PoolInv, TypeOK
  <2> QED  BY <2>1, <2>2, <2>3, Zenon DEF WakeInv
<1> QED  BY <1>1, <1>2, <1>3, <1>4, <1>5, Zenon DEF Run

\* Sessions: what a release makes available is announced by the same session.
LEMMA SessionWake ==
    ASSUME PoolInv, WakeInv, NEW w \in Workers, Session(w)
    PROVE  WakeInv'
<1>0. pc \in [Workers -> Phases]
  BY Zenon DEF PoolInv, TypeOK
<1>1. CASE InnerStep(w)
  <2>1. UNCHANGED <<admission, general, guard, repoll, starved>>
    BY <1>1, Zenon DEF InnerStep, SessionOnly, control, pools, runVars
  <2>2. \A v \in Workers : pc[v] \in {"relGuard", "relWake"} => pc'[v] = pc[v]
    BY <1>0, <1>1, Zenon DEF InnerStep, Holding
  <2> QED  BY <2>1, <2>2, Zenon DEF WakeInv, Servable
<1>2. CASE ReleaseGeneral(w) \/ ReleaseGuard(w)
  <2>1. pc'[w] \in {"relGuard", "relWake"}
    BY <1>0, <1>2, Zenon DEF ReleaseGeneral, ReleaseGuard, Goto
  <2> QED  BY <2>1 DEF WakeInv
<1>3. CASE ReleaseWake(w)
  BY <1>3 DEF ReleaseWake, WakeInv
<1>4. CASE Notify(w) \/ Unreserve(w)
  <2>1. UNCHANGED <<admission, general, guard, repoll, starved>>
    BY <1>4, Zenon DEF Notify, Unreserve, SessionOnly, control, pools, runVars
  <2>2. \A v \in Workers : pc[v] \in {"relGuard", "relWake"} => pc'[v] = pc[v]
    BY <1>0, <1>4, Zenon DEF Notify, Unreserve, Goto
  <2> QED  BY <2>1, <2>2, Zenon DEF WakeInv, Servable
<1> QED
  BY <1>1, <1>2, <1>3, <1>4, SessionSteps, Zenon DEF PoolInv, Release

\* Environment: opening admission sends a token, draining only takes slots.
LEMMA EnvironmentWake ==
    ASSUME PoolInv, WakeInv, Environment
    PROVE  WakeInv'
<1>1. UNCHANGED <<pc, starved, guard>>
  BY Zenon DEF Environment, SetDKGAdmissionOpen, Wake, Cancel, DrainSlot, BackendEnds,
         pools, sessVars, runVars
<1>2. repoll' \/ (repoll' = repoll /\ (admission' => admission))
  BY Zenon DEF Environment, SetDKGAdmissionOpen, Wake, Cancel, DrainSlot, BackendEnds,
         pools, control, PoolInv, TypeOK
<1>3. general' < MaxConcurrent => general < MaxConcurrent
  BY ConstantsAssumption, Zenon
     DEF Environment, SetDKGAdmissionOpen, Wake, Cancel, DrainSlot, BackendEnds,
         pools, PoolInv, TypeOK
<1> QED  BY <1>1, <1>2, <1>3, Zenon DEF WakeInv, Servable

\* For every instance, Run never sleeps on work it could admit without a repoll
\* token in its channel or on the way.
THEOREM WakeupsNotLost == Spec => []NoLostWakeup
<1>1. Init => WakeInv
  BY DEF Init, WakeInv, Servable
<1>2. PoolInv /\ WakeInv /\ [Next]_vars => WakeInv'
  <2>1. PoolInv /\ WakeInv /\ UNCHANGED vars => WakeInv'
    BY DEF vars, control, pools, runVars, sessVars, WakeInv, Servable
  <2> QED  BY <2>1, RunWake, SessionWake, EnvironmentWake DEF Next
<1>3. WakeInv => NoLostWakeup
  BY DEF WakeInv, NoLostWakeup
<1> QED  BY PoolInit, PoolStep, <1>1, <1>2, <1>3, PTL DEF Spec

-----------------------------------------------------------------------------
(* Reservations, claims and executions.                                    *)

\* Runs on its own, between acceptance of the claim and resolved delivery.
Executed == {"running", "hold", "deliver"}
\* Phases in which a session answers for a claim that may have been applied.
Answering == {"claiming", "recover", "claimed", "running", "hold", "deliver"}

SessionInv == PoolInv /\ OneSessionPerIntent

\* A step that keeps the liveness and the intent of each session and the
\* reservations keeps their agreement.
LEMMA SameSessions ==
    ASSUME OneSessionPerIntent, inFlight' = inFlight,
           \A w \in Workers : (Live(w)' <=> Live(w)) /\ job'[w] = job[w]
    PROVE  OneSessionPerIntent'
BY DEF OneSessionPerIntent

\* NewScheduler starts without reservations.
LEMMA SessionInvInit == Init => SessionInv
<1> SUFFICES ASSUME Init PROVE OneSessionPerIntent
  BY PoolInit DEF SessionInv
<1>1. \A w \in Workers : ~Live(w)
  BY DEF Init, Live
<1> QED  BY <1>1, Zenon DEF Init, OneSessionPerIntent

\* Every step keeps reservations and live sessions in agreement.
LEMMA SessionInvStep == SessionInv /\ [Next]_vars => SessionInv'
<1> SUFFICES ASSUME SessionInv, [Next]_vars PROVE OneSessionPerIntent'
  BY PoolStep DEF SessionInv
<1> USE DEF SessionInv
<1>0. TypeOK /\ JobOK
  BY DEF PoolInv
<1>1. ASSUME NEW w \in Workers, Launch(w) PROVE OneSessionPerIntent'
  <2>1. /\ pc[w] = "idle" /\ pc' = [pc EXCEPT ![w] = "start"]
        /\ job' = [job EXCEPT ![w] = current]
        /\ current.id \notin inFlight
        /\ inFlight' = inFlight \cup {current.id}
    BY <1>1, Zenon DEF Launch, Goto
  <2>2. /\ Live(w)' /\ job'[w] = current
        /\ \A v \in Workers \ {w} : (Live(v)' <=> Live(v)) /\ job'[v] = job[v]
        /\ ~Live(w)
    BY <1>0, <2>1 DEF Live, TypeOK
  <2>3. \A v \in Workers : Live(v) => job[v].id \in inFlight
    BY Zenon DEF OneSessionPerIntent
  <2> QED  BY <2>1, <2>2, <2>3 DEF OneSessionPerIntent
<1>2. CASE Run /\ ~ \E w \in Workers : Launch(w)
  <2>1. UNCHANGED <<inFlight, sessVars>>
    BY <1>2, Zenon DEF Run, PollNothing, PollListing, EndBatch, ConsiderDKG,
                ConsiderSIGN, AdmitRefused, Awaited, RunReturns, pools
  <2> QED  BY <2>1, SameSessions DEF sessVars, Live
<1>3. ASSUME NEW w \in Workers, Session(w) PROVE OneSessionPerIntent'
  <2>1. CASE InnerStep(w)
    <3>1. UNCHANGED <<inFlight, job>>
      BY <2>1, Zenon DEF InnerStep, SessionOnly, pools
    <3>2. \A v \in Workers : Live(v)' <=> Live(v)
      BY <1>0, <2>1, Zenon DEF InnerStep, Live, TypeOK, Holding
    <3> QED  BY <3>1, <3>2, SameSessions
  <2>2. CASE ReleaseGeneral(w) \/ ReleaseGuard(w) \/ ReleaseWake(w) \/ Notify(w)
    <3>1. UNCHANGED <<inFlight, job>>
      BY <2>2, Zenon DEF ReleaseGeneral, ReleaseGuard, ReleaseWake, Notify,
                  SessionOnly, pools
    <3>2. \A v \in Workers : Live(v)' <=> Live(v)
      BY <1>0, <2>2, Zenon DEF ReleaseGeneral, ReleaseGuard, ReleaseWake, Notify, Goto,
                        Live, TypeOK
    <3> QED  BY <3>1, <3>2, SameSessions
  <2>3. CASE Unreserve(w)
    <3>1. /\ Live(w) /\ ~Live(w)'
          /\ inFlight' = inFlight \ {job[w].id}
          /\ \A v \in Workers \ {w} : (Live(v)' <=> Live(v)) /\ job'[v] = job[v]
      BY <1>0, <2>3, Zenon DEF Unreserve, Goto, Live, TypeOK
    <3> QED  BY <3>1 DEF OneSessionPerIntent
  <2> QED
    BY <1>0, <1>3, <2>1, <2>2, <2>3, SessionSteps, Zenon DEF Release
<1>4. CASE Environment \/ UNCHANGED vars
  <2>1. UNCHANGED <<inFlight, sessVars>>
    BY <1>4, Zenon DEF Environment, SetDKGAdmissionOpen, Wake, Cancel, DrainSlot,
                BackendEnds, vars, pools
  <2> QED  BY <2>1, SameSessions DEF sessVars, Live
<1> QED  BY <1>1, <1>2, <1>3, <1>4 DEF Next

\* For every instance, the reserved intents are exactly those with a live
\* session, and no intent has two.
THEOREM SessionsReserved == Spec => []OneSessionPerIntent
<1>1. SessionInv => OneSessionPerIntent
  BY DEF SessionInv
<1> QED  BY SessionInvInit, SessionInvStep, <1>1, PTL DEF Spec

-----------------------------------------------------------------------------
(* Claims and executions                                                   *)

\* What a session knows of its own intent: before a claim is accepted the
\* protocol has not run, or the intent has ended, or the process is stopping;
\* and only a session that has seen an unknown outcome may hold a claim whose
\* answer it has not read.
OwnIntentInv ==
    \A w \in Workers :
        /\ pc[w] \in {"claiming", "recover"} =>
              executions[job[w].id] = 0 \/ backend[job[w].id] = "terminal"
        /\ pc[w] = "claimed" => executions[job[w].id] = 0
        /\ pc[w] = "start" =>
              \/ executions[job[w].id] = 0
              \/ backend[job[w].id] = "terminal" \/ ctxDone
        /\ pc[w] = "recover" => uncertain[w]
        /\ pc[w] \in {"start", "claiming"} /\ ~uncertain[w] /\ ~ctxDone =>
              backend[job[w].id] # "claimed"

\* What holds of every intent, with or without a session.
EveryIntentInv ==
    \A i \in Intents :
        /\ executions[i] <= 1
        /\ executions[i] > 0 /\ backend[i] # "terminal" /\ ~ctxDone =>
              \E w \in Workers : job[w].id = i /\ pc[w] \in Executed
        /\ backend[i] = "claimed" /\ ~ctxDone =>
              \E w \in Workers : job[w].id = i /\ pc[w] \in Answering

ClaimInv == SessionInv /\ OwnIntentInv /\ EveryIntentInv

\* Nothing is claimed by this process, and nothing has run, at the start.
LEMMA ClaimInvInit == Init => ClaimInv
<1> SUFFICES ASSUME Init PROVE OwnIntentInv /\ EveryIntentInv
  BY SessionInvInit DEF ClaimInv
<1>1. OwnIntentInv
  BY Zenon DEF Init, OwnIntentInv
<1>2. EveryIntentInv
  BY DEF Init, EveryIntentInv
<1> QED  BY <1>1, <1>2

\* A new session starts from an intent without one.
LEMMA LaunchClaim ==
    ASSUME ClaimInv, NEW w \in Workers, Launch(w)
    PROVE  OwnIntentInv' /\ EveryIntentInv'
<1>0. TypeOK /\ JobOK /\ OneSessionPerIntent /\ OwnIntentInv /\ EveryIntentInv
  BY DEF ClaimInv, SessionInv, PoolInv
<1>1. /\ pc[w] = "idle" /\ pc' = [pc EXCEPT ![w] = "start"]
      /\ job' = [job EXCEPT ![w] = current]
      /\ current.id \notin inFlight
      /\ UNCHANGED <<ctxDone, uncertain, backend, executions>>
      /\ current.id \in Intents
  BY <1>0, Zenon DEF Launch, Goto, control, JobOK, Entries
<1>2. \A v \in Workers : Live(v) => job[v].id # current.id
  BY <1>0, <1>1, Zenon DEF OneSessionPerIntent
<1>3. \A v \in Workers : v # w => pc'[v] = pc[v] /\ job'[v] = job[v]
  BY <1>0, <1>1, Zenon DEF TypeOK
<1>4. pc'[w] = "start" /\ job'[w].id = current.id
  BY <1>0, <1>1, Zenon DEF TypeOK
<1>5. /\ executions[current.id] = 0 \/ backend[current.id] = "terminal" \/ ctxDone
      /\ backend[current.id] # "claimed" \/ ctxDone
  <2>1. \A v \in Workers :
           pc[v] \in Executed \cup Answering => job[v].id # current.id
    BY <1>2, Zenon DEF Live, Executed, Answering
  <2> QED  BY <1>0, <1>1, <2>1 DEF EveryIntentInv, TypeOK
<1>6. OwnIntentInv'
  BY <1>0, <1>1, <1>3, <1>4, <1>5 DEF OwnIntentInv
<1>7. EveryIntentInv'
  <2>1. \A v \in Workers :
           pc[v] \in Executed \cup Answering => v # w
    BY <1>1, Zenon DEF Executed, Answering
  <2> QED  BY <1>0, <1>1, <1>3, <2>1 DEF EveryIntentInv
<1> QED  BY <1>6, <1>7

\* The steps of a session up to the release of its permits concern no other
\* session and no other intent.
LEMMA SessionClaim ==
    ASSUME ClaimInv, NEW w \in Workers, Session(w), ~Release(w)
    PROVE  OwnIntentInv' /\ EveryIntentInv'
<1> DEFINE i == job[w].id
<1>0. TypeOK /\ JobOK /\ OneSessionPerIntent /\ OwnIntentInv /\ EveryIntentInv
  BY DEF ClaimInv, SessionInv, PoolInv
<1>1. Live(w) /\ i \in Intents
  <2>1. InnerStep(w)
    BY <1>0, SessionSteps
  <2> QED  BY <1>0, <2>1, Zenon DEF InnerStep, Live, Holding, JobOK, Entries
<1>2. \A v \in Workers \ {w} : Live(v) => job[v].id # i
  BY <1>0, <1>1, Zenon DEF OneSessionPerIntent
<1>3. /\ pc \in [Workers -> Phases] /\ uncertain \in [Workers -> BOOLEAN]
      /\ executions \in [Intents -> Nat]
      /\ backend \in [Intents -> {"pending", "orphaned", "claimed", "terminal"}]
  BY <1>0, Zenon DEF TypeOK
<1>4. ctxDone' = ctxDone /\ job' = job
  <2>1. InnerStep(w)
    BY <1>0, SessionSteps
  <2> QED  BY <2>1, Zenon DEF InnerStep, SessionOnly, control
\* It is enough to look at this session and at this intent.
<1>5. ASSUME \A v \in Workers \ {w} : pc'[v] = pc[v] /\ uncertain'[v] = uncertain[v],
             \A j \in Intents \ {i} :
                 backend'[j] = backend[j] /\ executions'[j] = executions[j],
             /\ pc'[w] \in {"claiming", "recover"} =>
                   executions'[i] = 0 \/ backend'[i] = "terminal"
             /\ pc'[w] = "claimed" => executions'[i] = 0
             /\ pc'[w] # "start"
             /\ pc'[w] = "recover" => uncertain'[w]
             /\ pc'[w] = "claiming" /\ ~uncertain'[w] /\ ~ctxDone =>
                   backend'[i] # "claimed",
             executions'[i] <= 1,
             executions'[i] > 0 /\ backend'[i] # "terminal" /\ ~ctxDone =>
                   pc'[w] \in Executed,
             backend'[i] = "claimed" /\ ~ctxDone => pc'[w] \in Answering
      PROVE  OwnIntentInv' /\ EveryIntentInv'
  <2>1. \A v \in Workers \ {w} : Live(v) => job[v].id \in Intents \ {i}
    BY <1>0, <1>2, Zenon DEF JobOK, Entries
  <2>2. OwnIntentInv'
    <3> SUFFICES ASSUME NEW v \in Workers
        PROVE /\ pc'[v] \in {"claiming", "recover"} =>
                    executions'[job[v].id] = 0 \/ backend'[job[v].id] = "terminal"
              /\ pc'[v] = "claimed" => executions'[job[v].id] = 0
              /\ pc'[v] = "start" =>
                    \/ executions'[job[v].id] = 0
                    \/ backend'[job[v].id] = "terminal" \/ ctxDone
              /\ pc'[v] = "recover" => uncertain'[v]
              /\ pc'[v] \in {"start", "claiming"} /\ ~uncertain'[v] /\ ~ctxDone =>
                    backend'[job[v].id] # "claimed"
      BY <1>4, Zenon DEF OwnIntentInv
    <3>1. CASE v = w
      BY <1>5, <3>1, Zenon
    <3>2. CASE v # w
      <4>1. pc'[v] = pc[v] /\ uncertain'[v] = uncertain[v]
        BY <1>5, <3>2, Zenon
      <4>2. Live(v) => /\ backend'[job[v].id] = backend[job[v].id]
                       /\ executions'[job[v].id] = executions[job[v].id]
        BY <1>5, <2>1, <3>2, Zenon
      <4> QED  BY <1>0, <4>1, <4>2, Zenon DEF OwnIntentInv, Live
    <3> QED  BY <3>1, <3>2, Zenon
  <2>3. EveryIntentInv'
    <3> SUFFICES ASSUME NEW j \in Intents
        PROVE /\ executions'[j] <= 1
              /\ executions'[j] > 0 /\ backend'[j] # "terminal" /\ ~ctxDone =>
                    \E v \in Workers : job[v].id = j /\ pc'[v] \in Executed
              /\ backend'[j] = "claimed" /\ ~ctxDone =>
                    \E v \in Workers : job[v].id = j /\ pc'[v] \in Answering
      BY <1>4, Zenon DEF EveryIntentInv
    <3>1. CASE j = i
      BY <1>5, <3>1, Zenon
    <3>2. CASE j # i
      <4>1. \A v \in Workers : job[v].id = j => pc'[v] = pc[v]
        BY <1>5, <3>2, Zenon
      <4>2. backend'[j] = backend[j] /\ executions'[j] = executions[j]
        BY <1>5, <3>2, Zenon
      <4> QED  BY <1>0, <4>1, <4>2 DEF EveryIntentInv
    <3> QED  BY <3>1, <3>2, Zenon
  <2> QED  BY <2>2, <2>3
\* What the invariant says of them before the step.
<1>6. /\ pc[w] \in {"claiming", "recover"} =>
            executions[i] = 0 \/ backend[i] = "terminal"
      /\ pc[w] = "claimed" => executions[i] = 0
      /\ pc[w] = "start" =>
            executions[i] = 0 \/ backend[i] = "terminal" \/ ctxDone
      /\ pc[w] = "recover" => uncertain[w]
      /\ pc[w] \in {"start", "claiming"} /\ ~uncertain[w] /\ ~ctxDone =>
            backend[i] # "claimed"
      /\ executions[i] <= 1
  BY <1>0, <1>1, Zenon DEF OwnIntentInv, EveryIntentInv
<1>7. /\ executions[i] > 0 /\ backend[i] # "terminal" /\ ~ctxDone =>
            pc[w] \in Executed
      /\ backend[i] = "claimed" /\ ~ctxDone => pc[w] \in Answering
  <2>1. \A v \in Workers :
           job[v].id = i /\ pc[v] \in Executed \cup Answering => v = w
    BY <1>2, Zenon DEF Live, Executed, Answering
  <2> QED  BY <1>0, <1>1, <2>1, Zenon DEF EveryIntentInv
<1> HIDE DEF i
\* Steps that touch neither the backend nor the history.
<1>8. ASSUME UNCHANGED <<uncertain, backend, executions>>,
             NEW phase, pc' = [pc EXCEPT ![w] = phase],
             \/ phase \in Executed
             \/ phase = "claiming" /\ pc[w] \in {"start", "recover"} /\ ~ctxDone
             \/ /\ phase = "relGeneral"
                /\ ctxDone \/ backend[i] # "claimed"
                /\ ctxDone \/ backend[i] = "terminal" \/ executions[i] = 0
      PROVE  OwnIntentInv' /\ EveryIntentInv'
  <2>1. pc'[w] = phase /\ \A v \in Workers \ {w} : pc'[v] = pc[v]
    BY <1>3, <1>8, Zenon
  <2>2. executions[i] \in Nat
    BY <1>1, <1>3, Zenon DEF i
  <2>3. /\ phase \in {"claiming", "recover"} => executions[i] = 0 \/ backend[i] = "terminal"
        /\ phase \notin {"claimed", "start", "recover"}
        /\ phase = "claiming" /\ ~uncertain[w] /\ ~ctxDone => backend[i] # "claimed"
    BY <1>6, <1>8, Zenon DEF Executed
  <2>4. /\ executions[i] > 0 /\ backend[i] # "terminal" /\ ~ctxDone => phase \in Executed
        /\ backend[i] = "claimed" /\ ~ctxDone => phase \in Answering
    BY <1>6, <1>7, <1>8, <2>2 DEF Executed, Answering
  <2> QED  BY <1>5, <1>6, <1>8, <2>1, <2>3, <2>4, Zenon
<1>9. CASE OrphanCleanup(w) \/ ClaimExpired(w) \/ ClaimRejected(w) \/ Finish(w)
  BY <1>8, <1>9, Zenon DEF OrphanCleanup, ClaimExpired, ClaimRejected, Finish, Goto,
                    Executed
<1>10. CASE ClaimSent(w)
  BY <1>8, <1>10, Zenon DEF ClaimSent, AtLoopHead, Goto
<1>11. CASE ClaimCancelled(w) \/ HoldEnds(w) \/ DeliverGivesUp(w)
  BY <1>8, <1>11, Zenon DEF ClaimCancelled, HoldEnds, DeliverGivesUp, Goto
<1>12. CASE DeliverResolved(w)
  BY <1>8, <1>12, Zenon DEF DeliverResolved, Goto, i
<1>13. CASE ClaimRefused(w)
  <2>1. PICK notFound \in BOOLEAN :
           /\ notFound => backend[i] = "terminal"
           /\ pc' = [pc EXCEPT ![w] = IF uncertain[w] /\ ~notFound /\ ~ctxDone
                                      THEN "deliver" ELSE "relGeneral"]
    BY <1>13, Zenon DEF ClaimRefused, Goto, i
  <2>2. pc[w] = "claiming" /\ UNCHANGED <<uncertain, backend, executions>>
    BY <1>13, Zenon DEF ClaimRefused
  <2>3. CASE uncertain[w] /\ ~notFound /\ ~ctxDone
    BY <1>8, <2>1, <2>2, <2>3, Zenon DEF Executed
  <2>4. CASE ~(uncertain[w] /\ ~notFound /\ ~ctxDone)
    BY <1>6, <1>8, <2>1, <2>2, <2>4, Zenon
  <2> QED  BY <2>3, <2>4
<1>14. CASE ClaimAccepted(w)
  <2>1. /\ pc[w] = "claiming" /\ backend[i] # "terminal"
        /\ backend' = [backend EXCEPT ![i] = "claimed"]
        /\ pc' = [pc EXCEPT ![w] = "claimed"]
        /\ UNCHANGED <<uncertain, executions>>
    BY <1>14, Zenon DEF ClaimAccepted, ApplyClaim, Goto, i
  <2>2. pc'[w] = "claimed" /\ \A v \in Workers \ {w} : pc'[v] = pc[v]
    BY <1>3, <2>1, Zenon
  <2>3. backend'[i] = "claimed" /\ \A j \in Intents \ {i} : backend'[j] = backend[j]
    BY <1>1, <1>3, <2>1, Zenon DEF i
  <2>4. "claimed" \in Answering /\ ~(executions[i] > 0)
    BY <1>6, <2>1 DEF Answering
  <2> QED  BY <1>5, <1>6, <2>1, <2>2, <2>3, <2>4, Zenon
<1>15. CASE ClaimUnknown(w)
  <2>1. /\ pc[w] = "claiming"
        /\ \/ backend[i] # "terminal" /\ backend' = [backend EXCEPT ![i] = "claimed"]
           \/ backend' = backend
        /\ pc' = [pc EXCEPT ![w] = "recover"]
        /\ uncertain' = [uncertain EXCEPT ![w] = TRUE]
        /\ UNCHANGED executions
    BY <1>15, Zenon DEF ClaimUnknown, ApplyClaim, Goto, i
  <2>2. pc'[w] = "recover" /\ \A v \in Workers \ {w} : pc'[v] = pc[v]
    BY <1>3, <2>1, Zenon
  <2>3. uncertain'[w] /\ \A v \in Workers \ {w} : uncertain'[v] = uncertain[v]
    BY <1>3, <2>1, Zenon
  <2>4. /\ backend[i] = "terminal" => backend'[i] = "terminal"
        /\ \A j \in Intents \ {i} : backend'[j] = backend[j]
    BY <1>1, <1>3, <2>1, Zenon DEF i
  <2>5. "recover" \in Answering /\ (executions[i] > 0 => backend'[i] = "terminal")
    BY <1>6, <2>1, <2>4 DEF Answering
  <2> QED  BY <1>5, <1>6, <2>1, <2>2, <2>3, <2>4, <2>5, Zenon
<1>16. CASE Execute(w)
  <2>1. /\ pc[w] = "claimed"
        /\ executions' = [executions EXCEPT ![i] = @ + 1]
        /\ pc' = [pc EXCEPT ![w] = "running"]
        /\ UNCHANGED <<uncertain, backend>>
    BY <1>16, Zenon DEF Execute, Goto, i
  <2>2. pc'[w] = "running" /\ \A v \in Workers \ {w} : pc'[v] = pc[v]
    BY <1>3, <2>1, Zenon
  <2>3. executions'[i] = 1 /\ \A j \in Intents \ {i} : executions'[j] = executions[j]
    BY <1>1, <1>3, <1>6, <2>1 DEF i
  <2>4. "running" \in Executed \cap Answering /\ executions'[i] <= 1
    BY <2>3 DEF Executed, Answering
  <2> QED  BY <1>5, <2>1, <2>2, <2>3, <2>4, Zenon
<1>17. CASE DeliverApplied(w)
  <2>1. /\ pc[w] = "deliver"
        /\ backend' = [backend EXCEPT ![i] = "terminal"]
        /\ pc' = [pc EXCEPT ![w] = "relGeneral"] \/ pc' = pc
        /\ UNCHANGED <<uncertain, executions>>
    BY <1>17, Zenon DEF DeliverApplied, Goto, i
  <2>2. /\ pc'[w] \in {"relGeneral", "deliver"}
        /\ \A v \in Workers \ {w} : pc'[v] = pc[v]
    BY <1>3, <2>1, Zenon
  <2>3. backend'[i] = "terminal" /\ \A j \in Intents \ {i} : backend'[j] = backend[j]
    BY <1>1, <1>3, <2>1, Zenon DEF i
  <2> QED  BY <1>5, <1>6, <2>1, <2>2, <2>3, Zenon DEF i
<1> QED
  BY <1>9, <1>10, <1>11, <1>12, <1>13, <1>14, <1>15, <1>16, <1>17, Zenon
     DEF Session, Claim, Deliver

\* A release answers for nothing any more.
LEMMA ReleaseClaim ==
    ASSUME ClaimInv, NEW w \in Workers, Release(w)
    PROVE  OwnIntentInv' /\ EveryIntentInv'
<1>0. TypeOK /\ OwnIntentInv /\ EveryIntentInv
  BY DEF ClaimInv, SessionInv, PoolInv
<1>1. UNCHANGED <<ctxDone, backend, executions>>
  BY Zenon DEF Release, ReleaseGeneral, ReleaseGuard, ReleaseWake, Notify, Unreserve,
         SessionOnly, control
<1>2. /\ pc[w] \in {"relGeneral", "relGuard", "relWake", "notify", "unreserve"}
      /\ pc'[w] \in {"relGuard", "relWake", "notify", "unreserve", "idle"}
      /\ \A v \in Workers \ {w} :
            pc'[v] = pc[v] /\ job'[v] = job[v] /\ uncertain'[v] = uncertain[v]
  <2>1. /\ w \in DOMAIN pc /\ pc = [v \in DOMAIN pc |-> pc[v]]
        /\ w \in DOMAIN job /\ w \in DOMAIN uncertain
        /\ Workers = DOMAIN pc /\ Workers = DOMAIN job /\ Workers = DOMAIN uncertain
    BY <1>0 DEF TypeOK
  <2>2. \E phase \in {"relGuard", "relWake", "notify", "unreserve", "idle"} :
           pc' = [pc EXCEPT ![w] = phase]
    BY Zenon DEF Release, ReleaseGeneral, ReleaseGuard, ReleaseWake, Notify, Unreserve, Goto
  <2>3. pc[w] \in {"relGeneral", "relGuard", "relWake", "notify", "unreserve"}
    BY Zenon DEF Release, ReleaseGeneral, ReleaseGuard, ReleaseWake, Notify, Unreserve
  <2>4. /\ job' = job \/ job' = [job EXCEPT ![w] = NoEntry]
        /\ uncertain' = uncertain \/ uncertain' = [uncertain EXCEPT ![w] = FALSE]
    BY Zenon DEF Release, ReleaseGeneral, ReleaseGuard, ReleaseWake, Notify, Unreserve,
       SessionOnly
  <2>5. /\ pc'[w] \in {"relGuard", "relWake", "notify", "unreserve", "idle"}
        /\ \A v \in Workers \ {w} : pc'[v] = pc[v]
    BY <2>1, <2>2, Zenon
  <2>6. \A v \in Workers \ {w} : job'[v] = job[v] /\ uncertain'[v] = uncertain[v]
    BY <2>1, <2>4, Zenon
  <2> QED  BY <2>3, <2>5, <2>6, Zenon
<1>3. OwnIntentInv'
  <2>1. ~(pc'[w] \in {"claiming", "recover", "claimed", "start"})
    BY <1>2
  <2>2. ASSUME NEW v \in Workers, pc'[v] \in {"claiming", "recover", "claimed", "start"}
        PROVE  v # w /\ pc'[v] = pc[v] /\ job'[v] = job[v] /\ uncertain'[v] = uncertain[v]
    BY <1>2, <2>1, <2>2, Zenon
  <2>3. ASSUME NEW v \in Workers, pc'[v] \in {"claiming", "recover", "claimed", "start"}
        PROVE  /\ pc'[v] \in {"claiming", "recover"} =>
                     executions'[job'[v].id] = 0 \/ backend'[job'[v].id] = "terminal"
               /\ pc'[v] = "claimed" => executions'[job'[v].id] = 0
               /\ pc'[v] = "start" =>
                     \/ executions'[job'[v].id] = 0
                     \/ backend'[job'[v].id] = "terminal" \/ ctxDone'
               /\ pc'[v] = "recover" => uncertain'[v]
               /\ pc'[v] \in {"start", "claiming"} /\ ~uncertain'[v] /\ ~ctxDone' =>
                     backend'[job'[v].id] # "claimed"
    <3>1. pc'[v] = pc[v] /\ job'[v] = job[v] /\ uncertain'[v] = uncertain[v]
      BY <2>2, <2>3, Zenon
    <3> QED  BY <1>0, <1>1, <3>1, Zenon DEF OwnIntentInv
  <2> QED  BY <2>3, Zenon DEF OwnIntentInv
<1>4. EveryIntentInv'
  <2>1. \A v \in Workers : pc[v] \in Executed \cup Answering => v # w
    BY <1>2, Zenon DEF Executed, Answering
  <2> QED  BY <1>0, <1>1, <1>2, <2>1 DEF EveryIntentInv
<1> QED  BY <1>3, <1>4

\* Ending an intent and cancelling the context only weaken what is claimed.
LEMMA OtherClaim ==
    ASSUME ClaimInv, \/ Run /\ ~ \E w \in Workers : Launch(w)
                     \/ Environment
                     \/ UNCHANGED vars
    PROVE  OwnIntentInv' /\ EveryIntentInv'
<1>0. TypeOK /\ OwnIntentInv /\ EveryIntentInv
  BY DEF ClaimInv, SessionInv, PoolInv
<1>1. /\ UNCHANGED <<sessVars, executions>>
      /\ ctxDone' = ctxDone \/ ctxDone' = TRUE
      /\ \A j \in Intents : backend'[j] = backend[j] \/ backend'[j] = "terminal"
  <2>1. CASE Run /\ ~ \E w \in Workers : Launch(w)
    BY <2>1, Zenon DEF Run, PollNothing, PollListing, EndBatch, ConsiderDKG,
                ConsiderSIGN, AdmitRefused, Awaited, RunReturns, control
  <2>2. CASE (\E open \in BOOLEAN : SetDKGAdmissionOpen(open)) \/ Wake \/ DrainSlot
    BY <2>2, Zenon DEF SetDKGAdmissionOpen, Wake, DrainSlot, control
  <2>3. CASE Cancel \/ UNCHANGED vars
    BY <2>3, Zenon DEF Cancel, vars, control
  <2>4. ASSUME NEW k \in Intents, BackendEnds(k)
        PROVE  /\ UNCHANGED <<ctxDone, sessVars, executions>>
               /\ \A j \in Intents : backend'[j] = backend[j] \/ backend'[j] = "terminal"
    BY <1>0, <2>4, Zenon DEF BackendEnds, control, TypeOK
  <2> QED  BY <2>1, <2>2, <2>3, <2>4, Zenon DEF Environment
<1>2. \A w \in Workers : Live(w) => job[w].id \in Intents
  <2>1. \A w \in Workers : Live(w) => job[w] \in Entries
    BY Zenon DEF ClaimInv, SessionInv, PoolInv, JobOK
  <2> QED
    BY <2>1 DEF Entries
<1>3. OwnIntentInv'
  <2>1. UNCHANGED <<pc, job, uncertain, executions>>
    BY <1>1, Zenon DEF sessVars
  <2>2. ASSUME NEW w \in Workers, pc[w] \in {"claiming", "recover", "claimed", "start"}
        PROVE  job[w].id \in Intents
    BY <1>2, <2>2 DEF Live
  <2> QED
    BY <1>0, <1>1, <2>1, <2>2 DEF OwnIntentInv
<1>4. EveryIntentInv'
  BY <1>0, <1>1 DEF EveryIntentInv, sessVars
<1> QED  BY <1>3, <1>4

\* Every step keeps what sessions and intents promise each other.
LEMMA ClaimInvStep == ClaimInv /\ [Next]_vars => ClaimInv'
<1> SUFFICES ASSUME ClaimInv, [Next]_vars PROVE OwnIntentInv' /\ EveryIntentInv'
  BY SessionInvStep DEF ClaimInv
<1> QED
  BY LaunchClaim, SessionClaim, ReleaseClaim, OtherClaim, Zenon DEF Next

\* For every instance, and whatever claims are lost, repeated or refused, the
\* protocol is run at most once for an intent.
THEOREM ExecutedOnce == Spec => []AtMostOneExecution
<1>1. ClaimInv => AtMostOneExecution
  BY DEF ClaimInv, EveryIntentInv, AtMostOneExecution
<1> QED  BY ClaimInvInit, ClaimInvStep, <1>1, PTL DEF Spec

\* For every instance, an intent claimed by this process has a session that
\* answers for it until the context is cancelled.
THEOREM ClaimsNotAbandoned == Spec => []NoAbandonedClaim
<1>1. ClaimInv => NoAbandonedClaim
  BY DEF ClaimInv, EveryIntentInv, NoAbandonedClaim, Answering, Holding
<1> QED  BY ClaimInvInit, ClaimInvStep, <1>1, PTL DEF Spec

\* For every instance, Run returns only after the last session, leaving no
\* reservation and no permit behind.
THEOREM RunExitsClean == Spec => []ExitIsClean
<1> DEFINE Joined == spc = "exited" => \A w \in Workers : ~Live(w)
<1>1. Init => Joined
  BY DEF Init
<1>2. SessionInv /\ Joined /\ [Next]_vars => Joined'
  <2> SUFFICES ASSUME SessionInv, Joined, [Next]_vars, spc' = "exited"
               PROVE  \A w \in Workers : ~Live(w)'
    OBVIOUS
  <2>1. CASE Run
    <3>1. (\A w \in Workers : ~Live(w)) /\ UNCHANGED sessVars
      BY <2>1, Zenon DEF Run, PollNothing, PollListing, EndBatch, ConsiderDKG,
           ConsiderSIGN, NextEntry, AdmitRefused, Launch, Awaited, RunReturns
    <3> QED  BY <3>1 DEF Live, sessVars
  <2>2. ASSUME NEW w \in Workers, Session(w) PROVE FALSE
    <3>1. spc' = spc /\ Live(w)
      BY <2>2, SessionSteps, Zenon
         DEF SessionInv, PoolInv, InnerStep, Release, ReleaseGeneral,
             ReleaseGuard, ReleaseWake, Notify, Unreserve, SessionOnly, runVars,
             Live, Holding
    <3> QED  BY <3>1
  <2>3. CASE Environment \/ UNCHANGED vars
    <3>1. UNCHANGED <<runVars, sessVars>>
      BY <2>3, Zenon DEF Environment, SetDKGAdmissionOpen, Wake, Cancel, DrainSlot,
                  BackendEnds, vars
    <3> QED  BY <3>1 DEF runVars, sessVars, Live
  <2> QED  BY <2>1, <2>2, <2>3 DEF Next
<1>3. SessionInv /\ Joined => ExitIsClean
  <2> SUFFICES ASSUME SessionInv, \A w \in Workers : ~Live(w)
               PROVE  inFlight = {} /\ guard = 0 /\ general = drained
    BY DEF ExitIsClean
  <2>1. GeneralHolders = {} /\ GuardHolders = {}
    BY DEF GeneralHolders, GuardHolders, HoldsGeneral, HoldsGuard, Live, Holding
  <2>2. inFlight = {}
    BY DEF SessionInv, OneSessionPerIntent
  <2> QED
    BY <2>1, <2>2, Accounting, FS_EmptySet DEF SessionInv, PoolInv, TypeOK
<1> QED  BY SessionInvInit, SessionInvStep, <1>1, <1>2, <1>3, PTL DEF Spec
=============================================================================

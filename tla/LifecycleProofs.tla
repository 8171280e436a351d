--------------------------- MODULE LifecycleProofs ---------------------------
(* The safety invariants of Lifecycle, proved for both configurations.     *)
EXTENDS Lifecycle, TLAPS

Before == {"start", "open", "publisher", "reconcile"}
Cleared == {"stopIntake", "cancel", "drain", "waitPublisher", "close",
            "unlock", "exit"}

\* What main owns at each of its steps.
OwnInv ==
    /\ main \in Before \cup {"scheduler"} => sched = "off"
    /\ main \in Before => pub = "none"
    /\ main \in {"intake", "observe", "publish", "running"} => sched # "off"
    /\ main = "start" => ~lock
    /\ main \in {"start", "open", "unlock", "exit"} => ~capabilities
    /\ main \in {"publisher", "reconcile", "scheduler", "intake", "observe",
                 "publish", "running"} => capabilities
    /\ capabilities => lock
    /\ main = "open" => lock
    /\ sched \in {"off", "exited"} => ~busy
    /\ sched # "off" /\ main \notin {"unlock", "exit"} => capabilities
    /\ pub # "none" /\ main \notin {"unlock", "exit"} => capabilities
    /\ main \in {"close", "unlock", "exit"} => pub \in {"none", "done"}
    /\ main \in {"unlock", "exit"} => sched \in {"off", "exited"}

\* The fate of the DKG a previous process left behind is settled.
Settled == disposition = "eligible" \/ delivered

GateInv ==
    /\ main \in Before => disposition = "unknown"
    /\ main \in {"scheduler", "intake", "observe", "publish", "running"} =>
          disposition # "unknown"
    /\ disposition = "deferred" => pub = "none"
    /\ pub \in {"check", "open", "recheck", "write"} => delivered
    /\ confirmed => delivered
    /\ admission => Settled
    /\ admitted => Settled

\* A snapshot that offers provisioning, or lets a health request offer it, may
\* do so.
Offers(snapshot) ==
    /\ snapshot.provisioning => snapshot.process
    /\ canRefreshProvisioning(snapshot) => Settled

ReadyInv ==
    /\ Offers(draft) /\ Offers(seen) /\ Offers(readiness) /\ Offers(response)
    /\ readiness.process => lock /\ capabilities /\ sched # "off"
    /\ seen.process => sched # "off"
    /\ main \in Cleared \cup {"clear"} => stopping
    /\ pub = "write" => ~stopping /\ mu = "publisher"
    /\ main \in Cleared => readiness = NoSnapshot

Inv == TypeOK /\ OwnInv /\ GateInv /\ ReadyInv

-----------------------------------------------------------------------------
\* NoSnapshot is a snapshot that promises nothing.
LEMMA NoSnapshotType ==
    /\ NoSnapshot \in Snapshots
    /\ ~NoSnapshot.process /\ ~NoSnapshot.signing /\ ~NoSnapshot.provisioning
BY DEF NoSnapshot, Snapshots, Reasons

\* Refreshing the provisioning part of a snapshot changes nothing else.
LEMMA ProvisioningType ==
    ASSUME NEW s \in Snapshots, NEW ready \in BOOLEAN
    PROVE  /\ Provisioning(s, ready) \in Snapshots
           /\ Provisioning(s, ready).process = s.process
           /\ Provisioning(s, ready).provisioning = ready
BY Zenon DEF Provisioning, Snapshots, Reasons

\* A health answer promises no more than its snapshot.
LEMMA AnswersType ==
    ASSUME NEW s \in Snapshots, NEW a \in Answers(s)
    PROVE  a \in Snapshots /\ (a = s \/ (~a.process /\ ~a.provisioning))
BY Zenon DEF Answers, NoSnapshot, Snapshots, Reasons

\* The snapshot Start drafts.
LEMMA DraftType ==
    ASSUME SnapshotsOK, FlagsOK, Observe
    PROVE  /\ draft' \in Snapshots
           /\ draft'.provisioning => draft'.process
           /\ canRefreshProvisioning(draft)' =>
                 /\ disposition # "deferred"
                 /\ disposition = "publish" => confirmed
<1>1. PICK signing \in BOOLEAN, ready \in BOOLEAN :
         LET base == [NoSnapshot EXCEPT
                          !.process = signing,
                          !.signing = signing /\ ~SigningDisabled]
         IN draft' =
              CASE disposition = "deferred" ->
                     [base EXCEPT !.reason = "deferred"]
                [] disposition = "publish" /\ ~confirmed ->
                     [base EXCEPT !.reason = "unconfirmed"]
                [] OTHER -> Provisioning(base, signing /\ ready)
    BY Zenon DEF Observe
<1> DEFINE base == [NoSnapshot EXCEPT
                        !.process = signing,
                        !.signing = signing /\ ~SigningDisabled]
<1>2. base \in Snapshots /\ base.process = signing /\ ~base.provisioning
    BY SigningAssumption, Zenon DEF NoSnapshot, Snapshots, Reasons
<1>3. CASE disposition = "deferred"
    <2>1. draft' = [base EXCEPT !.reason = "deferred"]
        BY <1>1, <1>3
    <2> HIDE DEF base
    <2> QED
        BY <1>2, <2>1 DEF Snapshots, Reasons, canRefreshProvisioning
<1>4. CASE disposition = "publish" /\ ~confirmed
    <2>1. draft' = [base EXCEPT !.reason = "unconfirmed"]
        BY <1>1, <1>4
    <2> HIDE DEF base
    <2> QED
        BY <1>2, <2>1 DEF Snapshots, Reasons, canRefreshProvisioning
<1>5. CASE disposition # "deferred" /\ ~(disposition = "publish" /\ ~confirmed)
    <2>1. draft' = Provisioning(base, signing /\ ready)
        BY <1>1, <1>5
    <2> HIDE DEF base
    <2>2. (signing /\ ready) \in BOOLEAN
        OBVIOUS
    <2>3. /\ draft' \in Snapshots
          /\ draft'.process = base.process
          /\ draft'.provisioning = (signing /\ ready)
        BY <1>2, <2>1, <2>2, ProvisioningType, Zenon
    <2> QED
        BY <1>2, <1>5, <2>3
<1> QED
    BY <1>3, <1>4, <1>5, Zenon

-----------------------------------------------------------------------------
\* Flags stay flags.
LEMMA FlagsStep == FlagsOK /\ [Next]_vars => FlagsOK'
<1> SUFFICES ASSUME FlagsOK, [Next]_vars PROVE FlagsOK'
    OBVIOUS
<1> USE DEF FlagsOK, mainVars, resVars, foundVars, otherVars, coordVars, pubVars,
            schedVars, healthVars
<1>1. CASE AcquireLock
    <2>1. lock' \in BOOLEAN
        BY <1>1, Zenon DEF AcquireLock, Abort
    <2>2. aborting' \in BOOLEAN
        BY <1>1, Zenon DEF AcquireLock, Abort
    <2>3. UNCHANGED <<signal, cancelled, capabilities,
                    coordVars, pubVars, schedVars, healthVars>>
        BY <1>1, Zenon DEF AcquireLock, Abort
    <2> QED
        BY <2>1, <2>2, <2>3
<1>2. CASE OpenCapabilities
    <2>1. capabilities' \in BOOLEAN
        BY <1>2, Zenon DEF OpenCapabilities, Abort
    <2>2. aborting' \in BOOLEAN
        BY <1>2, Zenon DEF OpenCapabilities, Abort
    <2>3. UNCHANGED <<signal, cancelled, lock,
                    coordVars, pubVars, schedVars, healthVars>>
        BY <1>2, Zenon DEF OpenCapabilities, Abort
    <2> QED
        BY <2>1, <2>2, <2>3
<1>3. CASE StartPublisher
    <2>1. aborting' \in BOOLEAN
        BY <1>3, Zenon DEF StartPublisher, Abort
    <2>2. UNCHANGED <<signal, cancelled, lock, capabilities,
                    coordVars, pubVars, schedVars, healthVars>>
        BY <1>3, Zenon DEF StartPublisher, Abort
    <2> QED
        BY <2>1, <2>2
<1>4. CASE ReconcileFails
    BY <1>4 DEF ReconcileFails, Abort
<1>5. CASE ReconcileEligible
    <2>1. admission' \in BOOLEAN
        BY <1>5, Zenon DEF ReconcileEligible
    <2>2. UNCHANGED <<aborting, resVars, coordVars, pubVars, busy,
                    drained, admitted, healthVars>>
        BY <1>5, Zenon DEF ReconcileEligible
    <2> QED
        BY <2>1, <2>2
<1>6. CASE ReconcileDeferred
    <2>1. latched' \in BOOLEAN
        BY <1>6, Zenon DEF ReconcileDeferred
    <2>2. admission' \in BOOLEAN
        BY <1>6, Zenon DEF ReconcileDeferred
    <2>3. UNCHANGED <<aborting, resVars, stopping, confirmed, pubVars, busy,
                    drained, admitted, healthVars>>
        BY <1>6, Zenon DEF ReconcileDeferred
    <2> QED
        BY <2>1, <2>2, <2>3
<1>7. CASE ReconcilePublish
    <2>1. aborting' \in BOOLEAN
        BY <1>7, Zenon DEF ReconcilePublish, Abort
    <2>2. admission' \in BOOLEAN
        BY <1>7, Zenon DEF ReconcilePublish, Abort
    <2>3. UNCHANGED <<signal, cancelled, lock, capabilities, coordVars,
                    delivered, busy, drained, admitted, healthVars>>
        BY <1>7, Zenon DEF ReconcilePublish, Abort
    <2> QED
        BY <2>1, <2>2, <2>3
<1>8. CASE StartScheduler
    BY <1>8 DEF StartScheduler
<1>9. CASE StartIntake
    <2>1. listening' \in BOOLEAN
        BY <1>9, Zenon DEF StartIntake, Abort
    <2>2. aborting' \in BOOLEAN
        BY <1>9, Zenon DEF StartIntake, Abort
    <2>3. UNCHANGED <<signal, cancelled, lock, capabilities,
                    coordVars, pubVars, schedVars>>
        BY <1>9, Zenon DEF StartIntake, Abort
    <2> QED
        BY <2>1, <2>2, <2>3
<1>10. CASE Observe
    BY <1>10 DEF Observe
<1>11. CASE Publish
    BY <1>11 DEF Publish
<1>12. CASE Signalled
    BY <1>12 DEF Signalled
<1>13. CASE Stop
    <2>1. stopping' \in BOOLEAN
        BY <1>13, Zenon DEF Stop
    <2>2. admission' \in BOOLEAN
        BY <1>13, Zenon DEF Stop
    <2>3. UNCHANGED <<aborting, resVars, latched, confirmed, pubVars,
                    busy, drained, admitted, healthVars>>
        BY <1>13, Zenon DEF Stop
    <2> QED
        BY <2>1, <2>2, <2>3
<1>14. CASE ClearReadiness
    BY <1>14 DEF ClearReadiness
<1>15. CASE StopIntake
    <2>1. listening' \in BOOLEAN
        BY <1>15, Zenon DEF StopIntake
    <2>2. UNCHANGED <<aborting, resVars, coordVars, pubVars, schedVars>>
        BY <1>15, Zenon DEF StopIntake
    <2> QED
        BY <2>1, <2>2
<1>16. CASE Cancel
    <2>1. cancelled' \in BOOLEAN
        BY <1>16, Zenon DEF Cancel
    <2>2. UNCHANGED <<aborting, signal, lock, capabilities, otherVars>>
        BY <1>16, Zenon DEF Cancel
    <2> QED
        BY <2>1, <2>2
<1>17. CASE Drain
    <2>1. drained' \in BOOLEAN
        BY <1>17, Zenon DEF Drain
    <2>2. UNCHANGED <<aborting, resVars, coordVars, pubVars, admission,
                    busy, admitted, healthVars>>
        BY <1>17, Zenon DEF Drain
    <2> QED
        BY <2>1, <2>2
<1>18. CASE WaitPublisher
    BY <1>18 DEF WaitPublisher
<1>19. CASE CloseCapabilities
    <2>1. capabilities' \in BOOLEAN
        BY <1>19, Zenon DEF CloseCapabilities
    <2>2. UNCHANGED <<aborting, signal, cancelled, lock,
                    coordVars, pubVars, schedVars, healthVars>>
        BY <1>19, Zenon DEF CloseCapabilities
    <2> QED
        BY <2>1, <2>2
<1>20. CASE ReleaseLock
    <2>1. lock' \in BOOLEAN
        BY <1>20, Zenon DEF ReleaseLock
    <2>2. UNCHANGED <<aborting, signal, cancelled, capabilities,
                    coordVars, pubVars, schedVars, healthVars>>
        BY <1>20, Zenon DEF ReleaseLock
    <2> QED
        BY <2>1, <2>2
<1>21. CASE PublishSucceeds
    <2>1. delivered' \in BOOLEAN
        BY <1>21, Zenon DEF PublishSucceeds
    <2>2. UNCHANGED <<mainVars, coordVars, schedVars, healthVars>>
        BY <1>21, Zenon DEF PublishSucceeds
    <2> QED
        BY <2>1, <2>2
<1>22. CASE PublishStops
    BY <1>22 DEF PublishStops
<1>23. CASE Confirm
    <2>1. confirmed' \in BOOLEAN
        BY <1>23, Zenon DEF Confirm
    <2>2. UNCHANGED <<mainVars, stopping, latched, delivered,
                    schedVars, healthVars>>
        BY <1>23, Zenon DEF Confirm
    <2> QED
        BY <2>1, <2>2
<1>24. CASE OpenAdmission
    <2>1. admission' \in BOOLEAN
        BY <1>24, Zenon DEF OpenAdmission
    <2>2. UNCHANGED <<mainVars, coordVars, delivered, busy, drained,
                    admitted, healthVars>>
        BY <1>24, Zenon DEF OpenAdmission
    <2> QED
        BY <2>1, <2>2
<1>25. CASE Recheck
    BY <1>25 DEF Recheck
<1>26. CASE Refresh
    BY <1>26 DEF Refresh
<1>27. CASE ConsiderEntry
    BY <1>27 DEF ConsiderEntry
<1>28. CASE SkipEntry
    BY <1>28 DEF SkipEntry
<1>29. ASSUME NEW dkg \in BOOLEAN, LaunchEntry(dkg) PROVE FlagsOK'
    <2>1. busy' \in BOOLEAN
        BY <1>29, Zenon DEF LaunchEntry
    <2>2. admitted' \in BOOLEAN
        BY <1>29, Zenon DEF LaunchEntry
    <2>3. UNCHANGED <<mainVars, coordVars, pubVars, admission, drained,
                    healthVars>>
        BY <1>29, Zenon DEF LaunchEntry
    <2> QED
        BY <2>1, <2>2, <2>3
<1>30. CASE SessionsEnd
    <2>1. busy' \in BOOLEAN
        BY <1>30, Zenon DEF SessionsEnd
    <2>2. UNCHANGED <<mainVars, coordVars, pubVars, admission, drained,
                    admitted, healthVars>>
        BY <1>30, Zenon DEF SessionsEnd
    <2> QED
        BY <2>1, <2>2
<1>31. CASE RunReturns
    BY <1>31 DEF RunReturns
<1>32. CASE HealthDirect
    BY <1>32 DEF HealthDirect
<1>33. CASE HealthProbe
    BY <1>33 DEF HealthProbe
<1>34. CASE HealthRefresh
    BY <1>34 DEF HealthRefresh
<1>35. CASE Signal
    <2>1. signal' \in BOOLEAN
        BY <1>35, Zenon DEF Signal
    <2>2. UNCHANGED <<aborting, cancelled, lock, capabilities, otherVars>>
        BY <1>35, Zenon DEF Signal
    <2> QED
        BY <2>1, <2>2
<1>36. CASE UNCHANGED vars
    BY <1>36 DEF vars
<1> QED
    BY <1>1, <1>2, <1>3, <1>4, <1>5, <1>6, <1>7, <1>8, <1>9, <1>10, <1>11,
       <1>12, <1>13, <1>14, <1>15, <1>16, <1>17, <1>18, <1>19, <1>20, <1>21,
       <1>22, <1>23, <1>24, <1>25, <1>26, <1>27, <1>28, <1>29, <1>30, <1>31,
       <1>32, <1>33, <1>34, <1>35, <1>36, Zenon
       DEF Next, Start, Shutdown, Publisher, PublicationDone, SchedulerSteps, Health

-----------------------------------------------------------------------------
\* What is settled stays settled: reconciliation decides once, and an
\* acknowledgement is not taken back.
LEMMA SettledStep ==
    ASSUME TypeOK, GateInv, [Next]_vars, Settled
    PROVE  Settled'
<1> USE DEF TypeOK, FlagsOK, GateInv, Before, Settled, mainVars, foundVars,
            otherVars, pubVars
<1>1. CASE Start
    BY <1>1, Zenon DEF Start, AcquireLock, OpenCapabilities, StartPublisher,
          ReconcileFails, ReconcileEligible, ReconcileDeferred,
          ReconcilePublish, StartScheduler, StartIntake, Observe, Publish
<1>2. CASE Shutdown
    BY <1>2, Zenon DEF Shutdown, Signalled, Stop, ClearReadiness, StopIntake, Cancel,
          Drain, WaitPublisher, CloseCapabilities, ReleaseLock
<1>3. CASE Publisher
    BY <1>3, Zenon DEF Publisher, PublicationDone, PublishSucceeds, PublishStops,
          Confirm, OpenAdmission, Recheck, Refresh
<1>4. CASE SchedulerSteps \/ Health \/ Signal \/ UNCHANGED vars
    BY <1>4, Zenon DEF SchedulerSteps, ConsiderEntry, SkipEntry, LaunchEntry,
          SessionsEnd, RunReturns, Health, HealthDirect, HealthProbe,
          HealthRefresh, Signal, vars
<1> QED
    BY <1>1, <1>2, <1>3, <1>4, Zenon DEF Next

SnapshotInv ==
    /\ SnapshotsOK
    /\ Offers(draft) /\ Offers(seen) /\ Offers(readiness) /\ Offers(response)

\* Snapshots stay snapshots, and no step makes one offer what it may not.
LEMMA SnapshotsStep ==
    ASSUME TypeOK, GateInv, ReadyInv, [Next]_vars
    PROVE  SnapshotInv'
<1> USE DEF TypeOK, SnapshotsOK, SnapshotInv, ReadyInv, Offers, mainVars,
            foundVars, otherVars, pubVars, healthVars
<1>1. Settled => Settled'
    BY SettledStep, Zenon
<1>2. CASE UNCHANGED <<draft, seen, readiness, response>>
    BY <1>1, <1>2, Zenon
<1>3. CASE Observe
    <2>1. /\ draft' \in Snapshots
          /\ draft'.provisioning => draft'.process
          /\ canRefreshProvisioning(draft)' =>
                /\ disposition # "deferred"
                /\ disposition = "publish" => confirmed
        BY <1>3, DraftType, Zenon
    <2>2. main = "observe" /\ UNCHANGED <<seen, readiness, response>>
        BY <1>3, Zenon DEF Observe, pubVars, healthVars
    <2>3. canRefreshProvisioning(draft)' => Settled
        BY <2>1, <2>2, Zenon DEF GateInv, Settled
    <2> QED
        BY <1>1, <2>1, <2>2, <2>3, Zenon
<1>4. CASE Publish
    BY <1>1, <1>4, Zenon DEF Publish, pubVars
<1>5. CASE ClearReadiness
    BY <1>1, <1>5, NoSnapshotType, Zenon
       DEF ClearReadiness, canRefreshProvisioning, pubVars
<1>6. CASE Recheck
    BY <1>1, <1>6, Zenon DEF Recheck, mainVars, healthVars
<1>7. CASE Refresh
    <2>1. PICK ready \in BOOLEAN :
             readiness' = Provisioning(seen, seen.process /\ ready)
        BY <1>7, Zenon DEF Refresh
    <2>2. seen \in Snapshots /\ (seen.process /\ ready) \in BOOLEAN
        BY Zenon DEF Snapshots
    <2>3. /\ readiness' \in Snapshots
          /\ readiness'.process = seen.process
          /\ readiness'.provisioning = (seen.process /\ ready)
        BY <2>1, <2>2, ProvisioningType, Zenon
    <2>4. UNCHANGED <<draft, response>> /\ seen' = NoSnapshot /\ delivered
        BY <1>7, Zenon DEF Refresh, mainVars, GateInv
    <2> QED
        BY <1>1, <2>3, <2>4, NoSnapshotType, Zenon DEF Settled
<1>8. CASE HealthDirect
    <2>1. response' \in Answers(readiness) /\ UNCHANGED <<draft, seen, readiness>>
        BY <1>8, Zenon DEF HealthDirect, mainVars, pubVars
    <2>2. /\ response' \in Snapshots
          /\ \/ response' = readiness
             \/ ~response'.process /\ ~response'.provisioning
        BY <2>1, AnswersType, Zenon
    <2> QED
        BY <1>1, <2>1, <2>2, Zenon DEF canRefreshProvisioning
<1>9. CASE HealthRefresh
    <2>1. PICK ready \in BOOLEAN :
             response' \in Answers(IF canRefreshProvisioning(readiness)
                                  THEN Provisioning(readiness, ready)
                                  ELSE readiness)
        BY <1>9, Zenon DEF HealthRefresh
    <2>2. UNCHANGED <<draft, seen, readiness>>
        BY <1>9, Zenon DEF HealthRefresh, mainVars, pubVars
    <2> DEFINE fresh == Provisioning(readiness, ready)
    <2>3. fresh \in Snapshots /\ fresh.process = readiness.process
        BY ProvisioningType, Zenon
    <2> HIDE DEF fresh
    <2>4. CASE canRefreshProvisioning(readiness)
        <3>1. response' \in Answers(fresh)
            BY <2>1, <2>4, Zenon DEF fresh
        <3>2. /\ response' \in Snapshots
              /\ response' = fresh \/ (~response'.process /\ ~response'.provisioning)
            BY <2>3, <3>1, AnswersType, Zenon
        <3> QED
            BY <1>1, <2>2, <2>3, <2>4, <3>2, Zenon DEF canRefreshProvisioning
    <2>5. CASE ~canRefreshProvisioning(readiness)
        <3>1. response' \in Answers(readiness)
            BY <2>1, <2>5, Zenon
        <3>2. /\ response' \in Snapshots
              /\ \/ response' = readiness
                 \/ ~response'.process /\ ~response'.provisioning
            BY <3>1, AnswersType, Zenon
        <3> QED
            BY <1>1, <2>2, <3>2, Zenon DEF canRefreshProvisioning
    <2> QED
        BY <2>4, <2>5, Zenon
<1>10. CASE
         AcquireLock \/ OpenCapabilities \/ StartPublisher \/ ReconcileFails
         \/ ReconcileEligible \/ ReconcileDeferred
         \/ ReconcilePublish \/ StartScheduler \/ StartIntake
    BY <1>2, <1>10, Zenon
       DEF AcquireLock, OpenCapabilities, StartPublisher, ReconcileFails,
           ReconcileEligible, ReconcileDeferred,
           ReconcilePublish, StartScheduler, StartIntake, pubVars, healthVars
<1>11. CASE
         Signalled \/ Stop \/ StopIntake \/ Cancel \/ Drain \/ WaitPublisher
         \/ CloseCapabilities \/ ReleaseLock \/ Signal
    BY <1>2, <1>11, Zenon
       DEF Signalled, Stop, StopIntake, Cancel, Drain, WaitPublisher,
           CloseCapabilities, ReleaseLock, Signal, pubVars, healthVars
<1>12. CASE
         PublishSucceeds \/ PublishStops \/ Confirm \/ OpenAdmission
         \/ SchedulerSteps \/ HealthProbe \/ UNCHANGED vars
    BY <1>2, <1>12, Zenon
       DEF PublishSucceeds, PublishStops, Confirm, OpenAdmission,
           SchedulerSteps, ConsiderEntry, SkipEntry, LaunchEntry, SessionsEnd,
           RunReturns, HealthProbe, vars, mainVars, pubVars, healthVars
<1> QED
    BY <1>3, <1>4, <1>5, <1>6, <1>7, <1>8, <1>9, <1>10, <1>11, <1>12, Zenon
       DEF Next, Start, Shutdown, Publisher, PublicationDone, Health

\* Every step of Start keeps the inductive invariant.
LEMMA InvStart ==
    ASSUME Inv, Start, FlagsOK', SnapshotInv'
    PROVE  Inv'
<1> USE DEF Inv, TypeOK, MainSteps, FlagsOK, SnapshotInv, OwnInv, GateInv,
            ReadyInv, Before, Cleared, Settled, mainVars, resVars, foundVars,
            otherVars, coordVars, pubVars, schedVars, healthVars
<1>1. CASE AcquireLock
    BY <1>1, Zenon DEF AcquireLock, Goto, Abort
<1>2. CASE OpenCapabilities
    BY <1>2 DEF OpenCapabilities, Goto, Abort
<1>3. CASE StartPublisher
    BY <1>3, Zenon DEF StartPublisher, Goto, Abort
<1>4. CASE ReconcileFails
    BY <1>4, Zenon DEF ReconcileFails, Goto, Abort
<1>5. CASE ReconcileEligible
    BY <1>5, Zenon DEF ReconcileEligible, Goto
<1>6. CASE ReconcileDeferred
    BY <1>6, Zenon DEF ReconcileDeferred, Goto
<1>7. CASE ReconcilePublish
    BY <1>7, Zenon DEF ReconcilePublish, Goto, Abort
<1>8. CASE StartScheduler
    BY <1>8 DEF StartScheduler, Goto
<1>9. CASE StartIntake
    BY <1>9 DEF StartIntake, Goto, Abort
<1>10. CASE Observe
    BY <1>10 DEF Observe, Goto
<1>11. CASE Publish
    BY <1>11 DEF Publish, Goto
<1> QED
    BY <1>1, <1>2, <1>3, <1>4, <1>5, <1>6, <1>7, <1>8, <1>9, <1>10, <1>11, Zenon DEF
       Start

\* Every step of the shutdown sequence keeps the inductive invariant.
LEMMA InvShutdown ==
    ASSUME Inv, Shutdown, FlagsOK', SnapshotInv'
    PROVE  Inv'
<1> USE DEF Inv, TypeOK, MainSteps, FlagsOK, SnapshotInv, OwnInv, GateInv,
            ReadyInv, Before, Cleared, Settled, mainVars, resVars, foundVars,
            otherVars, coordVars, pubVars, schedVars, healthVars
<1>1. CASE Signalled
    BY <1>1 DEF Signalled, Goto
<1>2. CASE Stop
    BY <1>2 DEF Stop, Goto
<1>3. CASE ClearReadiness
    BY <1>3, NoSnapshotType DEF ClearReadiness, Goto
<1>4. CASE StopIntake
    BY <1>4 DEF StopIntake, Goto
<1>5. CASE Cancel
    BY <1>5 DEF Cancel, Goto
<1>6. CASE Drain
    BY <1>6 DEF Drain, Goto
<1>7. CASE WaitPublisher
    BY <1>7 DEF WaitPublisher, Goto
<1>8. CASE CloseCapabilities
    BY <1>8, NoSnapshotType DEF CloseCapabilities, Goto
<1>9. CASE ReleaseLock
    BY <1>9 DEF ReleaseLock, Goto
<1> QED
    BY <1>1, <1>2, <1>3, <1>4, <1>5, <1>6, <1>7, <1>8, <1>9, Zenon DEF Shutdown

\* Every step of the publisher goroutine keeps the inductive invariant.
LEMMA InvPublisher ==
    ASSUME Inv, Publisher, FlagsOK', SnapshotInv'
    PROVE  Inv'
<1> USE DEF Inv, TypeOK, MainSteps, FlagsOK, SnapshotInv, OwnInv, GateInv,
            ReadyInv, Before, Cleared, Settled, mainVars, resVars, foundVars,
            otherVars, coordVars, pubVars, schedVars, healthVars
<1>1. CASE PublishSucceeds
    BY <1>1 DEF PublishSucceeds
<1>2. CASE PublishStops
    BY <1>2 DEF PublishStops
<1>3. CASE Confirm
    BY <1>3 DEF Confirm
<1>4. CASE OpenAdmission
    BY <1>4 DEF OpenAdmission
<1>5. CASE Recheck
    BY <1>5 DEF Recheck
<1>6. CASE Refresh
    <2>1. PICK ready \in BOOLEAN :
             readiness' = Provisioning(seen, seen.process /\ ready)
        BY <1>6, Zenon DEF Refresh
    <2>2. seen \in Snapshots /\ (seen.process /\ ready) \in BOOLEAN
        BY Zenon DEF SnapshotsOK, Snapshots
    <2>3. readiness'.process = seen.process
        BY <2>1, <2>2, ProvisioningType, Zenon
    <2>4. seen' = NoSnapshot /\ ~NoSnapshot.process
        BY <1>6, NoSnapshotType, Zenon DEF Refresh
    <2> QED
        BY <1>6, <2>3, <2>4 DEF Refresh
<1> QED
    BY <1>1, <1>2, <1>3, <1>4, <1>5, <1>6, Zenon DEF Publisher, PublicationDone

\* Every step of the scheduler keeps the inductive invariant.
LEMMA InvSchedulerSteps ==
    ASSUME Inv, SchedulerSteps, FlagsOK', SnapshotInv'
    PROVE  Inv'
<1> USE DEF Inv, TypeOK, MainSteps, FlagsOK, SnapshotInv, OwnInv, GateInv,
            ReadyInv, Before, Cleared, Settled, mainVars, resVars, foundVars,
            otherVars, coordVars, pubVars, schedVars, healthVars
<1>1. CASE ConsiderEntry
    BY <1>1 DEF ConsiderEntry
<1>2. CASE SkipEntry
    BY <1>2 DEF SkipEntry
<1>3. ASSUME NEW dkg \in BOOLEAN, LaunchEntry(dkg) PROVE Inv'
    BY <1>3 DEF LaunchEntry
<1>4. CASE SessionsEnd
    BY <1>4 DEF SessionsEnd
<1>5. CASE RunReturns
    BY <1>5 DEF RunReturns
<1> QED
    BY <1>1, <1>2, <1>3, <1>4, <1>5, Zenon DEF SchedulerSteps

\* Every step of a health request keeps the inductive invariant.
LEMMA InvHealth ==
    ASSUME Inv, Health, FlagsOK', SnapshotInv'
    PROVE  Inv'
<1> USE DEF Inv, TypeOK, MainSteps, FlagsOK, SnapshotInv, OwnInv, GateInv,
            ReadyInv, Before, Cleared, Settled, mainVars, resVars, foundVars,
            otherVars, coordVars, pubVars, schedVars, healthVars
<1>1. CASE HealthDirect
    BY <1>1 DEF HealthDirect
<1>2. CASE HealthProbe
    BY <1>2 DEF HealthProbe
<1>3. CASE HealthRefresh
    BY <1>3 DEF HealthRefresh
<1> QED
    BY <1>1, <1>2, <1>3, Zenon DEF Health

-----------------------------------------------------------------------------
\* A new coordinator owns nothing and promises nothing.
LEMMA InvInit == Init => Inv
BY NoSnapshotType, Zenon
   DEF Init, Inv, TypeOK, FlagsOK, SnapshotsOK, MainSteps, OwnInv, GateInv,
       ReadyInv, Before, Cleared, Offers, canRefreshProvisioning

\* Every step of the process keeps the inductive invariant.
LEMMA InvStep == Inv /\ [Next]_vars => Inv'
<1> SUFFICES ASSUME Inv, [Next]_vars PROVE Inv'
    OBVIOUS
<1>1. FlagsOK' /\ SnapshotInv'
    BY FlagsStep, SnapshotsStep DEF Inv, TypeOK
<1>2. CASE Signal \/ UNCHANGED vars
    BY <1>1, <1>2
       DEF Signal, Inv, TypeOK, SnapshotInv, OwnInv, GateInv, ReadyInv, Settled,
           vars, mainVars, resVars, foundVars, otherVars, coordVars, pubVars,
           schedVars, healthVars
<1> QED
    BY <1>1, <1>2, InvStart, InvShutdown, InvPublisher, InvSchedulerSteps,
       InvHealth, Zenon DEF Next

\* So it holds throughout.
LEMMA InvHolds == Spec => []Inv
BY InvInit, InvStep, PTL DEF Spec

\* Every variable of the coordinator keeps its type, and no readiness snapshot
\* or health answer that offers provisioning carries a reason against it.
THEOREM LifecycleTypeCorrect == Spec => []TypeOK
<1>1. Inv => TypeOK
    BY DEF Inv
<1> QED
    BY <1>1, InvHolds, PTL

\* The process works under its lifetime lock only: shutdown and abortStartup
\* release it after sessions, scheduler, publisher, stores and journal.
THEOREM LockHeldWhileWorking == Spec => []LockCoversWork
<1>1. Inv => LockCoversWork
    BY DEF Inv, TypeOK, MainSteps, OwnInv, LockCoversWork, Before
<1> QED
    BY <1>1, InvHolds, PTL

\* The scheduler admits a DKG only after reconciliation found nothing open or
\* the backend acknowledged the result that was.
THEOREM DKGWaitsForResolution == Spec => []NoDKGBeforeResolution
<1>1. Inv => NoDKGBeforeResolution
    BY DEF Inv, GateInv, Settled, NoDKGBeforeResolution
<1> QED
    BY <1>1, InvHolds, PTL

\* Readiness is published only while the process owns what it promises
\* (coordinator.go Start, publicationDone).
THEOREM ReadinessIsHonest == Spec => []ReadinessJustified
<1>1. Inv => ReadinessJustified
    BY Zenon DEF Inv, TypeOK, SnapshotsOK, Snapshots, ReadyInv, Offers, Settled,
           canRefreshProvisioning, ReadinessJustified
<1> QED
    BY <1>1, InvHolds, PTL

\* Readiness is not published again after Shutdown or abortStartup has cleared
\* it, by a late confirmation either.
THEOREM ReadinessStaysCleared == Spec => []StopClosesReadiness
<1>1. Inv => StopClosesReadiness
    BY DEF Inv, ReadyInv, Cleared, StopClosesReadiness
<1> QED
    BY <1>1, InvHolds, PTL

\* A health request that probes while the lifecycle gates move answers
\* no more than the gates allow.
THEOREM HealthIsHonest == Spec => []HealthHonest
<1>1. Inv => HealthHonest
    BY Zenon DEF Inv, TypeOK, SnapshotsOK, Snapshots, ReadyInv, Offers, Settled,
           canRefreshProvisioning, HealthHonest
<1> QED
    BY <1>1, InvHolds, PTL
=============================================================================

------------------------------ MODULE DKGProofs ------------------------------
(***************************************************************************)
(* The safety of DKG over the lives of the process, for any set of         *)
(* intents, any assignment of keys to them and any number of crashes: what *)
(* the backend records as completed is on disk, no claim is forgotten, no  *)
(* party writes late, a completion that was sent stays, and the whole      *)
(* implements the abstract ceremony.                                       *)
(*                                                                         *)
(* At the end, the delays between its posts and polls, for every width of  *)
(* a duration, from what Pow2 computes.                                    *)
(*                                                                         *)
(* The invariant has four layers: what the process works on (ProcessInv),  *)
(* what the parties have left in the stores (StoreInv), what the results   *)
(* in flight and at the backend rest on (ResultInv), and who owns a claim  *)
(* (OwnerInv).                                                             *)
(***************************************************************************)
EXTENDS DKG, WellFoundedInduction, TLAPS

Starting == {"down", "probe", "list", "decide", "latched"}

Publishing == {"publish", "posted"}

Claiming == {"claim", "reclaim"}

Executing == {"begin", "acquire", "register", "start", "parties", "inspect"}

Pairs == [Stores -> Artifacts]

FailedJobs == [intent : Intents, status : {"FAILED"}, evidence : {None}]

CompletedJobs == [intent : Intents, status : {"COMPLETED"}, evidence : Pairs]

Jobs == FailedJobs \cup CompletedJobs

Statuses == {"NEW", "PENDING", "CLAIMED"} \cup Terminal

Listings == [own : SUBSET Intents, pending : SUBSET Intents]

\* Types of what the argument talks about.
DKGTypeOK ==
  /\ pc \in Starting \cup {"idle"} \cup Claiming \cup Executing \cup Publishing
  /\ file \in [Stores -> [Keys -> Artifacts \cup {NoArtifact}]]
  /\ durable \in [Stores -> SUBSET Keys]
  /\ share \in [Stores -> Artifacts \cup {NoArtifact}]
  /\ party \in [Stores -> {"off", "running", "saving", "renamed", "synced", "saved", "failed"}]
  /\ status \in [Intents -> Statuses]
  /\ evidence \in [Intents -> Pairs \cup {None}]
  /\ sent \subseteq Jobs
  /\ listing \in Listings
  /\ capable \in BOOLEAN

\* The process holds an intent exactly while it works on one, a job of that
\* intent exactly while it publishes one, the pair lease of that intent and
\* party goroutines only inside Run.
ProcessInv ==
  /\ pc \in Starting \cup {"idle"} => cur = None
  /\ pc \in Claiming \cup Executing \cup Publishing => cur \in Intents
  /\ pc \in Publishing => job \in Jobs /\ job.intent = cur
  /\ pc \notin Publishing => job = NoJob
  /\ pc \in {"start", "parties"} => active = cur
  /\ pc # "parties" => \A p \in Stores : party[p] = "off"

\* How far a party's artifact has come: encoded for the current session,
\* visible under its name, durable.
PartyLeft(p) ==
  /\ party[p] \in {"saving", "renamed", "synced", "saved"} =>
       share[p] \in Artifacts /\ share[p].session = cur
  /\ party[p] = "renamed" => KeyOf[cur] \in Visible(p)
  /\ party[p] \in {"synced", "saved"} => KeyOf[cur] \in durable[p]

\* What is durable is visible, a joined pair is durable, and at startup a
\* capable store has nothing that is visible and not durable.
StoreInv ==
  /\ \A s \in Stores : durable[s] \subseteq Visible(s)
  /\ \A p \in Stores : PartyLeft(p)
  /\ pc = "inspect" => \A s \in Stores : KeyOf[cur] \in durable[s]
  /\ pc \in {"down", "probe"} => capable = FALSE
  /\ pc \in {"list", "decide"} /\ capable => \A s \in Stores : Visible(s) \subseteq durable[s]

\* The stores hold, durably, the pair that a completion of intent i names.
Rests(i, pair) ==
  /\ \A s \in Stores : KeyOf[i] \in durable[s] /\ file[s][KeyOf[i]] = pair[s]
  /\ EvidenceMatches(pair["primary"], pair["recovery"])
  /\ pair["primary"].session = i

\* Every completion, held, in flight or recorded, rests on a durable pair.
ResultInv ==
  /\ pc \in Publishing /\ job.status = "COMPLETED" => Rests(job.intent, job.evidence)
  /\ \A j \in sent : j.status = "COMPLETED" => Rests(j.intent, j.evidence)
  /\ \A i \in Intents :
       /\ status[i] = "COMPLETED" => evidence[i] \in Pairs /\ Rests(i, evidence[i])
       /\ status[i] # "COMPLETED" => evidence[i] = None

\* A claimed intent is the current one, was in the listing, or waits for a
\* process to start.
OwnerInv ==
  /\ ClaimsAreOwned
  /\ pc = "decide" => \A i \in Intents : status[i] = "CLAIMED" => i \in listing.own
  /\ pc = "claim" => status[cur] # "CLAIMED"

\* Once a completion was sent, its intent is past its claim, and a process
\* that works on it again holds that same completion.
FinalInv ==
  /\ pc = "decide" => \A i \in listing.own : status[i] \notin {"NEW", "PENDING"}
  /\ pc \in Executing => status[cur] \notin {"NEW", "PENDING"}
  /\ pc \in Publishing /\ job.status = "COMPLETED" => status[cur] \notin {"NEW", "PENDING"}
  /\ \A done \in sent : done.status = "COMPLETED" =>
       /\ status[done.intent] \notin {"NEW", "PENDING"}
       /\ cur = done.intent => pc \in Publishing /\ job = done

-----------------------------------------------------------------------------

\* A job is a failure without evidence or a completion that names a pair.
LEMMA JobsMade ==
  ASSUME NEW i \in Intents, NEW b \in Artifacts, NEW c \in Artifacts
  PROVE  /\ FailedJob(i) \in FailedJobs
         /\ CompletedJob(i, b, c) \in CompletedJobs
  BY DEF FailedJob, CompletedJob, FailedJobs, CompletedJobs, Pairs, Stores

LEMMA JobFields ==
  ASSUME NEW j \in Jobs
  PROVE  /\ j.intent \in Intents
         /\ \/ j.status = "FAILED" /\ j.evidence = None
            \/ j.status = "COMPLETED" /\ j.evidence \in Pairs
  BY DEF Jobs, FailedJobs, CompletedJobs

LEMMA ArtifactNamed ==
  ASSUME NEW a \in Artifacts
  PROVE  a # NoArtifact /\ a.session \in Intents
  BY DKGAssumption DEF Artifacts, NoArtifact

\* A validated read returns the artifact of the session asked for, as it is.
LEMMA Inspected ==
  ASSUME DKGTypeOK, NEW s \in Stores, NEW i \in Intents, NEW a \in InspectExisting(s, i),
         a # NoArtifact
  PROVE  a \in Artifacts /\ a = file[s][KeyOf[i]] /\ a.session = i
<1>1. a = LoadValidated(file[s][KeyOf[i]], i)
  BY DEF InspectExisting
<1>2. KeyOf[i] \in Keys
  BY DEF Keys
<1>3. file[s][KeyOf[i]] \in Artifacts \cup {NoArtifact}
  BY <1>2 DEF DKGTypeOK
<1> QED
  BY <1>1, <1>3, Zenon DEF LoadValidated

\* What two validated reads agree on: the completion Run and the reconciler build.
LEMMA EvidenceRead ==
  ASSUME DKGTypeOK, NEW i \in Intents, NEW b \in InspectExisting("primary", i),
         NEW c \in InspectExisting("recovery", i), EvidenceMatches(b, c)
  PROVE  /\ CompletedJob(i, b, c) \in CompletedJobs
         /\ CompletedJob(i, b, c).intent = i
         /\ \A s \in Stores : CompletedJob(i, b, c).evidence[s] = file[s][KeyOf[i]]
         /\ CompletedJob(i, b, c).evidence["primary"] = b
         /\ CompletedJob(i, b, c).evidence["recovery"] = c
         /\ b.session = i
<1>1. b \in Artifacts /\ b = file["primary"][KeyOf[i]] /\ b.session = i
  BY Inspected DEF EvidenceMatches, Stores
<1>2. c \in Artifacts /\ c = file["recovery"][KeyOf[i]]
  BY Inspected DEF EvidenceMatches, Stores
<1>3. CompletedJob(i, b, c) \in CompletedJobs
  BY <1>1, <1>2, JobsMade, Zenon
<1> QED
  BY <1>1, <1>2, <1>3 DEF CompletedJob, Stores

\* The startup decision acts on a single candidate.
LEMMA OneCandidate ==
  ASSUME DKGTypeOK, ~ProtocolIntegrity, capable, NEW i \in Candidates
  PROVE  Candidates = {i} /\ i \in Intents
<1>1. listing.own \subseteq Intents /\ listing.pending \subseteq Intents
  BY DEF DKGTypeOK, Listings
<1>2. Candidates \subseteq Intents
  BY <1>1 DEF Candidates
<1>3. ~Several(Candidates)
  BY DEF ProtocolIntegrity
<1> QED
  BY <1>2, <1>3 DEF Several

-----------------------------------------------------------------------------
(* The stores.                                                             *)

\* What a step may do to the stores: nothing, sync both at startup, rename a
\* party's artifact into place, sync a party's directory, or lose power.
StoreMoves ==
  \/ UNCHANGED <<file, durable>>
  \/ UNCHANGED file /\ ProbePublishCapability
  \/ \E p \in Stores :
       /\ party[p] = "saving" /\ UNCHANGED durable
       /\ RenameNoReplace(p, KeyOf[share[p].session], share[p])
  \/ \E p \in Stores : UNCHANGED file /\ SyncDirectory(p)
  \/ PowerLoss

LEMMA EveryStoreMove ==
  ASSUME [Next]_vars
  PROVE  StoreMoves
<1>1. CASE Startup
  BY <1>1, Zenon DEF Startup, Probe, List, ListFails, Decide, StoreMoves
<1>2. CASE Claim
  BY <1>2, Zenon DEF Claim, Admit, ClaimAccepted, ClaimUnknown, ClaimRefused, ClaimExpired, storeVars, StoreMoves
<1>3. CASE Session
  <2>1. CASE \E p \in Stores : Party(p)
    BY <2>1, Zenon DEF Party, SaveShare, Publish, Sync, Readback, PartyFails, StoreMoves
  <2> QED
    BY <1>3, <2>1, Zenon DEF Session, Run, BeginJob, AcquireDKGPreParams, Register, StartParties, RouterFails,
                      Join, Settle, Inspect, StoreMoves
<1>4. CASE Publication \/ Backend
  BY <1>4, Zenon DEF Publication, Backend, Post, Retry, Confirmed, Resolve, BackendApplies, BackendAppliesOf,
              BackendCreates, BackendTimesOut, StoreMoves
<1>5. CASE Deadline \/ Kill \/ LosePower \/ Restart \/ UNCHANGED vars
  BY <1>5, Zenon DEF Deadline, Kill, LosePower, Restart, vars, storeVars, StoreMoves
<1> QED
  BY <1>1, <1>2, <1>3, <1>4, <1>5 DEF Next

\* No step loses or replaces what is durable, a crash included.
LEMMA DurableKept ==
  ASSUME DKGTypeOK, StoreInv, StoreMoves
  PROVE  /\ file' \in [Stores -> [Keys -> Artifacts \cup {NoArtifact}]]
         /\ durable' \in [Stores -> SUBSET Keys]
         /\ \A s \in Stores : durable'[s] \subseteq Visible(s)'
         /\ \A s \in Stores : \A k \in durable[s] : k \in durable'[s] /\ file'[s][k] = file[s][k]
<1> USE DEF DKGTypeOK, Visible, Exists
<1>0. \A s \in Stores : durable[s] \subseteq Visible(s)
  BY Zenon DEF StoreInv
<1>1. CASE UNCHANGED <<file, durable>>
  BY <1>0, <1>1, Zenon
<1>2. CASE UNCHANGED file /\ ProbePublishCapability
  BY <1>0, <1>2, Zenon DEF ProbePublishCapability
<1>3. ASSUME NEW p \in Stores, party[p] = "saving", UNCHANGED durable,
             RenameNoReplace(p, KeyOf[share[p].session], share[p])
      PROVE  /\ file' \in [Stores -> [Keys -> Artifacts \cup {NoArtifact}]]
             /\ durable' \in [Stores -> SUBSET Keys]
             /\ \A s \in Stores : durable'[s] \subseteq Visible(s)'
             /\ \A s \in Stores : \A k \in durable[s] : k \in durable'[s] /\ file'[s][k] = file[s][k]
  <2> DEFINE k0 == KeyOf[share[p].session]
  <2>1. share[p] \in Artifacts
    BY <1>3, Zenon DEF StoreInv, PartyLeft
  <2>2. k0 \in Keys /\ share[p] # NoArtifact
    BY <2>1, ArtifactNamed, Zenon DEF Keys
  <2>3. /\ file[p][k0] = NoArtifact
        /\ file' = [file EXCEPT ![p] = [file[p] EXCEPT ![k0] = share[p]]]
    BY <1>3, Zenon DEF RenameNoReplace
  <2> HIDE DEF k0
  <2>4. file' \in [Stores -> [Keys -> Artifacts \cup {NoArtifact}]]
    BY <2>1, <2>2, <2>3, Zenon
  <2>5. \A s \in Stores, k \in Keys : file[s][k] # NoArtifact => file'[s][k] = file[s][k]
    BY <2>2, <2>3, Zenon
  <2> QED
    BY <1>0, <1>3, <2>4, <2>5
<1>4. CASE \E p \in Stores : UNCHANGED file /\ SyncDirectory(p)
  <2>1. PICK p \in Stores : UNCHANGED file /\ durable' = [durable EXCEPT ![p] = Visible(p)]
    BY <1>4, Zenon DEF SyncDirectory
  <2> QED
    BY <1>0, <2>1, Zenon
<1>5. CASE PowerLoss
  <2>1. PICK kept \in [Stores -> SUBSET Keys] :
          /\ \A s \in Stores : durable[s] \subseteq kept[s] /\ kept[s] \subseteq Visible(s)
          /\ file' = [s \in Stores |-> [k \in Keys |->
                        IF k \in kept[s] THEN file[s][k] ELSE NoArtifact]]
          /\ durable' = kept
    BY <1>5, Zenon DEF PowerLoss
  <2>2. file' \in [Stores -> [Keys -> Artifacts \cup {NoArtifact}]]
    BY <2>1, Zenon
  <2>3. \A s \in Stores, k \in Keys : k \in kept[s] => file'[s][k] = file[s][k]
    BY <2>1, Zenon
  <2> QED
    BY <2>1, <2>2, <2>3
<1> QED
  BY <1>1, <1>2, <1>3, <1>4, <1>5, Zenon DEF StoreMoves

-----------------------------------------------------------------------------
(* Types, and what the process works on.                                   *)

\* A job rebuilt at startup names exactly what the stores hold.
LEMMA RebuiltJob ==
  ASSUME DKGTypeOK, NEW i \in Intents, NEW j \in Reconstructed(i)
  PROVE  /\ j \in Jobs /\ j.intent = i
         /\ j.status = "COMPLETED" =>
              /\ \A s \in Stores : j.evidence[s] = file[s][KeyOf[i]]
              /\ EvidenceMatches(j.evidence["primary"], j.evidence["recovery"])
              /\ j.evidence["primary"].session = i
<1>1. PICK b \in InspectExisting("primary", i), c \in InspectExisting("recovery", i) :
        j = IF EvidenceMatches(b, c) THEN CompletedJob(i, b, c) ELSE FailedJob(i)
  BY DEF Reconstructed
<1>2. CASE EvidenceMatches(b, c)
  BY <1>1, <1>2, EvidenceRead DEF Jobs
<1>3. CASE ~EvidenceMatches(b, c)
  <2>1. j \in FailedJobs /\ j.intent = i
    BY <1>1, <1>3 DEF FailedJob, FailedJobs
  <2>2. j.status = "FAILED"
    BY <2>1 DEF FailedJobs
  <2> QED
    BY <2>1, <2>2 DEF Jobs
<1> QED
  BY <1>2, <1>3, Zenon

\* The outcomes of the startup decision.
LEMMA DecideCases ==
  ASSUME DKGTypeOK, Decide
  PROVE  /\ pc = "decide" /\ listing' = NoListing /\ UNCHANGED <<file, durable, active, runVars, evidence, sent>>
         /\ capable' = (capable /\ pc' # "down")
         /\ \/ pc' \in {"down", "latched", "list"} /\ UNCHANGED <<cur, job, status>>
            \/ pc' = "list" /\ UNCHANGED <<cur, job>> /\ \E i \in Intents : BackendClaims(i)
            \/ pc' = "idle" /\ Candidates = {} /\ UNCHANGED <<cur, job, status>>
            \/ \E i \in Intents :
                 /\ pc' = "publish" /\ cur' = i /\ capable /\ Candidates = {i}
                 /\ \/ i \in listing.own /\ job' \in Reconstructed(i) /\ UNCHANGED status
                    \/ job' = FailedJob(i) /\ BackendClaims(i)
<1>1. ASSUME ~ProtocolIntegrity, capable, NEW i \in Candidates, TerminalPublicationRequired(i)
      PROVE  /\ i \in Intents /\ Candidates = {i}
             /\ \/ pc' \in {"down", "list"} /\ UNCHANGED <<cur, job, status>>
                \/ pc' = "list" /\ UNCHANGED <<cur, job>> /\ BackendClaims(i)
                \/ /\ pc' = "publish" /\ cur' = i
                   /\ \/ i \in listing.own /\ job' \in Reconstructed(i) /\ UNCHANGED status
                      \/ job' = FailedJob(i) /\ BackendClaims(i)
  <2>1. i \in Intents /\ Candidates = {i}
    BY <1>1, OneCandidate
  <2> QED
    BY <1>1, <2>1, Zenon DEF TerminalPublicationRequired, ClaimForFailure
<1>2. CASE \E i \in Candidates : ~ProtocolIntegrity /\ capable /\ TerminalPublicationRequired(i)
  <2>1. PICK i \in Candidates : ~ProtocolIntegrity /\ capable /\ TerminalPublicationRequired(i)
    BY <1>2
  <2> QED
    BY <1>1, <2>1, Zenon DEF Decide
<1> QED
  BY <1>2, Zenon DEF Decide

\* Of the process's own state, a step of Run outside its parties changes pc,
\* the job and the lease, and its parties change only party and share.
LEMMA ProcessStep ==
  ASSUME DKGTypeOK, ProcessInv, [Next]_vars
  PROVE  ProcessInv'
<1> USE DEF ProcessInv, Starting, Claiming, Executing, Publishing
<1>1. \A i \in Intents : FailedJob(i) \in Jobs /\ FailedJob(i).intent = i
  BY DEF FailedJob, Jobs, FailedJobs
<1>2. CASE Startup
  <2>1. CASE Probe \/ List \/ ListFails
    BY <2>1, Zenon DEF Probe, List, ListFails, runVars, partyVars
  <2>2. CASE Decide
    <3>1. CASE \E i \in Intents :
                 /\ pc' = "publish" /\ cur' = i
                 /\ job' \in Reconstructed(i) \/ job' = FailedJob(i)
      <4>1. PICK i \in Intents : pc' = "publish" /\ cur' = i /\ (job' \in Reconstructed(i) \/ job' = FailedJob(i))
        BY <3>1
      <4>2. job' \in Jobs /\ job'.intent = i
        BY <1>1, <4>1, RebuiltJob, Zenon
      <4> QED
        BY <2>2, <4>1, <4>2, Zenon DEF Decide, runVars, partyVars
    <3> QED
      BY <2>2, <3>1, DecideCases, Zenon DEF runVars, partyVars
  <2> QED
    BY <1>2, <2>1, <2>2, Zenon DEF Startup
<1>3. CASE Claim
  BY <1>1, <1>3, Zenon DEF Claim, Admit, ClaimAccepted, ClaimUnknown, ClaimRefused, ClaimExpired, Leave, Goto, Fail, Return,
              storeVars, runVars, partyVars
<1>4. CASE Session
  <2>1. CASE BeginJob \/ AcquireDKGPreParams \/ Register
    BY <1>1, <2>1, Zenon DEF BeginJob, AcquireDKGPreParams, Acquired, Register, RegisterPair, Goto, Fail, Return, partyVars
  <2>2. CASE StartParties
    BY <1>1, <2>2, Zenon DEF StartParties, Release, Goto, Fail, Return
  <2>3. ASSUME NEW p \in Stores, Party(p) PROVE ProcessInv'
    <3>1. pc = "parties"
      BY <2>3, Zenon DEF Party, SaveShare, Publish, Sync, Readback
    <3> QED
      BY <2>3, <3>1, Zenon DEF Party
  <2>4. CASE RouterFails
    BY <2>4 DEF RouterFails
  <2>5. CASE Join
    BY <1>1, <2>5, Zenon DEF Join, Settle, Release, PartiesGone, Goto, Fail, Return
  <2>6. CASE Inspect
    <3>1. PICK b \in InspectExisting("primary", cur), c \in InspectExisting("recovery", cur) :
            IF cur \notin late /\ b # NoArtifact /\ c # NoArtifact /\ CompareEvidence(b, c)
            THEN Return(CompletedJob(cur, b, c)) ELSE Fail
      BY <2>6, Zenon DEF Inspect
    <3>2. cur \in Intents /\ pc = "inspect"
      BY <2>6, Zenon DEF Inspect
    <3>3. CompareEvidence(b, c) => CompletedJob(cur, b, c) \in Jobs /\ CompletedJob(cur, b, c).intent = cur
      BY <3>2, EvidenceRead DEF CompareEvidence, Jobs
    <3>4. pc' = "publish" /\ cur' = cur /\ job' \in Jobs /\ job'.intent = cur
      BY <1>1, <3>1, <3>2, <3>3, Zenon DEF Return, Fail
    <3> QED
      BY <2>6, <3>2, <3>4, Zenon DEF Inspect, runVars, partyVars
  <2> QED
    BY <1>4, <2>1, <2>2, <2>3, <2>4, <2>5, <2>6, Zenon DEF Session, Run
<1>5. CASE Publication
  BY <1>5, Zenon DEF Publication, Post, Retry, Confirmed, Resolve, BackendApplies, BackendAppliesOf, runVars, partyVars
<1>6. CASE Backend
  BY <1>6, Zenon DEF Backend, BackendCreates, BackendTimesOut, runVars, partyVars
<1>7. CASE Kill \/ LosePower
  BY <1>7, Zenon DEF Kill, LosePower, Forget, PartiesGone
<1>8. CASE Deadline \/ Restart \/ UNCHANGED vars
  BY <1>8, Zenon DEF Deadline, Restart, vars, storeVars, runVars, partyVars
<1> QED
  BY <1>2, <1>3, <1>4, <1>5, <1>6, <1>7, <1>8, Zenon DEF Next

\* What a step may do at the backend: create, claim or time out an intent,
\* apply a request that was sent, or be sent the process's job.
BackendMoves ==
  \/ UNCHANGED <<status, evidence, sent>>
  \/ \E i \in Intents :
       /\ \/ status[i] = "NEW" /\ status' = [status EXCEPT ![i] = "PENDING"]
          \/ BackendClaims(i)
          \/ status[i] \in {"PENDING", "CLAIMED"} /\ status' = [status EXCEPT ![i] = "TIMED_OUT"]
       /\ UNCHANGED <<evidence, sent>>
  \/ \E j \in sent :
       /\ status[j.intent] = "CLAIMED" /\ UNCHANGED sent
       /\ status' = [status EXCEPT ![j.intent] = j.status]
       /\ evidence' = [evidence EXCEPT ![j.intent] = j.evidence]
  \/ pc = "publish" /\ sent' = sent \cup {job} /\ UNCHANGED <<status, evidence>>

LEMMA EveryBackendMove ==
  ASSUME DKGTypeOK, ProcessInv, [Next]_vars
  PROVE  BackendMoves
<1> USE DEF BackendMoves, backendVars
<1>1. CASE Startup
  BY <1>1, DecideCases, Zenon DEF Startup, Probe, List, ListFails
<1>2. CASE Claim
  <2>1. CASE Admit \/ ClaimRefused \/ ClaimExpired
    BY <2>1, Zenon DEF Admit, ClaimRefused, ClaimExpired
  <2>2. CASE ClaimAccepted \/ ClaimUnknown
    <3>1. cur \in Intents
      BY <2>2, Zenon DEF ClaimAccepted, ClaimUnknown, ProcessInv, Claiming
    <3> QED
      BY <2>2, <3>1, Zenon DEF ClaimAccepted, ClaimUnknown
  <2> QED
    BY <1>2, <2>1, <2>2, Zenon DEF Claim
<1>3. CASE Session
  BY <1>3 DEF Session
<1>4. CASE Publication
  BY <1>4, Zenon DEF Publication, Post, Retry, Confirmed, Resolve, BackendApplies, BackendAppliesOf
<1>5. CASE Backend
  BY <1>5, Zenon DEF Backend, BackendCreates, BackendTimesOut
<1>6. CASE Deadline \/ Kill \/ LosePower \/ Restart \/ UNCHANGED vars
  BY <1>6, Zenon DEF Deadline, Kill, LosePower, Restart, vars
<1> QED
  BY <1>1, <1>2, <1>3, <1>4, <1>5, <1>6, Zenon DEF Next

LEMMA TypeStep ==
  ASSUME DKGTypeOK, ProcessInv, StoreInv, [Next]_vars
  PROVE  DKGTypeOK'
<1>1. /\ file' \in [Stores -> [Keys -> Artifacts \cup {NoArtifact}]]
      /\ durable' \in [Stores -> SUBSET Keys]
  BY EveryStoreMove, DurableKept
<1>2. pc' \in Starting \cup {"idle"} \cup Claiming \cup Executing \cup Publishing
  <2> USE DEF Starting, Claiming, Executing, Publishing
  <2>1. CASE Startup
    BY <2>1, DecideCases, Zenon DEF Startup, Probe, List, ListFails
  <2>2. CASE Claim
    BY <2>2, Zenon DEF Claim, Admit, ClaimAccepted, ClaimUnknown, ClaimRefused, ClaimExpired, Leave, Goto, Fail, Return
  <2>3. CASE Session
    BY <2>3, Zenon DEF DKGTypeOK, Session, Run, BeginJob, AcquireDKGPreParams, Acquired, Register, StartParties, Party, RouterFails,
                Join, Settle, Inspect, Goto, Fail, Return
  <2>4. CASE Publication \/ Backend
    BY <2>4, Zenon DEF DKGTypeOK, Publication, Backend, Post, Retry, Confirmed, Resolve, BackendApplies, BackendAppliesOf,
                BackendCreates, BackendTimesOut
  <2>5. CASE Deadline \/ Kill \/ LosePower \/ Restart \/ UNCHANGED vars
    BY <2>5, Zenon DEF DKGTypeOK, Deadline, Kill, LosePower, Forget, Restart, vars
  <2> QED
    BY <2>1, <2>2, <2>3, <2>4, <2>5, Zenon DEF Next
<1>3. /\ share' \in [Stores -> Artifacts \cup {NoArtifact}]
      /\ party' \in [Stores -> {"off", "running", "saving", "renamed", "synced", "saved", "failed"}]
  <2> USE DEF DKGTypeOK
  <2>1. CASE UNCHANGED <<party, share>>
    BY <2>1
  <2>2. CASE PartiesGone
    BY <2>2 DEF PartiesGone
  <2>3. CASE party' = [p \in Stores |-> "running"] /\ UNCHANGED share
    BY <2>3
  <2>4. ASSUME NEW p \in Stores, Party(p)
        PROVE  /\ share' \in [Stores -> Artifacts \cup {NoArtifact}]
               /\ party' \in [Stores -> {"off", "running", "saving", "renamed", "synced", "saved", "failed"}]
    <3>1. cur \in Intents
      BY <2>4, Zenon DEF Party, SaveShare, Publish, Sync, Readback, ProcessInv, Executing
    <3>2. \A key \in PublicKeys : EncodeArtifact(cur, key) \in Artifacts
      BY <3>1, Zenon DEF EncodeArtifact, Artifacts
    <3> QED
      BY <2>4, <3>2, Zenon DEF Party, SaveShare, Publish, Sync, Readback, PartyFails, PartyTo
  <2>5. UNCHANGED <<party, share>> \/ PartiesGone \/ (party' = [p \in Stores |-> "running"] /\ UNCHANGED share)
          \/ \E p \in Stores : Party(p)
    <3>1. CASE Startup \/ Claim
      BY <3>1, Zenon DEF Startup, Probe, List, ListFails, Decide, Claim, Admit, ClaimAccepted, ClaimUnknown,
                  ClaimRefused, ClaimExpired, runVars, partyVars
    <3>2. CASE Session
      BY <3>2, Zenon DEF Session, Run, BeginJob, AcquireDKGPreParams, Register, StartParties, RouterFails,
                  Join, Inspect, runVars, partyVars
    <3>3. CASE Publication \/ Backend
      BY <3>3, Zenon DEF Publication, Backend, Post, Retry, Confirmed, Resolve, BackendApplies, BackendAppliesOf,
                  BackendCreates, BackendTimesOut, runVars, partyVars
    <3>4. CASE Deadline \/ Kill \/ LosePower \/ Restart \/ UNCHANGED vars
      BY <3>4, Zenon DEF Deadline, Kill, LosePower, Forget, Restart, vars, runVars, partyVars
    <3> QED
      BY <3>1, <3>2, <3>3, <3>4, Zenon DEF Next
  <2> QED
    BY <2>1, <2>2, <2>3, <2>4, <2>5, Zenon
<1>4. /\ status' \in [Intents -> Statuses]
      /\ evidence' \in [Intents -> Pairs \cup {None}]
      /\ sent' \subseteq Jobs
  <2> USE DEF DKGTypeOK
  <2>1. CASE \E j \in sent :
               /\ status[j.intent] = "CLAIMED" /\ UNCHANGED sent
               /\ status' = [status EXCEPT ![j.intent] = j.status]
               /\ evidence' = [evidence EXCEPT ![j.intent] = j.evidence]
    <3>1. PICK j \in sent :
            /\ UNCHANGED sent
            /\ status' = [status EXCEPT ![j.intent] = j.status]
            /\ evidence' = [evidence EXCEPT ![j.intent] = j.evidence]
      BY <2>1, Zenon
    <3>2. j.status \in Statuses /\ j.evidence \in Pairs \cup {None}
      BY JobFields, Zenon DEF Statuses, Terminal
    <3> QED
      BY <3>1, <3>2, Zenon
  <2>2. CASE pc = "publish" /\ sent' = sent \cup {job} /\ UNCHANGED <<status, evidence>>
    BY <2>2, Zenon DEF ProcessInv, Publishing
  <2>3. CASE \E i \in Intents :
       /\ \/ status[i] = "NEW" /\ status' = [status EXCEPT ![i] = "PENDING"]
          \/ BackendClaims(i)
          \/ status[i] \in {"PENDING", "CLAIMED"} /\ status' = [status EXCEPT ![i] = "TIMED_OUT"]
       /\ UNCHANGED <<evidence, sent>>
    BY <2>3, Zenon DEF BackendClaims, Statuses, Terminal
  <2> QED
    BY <2>1, <2>2, <2>3, EveryBackendMove, Zenon DEF BackendMoves
<1>5. listing' \in Listings /\ capable' \in BOOLEAN
  <2>1. NoListing \in Listings
    BY DEF NoListing, Listings
  <2>2. CASE Decide
    BY <2>1, <2>2, Zenon DEF Decide, DKGTypeOK
  <2>3. CASE Probe \/ ListFails
    BY <2>3, Zenon DEF Probe, ListFails, DKGTypeOK
  <2>4. CASE List
    BY <2>4, Zenon DEF List, DKGTypeOK, Listings
  <2>5. CASE Kill \/ LosePower
    BY <2>1, <2>5, Zenon DEF Kill, LosePower, Forget
  <2>6. CASE UNCHANGED startVars
    BY <2>6 DEF startVars, DKGTypeOK
  <2>7. CASE Claim
    BY <2>6, <2>7, Zenon DEF Claim, Admit, ClaimAccepted, ClaimUnknown, ClaimRefused, ClaimExpired
  <2> QED
    BY <2>2, <2>3, <2>4, <2>5, <2>6, <2>7, Zenon
       DEF Next, Startup, Session, Publication, Backend, Deadline, Restart, vars
<1> QED
  BY <1>1, <1>2, <1>3, <1>4, <1>5, Zenon DEF DKGTypeOK

-----------------------------------------------------------------------------
(* What the parties have left in the stores.                               *)

LEMMA StoreStep ==
  ASSUME DKGTypeOK, ProcessInv, StoreInv, [Next]_vars
  PROVE  StoreInv'
<1>1. /\ \A s \in Stores : durable'[s] \subseteq Visible(s)'
      /\ \A s \in Stores : \A k \in durable[s] : k \in durable'[s] /\ file'[s][k] = file[s][k]
  BY EveryStoreMove, DurableKept, Zenon
<1>2. ASSUME NEW p \in Stores PROVE PartyLeft(p)'
  <2>0. PartyLeft(p)
    BY DEF StoreInv
  <2>1. CASE UNCHANGED <<party, share, cur, file>>
    BY <1>1, <2>0, <2>1, Zenon DEF PartyLeft, Visible, Exists
  <2>2. CASE party'[p] \in {"off", "running", "failed"}
    BY <2>2 DEF PartyLeft
  <2>3. ASSUME NEW q \in Stores, Party(q), q # p PROVE PartyLeft(p)'
    <3>1. party'[p] = party[p] /\ share'[p] = share[p] /\ cur' = cur
      BY <2>3, Zenon DEF Party, SaveShare, Publish, Sync, Readback, PartyFails, PartyTo, DKGTypeOK
    <3>2. file'[p] = file[p]
      BY <2>3, Zenon DEF Party, SaveShare, Publish, RenameNoReplace, Sync, Readback, PartyFails, DKGTypeOK
    <3> QED
      BY <1>1, <2>0, <3>1, <3>2, Zenon DEF PartyLeft, Visible, Exists
  <2>4. CASE Party(p)
    <3>1. cur' = cur /\ cur \in Intents /\ KeyOf[cur] \in Keys
      BY <2>4, Zenon DEF Party, SaveShare, Publish, Sync, Readback, ProcessInv, Executing, Keys
    <3>2. CASE PartyFails(p)
      BY <2>2, <3>2, Zenon DEF PartyFails, PartyTo, DKGTypeOK
    <3>3. CASE SaveShare(p) /\ ~PartyFails(p)
      <4>1. PICK key \in PublicKeys :
              share' = [share EXCEPT ![p] = EncodeArtifact(cur, key)] /\ party' = [party EXCEPT ![p] = "saving"]
        BY <3>3 DEF SaveShare, PartyTo
      <4>2. EncodeArtifact(cur, key) \in Artifacts /\ EncodeArtifact(cur, key).session = cur
        BY <3>1 DEF EncodeArtifact, Artifacts
      <4> QED
        BY <3>1, <4>1, <4>2, Zenon DEF PartyLeft, DKGTypeOK
    <3>4. CASE Publish(p) /\ ~PartyFails(p)
      <4>1. /\ party[p] = "saving" /\ party' = [party EXCEPT ![p] = "renamed"] /\ share' = share
            /\ file' = [file EXCEPT ![p][KeyOf[share[p].session]] = share[p]]
        BY <3>4, Zenon DEF Publish, PartyTo, RenameNoReplace
      <4>2. share[p] \in Artifacts /\ share[p].session = cur /\ share[p] # NoArtifact
        BY <2>0, <4>1, ArtifactNamed, Zenon DEF PartyLeft
      <4>3. file'[p][KeyOf[cur]] = share[p]
        BY <3>1, <4>1, <4>2, Zenon DEF DKGTypeOK
      <4> QED
        BY <3>1, <4>1, <4>2, <4>3, Zenon DEF PartyLeft, DKGTypeOK, Visible, Exists
    <3>5. CASE Sync(p) /\ ~PartyFails(p)
      <4>1. /\ party[p] = "renamed" /\ party' = [party EXCEPT ![p] = "synced"] /\ share' = share
            /\ durable' = [durable EXCEPT ![p] = Visible(p)]
        BY <3>5 DEF Sync, PartyTo, SyncDirectory
      <4> QED
        BY <2>0, <3>1, <4>1, Zenon DEF PartyLeft, DKGTypeOK
    <3>6. CASE Readback(p) /\ ~PartyFails(p)
      <4>1. /\ party[p] = "synced" /\ party' = [party EXCEPT ![p] = "saved"] /\ share' = share /\ durable' = durable
        BY <3>6 DEF Readback, PartyTo
      <4> QED
        BY <2>0, <3>1, <4>1, Zenon DEF PartyLeft, DKGTypeOK
    <3> QED
      BY <2>4, <3>2, <3>3, <3>4, <3>5, <3>6, Zenon DEF Party
  <2>5. CASE pc' # "parties"
    <3>1. party'[p] = "off"
      BY <2>5, ProcessStep, Zenon DEF ProcessInv
    <3> QED
      BY <2>2, <3>1
  <2>6. CASE StartParties
    BY <2>1, <2>2, <2>6, ProcessStep, Zenon DEF StartParties, Release, Fail, Return, ProcessInv
  <2>7. \/ UNCHANGED <<party, share, cur, file>> \/ pc' # "parties"
        \/ StartParties \/ \E q \in Stores : Party(q)
    <3>1. CASE Startup
      BY <3>1, DecideCases, Zenon DEF Startup, Probe, List, ListFails
    <3>2. CASE Claim
      BY <3>2, Zenon DEF Claim, Admit, ClaimAccepted, ClaimUnknown, ClaimRefused, ClaimExpired, Goto, Fail, Return, Leave
    <3>3. CASE Session
      BY <3>3, Zenon DEF Session, Run, BeginJob, AcquireDKGPreParams, Acquired, Register, RouterFails, Join, Settle,
                  Inspect, Goto, Fail, Return, partyVars
    <3>4. CASE Publication \/ Backend
      BY <3>4, Zenon DEF Publication, Backend, Post, Retry, Confirmed, Resolve, BackendApplies, BackendAppliesOf,
                  BackendCreates, BackendTimesOut, runVars, partyVars
    <3>5. CASE Deadline \/ Kill \/ LosePower \/ Restart \/ UNCHANGED vars
      BY <3>5, Zenon DEF Deadline, Kill, LosePower, Forget, Restart, vars, storeVars, runVars, partyVars
    <3> QED
      BY <3>1, <3>2, <3>3, <3>4, <3>5, Zenon DEF Next
  <2> QED
    BY <2>1, <2>3, <2>4, <2>5, <2>6, <2>7, Zenon
<1>3. ASSUME pc' = "inspect", NEW s \in Stores PROVE KeyOf[cur'] \in durable'[s]
  <2>1. \/ pc = "inspect" /\ cur' = cur
        \/ Join
    <3>1. CASE Startup \/ Claim
      BY <1>3, <3>1, DecideCases, Zenon DEF Startup, Probe, List, ListFails, Claim, Admit, ClaimAccepted, ClaimUnknown,
                  ClaimRefused, ClaimExpired, Goto, Fail, Return, Leave
    <3>2. CASE Session
      BY <1>3, <3>2, Zenon DEF Session, Run, BeginJob, AcquireDKGPreParams, Acquired, Register, StartParties, RouterFails,
                  Inspect, Party, Goto, Fail, Return
    <3>3. CASE Publication \/ Backend
      BY <1>3, <3>3, Zenon DEF Publication, Backend, Post, Retry, Confirmed, Resolve, BackendApplies, BackendAppliesOf,
                  BackendCreates, BackendTimesOut
    <3>4. CASE Deadline \/ Kill \/ LosePower \/ Restart \/ UNCHANGED vars
      BY <1>3, <3>4, Zenon DEF Deadline, Kill, LosePower, Forget, Restart, vars
    <3> QED
      BY <3>1, <3>2, <3>3, <3>4, Zenon DEF Next
  <2>2. CASE pc = "inspect" /\ cur' = cur
    BY <1>1, <2>2, Zenon DEF StoreInv
  <2>3. CASE Join
    <3>1. party[s] = "saved" /\ cur' = cur
      BY <1>3, <2>3 DEF Join, Settle, Fail, Return, Goto
    <3> QED
      BY <1>1, <3>1, Zenon DEF StoreInv, PartyLeft
  <2> QED
    BY <2>1, <2>2, <2>3
<1>4. /\ pc' \in {"down", "probe"} => capable' = FALSE
      /\ pc' \in {"list", "decide"} /\ capable' => \A s \in Stores : Visible(s)' \subseteq durable'[s]
  <2>1. CASE Startup
    <3>1. CASE Probe
      BY <3>1 DEF Probe, ProbePublishCapability, StoreInv, Visible, Exists
    <3>2. CASE List
      BY <3>2, Zenon DEF List, StoreInv, Visible, Exists
    <3>3. CASE ListFails
      BY <3>3 DEF ListFails
    <3>4. CASE Decide
      <4>1. pc = "decide" /\ UNCHANGED <<file, durable>> /\ capable' = (capable /\ pc' # "down") /\ pc' # "probe"
        BY <3>4, DecideCases, Zenon
      <4>2. capable' = IF pc' = "down" THEN FALSE ELSE capable
        BY <4>1, Zenon DEF DKGTypeOK
      <4>3. \A s \in Stores : Visible(s)' = Visible(s) /\ durable'[s] = durable[s]
        BY <4>1 DEF Visible, Exists
      <4> QED
        BY <4>1, <4>2, <4>3, Zenon DEF StoreInv
    <3> QED
      BY <2>1, <3>1, <3>2, <3>3, <3>4, Zenon DEF Startup
  <2>2. CASE Kill \/ LosePower
    BY <2>2, Zenon DEF Kill, LosePower, Forget
  <2>3. CASE UNCHANGED <<pc, capable, file, durable>>
    BY <2>3, Zenon DEF StoreInv, Visible, Exists
  <2>4. CASE pc' \notin {"down", "probe", "list", "decide"}
    BY <2>4
  <2>5. CASE Restart
    BY <2>5 DEF Restart, StoreInv, startVars
  <2>6. CASE Claim
    BY <2>4, <2>6, Zenon DEF Claim, Admit, ClaimAccepted, ClaimUnknown, ClaimRefused, ClaimExpired, Goto, Fail, Return, Leave
  <2>7. CASE Session
    <3>1. CASE \E p \in Stores : Party(p)
      BY <2>4, <3>1, Zenon DEF Party, SaveShare, Publish, Sync, Readback, ProcessInv
    <3> QED
      BY <2>4, <2>7, <3>1, Zenon DEF Session, Run, BeginJob, AcquireDKGPreParams, Acquired, Register, StartParties, RouterFails,
                  Join, Settle, Inspect, Goto, Fail, Return
  <2>8. CASE Publication \/ Backend
    BY <2>3, <2>4, <2>8, Zenon DEF Publication, Backend, Post, Retry, Confirmed, Resolve, BackendApplies, BackendAppliesOf,
                BackendCreates, BackendTimesOut, startVars
  <2> QED
    BY <2>1, <2>2, <2>3, <2>5, <2>6, <2>7, <2>8, Zenon DEF Next, Deadline, vars, storeVars, startVars
<1> QED
  BY <1>1, <1>2, <1>3, <1>4, Zenon DEF StoreInv

-----------------------------------------------------------------------------
(* What the results rest on.                                               *)

\* What is durable stays where it is, so what a completion rests on does.
LEMMA StaysDurable ==
  ASSUME DKGTypeOK, StoreInv, [Next]_vars
  PROVE  \A s \in Stores : \A k \in durable[s] : k \in durable'[s] /\ file'[s][k] = file[s][k]
  BY EveryStoreMove, DurableKept, Zenon

\* A job is built by a failure, by Run's last step or at startup, and is then
\* kept until it is resolved.
LEMMA JobMoves ==
  ASSUME DKGTypeOK, ProcessInv, [Next]_vars, pc' \in Publishing
  PROVE  \/ pc \in Publishing /\ job' = job /\ cur' = cur
         \/ job' = FailedJob(cur')
         \/ Inspect \/ Decide
<1> USE DEF Publishing
<1>1. CASE Startup
  BY <1>1, Zenon DEF Startup, Probe, List, ListFails
<1>2. CASE Claim
  BY <1>2, Zenon DEF Claim, Admit, ClaimAccepted, ClaimUnknown, ClaimRefused, ClaimExpired, Goto, Fail, Return, Leave
<1>3. CASE Session
  <2>1. CASE \E p \in Stores : Party(p)
    BY <2>1, Zenon DEF Party, SaveShare, Publish, Sync, Readback, ProcessInv
  <2> QED
    BY <1>3, <2>1, Zenon DEF Session, Run, BeginJob, AcquireDKGPreParams, Acquired, Register, StartParties, RouterFails,
                Join, Settle, Goto, Fail, Return
<1>4. CASE Publication \/ Backend
  BY <1>4, Zenon DEF Publication, Backend, Post, Retry, Confirmed, Resolve, BackendApplies, BackendAppliesOf,
              BackendCreates, BackendTimesOut
<1>5. CASE Deadline \/ Kill \/ LosePower \/ Restart \/ UNCHANGED vars
  BY <1>5, Zenon DEF Deadline, Kill, LosePower, Forget, Restart, vars
<1> QED
  BY <1>1, <1>2, <1>3, <1>4, <1>5, Zenon DEF Next

\* The job in hand rests on the stores from the step that builds it.
LEMMA JobRests ==
  ASSUME DKGTypeOK, ProcessInv, StoreInv, ResultInv, [Next]_vars,
         pc' \in Publishing, job'.status = "COMPLETED"
  PROVE  Rests(job.intent, job.evidence)'
<1>1. CASE pc \in Publishing /\ job' = job
  BY <1>1, StaysDurable, Zenon DEF ResultInv, Rests
<1>2. CASE job' = FailedJob(cur')
  BY <1>2 DEF FailedJob
<1>3. CASE Inspect
  <2>1. cur \in Intents /\ UNCHANGED <<file, durable>> /\ \A s \in Stores : KeyOf[cur] \in durable[s]
    BY <1>3, Zenon DEF Inspect, ProcessInv, Executing, StoreInv
  <2>2. PICK b \in InspectExisting("primary", cur), c \in InspectExisting("recovery", cur) :
          CompareEvidence(b, c) /\ job' = CompletedJob(cur, b, c)
    <3>1. job' # FailedJob(cur)
      BY DEF FailedJob
    <3> QED
      BY <1>3, <3>1, Zenon DEF Inspect, Fail, Return
  <2>3. /\ job'.intent = cur
        /\ \A s \in Stores : job'.evidence[s] = file[s][KeyOf[cur]]
        /\ EvidenceMatches(job'.evidence["primary"], job'.evidence["recovery"])
        /\ job'.evidence["primary"].session = cur
    <3>1. EvidenceMatches(b, c)
      BY <2>2, Zenon DEF CompareEvidence
    <3>2. /\ CompletedJob(cur, b, c).intent = cur
          /\ \A s \in Stores : CompletedJob(cur, b, c).evidence[s] = file[s][KeyOf[cur]]
          /\ CompletedJob(cur, b, c).evidence["primary"] = b
          /\ CompletedJob(cur, b, c).evidence["recovery"] = c
          /\ b.session = cur
      BY <2>1, <2>2, <3>1, EvidenceRead
    <3> QED
      BY <2>2, <3>1, <3>2
  <2> QED
    BY <2>1, <2>3, Zenon DEF Rests
<1>4. CASE Decide
  <2>1. PICK i \in Intents : capable /\ Candidates = {i} /\ job' \in Reconstructed(i) /\ UNCHANGED <<file, durable>>
    BY <1>4, DecideCases DEF FailedJob, Publishing
  <2>2. /\ job'.intent = i
        /\ \A s \in Stores : job'.evidence[s] = file[s][KeyOf[i]]
        /\ EvidenceMatches(job'.evidence["primary"], job'.evidence["recovery"])
        /\ job'.evidence["primary"].session = i
    BY <2>1, RebuiltJob, Zenon
  <2>3. job' \in CompletedJobs
    BY <2>1, RebuiltJob, Zenon DEF Jobs, FailedJobs
  <2>4. \A s \in Stores : KeyOf[i] \in Visible(s)
    <3>1. job'.evidence \in Pairs
      BY <2>3 DEF CompletedJobs
    <3>2. ASSUME NEW s \in Stores PROVE KeyOf[i] \in Visible(s)
      <4>1. job'.evidence[s] \in Artifacts
        BY <3>1 DEF Pairs
      <4> QED
        BY <2>2, <4>1, ArtifactNamed, Zenon DEF Visible, Exists, Keys
    <3> QED
      BY <3>2
  <2>5. \A s \in Stores : KeyOf[i] \in durable[s]
    BY <1>4, <2>1, <2>4, Zenon DEF StoreInv, Decide
  <2> QED
    BY <2>1, <2>2, <2>5, Zenon DEF Rests
<1> QED
  BY <1>1, <1>2, <1>3, <1>4, JobMoves, Zenon

LEMMA ResultStep ==
  ASSUME DKGTypeOK, ProcessInv, StoreInv, ResultInv, [Next]_vars
  PROVE  ResultInv'
<1>1. \A s \in Stores : \A k \in durable[s] : k \in durable'[s] /\ file'[s][k] = file[s][k]
  BY StaysDurable
<1>2. pc' \in Publishing /\ job'.status = "COMPLETED" => Rests(job.intent, job.evidence)'
  BY JobRests
<1>3. ASSUME NEW j \in sent', j.status = "COMPLETED" PROVE Rests(j.intent, j.evidence)'
  <2>1. j \in sent \/ (pc = "publish" /\ j = job)
    BY EveryBackendMove, Zenon DEF BackendMoves
  <2>2. Rests(j.intent, j.evidence)
    BY <1>3, <2>1 DEF ResultInv, Publishing
  <2> QED
    BY <1>1, <2>2, Zenon DEF Rests
<1>4. ASSUME NEW i \in Intents
      PROVE  /\ status'[i] = "COMPLETED" => evidence'[i] \in Pairs /\ Rests(i, evidence[i])'
             /\ status'[i] # "COMPLETED" => evidence'[i] = None
  <2>1. CASE UNCHANGED <<status, evidence>>
    BY <1>1, <2>1 DEF ResultInv, Rests
  <2>2. CASE \E k \in Intents :
               /\ \/ status[k] = "NEW" /\ status' = [status EXCEPT ![k] = "PENDING"]
                  \/ BackendClaims(k)
                  \/ status[k] \in {"PENDING", "CLAIMED"} /\ status' = [status EXCEPT ![k] = "TIMED_OUT"]
               /\ UNCHANGED evidence
    <3>1. PICK k \in Intents :
            /\ status[k] \in {"NEW", "PENDING", "CLAIMED"}
            /\ \E t \in {"PENDING", "CLAIMED", "TIMED_OUT"} : status' = [status EXCEPT ![k] = t]
            /\ UNCHANGED evidence
      BY <2>2 DEF BackendClaims
    <3>2. CASE k = i
      BY <3>1, <3>2, Zenon DEF DKGTypeOK, ResultInv
    <3>3. CASE k # i
      <4>1. status'[i] = status[i] /\ evidence'[i] = evidence[i]
        BY <3>1, <3>3, Zenon DEF DKGTypeOK
      <4>2. /\ status[i] = "COMPLETED" => evidence[i] \in Pairs /\ Rests(i, evidence[i])
            /\ status[i] # "COMPLETED" => evidence[i] = None
        BY Zenon DEF ResultInv
      <4>3. status[i] = "COMPLETED" => Rests(i, evidence[i])'
        BY <1>1, <4>1, <4>2 DEF Rests
      <4> QED
        BY <4>1, <4>2, <4>3, Zenon
    <3> QED
      BY <3>2, <3>3, Zenon
  <2>3. ASSUME NEW j \in sent,
               status' = [status EXCEPT ![j.intent] = j.status],
               evidence' = [evidence EXCEPT ![j.intent] = j.evidence]
        PROVE  /\ status'[i] = "COMPLETED" => evidence'[i] \in Pairs /\ Rests(i, evidence[i])'
               /\ status'[i] # "COMPLETED" => evidence'[i] = None
    <3>1. /\ j.intent \in Intents
          /\ \/ j.status = "FAILED" /\ j.evidence = None
             \/ j.status = "COMPLETED" /\ j.evidence \in Pairs
      BY JobFields, Zenon DEF DKGTypeOK
    <3>2. CASE j.intent = i
      <4>1. status'[i] = j.status /\ evidence'[i] = j.evidence
        BY <2>3, <3>2, Zenon DEF DKGTypeOK
      <4> QED
        BY <1>1, <3>1, <3>2, <4>1 DEF ResultInv, Rests
    <3>3. CASE j.intent # i
      <4>1. status'[i] = status[i] /\ evidence'[i] = evidence[i]
        BY <2>3, <3>3, Zenon DEF DKGTypeOK
      <4> QED
        BY <1>1, <4>1 DEF ResultInv, Rests
    <3> QED
      BY <3>2, <3>3, Zenon
  <2> QED
    BY <2>1, <2>2, <2>3, EveryBackendMove, Zenon DEF BackendMoves
<1> QED
  BY <1>2, <1>3, <1>4, Zenon DEF ResultInv

-----------------------------------------------------------------------------
(* Who owns a claim.                                                       *)

\* A backend step that is not a claim makes no claimed intent.
LEMMA NoNewClaim ==
  ASSUME DKGTypeOK, NEW i \in Intents, status'[i] = "CLAIMED",
         Publication \/ Backend
  PROVE  status[i] = "CLAIMED"
<1>1. CASE UNCHANGED status
  BY <1>1
<1>2. CASE Backend
  BY <1>2, Zenon DEF Backend, BackendCreates, BackendTimesOut, DKGTypeOK
<1>3. CASE BackendApplies
  <2>1. PICK j \in sent : status' = [status EXCEPT ![j.intent] = j.status]
    BY <1>3, Zenon DEF BackendApplies, BackendAppliesOf
  <2>2. j.status # "CLAIMED"
    BY JobFields, Zenon DEF DKGTypeOK
  <2> QED
    BY <2>1, <2>2, Zenon DEF DKGTypeOK
<1> QED
  BY <1>1, <1>2, <1>3, Zenon DEF Publication, Post, Retry, Confirmed, Resolve, backendVars

LEMMA OwnerStep ==
  ASSUME DKGTypeOK, ProcessInv, OwnerInv, [Next]_vars
  PROVE  OwnerInv'
<1> USE DEF OwnerInv, ClaimsAreOwned
<1>1. CASE Startup
  <2>1. CASE Probe \/ List \/ ListFails
    BY <2>1 DEF Probe, List, ListFails, backendVars
  <2>2. CASE Decide
    <3>1. pc = "decide" /\ \A k \in Intents : status[k] = "CLAIMED" => k \in Candidates
      BY <2>2, Zenon DEF Decide, Candidates
    <3>2. CASE pc' \in {"down", "latched", "list"}
      BY <3>2
    <3>3. CASE pc' = "idle" /\ Candidates = {} /\ UNCHANGED status
      BY <3>1, <3>3
    <3>4. CASE \E i \in Intents :
                 /\ pc' = "publish" /\ cur' = i /\ Candidates = {i}
                 /\ UNCHANGED status \/ BackendClaims(i)
      <4>1. PICK i \in Intents : pc' = "publish" /\ cur' = i /\ Candidates = {i}
                                  /\ (UNCHANGED status \/ BackendClaims(i))
        BY <3>4
      <4>2. \A k \in Intents : status'[k] = "CLAIMED" => k = i
        BY <3>1, <4>1, Zenon DEF BackendClaims, DKGTypeOK
      <4> QED
        BY <4>1, <4>2, Zenon
    <3> QED
      BY <2>2, <3>2, <3>3, <3>4, DecideCases, Zenon
  <2> QED
    BY <1>1, <2>1, <2>2, Zenon DEF Startup
<1>2. CASE Claim
  <2>0. pc \in Claiming => cur \in Intents
    BY DEF ProcessInv
  <2>1. CASE Admit
    <3>1. \A k \in Intents : status[k] # "CLAIMED"
      BY <2>1, DKGAssumption, Zenon DEF Admit, ProcessInv
    <3> QED
      BY <2>1, <3>1, Zenon DEF Admit, backendVars
  <2>2. CASE ClaimAccepted \/ ClaimUnknown
    <3>1. pc \in Claiming /\ (BackendClaims(cur) \/ UNCHANGED status) /\ cur' = cur
          /\ pc' \in {"begin", "publish", "reclaim"}
      BY <2>2, Zenon DEF ClaimAccepted, ClaimUnknown, Claiming, Goto, Fail, Return
    <3>2. \A k \in Intents : status'[k] = "CLAIMED" => cur' = k
      BY <2>0, <3>1, Zenon DEF BackendClaims, DKGTypeOK, Claiming
    <3> QED
      BY <3>1, <3>2, Zenon
  <2>3. CASE ClaimRefused \/ ClaimExpired
    BY <2>0, <2>3, Zenon DEF ClaimRefused, ClaimExpired, Leave, Fail, Return, Claiming, backendVars, Terminal
  <2> QED
    BY <1>2, <2>1, <2>2, <2>3, Zenon DEF Claim
<1>3. CASE Session
  <2>1. pc \in Executing /\ cur' = cur /\ UNCHANGED status
        /\ pc' \notin {"down", "probe", "list", "decide", "latched", "claim"}
    BY <1>3, Zenon DEF Session, Run, BeginJob, AcquireDKGPreParams, Acquired, Register, StartParties, RouterFails, Party,
                SaveShare, Publish, Sync, Readback, Join, Settle, Inspect, Goto, Fail, Return,
                backendVars, Executing, ProcessInv
  <2> QED
    BY <2>1 DEF Executing
<1>4. CASE Publication
  <2>1. CASE Confirmed
    <3>1. status[cur] \in Terminal /\ UNCHANGED status /\ pc = "posted" /\ pc' = "idle"
      BY <2>1, Zenon DEF Confirmed, Resolve, backendVars, ProcessInv, Publishing
    <3> QED
      BY <3>1 DEF Terminal
  <2>2. CASE Post \/ Retry
    BY <2>2, Zenon DEF Post, Retry, backendVars
  <2>3. CASE BackendApplies
    <3>1. UNCHANGED <<pc, cur, listing>>
      BY <1>4, <2>3, Zenon DEF BackendApplies, BackendAppliesOf, Publication, startVars
    <3>2. pc = "claim" => cur \in Intents
      BY DEF ProcessInv, Claiming
    <3> QED
      BY <1>4, <3>1, <3>2, NoNewClaim, Zenon
  <2> QED
    BY <1>4, <2>1, <2>2, <2>3, Zenon DEF Publication
<1>5. CASE Backend
  <2>1. UNCHANGED <<pc, cur, listing>>
    BY <1>5, Zenon DEF Backend, BackendCreates, BackendTimesOut, startVars
  <2>2. pc = "claim" => cur \in Intents
    BY DEF ProcessInv, Claiming
  <2> QED
    BY <1>5, <2>1, <2>2, NoNewClaim, Zenon
<1>6. CASE Kill \/ LosePower
  BY <1>6, Zenon DEF Kill, LosePower, Forget
<1>7. CASE Deadline \/ Restart \/ UNCHANGED vars
  BY <1>7, Zenon DEF Deadline, Restart, vars, backendVars, startVars
<1> QED
  BY <1>1, <1>2, <1>3, <1>4, <1>5, <1>6, <1>7, Zenon DEF Next

-----------------------------------------------------------------------------
(* A completion that was sent.                                             *)

\* No step takes an intent back before its claim.
LEMMA PastClaim ==
  ASSUME DKGTypeOK, ProcessInv, [Next]_vars, NEW i \in Intents, status[i] \notin {"NEW", "PENDING"}
  PROVE  status'[i] \notin {"NEW", "PENDING"}
<1>1. CASE \E j \in sent : status' = [status EXCEPT ![j.intent] = j.status]
  <2>1. PICK j \in sent : status' = [status EXCEPT ![j.intent] = j.status]
    BY <1>1, Zenon
  <2>2. j.status \in {"FAILED", "COMPLETED"}
    BY JobFields, Zenon DEF DKGTypeOK
  <2> QED
    BY <2>1, <2>2, Zenon DEF DKGTypeOK
<1>2. CASE \E k \in Intents :
             \/ status[k] = "NEW" /\ status' = [status EXCEPT ![k] = "PENDING"]
             \/ BackendClaims(k)
             \/ status' = [status EXCEPT ![k] = "TIMED_OUT"]
  BY <1>2, Zenon DEF BackendClaims, DKGTypeOK
<1> QED
  BY <1>1, <1>2, EveryBackendMove, Zenon DEF BackendMoves

\* When every read works, startup rebuilds the very job that was sent.
LEMMA RebuiltSame ==
  ASSUME ReadFaults = FALSE, NEW done \in Jobs, done.status = "COMPLETED",
         Rests(done.intent, done.evidence), NEW j \in Reconstructed(done.intent)
  PROVE  j = done
<1> DEFINE i == done.intent
           b == done.evidence["primary"]
           c == done.evidence["recovery"]
<1>1. done \in CompletedJobs
  BY DEF Jobs, FailedJobs
<1>2. /\ file["primary"][KeyOf[i]] = b /\ file["recovery"][KeyOf[i]] = c
      /\ b.session = i /\ c.session = i /\ EvidenceMatches(b, c)
  BY Zenon DEF Rests, Stores, EvidenceMatches
<1>3. InspectExisting("primary", i) = {b} /\ InspectExisting("recovery", i) = {c}
  BY <1>2, Zenon DEF InspectExisting, LoadValidated
<1>4. j = CompletedJob(i, b, c)
  BY <1>2, <1>3 DEF Reconstructed
<1>5. done.evidence = [primary |-> b, recovery |-> c]
  BY <1>1 DEF CompletedJobs, Pairs, Stores
<1> QED
  BY <1>1, <1>4, <1>5, Zenon DEF CompletedJob, CompletedJobs

\* How the process comes to work on an intent, and how it leaves it.
LEMMA CurMoves ==
  ASSUME DKGTypeOK, ProcessInv, [Next]_vars
  PROVE  /\ cur' = cur \/ cur' = None \/ Admit \/ Decide
         /\ pc' \in Executing => (pc \in Executing /\ cur' = cur) \/ ClaimAccepted
         /\ pc \in Publishing => (pc' \in Publishing /\ job' = job /\ cur' = cur) \/ cur' = None
<1> USE DEF Executing, Publishing
<1>1. CASE Startup
  <2>1. CASE Decide
    BY <2>1, DecideCases, Zenon
  <2> QED
    BY <1>1, <2>1, Zenon DEF Startup, Probe, List, ListFails
<1>2. CASE Claim
  BY <1>2, Zenon DEF Claim, Admit, ClaimAccepted, ClaimUnknown, ClaimRefused, ClaimExpired, Goto, Fail, Return, Leave
<1>3. CASE Session
  <2>1. CASE \E p \in Stores : Party(p)
    BY <2>1, Zenon DEF Party, SaveShare, Publish, Sync, Readback, ProcessInv
  <2> QED
    BY <1>3, <2>1, Zenon DEF Session, Run, BeginJob, AcquireDKGPreParams, Acquired, Register, StartParties, RouterFails,
                Join, Settle, Inspect, Goto, Fail, Return
<1>4. CASE Publication \/ Backend
  BY <1>4, Zenon DEF Publication, Backend, Post, Retry, Confirmed, Resolve, BackendApplies, BackendAppliesOf,
              BackendCreates, BackendTimesOut
<1>5. CASE Deadline \/ Kill \/ LosePower \/ Restart \/ UNCHANGED vars
  BY <1>5, Zenon DEF Deadline, Kill, LosePower, Forget, Restart, vars
<1> QED
  BY <1>1, <1>2, <1>3, <1>4, <1>5, Zenon DEF Next

LEMMA FinalStep ==
  ASSUME ReadFaults = FALSE,
         DKGTypeOK, ProcessInv, StoreInv, ResultInv, FinalInv, [Next]_vars
  PROVE  FinalInv'
<1>1. pc' = "decide" => \A i \in listing'.own : status'[i] \notin {"NEW", "PENDING"}
  <2>1. CASE List
    <3>1. status' = status /\ listing'.own = {i \in Intents : status[i] = "CLAIMED"}
      BY <2>1, Zenon DEF List, backendVars
    <3> QED
      BY <3>1
  <2>2. CASE UNCHANGED <<pc, listing>>
    BY <2>2, PastClaim, Zenon DEF FinalInv, DKGTypeOK, Listings
  <2>3. pc' = "decide" => List \/ UNCHANGED <<pc, listing>>
    <3>1. CASE Startup
      BY <3>1, DecideCases, Zenon DEF Startup, Probe, ListFails
    <3>2. CASE Claim
      BY <3>2, Zenon DEF Claim, Admit, ClaimAccepted, ClaimUnknown, ClaimRefused, ClaimExpired, Goto, Fail, Return, Leave
    <3>3. CASE Session
      <4>1. CASE \E p \in Stores : Party(p)
        BY <4>1, Zenon DEF Party, SaveShare, Publish, Sync, Readback, ProcessInv
      <4> QED
        BY <3>3, <4>1, Zenon DEF Session, Run, BeginJob, AcquireDKGPreParams, Acquired, Register, StartParties, RouterFails,
                    Join, Settle, Inspect, Goto, Fail, Return
    <3>4. CASE Publication \/ Backend
      BY <3>4, Zenon DEF Publication, Backend, Post, Retry, Confirmed, Resolve, BackendApplies, BackendAppliesOf,
                  BackendCreates, BackendTimesOut, startVars
    <3>5. CASE Deadline \/ Kill \/ LosePower \/ Restart \/ UNCHANGED vars
      BY <3>5, Zenon DEF Deadline, Kill, LosePower, Forget, Restart, vars, startVars
    <3> QED
      BY <3>1, <3>2, <3>3, <3>4, <3>5, Zenon DEF Next
  <2> QED
    BY <2>1, <2>2, <2>3, Zenon
<1>2. pc' \in Executing => status'[cur'] \notin {"NEW", "PENDING"}
  <2>1. CASE pc \in Executing /\ cur' = cur
    BY <2>1, PastClaim, Zenon DEF FinalInv, ProcessInv
  <2>2. CASE ClaimAccepted
    <3>1. cur \in Intents /\ cur' = cur
      BY <2>2, Zenon DEF ClaimAccepted, ProcessInv, Claiming, Goto, Fail, Return
    <3> QED
      BY <2>2, <3>1, Zenon DEF ClaimAccepted, BackendClaims, DKGTypeOK
  <2> QED
    BY <2>1, <2>2, CurMoves, Zenon
<1>3. ASSUME pc' \in Publishing, job'.status = "COMPLETED"
      PROVE  status'[cur'] \notin {"NEW", "PENDING"}
  <2>1. CASE pc \in Publishing /\ job' = job /\ cur' = cur
    BY <1>3, <2>1, PastClaim, Zenon DEF FinalInv, ProcessInv
  <2>2. CASE job' = FailedJob(cur')
    BY <1>3, <2>2 DEF FailedJob
  <2>3. CASE Inspect
    <3>1. pc \in Executing /\ cur \in Intents /\ cur' = cur
      BY <2>3, Zenon DEF Inspect, Executing, ProcessInv, Fail, Return
    <3> QED
      BY <3>1, PastClaim, Zenon DEF FinalInv
  <2>4. CASE Decide
    <3>1. pc = "decide" /\ cur' \in listing.own /\ UNCHANGED status
      BY <1>3, <2>4, DecideCases DEF FailedJob, Publishing
    <3> QED
      BY <3>1 DEF FinalInv
  <2> QED
    BY <1>3, <2>1, <2>2, <2>3, <2>4, JobMoves, Zenon
<1>4. ASSUME NEW done \in sent', done.status = "COMPLETED"
      PROVE  /\ status'[done.intent] \notin {"NEW", "PENDING"}
             /\ cur' = done.intent => pc' \in Publishing /\ job' = done
  <2>1. CASE pc = "publish" /\ done = job
    <3>1. status'[done.intent] \notin {"NEW", "PENDING"}
      BY <1>4, <2>1, PastClaim, Zenon DEF FinalInv, ProcessInv, Publishing
    <3>2. cur' = done.intent => pc' \in Publishing /\ job' = done
      BY <2>1, CurMoves, DKGAssumption, Zenon DEF ProcessInv, Publishing
    <3> QED
      BY <3>1, <3>2
  <2>2. CASE done \in sent
    <3>1. done \in Jobs /\ done.intent \in Intents /\ Rests(done.intent, done.evidence)
      BY <1>4, <2>2, JobFields, Zenon DEF DKGTypeOK, ResultInv
    <3>2. /\ status[done.intent] \notin {"NEW", "PENDING"}
          /\ cur = done.intent => pc \in Publishing /\ job = done
      BY <1>4, <2>2, Zenon DEF FinalInv
    <3>3. ASSUME cur' = done.intent PROVE pc' \in Publishing /\ job' = done
      <4>1. CASE cur' = cur
        BY <3>1, <3>2, <3>3, <4>1, CurMoves, DKGAssumption, Zenon
      <4>2. CASE Admit
        BY <3>2, <3>3, <4>2, Zenon DEF Admit
      <4>3. CASE Decide
        <5>1. CASE cur' # cur
          <6>1. PICK i \in Intents : /\ cur' = i /\ pc' = "publish"
                                     /\ job' \in Reconstructed(i) \/ BackendClaims(i)
            BY <4>3, <5>1, DecideCases, Zenon
          <6>2. i = done.intent
            BY <3>3, <6>1
          <6>3. job' \in Reconstructed(done.intent)
            BY <3>2, <6>1, <6>2, Zenon DEF BackendClaims
          <6>4. job' = done
            BY <1>4, <3>1, <6>3, RebuiltSame, Zenon
          <6> QED
            BY <6>1, <6>4 DEF Publishing
        <5> QED
          BY <4>1, <5>1
      <4> QED
        BY <3>1, <3>3, <4>1, <4>2, <4>3, CurMoves, DKGAssumption, Zenon
    <3> QED
      BY <3>1, <3>2, <3>3, PastClaim, Zenon
  <2> QED
    BY <2>1, <2>2, EveryBackendMove, Zenon DEF BackendMoves
<1> QED
  BY <1>1, <1>2, <1>3, <1>4, Zenon DEF FinalInv

-----------------------------------------------------------------------------
(* The theorems.                                                           *)

DKGInv == DKGTypeOK /\ ProcessInv /\ StoreInv /\ ResultInv /\ OwnerInv

LEMMA DKGInit == Init => DKGInv /\ FinalInv
<1> SUFFICES ASSUME Init PROVE DKGInv /\ FinalInv
  OBVIOUS
<1> USE DEF Init, StoreInit, RunInit, BackendInit
<1>1. DKGTypeOK
  BY Zenon DEF DKGTypeOK, Starting, Statuses, Listings, NoListing
<1>2. ProcessInv
  BY DEF ProcessInv, Starting, Claiming, Executing, Publishing
<1>3. StoreInv
  BY DEF StoreInv, PartyLeft
<1>4. ResultInv
  BY DEF ResultInv, Publishing
<1>5. OwnerInv
  BY DEF OwnerInv, ClaimsAreOwned
<1>6. FinalInv
  BY DEF FinalInv, Executing, Publishing
<1> QED
  BY <1>1, <1>2, <1>3, <1>4, <1>5, <1>6, Zenon DEF DKGInv

LEMMA DKGInvariant == Spec => []DKGInv
<1>1. DKGInv /\ [Next]_vars => DKGInv'
  BY TypeStep, ProcessStep, StoreStep, ResultStep, OwnerStep, Zenon DEF DKGInv
<1> QED
  BY <1>1, DKGInit, PTL DEF Spec

\* Whatever the intents, their keys and the crashes: an intent the backend
\* records as COMPLETED has both its artifacts under their final names,
\* durably, as the result named them and in agreement.
THEOREM CompletionIsOnDisk == Spec => []CompletedIsDurable
<1>1. DKGInv => CompletedIsDurable
  BY Zenon DEF DKGInv, ResultInv, Rests, CompletedIsDurable
<1> QED
  BY <1>1, DKGInvariant, PTL

\* No claim of an earlier process or of an unanswered request is forgotten:
\* outside startup a claimed intent is the one the process works on.
THEOREM NoClaimForgotten == Spec => []ClaimsAreOwned
<1>1. DKGInv => ClaimsAreOwned
  BY DEF DKGInv, OwnerInv
<1> QED
  BY <1>1, DKGInvariant, PTL

\* An artifact appears only under its own session's pair lease, while the
\* process works on that session and before it has a result for it.
THEOREM WritesUnderLease == Spec => NoLateWrite
<1> DEFINE Written == \A s \in Stores, k \in Keys :
                        ~Exists(s, k) /\ file'[s][k] # NoArtifact =>
                          active = file'[s][k].session /\ cur = active /\ job = NoJob
<1>1. DKGInv /\ [Next]_vars => [Written]_vars
  <2> SUFFICES ASSUME DKGInv, [Next]_vars, NEW s \in Stores, NEW k \in Keys,
                      ~Exists(s, k), file'[s][k] # NoArtifact
               PROVE  active = file'[s][k].session /\ cur = active /\ job = NoJob
    BY Zenon
  <2> USE DEF DKGInv, DKGTypeOK
  <2>1. PICK p \in Stores :
          /\ party[p] = "saving"
          /\ RenameNoReplace(p, KeyOf[share[p].session], share[p])
    BY EveryStoreMove DEF StoreMoves, Exists, PowerLoss
  <2>2. pc = "parties" /\ active = cur /\ job = NoJob
    BY <2>1, Zenon DEF ProcessInv, Publishing
  <2>3. share[p].session = cur /\ file'[s][k] = share[p]
    BY <2>1, Zenon DEF StoreInv, PartyLeft, RenameNoReplace, Exists
  <2> QED
    BY <2>2, <2>3, Zenon
<1> QED
  BY <1>1, DKGInvariant, PTL DEF Spec, NoLateWrite

\* When every read of the stores works, no process ever posts another result
\* for an intent once a COMPLETED one was posted: a restart rebuilds that very
\* result from the artifacts.
THEOREM OneCompletion == ReadFaults = FALSE => (Spec => CompletionIsFinal)
<1> SUFFICES ASSUME ReadFaults = FALSE PROVE Spec => CompletionIsFinal
  OBVIOUS
<1> DEFINE Posted == \A done \in sent, other \in sent' \ sent :
                       done.status = "COMPLETED" => other.intent # done.intent
<1>1. DKGInv /\ FinalInv /\ [Next]_vars => (DKGInv /\ FinalInv)'
  BY TypeStep, ProcessStep, StoreStep, ResultStep, OwnerStep, FinalStep, Zenon DEF DKGInv
<1>2. DKGInv /\ FinalInv /\ [Next]_vars => [Posted]_vars
  <2> SUFFICES ASSUME DKGInv, FinalInv, [Next]_vars, NEW done \in sent, NEW other \in sent' \ sent,
                      done.status = "COMPLETED", other.intent = done.intent
               PROVE  FALSE
    OBVIOUS
  <2>1. pc = "publish" /\ other = job
    BY EveryBackendMove, Zenon DEF DKGInv, BackendMoves
  <2>2. job.intent = cur
    BY <2>1 DEF DKGInv, ProcessInv, Publishing
  <2> QED
    BY <2>1, <2>2, Zenon DEF FinalInv
<1> QED
  BY <1>1, <1>2, DKGInit, PTL DEF Spec, CompletionIsFinal

-----------------------------------------------------------------------------
(* The refinement.                                                         *)

\* A ceremony leaves at most one pair, and the pair stays.
LEMMA PairStep ==
  ASSUME DKGTypeOK, StoreInv, [Next]_vars, NEW i \in Intents
  PROVE  PairOf(i)' = PairOf(i) \/ (PairOf(i) = None /\ PairOf(i)' \in Pairs)
<1>1. CASE PairOf(i) # None
  BY <1>1, StaysDurable, Zenon DEF PairOf, Stores
<1>2. CASE PairOf(i) = None
  <2>0. StoreMoves
    BY EveryStoreMove, Zenon
  <2>1. file' \in [Stores -> [Keys -> Artifacts \cup {NoArtifact}]] /\ KeyOf[i] \in Keys
    BY <2>0, DurableKept, Zenon DEF Keys
  <2>2. PairOf(i)' = None \/ PairOf(i)' \in Pairs
    BY <2>1 DEF PairOf, EvidenceMatches, Pairs, Stores
  <2> QED
    BY <1>2, <2>2
<1> QED
  BY <1>1, <1>2

\* What a completion rests on is the pair its ceremony left.
LEMMA RestsOnPair ==
  ASSUME NEW i \in Intents, NEW pair \in Pairs, Rests(i, pair)
  PROVE  PairOf(i) = pair /\ pair # None
<1>1. pair = [primary |-> pair["primary"], recovery |-> pair["recovery"]]
  BY DEF Pairs, Stores
<1>2. PairOf(i) = [primary |-> pair["primary"], recovery |-> pair["recovery"]]
  BY Zenon DEF Rests, PairOf, Stores
<1> QED
  BY <1>1, <1>2, DKGAssumption, Zenon DEF Pairs

\* An outcome is given once: to a completion with the ceremony's pair, or to a
\* failure without one.
LEMMA OutcomeStep ==
  ASSUME DKGTypeOK, ProcessInv, ResultInv, [Next]_vars, NEW i \in Intents
  PROVE  \/ OutcomeOf(i)' = OutcomeOf(i)
         \/ /\ OutcomeOf(i) = Outcome!Unresolved
            /\ \/ PairOf(i) # None /\ OutcomeOf(i)' = Outcome!Completed(PairOf(i))
               \/ OutcomeOf(i)'.status \in {"FAILED", "TIMED_OUT"} /\ OutcomeOf(i)'.pair = None
<1> USE DEF OutcomeOf, Terminal
<1>1. CASE status'[i] = status[i] /\ evidence'[i] = evidence[i]
  BY <1>1, Zenon
<1>2. ASSUME status[i] \notin Terminal
      PROVE  OutcomeOf(i) = Outcome!Unresolved /\ evidence[i] = None
  BY <1>2, Zenon DEF Outcome!Unresolved, ResultInv
<1>3. ASSUME NEW k \in Intents, UNCHANGED evidence,
             \/ status[k] = "NEW" /\ status' = [status EXCEPT ![k] = "PENDING"]
             \/ BackendClaims(k)
             \/ status[k] \in {"PENDING", "CLAIMED"} /\ status' = [status EXCEPT ![k] = "TIMED_OUT"]
      PROVE  \/ OutcomeOf(i)' = OutcomeOf(i)
             \/ /\ OutcomeOf(i) = Outcome!Unresolved
                /\ OutcomeOf(i)'.status \in {"FAILED", "TIMED_OUT"} /\ OutcomeOf(i)'.pair = None
  <2>1. CASE k # i
    BY <1>1, <1>3, <2>1, Zenon DEF BackendClaims, DKGTypeOK
  <2>2. CASE k = i
    <3>1. status[i] \notin Terminal /\ status'[i] \in {"PENDING", "CLAIMED", "TIMED_OUT"}
      BY <1>3, <2>2, Zenon DEF BackendClaims, DKGTypeOK
    <3> QED
      BY <1>2, <1>3, <3>1, Zenon
  <2> QED
    BY <2>1, <2>2, Zenon
<1>4. ASSUME NEW j \in sent, status[j.intent] = "CLAIMED",
             status' = [status EXCEPT ![j.intent] = j.status],
             evidence' = [evidence EXCEPT ![j.intent] = j.evidence]
      PROVE  \/ OutcomeOf(i)' = OutcomeOf(i)
             \/ /\ OutcomeOf(i) = Outcome!Unresolved
                /\ \/ PairOf(i) # None /\ OutcomeOf(i)' = Outcome!Completed(PairOf(i))
                   \/ OutcomeOf(i)'.status \in {"FAILED", "TIMED_OUT"} /\ OutcomeOf(i)'.pair = None
  <2>1. CASE j.intent # i
    BY <1>1, <1>4, <2>1, Zenon DEF DKGTypeOK
  <2>2. CASE j.intent = i
    <3>1. status'[i] = j.status /\ evidence'[i] = j.evidence
      BY <1>4, <2>2, Zenon DEF DKGTypeOK
    <3>2. OutcomeOf(i) = Outcome!Unresolved
      BY <1>2, <1>4, <2>2, Zenon
    <3>3. CASE j.status = "FAILED" /\ j.evidence = None
      BY <3>1, <3>2, <3>3, Zenon
    <3>4. CASE j.status = "COMPLETED" /\ j.evidence \in Pairs
      <4>1. PairOf(i) = j.evidence /\ j.evidence # None
        BY <2>2, <3>4, RestsOnPair, Zenon DEF ResultInv
      <4> QED
        BY <3>1, <3>2, <3>4, <4>1, Zenon DEF Outcome!Completed
    <3> QED
      BY <3>3, <3>4, JobFields, Zenon DEF DKGTypeOK
  <2> QED
    BY <2>1, <2>2, Zenon
<1> QED
  BY <1>1, <1>3, <1>4, EveryBackendMove, Zenon DEF BackendMoves

\* The system implements the abstract ceremony of DKGOutcome, step by step.
THEOREM RefinesOutcome == Spec => ImplementsOutcome
<1>1. Init => Outcome!Init
  <2> SUFFICES ASSUME Init PROVE Outcome!Init
    OBVIOUS
  <2>1. ASSUME NEW i \in Intents PROVE PairOf(i) = None /\ OutcomeOf(i) = Outcome!Unresolved
    <3>1. durable["primary"] = {} /\ "primary" \in Stores
      BY DEF Init, StoreInit, Stores
    <3>2. PairOf(i) = None
      BY <3>1, Zenon DEF PairOf
    <3> QED
      BY <3>2 DEF Init, BackendInit, OutcomeOf, Outcome!Unresolved, Terminal
  <2> QED
    BY <2>1 DEF Outcome!Init
<1>2. DKGInv /\ [Next]_vars => Outcome!Next
  <2> SUFFICES ASSUME DKGInv, [Next]_vars, NEW i \in Intents
               PROVE  /\ PairOf(i)' = PairOf(i) \/ (PairOf(i) = None /\ PairOf(i)' \in Pairs)
                      /\ \/ OutcomeOf(i)' = OutcomeOf(i)
                         \/ /\ OutcomeOf(i) = Outcome!Unresolved
                            /\ \/ PairOf(i) # None /\ OutcomeOf(i)' = Outcome!Completed(PairOf(i))
                               \/ /\ OutcomeOf(i)'.status \in {"FAILED", "TIMED_OUT"}
                                  /\ OutcomeOf(i)'.pair = None
    BY Zenon DEF Outcome!Next, Outcome!Leave, Outcome!Complete, Outcome!GiveUp, Pairs
  <2>1. PairOf(i)' = PairOf(i) \/ (PairOf(i) = None /\ PairOf(i)' \in Pairs)
    BY PairStep DEF DKGInv
  <2>2. \/ OutcomeOf(i)' = OutcomeOf(i)
        \/ /\ OutcomeOf(i) = Outcome!Unresolved
           /\ \/ PairOf(i) # None /\ OutcomeOf(i)' = Outcome!Completed(PairOf(i))
              \/ OutcomeOf(i)'.status \in {"FAILED", "TIMED_OUT"} /\ OutcomeOf(i)'.pair = None
    BY OutcomeStep DEF DKGInv
  <2> QED
    BY <2>1, <2>2, Zenon
<1> QED
  BY <1>1, <1>2, DKGInvariant, PTL DEF Spec, ImplementsOutcome, Outcome!Spec

-----------------------------------------------------------------------------
(* The delays, for every width of a duration.                              *)

\* A non-empty set of naturals has a least member: induction without an
\* operator as a parameter.
LEMMA LeastNat ==
  ASSUME NEW T \in SUBSET Nat, T # {}
  PROVE  \E x \in T : \A y \in T : x <= y
<1> DEFINE R == OpToRel(<, Nat)
<1>1. IsWellFoundedOn(R, Nat)
  BY NatLessThanWellFounded, Zenon
<1>2. \A x, y \in Nat : <<y, x>> \in R <=> y < x
  BY DEF OpToRel
<1> HIDE DEF R
<1>3. PICK x \in T : \A y \in T : ~(<<y, x>> \in R)
  BY <1>1, WFMin, Zenon
<1>4. \A y \in T : ~(y < x)
  BY <1>2, <1>3, Zenon
<1> QED
  BY <1>4

\* A table of the powers up to m.
Table(g, m) ==
  /\ g \in [0..m -> Nat]
  /\ g[0] = 1
  /\ \A n \in 1..m : g[n] = 2 * g[n - 1]

LEMMA TableExists ==
  ASSUME NEW m \in Nat
  PROVE  \E g : Table(g, m)
<1> DEFINE T == {k \in Nat : ~\E g : Table(g, k)}
<1>1. SUFFICES ASSUME NEW k \in T, \A j \in T : k <= j PROVE FALSE
  <2>1. T = {}
    BY <1>1, LeastNat, Zenon
  <2> QED
    BY <2>1
<1>2. CASE k = 0
  <2> DEFINE g == [n \in 0..0 |-> 1]
  <2>1. Table(g, 0)
    BY DEF Table
  <2> QED
    BY <1>1, <1>2, <2>1
<1>3. CASE k # 0
  <2>1. k - 1 \in Nat /\ k \in Nat /\ k - 1 < k
    BY <1>1, <1>3
  <2>2. PICK g : Table(g, k - 1)
    BY <1>1, <2>1
  <2> DEFINE h == [n \in 0..k |-> IF n = k THEN 2 * g[k - 1] ELSE g[n]]
  <2>3. h \in [0..k -> Nat]
    BY <2>1, <2>2 DEF Table
  <2>4. h[0] = 1
    BY <2>1, <2>2, <1>3 DEF Table
  <2>5. ASSUME NEW n \in 1..k PROVE h[n] = 2 * h[n - 1]
    <3>1. n \in 0..k /\ n - 1 \in 0..k /\ n - 1 # k
      BY <2>1
    <3>2. h[n - 1] = g[n - 1]
      BY <3>1
    <3>3. CASE n = k
      BY <3>1, <3>2, <3>3
    <3>4. CASE n # k
      <4>1. n \in 1..(k - 1)
        BY <2>1, <3>4
      <4> QED
        BY <2>2, <3>1, <3>2, <3>4, <4>1 DEF Table
    <3> QED
      BY <3>3, <3>4
  <2>6. Table(h, k)
    BY <2>3, <2>4, <2>5, Zenon DEF Table
  <2> QED
    BY <1>1, <2>6
<1> QED
  BY <1>2, <1>3

LEMMA TablesAgree ==
  ASSUME NEW m \in Nat, NEW k \in Nat, NEW g, NEW h, Table(g, m), Table(h, k),
         NEW n \in Nat, n <= m, n <= k
  PROVE  g[n] = h[n]
<1> DEFINE T == {j \in Nat : j <= m /\ j <= k /\ g[j] # h[j]}
<1>1. SUFFICES ASSUME NEW j \in T, \A i \in T : j <= i PROVE FALSE
  <2>1. T = {}
    BY <1>1, LeastNat, Zenon
  <2> QED
    BY <2>1
<1>2. CASE j = 0
  BY <1>1, <1>2 DEF Table
<1>3. CASE j # 0
  <2>1. j - 1 \in Nat /\ j \in 1..m /\ j \in 1..k /\ ~(j <= j - 1)
    BY <1>1, <1>3
  <2>2. g[j - 1] = h[j - 1]
    BY <1>1, <2>1
  <2> QED
    BY <1>1, <2>1, <2>2 DEF Table
<1> QED
  BY <1>2, <1>3

\* The definition of Pow2 has a solution, so Pow2 satisfies it.
LEMMA Pow2Def ==
  /\ Pow2 \in [Nat -> Nat]
  /\ Pow2[0] = 1
  /\ \A n \in Nat : Pow2[n + 1] = 2 * Pow2[n]
<1> DEFINE G(m) == CHOOSE g : Table(g, m)
           F == [n \in Nat |-> G(n)[n]]
           Solves(f) == f = [n \in Nat |-> IF n = 0 THEN 1 ELSE 2 * f[n - 1]]
<1>1. \A m \in Nat : Table(G(m), m)
  BY TableExists
<1> HIDE DEF G
<1>2. \A n \in Nat : F[n] \in Nat
  BY <1>1 DEF Table
<1>3. F[0] = 1
  BY <1>1 DEF Table
<1>4. ASSUME NEW n \in Nat, n # 0 PROVE F[n] = 2 * F[n - 1]
  <2>1. n - 1 \in Nat /\ n \in 1..n /\ n - 1 <= n
    BY <1>4
  <2>2. G(n)[n - 1] = G(n - 1)[n - 1]
    BY <1>1, <2>1, TablesAgree
  <2> QED
    BY <1>1, <2>1, <2>2, Zenon DEF Table
<1>5. F = [n \in Nat |-> F[n]]
  OBVIOUS
<1>6. Solves(F)
  <2> HIDE DEF F
  <2> QED
    BY <1>3, <1>4, <1>5, Zenon
<1>7. Pow2 = CHOOSE f : Solves(f)
  BY DEF Pow2
<1>8. Solves(Pow2)
  <2> HIDE DEF F, Solves
  <2> QED
    BY <1>6, <1>7
<1>9. Pow2[0] = 1 /\ \A n \in Nat : n # 0 => Pow2[n] = 2 * Pow2[n - 1]
  BY <1>8
<1>10. \A n \in Nat : Pow2[n] = F[n]
  <2> DEFINE T == {n \in Nat : Pow2[n] # F[n]}
  <2> HIDE DEF F, Solves
  <2>1. SUFFICES ASSUME NEW j \in T, \A i \in T : j <= i PROVE FALSE
    <3>1. T = {}
      BY <2>1, LeastNat, Zenon
    <3> QED
      BY <3>1
  <2>2. CASE j = 0
    BY <1>3, <1>9, <2>1, <2>2
  <2>3. CASE j # 0
    <3>1. j - 1 \in Nat /\ ~(j <= j - 1)
      BY <2>1, <2>3
    <3>2. Pow2[j - 1] = F[j - 1]
      BY <2>1, <3>1
    <3> QED
      BY <1>4, <1>9, <2>1, <2>3, <3>2, Zenon
  <2> QED
    BY <2>2, <2>3
<1>11. Pow2 \in [Nat -> Nat]
  <2> HIDE DEF F
  <2>1. Pow2 = [n \in Nat |-> Pow2[n]]
    BY <1>8
  <2> QED
    BY <1>2, <1>10, <2>1
<1>12. ASSUME NEW n \in Nat PROVE Pow2[n + 1] = 2 * Pow2[n]
  <2>1. n + 1 \in Nat /\ n + 1 # 0 /\ (n + 1) - 1 = n
    OBVIOUS
  <2> QED
    BY <1>9, <2>1
<1> QED
  BY <1>9, <1>11, <1>12, Zenon

LEMMA Pow2Grows ==
  /\ \A n \in Nat : Pow2[n] \in Nat /\ Pow2[n] >= 1 /\ Pow2[n] >= n + 1
  /\ \A m, n \in Nat : m <= n => Pow2[m] <= Pow2[n]
<1>1. \A n \in Nat : Pow2[n] >= n + 1
  <2> DEFINE T == {n \in Nat : ~(Pow2[n] >= n + 1)}
  <2>1. SUFFICES ASSUME NEW j \in T, \A i \in T : j <= i PROVE FALSE
    <3>1. T = {}
      BY <2>1, LeastNat, Zenon
    <3> QED
      BY <3>1
  <2>2. CASE j = 0
    BY <2>1, <2>2, Pow2Def
  <2>3. CASE j # 0
    <3>1. j - 1 \in Nat /\ ~(j <= j - 1) /\ (j - 1) + 1 = j
      BY <2>1, <2>3
    <3>2. Pow2[j - 1] >= j
      BY <2>1, <3>1
    <3>3. Pow2[j] = 2 * Pow2[j - 1] /\ Pow2[j - 1] \in Nat
      BY <3>1, Pow2Def, Zenon
    <3> QED
      BY <2>1, <2>3, <3>2, <3>3
  <2> QED
    BY <2>2, <2>3
<1>2. ASSUME NEW m \in Nat PROVE \A n \in Nat : m <= n => Pow2[m] <= Pow2[n]
  <2> DEFINE T == {n \in Nat : m <= n /\ ~(Pow2[m] <= Pow2[n])}
  <2>1. SUFFICES ASSUME NEW j \in T, \A i \in T : j <= i PROVE FALSE
    <3>1. T = {}
      BY <2>1, LeastNat, Zenon
    <3> QED
      BY <3>1
  <2>2. j # m /\ j \in Nat /\ m <= j
    BY <2>1, Pow2Def
  <2>3. j - 1 \in Nat /\ m <= j - 1 /\ ~(j <= j - 1) /\ (j - 1) + 1 = j
    BY <2>2
  <2>4. Pow2[m] <= Pow2[j - 1]
    BY <2>1, <2>3
  <2>5. Pow2[j] = 2 * Pow2[j - 1] /\ Pow2[j - 1] \in Nat /\ Pow2[m] \in Nat
    BY <2>3, Pow2Def, Zenon
  <2> QED
    BY <2>1, <2>4, <2>5
<1>3. \A n \in Nat : Pow2[n] \in Nat /\ Pow2[n] >= 1
  <2>1. ASSUME NEW n \in Nat PROVE Pow2[n] \in Nat /\ Pow2[n] >= 1
    <3>1. Pow2[n] \in Nat /\ Pow2[n] >= n + 1
      BY <1>1, Pow2Def, Zenon
    <3> QED
      BY <3>1
  <2> QED
    BY <2>1
<1> QED
  BY <1>1, <1>2, <1>3

\* What the provers need about division and products.
LEMMA Division ==
  /\ \A x \in Int, d \in Nat \ {0} : x \div d \in Int /\ d * (x \div d) <= x /\ x < d * (x \div d) + d
  /\ \A x, y \in Int, d \in Nat \ {0} : x <= y => x \div d <= y \div d
  /\ \A x, y \in Int, d \in Nat : x <= y => x * d <= y * d
<1>1. ASSUME NEW x \in Int, NEW d \in Nat \ {0}
      PROVE  x \div d \in Int /\ d * (x \div d) <= x /\ x < d * (x \div d) + d
  <2>1. x \div d \in Int /\ x % d \in 0..(d - 1)
    OBVIOUS
  <2>2. x = d * (x \div d) + (x % d)
    OBVIOUS
  <2> QED
    BY <2>1, <2>2
<1>2. ASSUME NEW x \in Int, NEW y \in Int, NEW d \in Nat, x <= y PROVE x * d <= y * d
  BY <1>2
<1>3. ASSUME NEW x \in Int, NEW y \in Int, NEW d \in Nat \ {0}, x <= y PROVE x \div d <= y \div d
  <2> DEFINE p == x \div d
             q == y \div d
  <2>1. p \in Int /\ q \in Int /\ d * p <= x /\ y < d * q + d
    BY <1>1
  <2> HIDE DEF p, q
  <2>2. d * p < d * (q + 1)
    BY <1>3, <2>1
  <2>3. p < q + 1
    <3>1. SUFFICES ASSUME q + 1 <= p PROVE FALSE
      BY <2>1
    <3>2. (q + 1) * d <= p * d
      BY <1>2, <2>1, <3>1
    <3> QED
      BY <2>1, <2>2, <3>2
  <2>4. p <= q
    BY <2>1, <2>3
  <2> QED
    BY <2>4 DEF p, q
<1> QED
  BY <1>1, <1>2, <1>3

\* The comparison by division makes the product safe: cappedExponential is
\* the product cut at the maximum.
LEMMA CappedIsProduct ==
  ASSUME NEW a \in 1..MaxDuration, NEW b \in 1..MaxDuration, a <= b, NEW n \in Nat \ {0}
  PROVE  CappedExponential(a, b, n) = AtMost(a * Pow2[n - 1], b)
<1> DEFINE p == Pow2[n - 1]
           half == Pow2[Width - 1]
<1>1. n - 1 \in Nat /\ p \in Nat /\ p >= 1
  <2>1. n - 1 \in Nat
    OBVIOUS
  <2> QED
    BY <2>1, Pow2Grows
<1>2. half \in Nat /\ half >= 1 /\ Pow2[Width] = 2 * half /\ MaxDuration = half - 1
  <2>1. Width - 1 \in Nat /\ (Width - 1) + 1 = Width
    BY BackoffAssumption
  <2> QED
    BY <2>1, Pow2Def, Pow2Grows, Zenon DEF MaxDuration
<1>3. a \in Nat /\ b \in Nat /\ 1 <= a /\ b <= half - 1
  BY <1>2
<1>4. CASE n = 1
  <2>1. a * p = a
    BY <1>3, <1>4, Pow2Def
  <2> QED
    BY <1>3, <1>4, <2>1 DEF CappedExponential, AtMost
<1>5. CASE n > 1 /\ n - 1 >= Width - 1
  <2>1. p >= half
    BY <1>1, <1>5, BackoffAssumption, Pow2Grows
  <2> HIDE DEF p, half
  <2>2. a * p >= p /\ a * p \in Nat
    BY <1>1, <1>3
  <2>3. a * p > b
    BY <1>1, <1>2, <1>3, <2>1, <2>2
  <2> QED
    BY <1>5, <2>3 DEF CappedExponential, AtMost, p
<1>6. CASE n > 1 /\ ~(n - 1 >= Width - 1) /\ a > b \div p
  <2> HIDE DEF p, half
  <2> DEFINE q == b \div p
  <2>1. q \in Int /\ b < p * q + p
    BY <1>1, <1>3, Division
  <2>2. q + 1 <= a
    BY <1>3, <1>6, <2>1
  <2> HIDE DEF q
  <2>3. (q + 1) * p <= a * p
    BY <1>1, <1>3, <2>1, <2>2, Division
  <2>4. a * p > b
    BY <1>1, <1>3, <2>1, <2>3
  <2> QED
    BY <1>6, <2>4 DEF CappedExponential, AtMost, p
<1>7. CASE n > 1 /\ ~(n - 1 >= Width - 1) /\ ~(a > b \div p)
  <2> DEFINE q == b \div p
             x == a * p
  <2>1. q \in Int /\ p * q <= b
    <3> HIDE DEF p
    <3> QED
      BY <1>1, <1>3, Division
  <2>2. a <= q
    BY <1>3, <1>7, <2>1
  <2>3. x \in Nat /\ x <= b
    <3> HIDE DEF p, q
    <3>1. a * p <= q * p
      BY <1>1, <1>3, <2>1, <2>2, Division
    <3> QED
      BY <1>1, <1>3, <2>1, <3>1
  <2>4. Wrapped(x) = x
    <3>1. Wrapped(x) = ((x + half) % (2 * half)) - half
      BY <1>2 DEF Wrapped
    <3> HIDE DEF x, half
    <3>2. x + half \in 0..(2 * half - 1)
      BY <1>2, <1>3, <2>3
    <3>3. (x + half) % (2 * half) = x + half
      BY <1>2, <3>2
    <3> QED
      BY <1>2, <2>3, <3>1, <3>3
  <2> QED
    BY <1>7, <2>4 DEF CappedExponential
<1> QED
  BY <1>1, <1>4, <1>5, <1>6, <1>7

LEMMA CappedBounds ==
  ASSUME NEW a \in 1..MaxDuration, NEW b \in 1..MaxDuration, a <= b, NEW n \in Nat \ {0}
  PROVE  CappedExponential(a, b, n) \in a..b
<1> DEFINE p == Pow2[n - 1]
<1>1. p \in Nat /\ p >= 1
  <2>1. n - 1 \in Nat
    OBVIOUS
  <2> QED
    BY <2>1, Pow2Grows
<1>2. MaxDuration \in Int
  BY BackoffAssumption, Pow2Def DEF MaxDuration
<1>3. a * p \in Nat /\ a * p >= a
  <2> HIDE DEF p
  <2> QED
    BY <1>1, <1>2
<1> QED
  BY <1>2, <1>3, CappedIsProduct DEF AtMost

LEMMA DelaysAreInts ==
  /\ MaxDuration \in Nat
  /\ \A d \in Delays : d[1] \in 1..MaxDuration /\ d[2] \in 1..MaxDuration /\ d[1] <= d[2]
<1>1. Width - 1 \in Nat
  BY BackoffAssumption
<1>2. MaxDuration \in Nat
  BY <1>1, Pow2Grows DEF MaxDuration
<1> QED
  BY <1>2 DEF Delays

\* The jitter at its least takes its share and no more, and any other jitter
\* leaves at least as much (NextDelay).
LEMMA JitterShare ==
  ASSUME NEW delay \in Nat, NEW r \in 0..RandomSteps
  PROVE  /\ Jittered(delay, r) \in Int /\ Jittered(delay, 0) \in Int
         /\ Jittered(delay, 0) <= Jittered(delay, r)
         /\ Jittered(delay, 0) <= delay
<1> DEFINE den == JitterDen * RandomSteps
           cut == JitterNum * RandomSteps
           low == den - cut
           w == 2 * JitterNum * r
<1>1. JitterDen \in Nat /\ JitterNum \in Nat /\ RandomSteps \in Nat /\ r \in Nat
      /\ JitterDen >= 1 /\ RandomSteps >= 1 /\ JitterNum <= JitterDen
  BY BackoffAssumption
<1>2. den \in Nat \ {0}
  BY <1>1
<1>3. cut \in Nat /\ cut <= den
  BY <1>1, Division
<1>4. w \in Nat
  BY <1>1
<1>5. Jittered(delay, r) = (delay * (low + w)) \div den
  BY DEF Jittered
<1>6. Jittered(delay, 0) = (delay * low) \div den
  <2>1. 2 * JitterNum * 0 = 0 /\ low + 0 = low
    BY <1>1, <1>2, <1>3
  <2> QED
    BY <2>1 DEF Jittered
<1> HIDE DEF den, cut, w
<1>7. low \in Nat /\ low <= den /\ low <= low + w
  BY <1>2, <1>3, <1>4
<1> HIDE DEF low
<1>8. low * delay <= (low + w) * delay /\ low * delay <= den * delay
  BY <1>2, <1>4, <1>7, Division
<1>9. delay * low \in Nat /\ delay * (low + w) \in Nat /\ delay * low <= delay * (low + w)
  BY <1>4, <1>7, <1>8
<1>10. (delay * low) \div den <= (delay * (low + w)) \div den
  BY <1>2, <1>9, Division
<1> DEFINE q == (delay * low) \div den
<1>11. q \in Int /\ den * q <= delay * low
  BY <1>2, <1>9, Division
<1>12. (delay * (low + w)) \div den \in Int
  BY <1>2, <1>9, Division
<1>13. q <= delay
  <2> HIDE DEF q
  <2>1. SUFFICES ASSUME delay + 1 <= q PROVE FALSE
    BY <1>11
  <2>2. (delay + 1) * den <= q * den
    BY <1>2, <1>11, <2>1, Division
  <2> QED
    BY <1>2, <1>7, <1>8, <1>11, <2>2
<1> QED
  BY <1>5, <1>6, <1>10, <1>11, <1>12, <1>13, Zenon

\* The publisher's delay doubles to its maximum and stays there, for every
\* width of a duration and so for the 64 bits of the code: the comparison by
\* division in cappedExponential lets no product wrap, and the attempt counter
\* stops where the delay has long been the maximum (nextAttempt).
THEOREM DelaysDouble == DelayDoubles
<1> SUFFICES ASSUME NEW d \in Delays, NEW n \in 1..MaxAttempt
             PROVE  CappedExponential(d[1], d[2], NextAttempt(n))
                      = AtMost(2 * CappedExponential(d[1], d[2], n), d[2])
  BY DEF DelayDoubles
<1> DEFINE a == d[1]
           b == d[2]
           p == Pow2[n - 1]
<1>1. a \in 1..MaxDuration /\ b \in 1..MaxDuration /\ a <= b /\ MaxDuration \in Nat
  BY DelaysAreInts
<1>2. Width \in Nat /\ Pow2[Width] \in Nat /\ Pow2[Width] >= Width + 1 /\ MaxAttempt \in Nat
  BY BackoffAssumption, Pow2Grows DEF MaxAttempt
<1>3. n \in Nat \ {0} /\ n - 1 \in Nat /\ n + 1 \in Nat \ {0} /\ (n + 1) - 1 = n /\ (n - 1) + 1 = n
  BY <1>2
<1>4. p \in Nat /\ p >= 1 /\ Pow2[n] = 2 * p
  BY <1>3, Pow2Def, Pow2Grows, Zenon
<1>5. CappedExponential(a, b, n) = AtMost(a * p, b)
  BY <1>1, <1>3, CappedIsProduct, Zenon
<1>6. CASE n = MaxAttempt
  <2>1. NextAttempt(n) = n
    BY <1>6 DEF NextAttempt
  <2>2. n - 1 >= Width - 1 /\ n > 1
    BY <1>2, <1>6, BackoffAssumption DEF MaxAttempt
  <2>3. CappedExponential(a, b, n) = b
    BY <1>3, <2>2 DEF CappedExponential
  <2>4. AtMost(2 * b, b) = b
    BY <1>1 DEF AtMost
  <2> QED
    BY <2>1, <2>3, <2>4, Zenon
<1>7. CASE n # MaxAttempt
  <2>1. NextAttempt(n) = n + 1
    BY <1>7 DEF NextAttempt
  <2>2. CappedExponential(a, b, n + 1) = AtMost(a * (2 * p), b)
    <3>1. CappedExponential(a, b, n + 1) = AtMost(a * Pow2[(n + 1) - 1], b)
      BY <1>1, <1>3, CappedIsProduct
    <3> QED
      BY <1>3, <1>4, <3>1, Zenon
  <2> DEFINE x == a * p
  <2>3. x \in Nat /\ a * (2 * p) = 2 * x
    <3> HIDE DEF p
    <3> QED
      BY <1>1, <1>4
  <2>4. AtMost(2 * x, b) = AtMost(2 * AtMost(x, b), b)
    <3> HIDE DEF x
    <3> QED
      BY <1>1, <2>3 DEF AtMost
  <2> QED
    BY <1>5, <2>1, <2>2, <2>3, <2>4, Zenon
<1> QED
  BY <1>6, <1>7, Zenon

\* No retry sleeps beyond its maximum, and the jitter takes no more than its
\* share, for every width, jitter and source of randomness (NextDelay).
THEOREM SleepsBounded == SleepBounded
<1> SUFFICES ASSUME NEW d \in Delays, NEW n \in 1..MaxAttempt, NEW r \in 0..RandomSteps
             PROVE  AtMost(Jittered(CappedExponential(d[1], d[2], n), r), d[2])
                      \in Jittered(CappedExponential(d[1], d[2], n), 0)..d[2]
  BY DEF SleepBounded, NextDelay
<1> DEFINE c == CappedExponential(d[1], d[2], n)
<1>1. d[1] \in 1..MaxDuration /\ d[2] \in 1..MaxDuration /\ d[1] <= d[2] /\ MaxDuration \in Nat
  BY DelaysAreInts
<1>2. MaxAttempt \in Int
  BY BackoffAssumption, Pow2Grows DEF MaxAttempt
<1>3. n \in Nat \ {0}
  BY <1>2
<1>4. c \in d[1]..d[2]
  BY <1>1, <1>3, CappedBounds, Zenon
<1>5. c \in Nat /\ c <= d[2]
  BY <1>1, <1>4
<1> HIDE DEF c
<1>6. /\ Jittered(c, r) \in Int /\ Jittered(c, 0) \in Int
      /\ Jittered(c, 0) <= Jittered(c, r) /\ Jittered(c, 0) <= c
  BY <1>5, JitterShare
<1>7. AtMost(Jittered(c, r), d[2]) \in Jittered(c, 0)..d[2]
  BY <1>1, <1>5, <1>6 DEF AtMost
<1> QED
  BY <1>7 DEF c

LEMMA PollsBackOff == PollBacksOff
<1> SUFFICES ASSUME NEW d \in Delays, NEW factor \in Factors, NEW current \in d[1]..d[2],
                    NEW next \in NextBackoff(current, d[1], d[2], factor)
             PROVE  /\ next \in d[1]..d[2]
                    /\ (current * factor) \div 2 <= MaxDuration => next >= current
  BY DEF PollBacksOff
<1> DEFINE min == d[1]
           max == d[2]
           product == (current * factor) \div 2
<1>1. /\ min \in Nat /\ max \in Nat /\ 1 <= min /\ min <= max /\ max <= MaxDuration
      /\ MaxDuration \in Nat
  BY DelaysAreInts
<1>2. factor \in Nat /\ current \in Nat /\ min <= current /\ current <= max
  BY <1>1, BackoffAssumption
<1> HIDE DEF min, max
<1>3. ASSUME NEW x \in Int PROVE Clamped(x, min, max) \in min..max /\ (x >= current => Clamped(x, min, max) >= current)
  BY <1>1, <1>2 DEF Clamped, AtMost
<1>4. CASE factor <= 2
  <2>1. next = Clamped(current, min, max)
    BY <1>4 DEF NextBackoff, min, max
  <2>2. next \in min..max /\ next >= current
    BY <1>2, <1>3, <2>1
  <2> QED
    BY <2>2 DEF min, max
<1>5. CASE factor > 2
  <2>1. PICK x \in ToDuration(product) : next = Clamped(x, min, max)
    BY <1>2, <1>5 DEF NextBackoff, min, max
  <2>2. product \in Int /\ product >= current
    <3>1. 3 * current <= factor * current
      BY <1>2, <1>5, Division
    <3>2. current * factor \in Nat /\ 2 * current <= current * factor
      BY <1>2, <3>1
    <3> DEFINE y == current * factor
    <3> HIDE DEF y
    <3>3. y \div 2 >= current /\ y \div 2 \in Int
      BY <1>2, <3>2 DEF y
    <3> QED
      BY <3>3 DEF y
  <2> HIDE DEF product
  <2>3. x \in Int /\ (product <= MaxDuration => x = product)
    BY <1>1, <2>1, <2>2 DEF ToDuration
  <2>4. next \in min..max /\ (product <= MaxDuration => next >= current)
    BY <1>3, <2>1, <2>2, <2>3, Zenon
  <2> QED
    BY <2>4 DEF min, max, product
<1> QED
  BY <1>2, <1>4, <1>5

\* While a result is unconfirmed, the delay before its next post doubles to
\* its maximum and never starts over, and no sleep is longer, at every attempt
\* and for every width (Publish, NextDelay, cappedExponential).
THEOREM RetriesBackOff == Spec => []RetryDelays
<1>1. RetryDelays
  BY DelaysDouble, SleepsBounded DEF RetryDelays
<1> QED
  BY <1>1, PTL

\* An idle worker polls at intervals between its bounds, never at shorter ones
\* than before, for every width and factor (nextBackoff).
THEOREM IdlePollsBackOff == Spec => []PollIntervals
<1>1. PollIntervals
  BY PollsBackOff DEF PollIntervals
<1> QED
  BY <1>1, PTL
=============================================================================

------------------------------ MODULE Reconciler ------------------------------
(***************************************************************************)
(* Startup reconciliation (internal/reconcile/reconciler.go): before any   *)
(* DKG is admitted, the process probes the stores, reads the backend's     *)
(* listing and the artifacts it addresses, and either finds nothing to do, *)
(* builds the one terminal job that resolves an earlier process's session, *)
(* gives up provisioning, or stops.                                        *)
(***************************************************************************)
EXTENDS TerminalPublisher

VARIABLES
  capable,      \* both stores were probed without an error
  listing       \* the backend's answer: [own, pending]

startVars == <<capable, listing>>

NoListing == [own |-> {}, pending |-> {}]

\* A store that was never probed is inspected all the same.
ProbeSkipped ==
  /\ pc = "probe" /\ pc' = "list" /\ capable' = TRUE
  /\ UNCHANGED <<cur, job, file, durable, active, runVars, backendVars, listing>>

Probe ==
  /\ pc = "probe" /\ pc' = "list"
  /\ \/ ProbePublishCapability /\ capable' = TRUE
     \/ ReadFaults /\ UNCHANGED <<durable, capable>>
  /\ UNCHANGED <<cur, job, file, active, runVars, backendVars, listing>>

List ==
  /\ pc = "list" /\ pc' = "decide"
  /\ listing' = [own |-> {i \in Intents : status[i] = "CLAIMED"},
                 pending |-> {i \in Intents : status[i] = "PENDING"}]
  /\ UNCHANGED <<cur, job, file, durable, active, runVars, backendVars, capable>>

\* Without a listing startup returns its error and the process ends.
ListFails ==
  /\ pc = "list" /\ pc' = "down" /\ capable' = FALSE
  /\ UNCHANGED <<cur, job, file, durable, active, runVars, backendVars, listing>>

HasArtifact(i) == \E s \in Stores : Exists(s, KeyOf[i])

CandidatesWithArtifacts == {i \in listing.own \cup listing.pending : HasArtifact(i)}

\* The intents that ask for a terminal result at startup.
Candidates == listing.own \cup {i \in listing.pending : HasArtifact(i)}

Several(intents) == \E i, j \in intents : i # j

\* The listing is not one this co-signer's history can produce.
ProtocolIntegrity ==
  \/ Several(listing.own)
  \/ listing.pending \cap late # {}
  \/ capable /\ Several(Candidates)

\* reconstructClaimed: the completion the earlier process would have sent.
Reconstructed(i) ==
  {IF EvidenceMatches(b, c) THEN CompletedJob(i, b, c) ELSE FailedJob(i) :
     b \in InspectExisting("primary", i), c \in InspectExisting("recovery", i)}

BackendClaims(i) ==
  /\ status[i] = "PENDING"
  /\ status' = [status EXCEPT ![i] = "CLAIMED"]

\* A pending intent whose key already has an artifact is claimed and failed.
\* Doubt about the claim asks for a fresh listing, a refusal ends startup.
ClaimForFailure(i) ==
  \/ BackendClaims(i) /\ pc' = "publish" /\ cur' = i /\ job' = FailedJob(i)
  \/ BackendClaims(i) /\ pc' = "list" /\ UNCHANGED <<cur, job>>
  \/ pc' \in {"list", "down"} /\ UNCHANGED <<cur, job, status>>

TerminalPublicationRequired(i) ==
  \/ /\ i \in listing.own
     /\ job' \in Reconstructed(i)
     /\ pc' = "publish" /\ cur' = i /\ UNCHANGED status
  \/ i \in listing.pending /\ ClaimForFailure(i)

Decide ==
  /\ pc = "decide"
  /\ \/ /\ ProtocolIntegrity
        /\ pc' = "down" /\ UNCHANGED <<cur, job, status>>
     \/ /\ ~ProtocolIntegrity /\ (~capable \/ ReadFaults)   \* capability deferred
        /\ pc' = "latched" /\ UNCHANGED <<cur, job, status>>
     \/ /\ ~ProtocolIntegrity /\ capable /\ Candidates = {}  \* eligible
        /\ pc' = "idle" /\ UNCHANGED <<cur, job, status>>
     \/ /\ ~ProtocolIntegrity /\ capable
        /\ \E i \in Candidates : TerminalPublicationRequired(i)
  /\ listing' = NoListing
  /\ capable' = (capable /\ pc' # "down")
  /\ UNCHANGED <<file, durable, active, runVars, evidence, sent>>

=============================================================================

---------------------------------- MODULE DKG ----------------------------------
(***************************************************************************)
(* DKG from claim to terminal result, over the lives of the process: the   *)
(* session worker's DKG path, the coordinator, the stores, the publisher   *)
(* and the reconciler, with the process killed and power lost at any step. *)
(* One DKG session runs at a time (module Scheduler) and none before       *)
(* startup has resolved the previous one (module Lifecycle).               *)
(***************************************************************************)
EXTENDS Reconciler, Backoff

CONSTANTS
  MaxCrashes    \* bound on the kills and power losses explored

ASSUME DKGAssumption ==
  /\ KeyOf \in [Intents -> Keys]
  /\ ReadFaults \in BOOLEAN
  /\ MaxCrashes \in Nat
  /\ None \notin Intents \cup PublicKeys \cup [Stores -> Artifacts]

VARIABLE crashes   \* kills and power losses so far

storeVars == <<file, durable, active>>
vars == <<pc, cur, job, storeVars, runVars, backendVars, startVars, late, crashes>>

envVars == <<late, crashes>>

Init ==
  /\ pc = "down" /\ cur = None /\ job = NoJob
  /\ StoreInit /\ RunInit /\ BackendInit
  /\ capable = FALSE /\ listing = NoListing
  /\ late = {} /\ crashes = 0

\* The scheduler admits a pending DKG.
Admit ==
  /\ pc = "idle"
  /\ \E i \in Intents : status[i] = "PENDING" /\ cur' = i
  /\ pc' = "claim"
  /\ UNCHANGED <<job, storeVars, runVars, backendVars, startVars, envVars>>

\* The claim is answered.  Validation or readiness may still fail it.
ClaimAccepted ==
  /\ pc \in {"claim", "reclaim"} /\ cur \notin late
  /\ \/ BackendClaims(cur)
     \/ pc = "reclaim" /\ status[cur] = "CLAIMED" /\ UNCHANGED status
  /\ Goto("begin") \/ Fail
  /\ UNCHANGED <<storeVars, runVars, evidence, sent, startVars, envVars>>

\* No usable answer: the backend may have claimed it, and the claim is repeated.
ClaimUnknown ==
  /\ pc \in {"claim", "reclaim"} /\ cur \notin late
  /\ BackendClaims(cur) \/ UNCHANGED status
  /\ Goto("reclaim")
  /\ UNCHANGED <<storeVars, runVars, evidence, sent, startVars, envVars>>

Leave == pc' = "idle" /\ cur' = None /\ UNCHANGED job

\* A refusal of the first claim means another state; after an unknown outcome
\* it may be the answer to our own claim and is cleaned up as a failure.
ClaimRefused ==
  /\ cur \notin late
  /\ \/ pc = "claim" /\ Leave
     \/ pc = "reclaim" /\ Fail
     \/ pc = "reclaim" /\ status[cur] \in Terminal /\ Leave
  /\ UNCHANGED <<storeVars, runVars, backendVars, startVars, envVars>>

ClaimExpired ==
  /\ pc \in {"claim", "reclaim"} /\ cur \in late /\ Fail
  /\ UNCHANGED <<storeVars, runVars, backendVars, startVars, envVars>>

Forget ==
  /\ pc' = "down" /\ cur' = None /\ job' = NoJob /\ active' = None
  /\ held' = {} /\ paused' = FALSE /\ PartiesGone
  /\ capable' = FALSE /\ listing' = NoListing

\* The process is killed, or stops: names stay visible.
Kill ==
  /\ pc # "down" /\ crashes < MaxCrashes /\ crashes' = crashes + 1
  /\ Forget
  /\ UNCHANGED <<file, durable, backendVars, late>>

LosePower ==
  /\ crashes < MaxCrashes /\ crashes' = crashes + 1
  /\ Forget /\ PowerLoss
  /\ UNCHANGED <<backendVars, late>>

\* The deadline of an intent passes; the backend may notice sooner or later.
Deadline ==
  /\ \E i \in Intents : status[i] # "NEW" /\ i \notin late /\ late' = late \cup {i}
  /\ UNCHANGED <<pc, cur, job, storeVars, runVars, backendVars, startVars, crashes>>

Restart ==
  /\ pc = "down" /\ pc' = "probe"
  /\ UNCHANGED <<cur, job, storeVars, runVars, backendVars, startVars, envVars>>

Claim == Admit \/ ClaimAccepted \/ ClaimUnknown \/ ClaimRefused \/ ClaimExpired

Startup == (Probe \/ List \/ ListFails \/ Decide) /\ UNCHANGED envVars

Session == Run /\ UNCHANGED <<backendVars, startVars, envVars>>

Publication ==
  /\ Post \/ Retry \/ Confirmed \/ BackendApplies
  /\ UNCHANGED <<startVars, envVars>>

Backend == (BackendCreates \/ BackendTimesOut) /\ UNCHANGED <<startVars, envVars>>

Next ==
  \/ Startup \/ Claim \/ Session \/ Publication \/ Backend
  \/ Deadline \/ Kill \/ LosePower \/ Restart

Spec == Init /\ [][Next]_vars

\* Every step of the process is eventually taken.  A party returns once its
\* context is done and the deadline ends the context.  The network is only
\* assumed to let a listing, a post and its answer through when they are tried
\* forever, and the backend not to list an expired intent as pending forever,
\* which the reconciler takes for a broken contract.  No claimed intent is
\* assumed to time out.
Fairness ==
  /\ WF_vars(Restart)
  /\ WF_vars(Probe /\ UNCHANGED envVars) /\ WF_vars(Decide /\ UNCHANGED envVars)
  /\ SF_vars(List /\ UNCHANGED envVars)
  /\ WF_vars(ClaimExpired)
  /\ WF_vars(Deadline)
  /\ WF_vars((BeginJob \/ AcquireDKGPreParams \/ Register \/ StartParties \/ Join \/ Inspect)
               /\ UNCHANGED <<backendVars, startVars, envVars>>)
  /\ \A p \in Stores :
       WF_vars(CtxDone(p) /\ Party(p) /\ UNCHANGED <<backendVars, startVars, envVars>>)
  /\ WF_vars(Post /\ UNCHANGED <<startVars, envVars>>)
  /\ SF_vars(Confirmed /\ UNCHANGED <<startVars, envVars>>)
  /\ SF_vars(pc = "posted" /\ BackendAppliesOf(job) /\ UNCHANGED <<startVars, envVars>>)
  /\ \A i \in Intents :
       WF_vars(/\ i \in late /\ status[i] = "PENDING" /\ BackendTimesOut
               /\ status'[i] = "TIMED_OUT" /\ UNCHANGED <<startVars, envVars>>)

FairSpec == Spec /\ Fairness

-----------------------------------------------------------------------------

\* A DKG the backend records as COMPLETED has both its artifacts under their
\* final names, durably, exactly as the result named them and in agreement,
\* whichever process sent the result and whatever crashed in between
\* (publishDurablyTracked, probeArtifactStores, reconstructClaimed).
CompletedIsDurable ==
  \A i \in Intents : status[i] = "COMPLETED" =>
    /\ \A s \in Stores : /\ KeyOf[i] \in durable[s]
                         /\ file[s][KeyOf[i]] = evidence[i][s]
    /\ EvidenceMatches(evidence[i]["primary"], evidence[i]["recovery"])
    /\ evidence[i]["primary"].session = i

\* A share is written only under its session's pair lease and before the
\* process has settled that session's result: no party goroutine outlives Run
\* (runParties joins both).
NoLateWrite ==
  [][\A s \in Stores, k \in Keys :
       ~Exists(s, k) /\ file'[s][k] # NoArtifact =>
         active = file'[s][k].session /\ cur = active /\ job = NoJob]_vars

\* A claimed DKG has an owner: the process is down, still in startup or has
\* given up provisioning, or it is working on that very intent.  No claim of an
\* earlier process or of an unanswered request is forgotten.
ClaimsAreOwned ==
  pc \in {"down", "probe", "list", "decide", "latched"}
    \/ \A i \in Intents : status[i] = "CLAIMED" => cur = i

\* Once a COMPLETED result was posted for an intent, no process ever posts a
\* different one for it: restarts rebuild the same result from the artifacts.
CompletionIsFinal ==
  [][\A done \in sent, other \in sent' \ sent :
       done.status = "COMPLETED" => other.intent # done.intent]_vars

\* While a result is unconfirmed, the delay before the next post is the capped
\* exponential of its attempt, at every attempt: it doubles up to the maximum
\* and stays there, the jitter stays within its share and below the maximum
\* (retry.go NextDelay, cappedExponential).
RetryDelays == pc = "posted" => DelayDoubles /\ SleepBounded

\* While nothing is pending the poll interval backs off between its bounds,
\* also when the product leaves the range of a duration (nextBackoff).
PollIntervals == pc = "idle" => PollBacksOff

\* Every claimed DKG ends with a terminal result at the backend.
ClaimResolved ==
  \A i \in Intents : status[i] = "CLAIMED" ~> status[i] \in Terminal

\* The durable pair of a ceremony, and its outcome, as the abstract
\* specification sees them.
PairOf(i) ==
  LET b == file["primary"][KeyOf[i]]
      c == file["recovery"][KeyOf[i]]
  IN  IF /\ \A s \in Stores : KeyOf[i] \in durable[s]
         /\ EvidenceMatches(b, c) /\ b.session = i
      THEN [primary |-> b, recovery |-> c] ELSE None

OutcomeOf(i) ==
  [status |-> IF status[i] \in Terminal THEN status[i] ELSE "OPEN", pair |-> evidence[i]]

Outcome == INSTANCE DKGOutcome WITH
  Pairs <- [Stores -> Artifacts],
  pair <- [i \in Intents |-> PairOf(i)],
  outcome <- [i \in Intents |-> OutcomeOf(i)]

\* The whole system implements the abstract ceremony: a pair of agreeing
\* shares, once durable, is never lost or changed, an intent has one outcome,
\* and it completes only with the pair its own ceremony left.
ImplementsOutcome == Outcome!Spec

=============================================================================

---------------------------- MODULE DKGCoordinator ----------------------------
(***************************************************************************)
(* DKGCoordinator.Run (internal/worker/dkg_coordinator.go): the two local  *)
(* parties of one DKG session, the pre-parameter handles they consume, the *)
(* pair lease they write under, and their join.                            *)
(*                                                                         *)
(* The local router is a flag that may be raised (LocalRouter models it),  *)
(* the MPC runtime of a party ends with a share, with an error, or when    *)
(* its context ends: at the deadline, or when the sibling or the router    *)
(* fails.  No action here changes late; module DKG does.                   *)
(***************************************************************************)
EXTENDS ArtifactStore

VARIABLES
  pc,           \* where the process is
  cur,          \* the intent it works on
  job,          \* the terminal job it holds
  held,         \* parties whose pre-parameter handle Run holds
  paused,       \* BeginJob succeeded and finishJob has not run
  party,        \* state of a party's goroutine
  share,        \* the artifact a party is saving
  cancelled,    \* parties whose context is cancelled
  routerErr,    \* the local router failed
  late          \* intents whose deadline has passed on the local clock

partyVars == <<party, share, cancelled, routerErr>>
runVars == <<held, paused, partyVars>>

NoJob == [intent |-> None, status |-> None, evidence |-> None]

FailedJob(i) == [intent |-> i, status |-> "FAILED", evidence |-> None]

CompletedJob(i, primary, recovery) ==
  [intent |-> i, status |-> "COMPLETED",
   evidence |-> [primary |-> primary, recovery |-> recovery]]

Other(p) == CHOOSE q \in Stores : q # p

RunInit ==
  /\ held = {} /\ paused = FALSE
  /\ party = [p \in Stores |-> "off"]
  /\ share = [p \in Stores |-> NoArtifact]
  /\ cancelled = {} /\ routerErr = FALSE

PartiesGone ==
  /\ party' = [p \in Stores |-> "off"]
  /\ share' = [p \in Stores |-> NoArtifact]
  /\ cancelled' = {} /\ routerErr' = FALSE

\* Whatever Run returns becomes the terminal job (publishDKGResult).
Return(result) == pc' = "publish" /\ job' = result /\ UNCHANGED cur

Fail == Return(FailedJob(cur))

Goto(where) == pc' = where /\ UNCHANGED <<cur, job>>

\* validateRuntimeContext: the deadline is ahead; its other checks may fail too.
RuntimeContextValid == cur \notin late

\* The context, the router and BeginJob, each of which may refuse.
BeginJob ==
  /\ pc = "begin"
  /\ \/ RuntimeContextValid /\ paused' = TRUE /\ Goto("acquire")
     \/ paused' = FALSE /\ Fail
  /\ UNCHANGED <<file, durable, active, held, partyVars>>

\* The two acquisitions in order, the primary's first.
Acquired ==
  \/ /\ held = {} /\ held' = {"primary"} /\ UNCHANGED <<pc, cur, job>>
  \/ /\ held = {"primary"} /\ held' = Stores /\ Goto("register")

\* A failed acquisition discards the handle already held.
AcquireDKGPreParams ==
  /\ pc = "acquire"
  /\ \/ Acquired /\ UNCHANGED paused
     \/ Fail /\ paused' = FALSE /\ held' = {}
  /\ UNCHANGED <<file, durable, active, partyVars>>

\* RegisterPair also refuses a descriptor that does not fit the registration.
Register ==
  /\ pc = "register"
  /\ \/ active = None /\ RegisterPair(cur) /\ Goto("start") /\ UNCHANGED <<held, paused>>
     \/ Fail /\ held' = {} /\ paused' = FALSE /\ UNCHANGED active
  /\ UNCHANGED <<file, durable, partyVars>>

\* The start barrier, or releaseBeforeStart when the context is done.
StartParties ==
  /\ pc = "start" /\ held' = {}
  /\ \/ /\ cur \in late
        /\ Release /\ Fail /\ paused' = FALSE
        /\ UNCHANGED party
     \/ /\ cur \notin late
        /\ party' = [p \in Stores |-> "running"]
        /\ Goto("parties") /\ UNCHANGED <<active, paused>>
  /\ UNCHANGED <<file, durable, share, cancelled, routerErr>>

CtxDone(p) == cur \in late \/ p \in cancelled

PartyTo(p, to) == party' = [party EXCEPT ![p] = to]

\* A party's runtime returns an error and cancels its sibling.
PartyFails(p) ==
  /\ PartyTo(p, "failed")
  /\ cancelled' = cancelled \cup {Other(p)}
  /\ UNCHANGED <<file, durable, share>>

\* The runtime has computed a share and calls SaveShare, or ends without one.
SaveShare(p) ==
  /\ party[p] = "running"
  /\ \/ /\ ~CtxDone(p) /\ Resolves(cur)
        /\ \E key \in PublicKeys :
             share' = [share EXCEPT ![p] = EncodeArtifact(cur, key)]
        /\ PartyTo(p, "saving") /\ UNCHANGED <<file, durable, cancelled>>
     \/ PartyFails(p)

\* publishDurablyTracked up to the rename, which may fail or find the name taken.
Publish(p) ==
  /\ party[p] = "saving"
  /\ \/ /\ RenameNoReplace(p, KeyOf[share[p].session], share[p])
        /\ PartyTo(p, "renamed") /\ UNCHANGED <<durable, share, cancelled>>
     \/ PartyFails(p)

Sync(p) ==
  /\ party[p] = "renamed"
  /\ \/ /\ SyncDirectory(p)
        /\ PartyTo(p, "synced") /\ UNCHANGED <<file, share, cancelled>>
     \/ PartyFails(p)

\* PublishAndInspect's readback, and the runtime's own end after SaveShare.
Readback(p) ==
  /\ party[p] = "synced"
  /\ \/ /\ ~CtxDone(p) /\ share[p] \in InspectExisting(p, cur)
        /\ PartyTo(p, "saved") /\ UNCHANGED <<file, durable, share, cancelled>>
     \/ PartyFails(p)

Party(p) ==
  /\ SaveShare(p) \/ Publish(p) \/ Sync(p) \/ Readback(p)
  /\ UNCHANGED <<pc, cur, job, active, held, paused, routerErr>>

\* The router closes with an error; runParties cancels both parties.
RouterFails ==
  /\ pc = "parties" /\ ~routerErr
  /\ routerErr' = TRUE /\ cancelled' = Stores
  /\ UNCHANGED <<pc, cur, job, file, durable, active, held, paused, party, share>>

Ended(p) == party[p] \in {"saved", "failed"}

\* router.Finish may still report an error; the lease and the job end.
Settle ==
  /\ pc = "parties"
  /\ Release /\ paused' = FALSE
  /\ \/ (\A p \in Stores : party[p] = "saved") /\ ~routerErr /\ Goto("inspect")
     \/ Fail
  /\ UNCHANGED <<file, durable, held>>

JoinFirst ==
  /\ (\A p \in Stores : Ended(p)) \/ (\E p \in Stores : party[p] = "failed")
  /\ Settle /\ UNCHANGED partyVars

\* Both goroutines have returned.
Join ==
  /\ \A p \in Stores : Ended(p)
  /\ Settle /\ PartiesGone

CompareNothing(primary, recovery) == TRUE

CompareEvidence(primary, recovery) == EvidenceMatches(primary, recovery)

\* Both artifacts are read again and compared.
Inspect ==
  /\ pc = "inspect"
  /\ \E b \in InspectExisting("primary", cur), c \in InspectExisting("recovery", cur) :
       IF cur \notin late /\ b # NoArtifact /\ c # NoArtifact /\ CompareEvidence(b, c)
       THEN Return(CompletedJob(cur, b, c)) ELSE Fail
  /\ UNCHANGED <<file, durable, active, runVars>>

Run ==
  \/ BeginJob \/ AcquireDKGPreParams \/ Register \/ StartParties
  \/ \E p \in Stores : Party(p)
  \/ RouterFails \/ Join \/ Inspect

=============================================================================

----------------------------- MODULE LocalRouter -----------------------------
(***************************************************************************)
(* The local router of a DKG (internal/localrouter): it connects the two   *)
(* local parties with each other and, over one network transport, with the *)
(* platform party.  Processes: the receiver goroutine, one sending and one *)
(* receiving call per local party, the caller of Finish and of Close.      *)
(*                                                                         *)
(* A frame is abstracted to what the validator compares.  ok stands for    *)
(* the immutable frame context (session, stage, protocol, round, payload   *)
(* hash, authenticated sender); to is a party or All for a broadcast.      *)
(***************************************************************************)
EXTENDS Integers, Sequences, Functions

CONSTANTS
  Primary, Recovery, Platform, All, NoFrame,
  Outgoing,    \* for each party, the frames its runtime may send
  QueueCap     \* partyQueueCapacity

Local == {Primary, Recovery}
Parties == Local \cup {Platform}
None == "none"

ASSUME RouterAssumption ==
  /\ Primary # Recovery /\ Platform \notin Local /\ All \notin Parties
  /\ QueueCap \in Nat \ {0}
  /\ \A p \in Parties : \A f \in Outgoing[p] : f.from = p /\ f.seq \in Nat \ {0}

VARIABLES
  seen,        \* the validator: every frame recorded
  inbound,     \* the bounded queue of each local party
  terminalErr, \* None until done is closed
  finishing, finishErr,
  finisher,    \* Finish: idle, entered, joining or returned
  receiver,    \* the receiver goroutine: unstarted, receiving, delivering or exited
  arrived,     \* the frame the receiver delivers and the parties still to get it
  cancelled,   \* receiveCancel was called
  runCtx,      \* the context given to Start: live, canceled or deadline
  party,       \* each runtime: running, failed or left
  sending,     \* SendFrame of each party: idle, checked, recorded or network
  frame,       \* the frame being sent
  got,         \* history: the frames RecvFrame returned to each party
  wired        \* history: the frames accepted by the network transport

routerVars == <<seen, inbound, terminalErr, finishing, finishErr, finisher,
                receiver, arrived, cancelled>>
callerVars == <<party, sending, frame, got, wired>>
vars == <<routerVars, runCtx, callerVars>>

Nothing == [frame |-> NoFrame, to |-> <<>>]

Init ==
  /\ seen = {} /\ inbound = [p \in Local |-> <<>>]
  /\ terminalErr = None /\ finishing = FALSE /\ finishErr = None
  /\ finisher = "idle" /\ receiver = "unstarted" /\ arrived = Nothing
  /\ cancelled = FALSE /\ runCtx = "live"
  /\ party = [p \in Local |-> "running"] /\ sending = [p \in Local |-> "idle"]
  /\ frame = [p \in Local |-> NoFrame]
  /\ got = [p \in Local |-> <<>>] /\ wired = {}

(***************************************************************************)
(* The frame validator.                                                    *)
(***************************************************************************)
validateRecipient(f) == f.to = All \/ (f.to \in Parties /\ f.to # f.from)

SequenceDigest(f) == <<f.seq, f.to = All, f.from, f.body>>
FrameKey(f) == <<f.from, f.to, f.id, f.seq>>
FrameDigest(f) == <<f.seq, f.to, f.from, f.body>>

\* The verdict on a frame; "ok" also records it.
ValidateUnordered(f) ==
  IF ~f.ok \/ ~validateRecipient(f) THEN "invalid"
  ELSE IF \E g \in seen : FrameKey(g) = FrameKey(f) THEN "duplicate"
  ELSE "ok"

validateAndRecord(f) ==
  IF ~f.ok \/ ~validateRecipient(f) \/ (\E g \in seen : g.from = f.from /\ f.seq < g.seq)
    THEN "invalid"
  ELSE IF \/ \E g \in seen : /\ g.from = f.from /\ g.seq = f.seq
                             /\ g.id # f.id \/ SequenceDigest(g) # SequenceDigest(f)
          \/ \E g \in seen : FrameKey(g) = FrameKey(f) /\ FrameDigest(g) # FrameDigest(f)
    THEN "conflict"
  ELSE IF \E g \in seen : FrameKey(g) = FrameKey(f) THEN "duplicate"
  ELSE "ok"

\* What deliver may return: a select over the queue, done and the context
\* with a default that is taken only when none of them is ready.
deliver(p, ctxErr) ==
  LET ready == (IF Len(inbound[p]) < QueueCap THEN {None} ELSE {})
                 \cup (IF terminalErr # None THEN {terminalErr} ELSE {})
                 \cup (IF ctxErr # None THEN {ctxErr} ELSE {})
  IN IF ready = {} THEN {"overflow"} ELSE ready

Enqueue(p, f) == inbound' = [inbound EXCEPT ![p] = Append(@, f)]

(***************************************************************************)
(* The receiver goroutine.                                                 *)
(***************************************************************************)
\* Start: nothing to receive when Finish or a failure came first.
Start ==
  /\ receiver = "unstarted"
  /\ receiver' = IF finishing \/ terminalErr # None THEN "exited" ELSE "receiving"
  /\ UNCHANGED <<seen, inbound, terminalErr, finishing, finishErr, finisher,
                 arrived, cancelled, runCtx, callerVars>>

ReceiveErr == IF cancelled THEN "canceled" ELSE IF runCtx = "live" THEN None ELSE runCtx

\* fail closes done with the first error; the goroutine ends.
FailQuietly(err) ==
  /\ cancelled' = TRUE /\ receiver' = "exited" /\ arrived' = Nothing
  /\ UNCHANGED terminalErr

Fail(err) ==
  /\ terminalErr' = IF terminalErr = None THEN err ELSE terminalErr
  /\ cancelled' = TRUE /\ receiver' = "exited" /\ arrived' = Nothing

\* A cancellation that Finish asked for is not a failure.
ExitQuietly ==
  /\ receiver' = "exited" /\ arrived' = Nothing /\ UNCHANGED <<terminalErr, cancelled>>

EndReceive(err) == IF err = "canceled" /\ finishing THEN ExitQuietly ELSE Fail(err)

\* network.RecvFrame returns an error: its own or the context's.
ReceiveError ==
  /\ receiver = "receiving"
  /\ \E err \in {"transport", ReceiveErr} \ {None} : EndReceive(err)
  /\ UNCHANGED <<seen, inbound, finishing, finishErr, finisher, runCtx, callerVars>>

\* The local parties a frame of the platform is delivered to, in order.
Recipients(f) == IF f.to = All THEN <<Primary, Recovery>> ELSE <<f.to>>

\* network.RecvFrame returns a frame; it is checked under the mutex.
ReceiveFrame ==
  /\ receiver = "receiving"
  /\ \E f \in Outgoing[Platform] :
       LET verdict == validateAndRecord(f) IN
       IF finishing THEN ExitQuietly /\ UNCHANGED seen
       ELSE IF verdict # "ok" THEN Fail(verdict) /\ UNCHANGED seen
       ELSE /\ seen' = seen \cup {f}
            /\ receiver' = "delivering" /\ arrived' = [frame |-> f, to |-> Recipients(f)]
            /\ UNCHANGED <<terminalErr, cancelled>>
  /\ UNCHANGED <<inbound, finishing, finishErr, finisher, runCtx, callerVars>>

\* One delivery of the accepted frame, outside the mutex.
DeliverArrived ==
  /\ receiver = "delivering"
  /\ \E err \in deliver(Head(arrived.to), ReceiveErr) :
       IF err # None THEN EndReceive(err) /\ UNCHANGED inbound
       ELSE /\ Enqueue(Head(arrived.to), arrived.frame)
            /\ IF Len(arrived.to) > 1
                 THEN arrived' = [arrived EXCEPT !.to = Tail(@)] /\ UNCHANGED receiver
                 ELSE arrived' = Nothing /\ receiver' = "receiving"
            /\ UNCHANGED <<terminalErr, cancelled>>
  /\ UNCHANGED <<seen, finishing, finishErr, finisher, runCtx, callerVars>>

Receiver == Start \/ ReceiveError \/ ReceiveFrame \/ DeliverArrived

(***************************************************************************)
(* Finish and Close.                                                       *)
(***************************************************************************)
FinishEnter ==
  /\ finisher = "idle"
  /\ finisher' = "entered" /\ finishing' = TRUE
  /\ UNCHANGED <<seen, inbound, terminalErr, finishErr, receiver, arrived, cancelled,
                 runCtx, callerVars>>

\* A receiver that was never started counts as done; a running one is cancelled.
FinishWithoutCancel ==
  /\ finisher = "entered"
  /\ finisher' = "joining"
  /\ receiver' = IF receiver = "unstarted" THEN "exited" ELSE receiver
  /\ UNCHANGED <<seen, inbound, terminalErr, finishing, finishErr, arrived, cancelled,
                 runCtx, callerVars>>

FinishCancel ==
  /\ finisher = "entered"
  /\ finisher' = "joining"
  /\ receiver' = IF receiver = "unstarted" THEN "exited" ELSE receiver
  /\ cancelled' = (cancelled \/ receiver # "unstarted")
  /\ UNCHANGED <<seen, inbound, terminalErr, finishing, finishErr, arrived, runCtx, callerVars>>

\* Join the receiver, keep its error, else close normally.
FinishJoined ==
  /\ finisher = "joining" /\ receiver = "exited"
  /\ finisher' = "returned" /\ finishErr' = terminalErr
  /\ terminalErr' = IF terminalErr = None THEN "closed" ELSE terminalErr
  /\ cancelled' = TRUE
  /\ UNCHANGED <<seen, inbound, finishing, receiver, arrived, runCtx, callerVars>>

Finish == FinishEnter \/ FinishCancel \/ FinishJoined

(***************************************************************************)
(* The transports handed to the two parties.                               *)
(***************************************************************************)
PartyErr == IF runCtx = "live" THEN None ELSE runCtx

\* A call that fails ends the runtime of that party.
Return(p, err) ==
  /\ sending' = [sending EXCEPT ![p] = "idle"] /\ frame' = [frame EXCEPT ![p] = NoFrame]
  /\ party' = IF err = None THEN party ELSE [party EXCEPT ![p] = "failed"]

Proceed(p, to) == sending' = [sending EXCEPT ![p] = to] /\ UNCHANGED <<frame, party>>

\* SendFrame looks at done first, without the mutex.
SendFrame(p) ==
  /\ party[p] = "running" /\ sending[p] = "idle"
  /\ IF terminalErr # None THEN Return(p, terminalErr)
     ELSE \E f \in Outgoing[p] :
            /\ sending' = [sending EXCEPT ![p] = "checked"]
            /\ frame' = [frame EXCEPT ![p] = f] /\ UNCHANGED party
  /\ UNCHANGED <<routerVars, runCtx, got, wired>>

\* Under the mutex: refuse while finishing, else validate and record.
Record(p) ==
  /\ sending[p] = "checked"
  /\ LET verdict == IF finishing THEN "closed" ELSE validateAndRecord(frame[p]) IN
     IF verdict # "ok" THEN Return(p, verdict) /\ UNCHANGED seen
     ELSE Proceed(p, "recorded") /\ seen' = seen \cup {frame[p]}
  /\ UNCHANGED <<inbound, terminalErr, finishing, finishErr, finisher, receiver, arrived,
                 cancelled, runCtx, got, wired>>

Sibling(p) == CHOOSE q \in Local : q # p

\* Outside the mutex: the sibling's copy, then the network's.
RouteLocal(p) ==
  /\ sending[p] = "recorded"
  /\ IF frame[p].to = Platform THEN Proceed(p, "network") /\ UNCHANGED inbound
     ELSE \E err \in deliver(Sibling(p), PartyErr) :
            IF err # None THEN Return(p, err) /\ UNCHANGED inbound
            ELSE /\ Enqueue(Sibling(p), frame[p])
                 /\ IF frame[p].to = All THEN Proceed(p, "network") ELSE Return(p, None)
  /\ UNCHANGED <<seen, terminalErr, finishing, finishErr, finisher, receiver, arrived,
                 cancelled, runCtx, got, wired>>

RouteNetwork(p) ==
  /\ sending[p] = "network"
  /\ \/ Return(p, None) /\ wired' = wired \cup {frame[p]}
     \/ Return(p, "transport") /\ UNCHANGED wired
  /\ UNCHANGED <<routerVars, runCtx, got>>

\* RecvFrame rechecks done after it took a frame: no frame once done is closed.
RecvFrameUnchecked(p) ==
  /\ party[p] = "running" /\ inbound[p] # <<>>
  /\ inbound' = [inbound EXCEPT ![p] = Tail(@)]
  /\ got' = [got EXCEPT ![p] = Append(@, Head(inbound[p]))]
  /\ UNCHANGED <<seen, terminalErr, finishing, finishErr, finisher, receiver, arrived,
                 cancelled, runCtx, party, sending, frame, wired>>

RecvFrame(p) ==
  /\ party[p] = "running"
  /\ \/ /\ terminalErr = None /\ inbound[p] # <<>>
        /\ inbound' = [inbound EXCEPT ![p] = Tail(@)]
        /\ got' = [got EXCEPT ![p] = Append(@, Head(inbound[p]))]
        /\ UNCHANGED party
     \/ /\ terminalErr # None \/ PartyErr # None
        /\ party' = [party EXCEPT ![p] = "failed"]
        /\ UNCHANGED <<inbound, got>>
  /\ UNCHANGED <<seen, terminalErr, finishing, finishErr, finisher, receiver, arrived,
                 cancelled, runCtx, sending, frame, wired>>

\* The runtime ends by itself, having no call under way.
PartyLeaves(p) ==
  /\ party[p] = "running" /\ sending[p] = "idle"
  /\ party' = [party EXCEPT ![p] = "left"]
  /\ UNCHANGED <<routerVars, runCtx, sending, frame, got, wired>>

CancelRun ==
  /\ runCtx = "live" /\ runCtx' \in {"canceled", "deadline"}
  /\ UNCHANGED <<routerVars, callerVars>>

PartyStep(p) ==
  SendFrame(p) \/ Record(p) \/ RouteLocal(p) \/ RouteNetwork(p) \/ RecvFrame(p) \/ PartyLeaves(p)

Stopped ==
  finisher = "returned" /\ (\A p \in Local : party[p] # "running" /\ sending[p] = "idle")
  /\ UNCHANGED vars

Next == Receiver \/ Finish \/ (\E p \in Local : PartyStep(p)) \/ CancelRun \/ Stopped

Spec == Init /\ [][Next]_vars
-----------------------------------------------------------------------------
(***************************************************************************)
(* Properties.                                                             *)
(***************************************************************************)

\* A party gets the frames of one sender in strictly increasing sequence
\* order, none of them twice, although they come from two goroutines through
\* a queue and the network may repeat and reorder (validateAndRecord, router.go:182-265).
OrderedPerSender ==
  \A p \in Local : \A i, j \in 1..Len(got[p]) :
    i < j /\ got[p][i].from = got[p][j].from => got[p][i].seq < got[p][j].seq

Has(p, f) == f \in Range(got[p]) \cup Range(inbound[p])
ReachedAll(f) ==
  /\ \A p \in Local \ {f.from} : f.to \in {p, All} => Has(p, f)
  /\ f.from # Platform /\ f.to \in {Platform, All} => f \in wired

\* A frame the validator recorded can never be sent again (it would be a
\* duplicate), so it must not get lost unnoticed: it has reached every
\* recipient, or is on its way, or the router has failed, or is finishing, or
\* the sender saw the error (router.go:186-212, 225-263).
NoSilentLoss ==
  \A f \in seen :
    \/ ReachedAll(f) \/ arrived.frame = f
    \/ terminalErr # None \/ finishing
    \/ f.from \in Local /\ (frame[f.from] = f \/ party[f.from] = "failed")

\* Once done is closed no party is handed a frame, even one already queued
\* (RecvFrame, router.go:330-348), and the error that closed it stays.
FailClosed == [][terminalErr # None => got' = got /\ terminalErr' = terminalErr]_vars

(***************************************************************************)
(* Liveness.  Goroutines that can run do; network.RecvFrame returns when   *)
(* its context ends, and otherwise perhaps never.                          *)
(***************************************************************************)
Fairness ==
  /\ WF_vars(DeliverArrived)
  /\ WF_vars(ReceiveErr # None /\ ReceiveError)
  /\ WF_vars(FinishCancel \/ FinishJoined)
  /\ \A p \in Local : WF_vars(Record(p) \/ RouteLocal(p) \/ RouteNetwork(p) \/ RecvFrame(p))

FairSpec == Spec /\ Fairness

\* Finish returns: it never waits for a receiver nobody has told to stop.
FinishReturns == (finisher # "idle") ~> (finisher = "returned")

=============================================================================

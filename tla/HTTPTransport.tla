---------------------------- MODULE HTTPTransport ----------------------------
(***************************************************************************)
(* The HTTP transport of one session (internal/transport): a poller that   *)
(* fetches the session projection and its messages, a queue of inbound     *)
(* frames, and the single dispatch of the protocol run.  Processes: the    *)
(* owner (Start, Dispatch, Close), the poller and the protocol run.        *)
(*                                                                         *)
(* Messages are their delivery sequence numbers 1, 2, ...                  *)
(***************************************************************************)
EXTENDS SessionLifecycle, Sequences, Functions

CONSTANTS
  Kind,        \* "SIGN" or "DKG"
  InboundCap,  \* capacity of the inbound channel
  MaxMessages, \* bound on the messages the platform posts
  MaxTime,     \* bound on the clock
  Deadline     \* the session's deadline

ASSUME TransportAssumption ==
  /\ InboundCap \in Nat \ {0} /\ MaxMessages \in Nat
  /\ MaxTime \in Nat /\ Deadline \in 1..MaxTime
  /\ Window \in Nat /\ Margin \in 1..Window

None == "none"

VARIABLES
  now,         \* the clock
  session,     \* backend: the session
  mailbox,     \* backend: number of messages for this party
  ctx,         \* the context given to Start and Dispatch: live, canceled, deadline
  done, err,   \* stop was declared, and with which error
  poller,      \* off, ready, waiting, delivering or stopped
  reply,       \* the answer GetMessages is about to return
  baseline,    \* the last session the poller accepted
  afterSeq, batch,
  inbound,
  dispatched,
  runner,      \* idle, running, receiving or returned
  runErr,      \* what Dispatch returned
  runnerStopped, \* the caller cancelled the context it gave to Dispatch
  got          \* history: the messages RecvFrame returned

backendVars == <<now, session, mailbox>>
pollVars == <<poller, reply, baseline, afterSeq, batch>>
runVars == <<dispatched, runner, runErr, runnerStopped, got>>
transportVars == <<done, err, pollVars, inbound, runVars>>

NoReply == [kind |-> None, session |-> Pending(NoTime), messages |-> {}]

TransportInit(base) ==
  /\ done = FALSE /\ err = None
  /\ poller = "off" /\ reply = NoReply /\ baseline = base /\ afterSeq = 0 /\ batch = <<>>
  /\ inbound = <<>>
  /\ dispatched = FALSE /\ runner = "idle" /\ runErr = None /\ runnerStopped = FALSE
  /\ got = <<>>

(***************************************************************************)
(* The owner.                                                              *)
(***************************************************************************)

\* stop: the first call decides; done cancels the poller and the dispatched run.
stop(e) == done' = TRUE /\ err' = IF done THEN err ELSE e

Start ==
  /\ ~done /\ poller = "off"
  /\ poller' = "ready"
  /\ UNCHANGED <<done, err, reply, baseline, afterSeq, batch, inbound, runVars>>

\* Dispatch reserves the run under the mutex, against stop and the context.
Refused(e) == runner' = "returned" /\ runErr' = e /\ UNCHANGED dispatched

Dispatch ==
  /\ runner = "idle"
  /\ CASE done -> Refused(IF err # None THEN err ELSE "closed")
       [] ~done /\ (runnerStopped \/ ctx # "live")
            -> Refused(IF ctx # "live" THEN ctx ELSE "canceled")
       [] OTHER -> dispatched' = TRUE /\ runner' = "running" /\ UNCHANGED runErr
  /\ UNCHANGED <<done, err, pollVars, inbound, runnerStopped, got>>

\* Close declares stop, then joins the poller (Joined).
CloseStop ==
  /\ stop(None)
  /\ UNCHANGED <<pollVars, inbound, runVars>>

Joined == poller \in {"off", "stopped"}

(***************************************************************************)
(* The poller.                                                             *)
(***************************************************************************)
isDone == done \/ ctx # "live"

\* What the backend may answer: the session and some of the messages after
\* afterSeq, in any order; or garbage; or nothing.
Answers ==
  {[kind |-> "ok", session |-> session, messages |-> (afterSeq + 1)..n] :
     n \in {n \in 0..MaxMessages : afterSeq <= n /\ n <= mailbox}}
  \cup {[NoReply EXCEPT !.kind = k] : k \in {"invalid", "error"}}

StopPolling == poller' = "stopped" /\ reply' = NoReply /\ batch' = <<>>

\* Top of the loop: the request is answered now, the answer is used later.
PollFetch ==
  /\ poller = "ready"
  /\ IF isDone THEN StopPolling
     ELSE reply' \in Answers /\ poller' = "waiting" /\ UNCHANGED batch
  /\ UNCHANGED <<done, err, baseline, afterSeq, inbound, runVars>>

\* deliverMessages sorts a page by delivery sequence.
Orderings(messages) ==
  {page \in UNION {[1..n -> messages] : n \in 0..MaxMessages} : Range(page) = messages}

Unsorted(messages) ==
  CHOOSE page \in Orderings(messages) : \A i, j \in DOMAIN page : i < j => page[i] > page[j]

Sorted(messages) ==
  CHOOSE page \in Orderings(messages) : \A i, j \in DOMAIN page : i < j => page[i] < page[j]

\* The answer is used: transient errors poll again, a wrong lifecycle stops.
PollApply ==
  /\ poller = "waiting"
  /\ CASE isDone -> StopPolling /\ UNCHANGED <<done, err, baseline>>
       [] ~isDone /\ reply.kind = "error" ->
            poller' = "ready" /\ reply' = NoReply /\ UNCHANGED <<done, err, baseline, batch>>
       [] ~isDone /\ reply.kind # "error" ->
            IF reply.kind = "invalid" \/ ~validatePolledSession(Kind, baseline, reply.session, now)
            THEN stop("lifecycle") /\ StopPolling /\ UNCHANGED baseline
            ELSE /\ baseline' = reply.session /\ reply' = NoReply
                 /\ batch' = Sorted(reply.messages)
                 /\ poller' = IF reply.messages = {} THEN "ready" ELSE "delivering"
                 /\ UNCHANGED <<done, err>>
  /\ UNCHANGED <<afterSeq, inbound, runVars>>

\* One message of the page; the channel blocks when it is full.
PollDeliver ==
  /\ poller = "delivering"
  /\ \/ /\ Len(inbound) < InboundCap
        /\ inbound' = Append(inbound, Head(batch))
        /\ afterSeq' = IF Head(batch) > afterSeq THEN Head(batch) ELSE afterSeq
        /\ batch' = Tail(batch) /\ poller' = IF Len(batch) = 1 THEN "ready" ELSE "delivering"
        /\ UNCHANGED reply
     \/ isDone /\ StopPolling /\ UNCHANGED <<inbound, afterSeq>>
  /\ UNCHANGED <<done, err, baseline, runVars>>

Poll == PollFetch \/ PollApply \/ PollDeliver

(***************************************************************************)
(* The protocol run inside Dispatch.                                       *)
(***************************************************************************)
RunnerCtxDone == done \/ runnerStopped \/ ctx # "live"

Returns(e) == runner' = "returned" /\ runErr' = e

Active == runner \in {"running", "receiving"}

\* RecvFrame refuses once stop was declared or the context ended; a call that
\* is already waiting may still return a frame then.
RecvFrame ==
  /\ \/ /\ runner = "running"
        /\ IF isDone THEN Returns(IF ctx # "live" THEN ctx ELSE "closed")
           ELSE runner' = "receiving" /\ UNCHANGED runErr
        /\ UNCHANGED <<got, inbound>>
     \/ /\ runner = "receiving" /\ inbound # <<>>
        /\ got' = Append(got, Head(inbound)) /\ inbound' = Tail(inbound)
        /\ runner' = "running" /\ UNCHANGED runErr
     \/ /\ runner = "receiving" /\ isDone /\ Returns(IF ctx # "live" THEN ctx ELSE "closed")
        /\ UNCHANGED <<got, inbound>>
  /\ UNCHANGED <<done, err, pollVars, dispatched, runnerStopped>>

\* SendFrame refuses after stop, refuses a frame not bound for the platform,
\* and otherwise returns what PostMessage returns.
SendFrame ==
  /\ Active
  /\ \/ done /\ Returns("closed")
     \/ Returns("route") \/ (~done /\ Returns("post"))
  /\ UNCHANGED <<done, err, pollVars, inbound, dispatched, runnerStopped, got>>

\* The run completes, fails by itself, or gives way to its context.
RunEnds ==
  /\ Active
  /\ \/ Returns(None) \/ Returns("protocol")
     \/ RunnerCtxDone /\ Returns(IF ctx # "live" THEN ctx ELSE "canceled")
  /\ UNCHANGED <<done, err, pollVars, inbound, dispatched, runnerStopped, got>>

Run == RecvFrame \/ SendFrame \/ RunEnds

(***************************************************************************)
(* The backend and the clock.                                              *)
(***************************************************************************)
\* The platform starts the session, ends it, or posts a message.
BackendSession ==
  /\ \/ session.status = "PENDING" /\ now < Deadline /\ session' = Running(Kind, now, Deadline)
     \/ session.status \in {"PENDING", "RUNNING"} /\ session' = [session EXCEPT !.status = "FAILED"]
     \/ /\ session.status \in {"PENDING", "RUNNING"}
        /\ now >= Deadline \/ (session.executionExpiresAt # NoTime /\ now >= session.executionExpiresAt)
        /\ session' = [session EXCEPT !.status = "TIMED_OUT"]
  /\ UNCHANGED <<now, mailbox>>

BackendPost ==
  /\ mailbox < MaxMessages /\ session.status = "RUNNING"
  /\ mailbox' = mailbox + 1 /\ UNCHANGED <<now, session>>

Tick == now < MaxTime /\ now' = now + 1 /\ UNCHANGED <<session, mailbox>>
-----------------------------------------------------------------------------
(***************************************************************************)
(* Properties of the transport.                                            *)
(***************************************************************************)

\* The run sees the platform's messages exactly once and in delivery order,
\* whatever pages the backend answers with and however they are ordered
\* (deliverMessages and afterSeq, http_transport_poll.go:35-50, 78-94).
InOrderOnce == LET all == got \o inbound IN \A i \in 1..Len(all) : all[i] = i

=============================================================================

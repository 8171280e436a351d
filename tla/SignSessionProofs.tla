-------------------------- MODULE SignSessionProofs --------------------------
(***************************************************************************)
(* The safety of a SIGN session for every window, margin and deadline, any *)
(* number of messages and any capacity of the inbound channel.             *)
(***************************************************************************)
EXTENDS SignSession, TLAPS

-----------------------------------------------------------------------------
(* The state of a session.                                                 *)

Sessions == [status : Statuses, startedAt : Nat, deadline : Nat, executionExpiresAt : Int]

Replies == [kind : {None, "ok", "invalid", "error"}, session : Sessions, messages : SUBSET Nat]

\* From the armed budget to the closed transport, and the delivery after it.
Executing == {"authorizing", "protocol", "joining", "closing", "closed"}
Delivering == {"posting", "observing", "retrying", "left"}

SessionTypeOK ==
  /\ now \in Nat \ {0} /\ armed \in Int
  /\ session \in Sessions /\ claimed \in Sessions /\ observed \in Replies
  /\ ctx \in {"live", "canceled", "deadline"}
  /\ pc \in {"claimed", "waiting", "asked"} \cup Executing \cup Delivering
  /\ pc = "asked" => observed.kind # None

\* Every copy of the session that shows a start shows the start the backend
\* has, and from the moment the budget is armed it ends the margin before the
\* window does.
WindowInv ==
  /\ session.status = "PENDING" => session.startedAt = NoTime /\ session.executionExpiresAt = NoTime
  /\ observed.kind = "ok" /\ observed.session.startedAt # NoTime => SameStart(observed.session, session)
  /\ claimed.startedAt # NoTime => SameStart(claimed, session)
  /\ pc \in {"claimed", "waiting", "asked"} => armed = Deadline
  /\ pc \in Executing => /\ claimed.startedAt # NoTime
                         /\ armed <= claimed.executionExpiresAt - Margin
  /\ pc \in {"waiting", "asked"} \cup Executing /\ ctx = "live" => now < armed

\* A run exists only between Start and Close; a run without an error was
\* dispatched; what closed the run decides the outcome.
RunInv ==
  /\ runner \in {"idle", "running", "receiving", "returned"}
  /\ Active => pc \in {"protocol", "joining"} /\ dispatched = TRUE
  /\ runner = "returned" /\ runErr = None => dispatched = TRUE
  /\ pc \in {"closing", "closed"} /\ outcome = None => runner = "returned" /\ runErr = None
  /\ pc = "joining" /\ joinErr = "context" => ctx # "live"

\* The result is built after both barriers, the run's and the poller's, and
\* nothing it was built from changes any more.
ResultInv ==
  /\ poller # "off" => pc \in {"protocol", "joining", "closing", "closed"} \cup Delivering
  /\ pc \in Delivering => Joined
  /\ err \in {None, "lifecycle"}
  /\ pc \in Delivering /\ code = None => dispatched = TRUE /\ runErr = None /\ err = None
  /\ session.status = "COMPLETED" => pc \in Delivering /\ code = None

\* A delivery that may be cut short belongs to a worker that is stopping.
GivingUpInv ==
  /\ bounded \in BOOLEAN /\ stopping \in BOOLEAN
  /\ bounded => stopping
  /\ ResolvedOrStopping

\* A page in delivery order, without a gap, that goes on where afterSeq stands.
Following(page, after) ==
  /\ page \in Seq(Nat)
  /\ \A i, j \in 1..Len(page) : i < j => page[i] < page[j]
  /\ \A i \in 1..Len(page) : after < page[i]
  /\ \A i \in 1..Len(page) : \A x \in (after + 1)..page[i] : \E j \in 1..Len(page) : page[j] = x

\* What the run got and what is queued are the messages up to afterSeq.
QueueInv ==
  /\ afterSeq \in Nat
  /\ got \in Seq(Nat) /\ inbound \in Seq(Nat)
  /\ Len(got) + Len(inbound) = afterSeq
  /\ \A i \in 1..Len(got) : got[i] = i
  /\ \A i \in 1..Len(inbound) : inbound[i] = Len(got) + i

\* The rest of the page being delivered, and the page being answered, go on there.
PageInv ==
  /\ Following(batch, afterSeq)
  /\ poller = "delivering" => batch # <<>>
  /\ poller = "waiting" => reply.kind \in {"ok", "invalid", "error"}
  /\ poller = "waiting" /\ reply.kind = "ok" =>
       \E n \in 0..MaxMessages : afterSeq <= n /\ reply.messages = (afterSeq + 1)..n

OrderInv == QueueInv /\ PageInv

-----------------------------------------------------------------------------
(* Records and what the steps do to the session.                           *)

\* The fields of a session and of a reply.
LEMMA SessionFields ==
  ASSUME NEW s \in Sessions
  PROVE  /\ s.status \in Statuses /\ s.startedAt \in Nat /\ s.deadline \in Nat
         /\ s.executionExpiresAt \in Int
         /\ \A t \in Statuses : /\ [s EXCEPT !.status = t] \in Sessions
                               /\ [s EXCEPT !.status = t].status = t
                               /\ SameStart([s EXCEPT !.status = t], s)
BY DEF Sessions, SameStart

LEMMA SessionsMade ==
  /\ Pending(NoTime) \in Sessions /\ Pending(Deadline) \in Sessions
  /\ \A t \in Nat : Running(Kind, t, Deadline) \in Sessions
<1> USE TransportAssumption DEF Sessions, Statuses, Terminal, NoTime
<1>1. Pending(NoTime) \in Sessions /\ Pending(Deadline) \in Sessions
  BY DEF Pending
<1>2. ASSUME NEW t \in Nat PROVE Running(Kind, t, Deadline) \in Sessions
  BY DEF Running, Earlier
<1> QED
  BY <1>1, <1>2

LEMMA RepliesMade ==
  /\ NoReply \in Replies /\ NoReply.kind = None
  /\ \A k \in {"invalid", "error"} : /\ [NoReply EXCEPT !.kind = k] \in Replies
                                     /\ [NoReply EXCEPT !.kind = k].kind = k
  /\ \A s \in Sessions, m \in SUBSET Nat :
       LET r == [kind |-> "ok", session |-> s, messages |-> m]
       IN  r \in Replies /\ r.kind = "ok" /\ r.session = s /\ r.messages = m
<1> USE SessionsMade DEF Replies, None
<1>1. NoReply \in Replies /\ NoReply.kind = None
  BY DEF NoReply
<1>2. \A r \in Replies : \A k \in {"invalid", "error"} :
        [r EXCEPT !.kind = k] \in Replies /\ [r EXCEPT !.kind = k].kind = k
  OBVIOUS
<1> QED
  BY <1>1, <1>2, Zenon

LEMMA ReplyFields ==
  ASSUME NEW r \in Replies
  PROVE  r.kind \in {None, "ok", "invalid", "error"} /\ r.session \in Sessions /\ r.messages \subseteq Nat
BY DEF Replies

\* A step leaves the session's start alone once it has one, never reopens it,
\* and only PostResult completes it.
SessionMoves ==
  /\ session' \in Sessions
  /\ session.startedAt # NoTime => SameStart(session', session)
  /\ session'.status = "PENDING" => session' = session
  /\ session.status \in Terminal => session'.status = session.status
  /\ session'.status = "COMPLETED" =>
       session.status = "COMPLETED" \/ (PostResult /\ code = None)

LEMMA SessionKept ==
  ASSUME SessionTypeOK, session' = session PROVE SessionMoves
BY DEF SessionTypeOK, SessionMoves, SameStart

LEMMA SessionStep ==
  ASSUME SessionTypeOK, WindowInv, [Next]_vars PROVE SessionMoves
<1>1. CASE PostResult
  <2>1. CASE session' = session
    BY <2>1, SessionKept
  <2>2. CASE session.status \notin Terminal /\ session' = [session EXCEPT !.status = Submitted]
    <3>1. Submitted \in Terminal /\ (Submitted = "COMPLETED" => code = None)
      BY DEF Submitted, Terminal
    <3>2. Submitted \in Statuses
      BY <3>1 DEF Statuses
    <3>3. session' \in Sessions /\ session'.status = Submitted /\ SameStart(session', session)
      BY <2>2, <3>2, SessionFields DEF SessionTypeOK
    <3> QED
      BY <1>1, <2>2, <3>1, <3>3 DEF SessionMoves, Terminal
  <2> QED
    BY <1>1, <2>1, <2>2 DEF PostResult
<1>2. CASE BackendSession
  <2>1. CASE session.status = "PENDING" /\ session' = Running(Kind, now, Deadline)
    BY <2>1, SessionsMade, Zenon DEF SessionTypeOK, WindowInv, SessionMoves, Running, Terminal
  <2>2. ASSUME NEW t \in {"FAILED", "TIMED_OUT"}, session.status \in {"PENDING", "RUNNING"},
               session' = [session EXCEPT !.status = t]
        PROVE  SessionMoves
    <3>1. t \in Statuses
      BY <2>2 DEF Statuses, Terminal
    <3>2. session' \in Sessions /\ session'.status = t /\ SameStart(session', session)
      BY <2>2, <3>1, SessionFields DEF SessionTypeOK
    <3> QED
      BY <2>2, <3>2 DEF SessionMoves, Terminal
  <2> QED
    BY <1>2, <2>1, <2>2 DEF BackendSession
<1>3. CASE ~PostResult /\ ~BackendSession
  <2>1. session' = session
    <3> USE DEF backendVars
    <3>1. CASE CheckClaim \/ AskReadiness \/ ReadinessAnswer \/ Authorize
      BY <3>1, Zenon DEF CheckClaim, AskReadiness, ReadinessAnswer, Authorize
    <3>2. CASE Select \/ Join \/ CloseTransport \/ Result
      BY <3>2, Zenon DEF Select, Join, CloseTransport, Result
    <3>3. CASE PostCancelled \/ ObserveResult \/ Retry
      BY <3>3 DEF PostCancelled, ObserveResult, Retry
    <3>4. CASE DispatchRun \/ Others \/ BackendPost \/ Time \/ Shutdown
      BY <3>4, Zenon DEF DispatchRun, Others, BackendPost, Time, Tick, Shutdown
    <3>5. CASE UNCHANGED vars
      BY <3>5 DEF vars
    <3> QED
      BY <1>3, <3>1, <3>2, <3>3, <3>4, <3>5, Zenon DEF Next, Owner, Delivery, Backend, Left
  <2> QED
    BY <2>1, SessionKept
<1> QED
  BY <1>1, <1>2, <1>3

\* A start that a copy of the session shows is still the backend's after a step.
LEMMA StartKept ==
  ASSUME SessionTypeOK, SessionMoves, NEW s, s.startedAt # NoTime, SameStart(s, session)
  PROVE  SameStart(s, session')
BY DEF SessionMoves, SameStart

-----------------------------------------------------------------------------
(* The execution window.                                                   *)

\* Delivery starts without touching what the window depends on.
LEMMA DeliverStep ==
  ASSUME SessionTypeOK, NEW e, Deliver(e), Keep
  PROVE  /\ pc' = "posting" /\ observed' \in Replies /\ observed'.kind = None
         /\ claimed' = claimed /\ armed' = armed
BY RepliesMade DEF Deliver, Keep

\* The steps that leave the clock, the session's copies and the budget alone
\* and go nowhere a budget must be armed first.
Aside ==
  /\ now' = now /\ ctx' = ctx /\ claimed' = claimed /\ armed' = armed
  /\ observed' \in Replies
  /\ observed' = observed \/ observed'.kind # "ok"
  /\ \/ pc' \in Delivering \/ (pc' = pc /\ observed' = observed)
     \/ pc \in Executing /\ pc' \in Executing
     \/ pc = "asked" /\ pc' = "waiting"

LEMMA AsideKeeps ==
  ASSUME SessionTypeOK, WindowInv, SessionMoves, Aside
  PROVE  SessionTypeOK' /\ WindowInv'
<1>1. SessionTypeOK'
  BY DEF SessionTypeOK, SessionMoves, Aside, Executing, Delivering
<1>2. session'.status = "PENDING" => session'.startedAt = NoTime /\ session'.executionExpiresAt = NoTime
  BY DEF SessionMoves, WindowInv
<1>3. observed'.kind = "ok" /\ observed'.session.startedAt # NoTime => SameStart(observed'.session, session')
  BY StartKept, Zenon DEF Aside, WindowInv
<1>4. claimed'.startedAt # NoTime => SameStart(claimed', session')
  BY StartKept DEF Aside, WindowInv
<1>5. pc' \in Executing => pc \in Executing
  BY DEF Aside, Executing, Delivering
<1>6. /\ pc' \in {"waiting", "asked"} => pc \in {"waiting", "asked"}
      /\ pc' \in {"claimed", "waiting", "asked"} => pc \in {"claimed", "waiting", "asked"}
  BY DEF Aside, Executing, Delivering
<1> QED
  BY <1>1, <1>2, <1>3, <1>4, <1>5, <1>6, Zenon DEF Aside, WindowInv

\* What ReadinessAnswer does with a usable answer, one that says nothing yet,
\* and any other.
AskAgain ==
  pc' = "waiting" /\ observed' = NoReply /\ Keep /\ UNCHANGED <<bounded, ctx, transportVars>>

Armed ==
  LET s == observed.session
      budget == signExecutionBudget(s.executionExpiresAt, now)
  IN  /\ observed.kind = "ok" /\ Validate(s, Kind, Deadline) /\ s.status = "RUNNING"
      /\ ~(budget <= 0) /\ Arm(budget)

LEMMA ReadinessCases ==
  ASSUME SessionTypeOK, ReadinessAnswer
  PROVE  AskAgain \/ (\E e : e # None /\ Unready(e)) \/ Armed
<1> DEFINE s == observed.session
<1>1. observed.kind \in {"error", "invalid", "ok"}
  BY ReplyFields, Zenon DEF SessionTypeOK, ReadinessAnswer
<1>2. CASE observed.kind = "error"
  BY <1>2 DEF ReadinessAnswer, AskAgain
<1>3. CASE observed.kind = "invalid"
  BY <1>3 DEF ReadinessAnswer, None
<1>4. CASE observed.kind = "ok"
  <2>1. CASE ~Validate(s, Kind, Deadline)
    BY <1>4, <2>1 DEF ReadinessAnswer, None
  <2>2. CASE Validate(s, Kind, Deadline) /\ s.status = "PENDING"
    BY <1>4, <2>2 DEF ReadinessAnswer, AskAgain
  <2>3. CASE Validate(s, Kind, Deadline) /\ s.status = "RUNNING"
    BY <1>4, <2>3, Zenon DEF ReadinessAnswer, Armed, SessionTypeOK, None
  <2>4. CASE Validate(s, Kind, Deadline) /\ s.status \notin {"PENDING", "RUNNING"}
    BY <1>4, <2>4, Zenon DEF ReadinessAnswer, None
  <2> QED
    BY <2>1, <2>2, <2>3, <2>4, Zenon
<1> QED
  BY <1>1, <1>2, <1>3, <1>4

LEMMA WindowOwnerStep ==
  ASSUME SessionTypeOK, WindowInv, SessionMoves, Owner
  PROVE  SessionTypeOK' /\ WindowInv'
<1> USE DEF backendVars
<1>1. CASE CheckClaim
  <2>1. CASE \E e \in {"intent", "expired"} : Deliver(e) /\ Keep
    <3>1. Aside
      BY <1>1, <2>1, DeliverStep, Zenon DEF CheckClaim, Aside, Delivering, None
    <3> QED
      BY <3>1, AsideKeeps
  <2>2. CASE now < Deadline /\ pc' = "waiting" /\ Keep /\ UNCHANGED observed
    <3>1. now' = now /\ ctx' = ctx /\ session' = session
      BY <1>1 DEF CheckClaim
    <3>2. SessionTypeOK'
      BY <2>2, <3>1 DEF SessionTypeOK, Keep
    <3>3. armed = Deadline
      BY <1>1, Zenon DEF CheckClaim, WindowInv
    <3> QED
      BY <2>2, <3>1, <3>2, <3>3, Zenon DEF WindowInv, Keep, Executing
  <2> QED
    BY <1>1, <2>1, <2>2 DEF CheckClaim
<1>2. CASE AskReadiness
  <2>1. CASE Deliver(ctx) /\ Keep
    <3>1. Aside
      BY <1>2, <2>1, DeliverStep, Zenon DEF AskReadiness, Aside, Delivering, None
    <3> QED
      BY <3>1, AsideKeeps
  <2>2. CASE pc' = "asked" /\ Observe /\ Keep
    <3>1. now' = now /\ ctx' = ctx /\ session' = session /\ pc = "waiting"
      BY <1>2 DEF AskReadiness
    <3>2. /\ observed' \in Replies /\ observed'.kind # None
          /\ observed'.kind = "ok" => observed'.session = session
      <4>1. CASE observed' = [kind |-> "ok", session |-> session, messages |-> {}]
        BY <4>1, RepliesMade DEF SessionTypeOK, None
      <4>2. ASSUME NEW k \in {"invalid", "error"}, observed' = [NoReply EXCEPT !.kind = k]
            PROVE  observed' \in Replies /\ observed'.kind = k
        BY <4>2, RepliesMade
      <4> QED
        BY <2>2, <4>1, <4>2 DEF Observe, None
    <3>3. SessionTypeOK'
      BY <2>2, <3>1, <3>2 DEF SessionTypeOK, Keep, Observe, None
    <3>4. observed'.kind = "ok" => SameStart(observed'.session, session')
      BY <3>1, <3>2 DEF SameStart
    <3>5. claimed'.startedAt # NoTime => SameStart(claimed', session')
      BY <2>2, <3>1, Zenon DEF WindowInv, Keep
    <3> QED
      BY <2>2, <3>1, <3>3, <3>4, <3>5, Zenon DEF WindowInv, Keep, Executing
  <2> QED
    BY <1>2, <2>1, <2>2 DEF AskReadiness
<1>3. CASE ReadinessAnswer
  <2> DEFINE s == observed.session
             budget == signExecutionBudget(s.executionExpiresAt, now)
  <2>1. now' = now /\ session' = session /\ pc = "asked"
    BY <1>3 DEF ReadinessAnswer
  <2>2. AskAgain \/ (\E e : e # None /\ Unready(e)) \/ Armed
    BY <1>3, ReadinessCases
  <2>3. CASE AskAgain
    <3>1. Aside
      BY <2>1, <2>3, RepliesMade DEF AskAgain, Aside, Keep, None
    <3> QED
      BY <3>1, AsideKeeps
  <2>4. ASSUME NEW e, Unready(e) PROVE SessionTypeOK' /\ WindowInv'
    <3>1. Aside
      BY <2>1, <2>4, DeliverStep DEF Unready, Aside, Delivering, None
    <3> QED
      BY <3>1, AsideKeeps
  <2>5. CASE Armed
    <3> USE <2>5 DEF Armed
    <3>1. s \in Sessions /\ s.startedAt # NoTime
      BY <2>5, ReplyFields, Zenon DEF SessionTypeOK, Validate
    <3>2. s.executionExpiresAt \in Int /\ budget \in Int /\ budget <= s.executionExpiresAt - Margin - now
      BY <3>1, SessionFields, TransportAssumption DEF signExecutionBudget, Earlier, SessionTypeOK
    <3>3. armed' \in Int /\ armed' <= now + budget /\ armed' <= s.executionExpiresAt - Margin
      BY <2>5, <3>2, TransportAssumption DEF Arm, Earlier, SessionTypeOK
    <3>4. observed' \in Replies /\ observed'.kind = None /\ claimed' = s /\ pc' = "authorizing" /\ ctx' = ctx
      BY <2>5, RepliesMade, Zenon DEF Arm
    <3>5. SessionTypeOK'
      BY <2>1, <3>1, <3>3, <3>4, Zenon DEF SessionTypeOK, Executing
    <3>6. SameStart(claimed', session')
      BY <2>1, <2>5, <3>1, <3>4, Zenon DEF WindowInv
    <3>7. ctx' = "live" => now' < armed'
      BY <2>1, <2>5, <3>2, <3>4 DEF SessionTypeOK, WindowInv, Arm, Earlier
    <3> QED
      BY <2>1, <3>1, <3>3, <3>4, <3>5, <3>6, <3>7, Zenon DEF WindowInv, None, Executing
  <2> QED
    BY <2>2, <2>3, <2>4, <2>5
<1>4. CASE Authorize
  <2>1. ASSUME NEW e, Unready(e) PROVE Aside
    <3>1. now' = now
      BY <1>4 DEF Authorize
    <3> QED
      BY <2>1, <3>1, DeliverStep DEF Unready, Aside, Delivering, None
  <2>2. ASSUME pc' = "protocol", Keep, UNCHANGED <<ctx, observed>> PROVE Aside
    BY <1>4, <2>2 DEF Authorize, Aside, Keep, Executing, SessionTypeOK
  <2> QED
    BY <1>4, <2>1, <2>2, AsideKeeps, Zenon DEF Authorize
<1>5. CASE Select
  <2>1. Aside
    BY <1>5, Zenon DEF Select, Finish, Aside, Executing, SessionTypeOK
  <2> QED
    BY <2>1, AsideKeeps
<1>6. CASE Join
  <2>1. Aside
    BY <1>6 DEF Join, Finish, Aside, Executing, SessionTypeOK
  <2> QED
    BY <2>1, AsideKeeps
<1>7. CASE CloseTransport
  <2>1. Aside
    BY <1>7 DEF CloseTransport, Aside, Executing, SessionTypeOK
  <2> QED
    BY <2>1, AsideKeeps
<1>8. CASE Result
  <2>1. Aside
    BY <1>8, DeliverStep DEF Result, Aside, Delivering, None
  <2> QED
    BY <2>1, AsideKeeps
<1>9. CASE Delivery
  <2>1. Aside
    BY <1>9, Zenon DEF Delivery, PostResult, PostCancelled, ObserveResult, Retry, Go, Keep, Aside, Delivering, SessionTypeOK
  <2> QED
    BY <2>1, AsideKeeps
<1> QED
  BY <1>1, <1>2, <1>3, <1>4, <1>5, <1>6, <1>7, <1>8, <1>9, Zenon DEF Owner

LEMMA WindowStep ==
  ASSUME SessionTypeOK, WindowInv, [Next]_vars
  PROVE  SessionTypeOK' /\ WindowInv'
<1>1. SessionMoves
  BY SessionStep
<1>2. CASE Owner
  BY <1>1, <1>2, WindowOwnerStep
<1>3. CASE DispatchRun \/ Others \/ Backend \/ UNCHANGED vars
  <2>1. now' = now /\ ctx' = ctx /\ UNCHANGED sessionVars
    BY <1>3, Zenon DEF DispatchRun, Others, Backend, BackendSession, BackendPost, backendVars, vars
  <2>2. Aside
    BY <2>1 DEF Aside, sessionVars, SessionTypeOK
  <2> QED
    BY <1>1, <2>2, AsideKeeps
<1>4. CASE Time
  <2>1. now' = now + 1 /\ session' = session /\ UNCHANGED sessionVars
    BY <1>4 DEF Time, Tick
  <2>2. ctx' \in {"live", "canceled", "deadline"} /\ (ctx' = "live" => ctx = "live" /\ ~(now' >= armed))
    BY <1>4 DEF Time, SessionTypeOK
  <2> QED
    BY <2>1, <2>2 DEF SessionTypeOK, WindowInv, sessionVars
<1>5. CASE Shutdown
  <2>1. now' = now /\ session' = session /\ ctx' \in {"canceled", ctx}
        /\ UNCHANGED <<pc, claimed, armed, observed>>
    BY <1>5 DEF Shutdown, backendVars
  <2> QED
    BY <2>1 DEF SessionTypeOK, WindowInv
<1> QED
  BY <1>2, <1>3, <1>4, <1>5 DEF Next, Left

LEMMA WindowInit == Init => SessionTypeOK /\ WindowInv
<1> SUFFICES ASSUME Init PROVE SessionTypeOK /\ WindowInv
  OBVIOUS
<1>1. session \in Sessions /\ observed \in Replies /\ claimed = session /\ observed.kind = None
  BY SessionsMade, RepliesMade DEF Init
<1>2. SessionTypeOK
  BY <1>1, TransportAssumption DEF Init, SessionTypeOK
<1>3. session.status = "PENDING" => session.startedAt = NoTime /\ session.executionExpiresAt = NoTime
  BY DEF Init, Pending, Running
<1> QED
  BY <1>1, <1>2, <1>3, Zenon DEF Init, WindowInv, SameStart, Executing, None

-----------------------------------------------------------------------------
(* The run and the result.                                                 *)

\* The owner's steps up to Start leave the run and the transport's error alone.
LEMMA BeforeRun ==
  ASSUME SessionTypeOK, CheckClaim \/ AskReadiness \/ ReadinessAnswer \/ Authorize
  PROVE  /\ UNCHANGED <<runner, runErr, dispatched, err>>
         /\ pc \in {"claimed", "waiting", "asked", "authorizing"}
         /\ pc' \in {"waiting", "asked", "authorizing", "protocol", "posting"}
         /\ poller' = poller \/ (pc' = "protocol" /\ poller = "off")
         /\ pc' = "posting" => code' # None
<1> USE DEF transportVars, runVars, pollVars
<1>1. ASSUME NEW e, Deliver(e), e # None
      PROVE  pc' = "posting" /\ code' # None
  BY <1>1 DEF Deliver, BuildResult, None
<1>2. CASE CheckClaim
  BY <1>1, <1>2, Zenon DEF CheckClaim, None
<1>3. CASE AskReadiness
  BY <1>1, <1>3, Zenon DEF AskReadiness, SessionTypeOK, None
<1>4. CASE ReadinessAnswer
  <2>1. pc = "asked"
    BY <1>4, Zenon DEF ReadinessAnswer
  <2>2. CASE AskAgain
    BY <2>1, <2>2 DEF AskAgain
  <2>3. ASSUME NEW e, e # None, Unready(e) PROVE pc' = "posting" /\ code' # None /\ UNCHANGED transportVars
    BY <1>1, <2>3 DEF Unready
  <2>4. CASE Armed
    BY <2>1, <2>4, Zenon DEF Armed, Arm
  <2> QED
    BY <1>4, <2>1, <2>2, <2>3, <2>4, ReadinessCases, Zenon
<1>5. CASE Authorize
  BY <1>1, <1>5, Zenon DEF Authorize, Unready, Start, SessionTypeOK, None
<1> QED
  BY <1>2, <1>3, <1>4, <1>5, Zenon

LEMMA RunStep ==
  ASSUME SessionTypeOK, RunInv, [Next]_vars
  PROVE  RunInv'
<1> USE DEF RunInv, Active
<1>1. CASE CheckClaim \/ AskReadiness \/ ReadinessAnswer \/ Authorize
  BY <1>1, BeforeRun
<1>2. CASE Select
  BY <1>2, Zenon DEF Select, Finish, KeepTransport, None, SessionTypeOK
<1>3. CASE Join
  BY <1>3 DEF Join, Finish, KeepTransport, None
<1>4. CASE CloseTransport
  BY <1>4 DEF CloseTransport, CloseStop, runVars
<1>5. CASE Result
  BY <1>5 DEF Result, Deliver, transportVars, runVars
<1>6. CASE Delivery
  BY <1>6, Zenon DEF Delivery, PostResult, PostCancelled, ObserveResult, Retry, Go, transportVars, runVars
<1>7. CASE DispatchRun
  <2>1. UNCHANGED <<pc, outcome, joinErr, ctx>> /\ pc \in {"protocol", "joining"} /\ runner = "idle"
    BY <1>7 DEF DispatchRun, Dispatch, sessionVars
  <2>2. ASSUME NEW e, Refused(e), e # None PROVE RunInv'
    BY <2>1, <2>2 DEF Refused
  <2>3. CASE dispatched' = TRUE /\ runner' = "running"
    BY <2>1, <2>3
  <2> QED
    BY <1>7, <2>2, <2>3, Zenon DEF DispatchRun, Dispatch, None, SessionTypeOK
<1>8. CASE Others
  <2>1. UNCHANGED <<pc, outcome, joinErr, ctx>>
    BY <1>8 DEF Others, sessionVars
  <2>2. CASE Poll
    BY <2>1, <2>2, Zenon DEF Poll, PollFetch, PollApply, PollDeliver, runVars
  <2>3. CASE RecvFrame
    BY <2>1, <2>3, Zenon DEF RecvFrame, Returns, SessionTypeOK, None
  <2>4. CASE SendFrame
    BY <2>1, <2>4 DEF SendFrame, Returns, None
  <2>5. CASE RunEnds
    BY <2>1, <2>5, Zenon DEF RunEnds, Returns, None
  <2> QED
    BY <1>8, <2>2, <2>3, <2>4, <2>5, Zenon DEF Others, Run
<1>9. CASE Backend \/ UNCHANGED vars
  BY <1>9, Zenon DEF Backend, vars, transportVars, runVars, sessionVars
<1>10. CASE Time
  BY <1>10, Zenon DEF Time, transportVars, runVars, sessionVars
<1>11. CASE Shutdown
  BY <1>11, Zenon DEF Shutdown, transportVars, runVars
<1> QED
  BY <1>1, <1>2, <1>3, <1>4, <1>5, <1>6, <1>7, <1>8, <1>9, <1>10, <1>11, Zenon DEF Next, Owner, Left

LEMMA ResultStep ==
  ASSUME SessionTypeOK, RunInv, ResultInv, SessionMoves, [Next]_vars
  PROVE  ResultInv'
<1> USE DEF ResultInv, Joined, Delivering
<1>0. session'.status = "COMPLETED" => session.status = "COMPLETED" \/ (PostResult /\ code = None)
  BY DEF SessionMoves
<1>1. CASE CheckClaim \/ AskReadiness \/ ReadinessAnswer \/ Authorize
  <2>1. session' = session
    BY <1>1, Zenon DEF CheckClaim, AskReadiness, ReadinessAnswer, Authorize, backendVars
  <2> QED
    BY <1>1, <2>1, BeforeRun, Zenon
<1>2. CASE Select
  BY <1>2, Zenon DEF Select, Finish, KeepTransport, backendVars, pollVars
<1>3. CASE Join
  BY <1>3 DEF Join, Finish, KeepTransport, backendVars, pollVars
<1>4. CASE CloseTransport
  BY <1>4, Zenon DEF CloseTransport, CloseStop, stop, backendVars, pollVars
<1>5. CASE Result
  <2>1. UNCHANGED <<runErr, dispatched, err, poller, session>> /\ pc = "closed" /\ Joined
    BY <1>5 DEF Result, transportVars, pollVars, runVars, backendVars
  <2>2. pc' = "posting" /\ (code' = None => err = None /\ outcome = None)
    BY <1>5 DEF Result, Deliver, BuildResult, None
  <2>3. code' = None => dispatched = TRUE /\ runErr = None
    BY <2>1, <2>2 DEF RunInv
  <2> QED
    BY <2>1, <2>2, <2>3, Zenon
<1>6. CASE Delivery
  <2>1. UNCHANGED transportVars /\ code' = code /\ pc \in Delivering /\ pc' \in Delivering
    BY <1>6, Zenon DEF Delivery, PostResult, PostCancelled, ObserveResult, Retry, Go
  <2>2. session'.status = "COMPLETED" => code = None
    BY <1>0
  <2> QED
    BY <2>1, <2>2, Zenon DEF transportVars, pollVars, runVars
<1>7. CASE DispatchRun
  <2>1. UNCHANGED <<pc, code, session, err, poller>> /\ pc \in {"protocol", "joining"}
    BY <1>7, Zenon DEF DispatchRun, Dispatch, sessionVars, backendVars, pollVars
  <2> QED
    BY <2>1
<1>8. CASE Others
  <2>1. UNCHANGED <<pc, code, session>>
    BY <1>8 DEF Others, sessionVars, backendVars
  <2>2. CASE Poll
    <3>1. UNCHANGED <<runErr, dispatched>> /\ poller \notin {"off", "stopped"}
      BY <2>2, Zenon DEF Poll, PollFetch, PollApply, PollDeliver, runVars
    <3>2. err' \in {err, "lifecycle"}
      BY <2>2, Zenon DEF Poll, PollFetch, PollApply, PollDeliver, stop
    <3> QED
      BY <2>1, <3>1, <3>2, Zenon
  <2>3. CASE Run
    <3>1. UNCHANGED <<err, poller>> /\ Active
      BY <2>3, Zenon DEF Run, RecvFrame, SendFrame, RunEnds, pollVars, Active
    <3>2. pc \in {"protocol", "joining"}
      BY <3>1 DEF RunInv
    <3> QED
      BY <2>1, <3>1, <3>2, Zenon
  <2> QED
    BY <1>8, <2>2, <2>3, Zenon DEF Others
<1>9. CASE Backend
  <2>1. UNCHANGED <<transportVars, pc, code>> /\ ~PostResult
    BY <1>9 DEF Backend, sessionVars, PostResult, Go
  <2> QED
    BY <1>0, <2>1, Zenon DEF transportVars, pollVars, runVars
<1>10. CASE Time \/ Shutdown \/ UNCHANGED vars
  <2>1. UNCHANGED <<transportVars, pc, code, session>>
    BY <1>10, Zenon DEF Time, Tick, Shutdown, vars, sessionVars, backendVars
  <2> QED
    BY <2>1, Zenon DEF transportVars, pollVars, runVars
<1> QED
  BY <1>1, <1>2, <1>3, <1>4, <1>5, <1>6, <1>7, <1>8, <1>9, <1>10, Zenon DEF Next, Owner, Left

LEMMA GivingUpStep ==
  ASSUME SessionTypeOK, GivingUpInv, SessionMoves, [Next]_vars
  PROVE  GivingUpInv'
<1> USE DEF GivingUpInv, ResolvedOrStopping
<1>1. ASSUME pc' # "left", stopping' = stopping, bounded' = bounded \/ bounded' = stopping
      PROVE  GivingUpInv'
  <2>1. CASE bounded' = bounded
    BY <1>1, <2>1, Zenon
  <2>2. CASE bounded' = stopping
    BY <1>1, <2>2, Zenon
  <2> QED
    BY <1>1, <2>1, <2>2
<1>2. ASSUME NEW e, Deliver(e), Keep
      PROVE  GivingUpInv'
  BY <1>1, <1>2 DEF Deliver, Keep
<1>3. CASE CheckClaim \/ AskReadiness \/ Authorize
  BY <1>1, <1>2, <1>3, Zenon DEF CheckClaim, AskReadiness, Authorize, Unready, Keep
<1>4. CASE ReadinessAnswer
  BY <1>1, <1>2, <1>4, ReadinessCases, Zenon DEF AskAgain, Unready, Armed, Arm, Keep
<1>5. CASE Select \/ Join \/ CloseTransport
  BY <1>1, <1>5, Zenon DEF Select, Join, CloseTransport, Finish
<1>6. CASE Result
  BY <1>2, <1>6 DEF Result
<1>7. CASE Delivery
  <2>1. UNCHANGED <<bounded, stopping>>
    BY <1>7, Zenon DEF Delivery, PostResult, PostCancelled, ObserveResult, Retry, Go, Keep
  <2>2. pc' = "left" => session'.status \in Terminal \/ stopping
    <3>1. CASE PostResult
      <4>1. CASE session' = [session EXCEPT !.status = Submitted]
        <5>1. Submitted \in Terminal /\ Submitted \in Statuses
          BY DEF Submitted, Terminal, Statuses
        <5> QED
          BY <4>1, <5>1, SessionFields DEF SessionTypeOK
      <4>2. CASE session' = session /\ (session.status \in Terminal \/ pc' = "observing")
        BY <4>2
      <4> QED
        BY <3>1, <4>1, <4>2, Zenon DEF PostResult, Go
    <3>2. CASE PostCancelled \/ ObserveResult
      BY <3>2, Zenon DEF PostCancelled, ObserveResult, Go, backendVars
    <3>3. CASE Retry
      BY <3>3, Zenon DEF Retry, Go, Cut
    <3> QED
      BY <1>7, <3>1, <3>2, <3>3, Zenon DEF Delivery
  <2> QED
    BY <2>1, <2>2, Zenon
<1>8. CASE Shutdown
  <2>1. stopping' = TRUE /\ bounded' = bounded
    BY <1>8 DEF Shutdown
  <2> QED
    BY <2>1, Zenon
<1>9. CASE DispatchRun \/ Others \/ Backend \/ Time \/ UNCHANGED vars
  <2>1. UNCHANGED <<pc, bounded, stopping>>
    BY <1>9, Zenon DEF DispatchRun, Others, Backend, Time, sessionVars, vars
  <2>2. session.status \in Terminal => session'.status \in Terminal
    BY DEF SessionMoves
  <2> QED
    BY <2>1, <2>2, Zenon
<1> QED
  BY <1>3, <1>4, <1>5, <1>6, <1>7, <1>8, <1>9, Zenon DEF Next, Owner, Left

-----------------------------------------------------------------------------
(* The messages.                                                           *)

\* Sorting a page of consecutive messages leaves no gap (deliverMessages).
LEMMA SortedPage ==
  ASSUME NEW a \in Nat, NEW n \in 0..MaxMessages, a <= n
  PROVE  /\ Following(Sorted((a + 1)..n), a)
         /\ (a + 1)..n # {} => Sorted((a + 1)..n) # <<>>
<1> DEFINE m == (a + 1)..n
           k == n - a
           Increasing(g) == \A i, j \in DOMAIN g : i < j => g[i] < g[j]
           count == [i \in 1..k |-> a + i]
           page == Sorted(m)
<1>1. k \in 0..MaxMessages /\ m \subseteq Nat
  BY TransportAssumption
<1>2. count \in Orderings(m)
  <2>1. count \in [1..k -> m]
    OBVIOUS
  <2>2. ASSUME NEW x \in m PROVE x - a \in 1..k /\ count[x - a] = x
    OBVIOUS
  <2>3. DOMAIN count = 1..k /\ \A i \in 1..k : count[i] \in m
    OBVIOUS
  <2> HIDE DEF count, k, m
  <2>4. Range(count) = m
    BY <2>2, <2>3 DEF Range
  <2> QED
    BY <1>1, <2>1, <2>4 DEF Orderings
<1>3. Increasing(count)
  OBVIOUS
<1> HIDE DEF count, k, m
<1>4. page \in Orderings(m) /\ Increasing(page)
  BY <1>2, <1>3, Zenon DEF Sorted
<1> HIDE DEF page
<1>5. PICK l \in 0..MaxMessages : page \in [1..l -> m]
  BY <1>4 DEF Orderings
<1>6. page \in Seq(Nat) /\ Len(page) = l /\ DOMAIN page = 1..l
  <2>1. l \in Nat
    BY TransportAssumption
  <2>2. page \in [1..l -> Nat]
    BY <1>1, <1>5, Zenon
  <2> QED
    BY <2>1, <2>2
<1>7. \A x : x \in m <=> \E i \in 1..l : page[i] = x
  BY <1>4, <1>6, Zenon DEF Orderings, Range
<1>8. \A i \in 1..l : page[i] \in (a + 1)..n
  BY <1>7 DEF m
<1>9. ASSUME NEW i \in 1..l, NEW x \in (a + 1)..page[i] PROVE \E j \in 1..l : page[j] = x
  <2>1. x \in m
    BY <1>8, <1>9 DEF m
  <2> QED
    BY <1>7, <2>1
<1>10. \A i \in 1..l : a < page[i]
  BY <1>8
<1>11. Following(page, a)
  BY <1>4, <1>6, <1>9, <1>10, Zenon DEF Following
<1>12. ASSUME m # {} PROVE page # <<>>
  <2>1. PICK i : i \in 1..l
    BY <1>7, <1>12
  <2> QED
    BY <1>6, <2>1
<1> QED
  BY <1>11, <1>12 DEF page, m

\* The first message of such a page is the next one, and the rest of the page
\* goes on behind it (PollDeliver).
LEMMA FollowingDelivered ==
  ASSUME NEW a \in Nat, NEW page, Following(page, a), page # <<>>
  PROVE  /\ Head(page) = a + 1
         /\ Following(Tail(page), a + 1)
         /\ Len(page) \in Nat \ {0}
         /\ Len(page) # 1 => Tail(page) # <<>>
<1> DEFINE l == Len(page)
<1>1. page \in Seq(Nat) /\ l \in Nat \ {0} /\ 1 \in 1..l /\ Head(page) = page[1]
  BY DEF Following
<1>2. /\ Tail(page) \in Seq(Nat) /\ Len(Tail(page)) = l - 1
      /\ \A i \in 1..(l - 1) : Tail(page)[i] = page[i + 1]
  BY <1>1
<1>3. \A i \in 1..l : page[i] \in Nat
  BY <1>1
<1>4. page[1] = a + 1
  <2>1. a < page[1] /\ page[1] \in Nat
    BY <1>1, <1>3 DEF Following
  <2>2. a + 1 \in (a + 1)..page[1]
    BY <2>1
  <2>3. PICK j \in 1..l : page[j] = a + 1
    BY <1>1, <2>2, Zenon DEF Following
  <2>4. j # 1 => page[1] < page[j]
    BY <1>1, <2>3 DEF Following
  <2> QED
    BY <2>1, <2>3, <2>4
<1>5. \A i, j \in 1..(l - 1) : i < j => Tail(page)[i] < Tail(page)[j]
  <2> SUFFICES ASSUME NEW i \in 1..(l - 1), NEW j \in 1..(l - 1), i < j
               PROVE  page[i + 1] < page[j + 1]
    BY <1>2
  <2>1. i + 1 \in 1..l /\ j + 1 \in 1..l /\ i + 1 < j + 1
    BY <1>1
  <2> QED
    BY <2>1 DEF Following
<1>6. \A i \in 1..(l - 1) : a + 1 < Tail(page)[i]
  <2> SUFFICES ASSUME NEW i \in 1..(l - 1) PROVE page[1] < page[i + 1]
    BY <1>2, <1>4
  <2>1. i + 1 \in 1..l /\ 1 < i + 1
    BY <1>1
  <2> QED
    BY <1>1, <2>1 DEF Following
<1>7. ASSUME NEW i \in 1..(l - 1), NEW x \in ((a + 1) + 1)..Tail(page)[i]
      PROVE  \E j \in 1..(l - 1) : Tail(page)[j] = x
  <2>1. i + 1 \in 1..l /\ Tail(page)[i] = page[i + 1] /\ page[i + 1] \in Nat
    BY <1>1, <1>2, <1>3
  <2>2. x \in (a + 1)..page[i + 1] /\ x # a + 1
    BY <2>1
  <2>3. PICK j \in 1..l : page[j] = x
    BY <2>1, <2>2, Zenon DEF Following
  <2>4. j # 1
    BY <1>4, <2>2, <2>3
  <2>5. j - 1 \in 1..(l - 1) /\ (j - 1) + 1 = j
    BY <1>1, <2>4
  <2>6. Tail(page)[j - 1] = page[j]
    BY <1>2, <2>5
  <2> QED
    BY <2>3, <2>5, <2>6, Zenon
<1>8. Following(Tail(page), a + 1)
  BY <1>2, <1>5, <1>6, <1>7, Zenon DEF Following
<1>9. ASSUME l # 1 PROVE Tail(page) # <<>>
  <2>1. Len(Tail(page)) # 0
    BY <1>1, <1>2, <1>9
  <2>2. Len(<<>>) = 0
    OBVIOUS
  <2> QED
    BY <2>1, <2>2, Zenon
<1> QED
  BY <1>1, <1>4, <1>8, <1>9, Zenon

\* Nothing is left of a page that was dropped or delivered.
LEMMA NothingFollows == \A a \in Nat : Following(<<>>, a)
  BY DEF Following

\* A poller that stops, or polls again, keeps no page.
LEMMA PageDropped ==
  ASSUME OrderInv, StopPolling, UNCHANGED <<afterSeq, got, inbound>>
  PROVE  OrderInv'
<1>1. QueueInv'
  BY Zenon DEF OrderInv, QueueInv
<1>2. Following(batch', afterSeq')
  BY NothingFollows, Zenon DEF OrderInv, QueueInv, StopPolling
<1>3. poller' = "stopped"
  BY Zenon DEF StopPolling
<1> QED
  BY <1>1, <1>2, <1>3 DEF OrderInv, PageInv

LEMMA OrderStep ==
  ASSUME SessionTypeOK, OrderInv, [Next]_vars
  PROVE  OrderInv'
<1>0. QueueInv /\ PageInv /\ afterSeq \in Nat
  BY Zenon DEF OrderInv, QueueInv
<1>1. CASE UNCHANGED <<afterSeq, got, inbound, batch, poller, reply>>
  BY <1>0, <1>1, Zenon DEF OrderInv, QueueInv, PageInv
<1>a. ASSUME UNCHANGED <<afterSeq, got, inbound>> PROVE QueueInv'
  BY <1>0, <1>a, Zenon DEF QueueInv
<1>2. CASE Start
  <2>1. UNCHANGED <<afterSeq, got, inbound, batch, reply>> /\ poller' = "ready"
    BY <1>2, Zenon DEF Start, runVars
  <2>2. PageInv'
    BY <1>0, <2>1 DEF PageInv
  <2> QED
    BY <1>a, <2>1, <2>2, Zenon DEF OrderInv
<1>3. CASE PollFetch
  <2>1. UNCHANGED <<afterSeq, got, inbound>>
    BY <1>3, Zenon DEF PollFetch, runVars
  <2>2. CASE StopPolling
    BY <2>1, <2>2, PageDropped, Zenon
  <2>3. CASE reply' \in Answers /\ poller' = "waiting" /\ UNCHANGED batch
    <3>1. reply'.kind \in {"ok", "invalid", "error"}
      BY <2>3 DEF Answers, NoReply
    <3>2. reply'.kind = "ok" =>
            \E n \in 0..MaxMessages : afterSeq <= n /\ reply'.messages = (afterSeq + 1)..n
      BY <2>3 DEF Answers, NoReply
    <3>3. PageInv'
      BY <1>0, <2>1, <2>3, <3>1, <3>2, Zenon DEF PageInv
    <3> QED
      BY <1>a, <2>1, <3>3, Zenon DEF OrderInv
  <2> QED
    BY <1>3, <2>2, <2>3, Zenon DEF PollFetch
<1>4. CASE PollApply
  <2>1. UNCHANGED <<afterSeq, got, inbound>> /\ poller = "waiting"
    BY <1>4, Zenon DEF PollApply, runVars
  <2>2. CASE StopPolling
    BY <2>1, <2>2, PageDropped, Zenon
  <2>3. CASE poller' = "ready" /\ UNCHANGED batch
    <3>1. PageInv'
      BY <1>0, <2>1, <2>3 DEF PageInv
    <3> QED
      BY <1>a, <2>1, <3>1, Zenon DEF OrderInv
  <2>4. CASE /\ reply.kind = "ok" /\ batch' = Sorted(reply.messages)
             /\ poller' = IF reply.messages = {} THEN "ready" ELSE "delivering"
    <3>1. PICK n \in 0..MaxMessages : afterSeq <= n /\ reply.messages = (afterSeq + 1)..n
      BY <1>0, <2>1, <2>4, Zenon DEF PageInv
    <3>2. Following(batch', afterSeq) /\ (reply.messages # {} => batch' # <<>>)
      BY <1>0, <2>4, <3>1, SortedPage, Zenon
    <3>3. poller' # "waiting" /\ (poller' = "delivering" => reply.messages # {})
      BY <2>4
    <3>4. PageInv'
      BY <2>1, <3>2, <3>3, Zenon DEF PageInv
    <3> QED
      BY <1>a, <2>1, <3>4, Zenon DEF OrderInv
  <2>5. reply.kind \in {"ok", "invalid", "error"}
    BY <1>0, <2>1, Zenon DEF PageInv
  <2> QED
    BY <1>4, <2>2, <2>3, <2>4, <2>5, Zenon DEF PollApply
<1>5. CASE PollDeliver
  <2>1. got' = got /\ poller = "delivering"
    BY <1>5, Zenon DEF PollDeliver, runVars
  <2>2. CASE StopPolling /\ UNCHANGED <<inbound, afterSeq>>
    BY <2>1, <2>2, PageDropped, Zenon
  <2>3. CASE /\ inbound' = Append(inbound, Head(batch))
             /\ afterSeq' = IF Head(batch) > afterSeq THEN Head(batch) ELSE afterSeq
             /\ batch' = Tail(batch) /\ poller' = IF Len(batch) = 1 THEN "ready" ELSE "delivering"
    <3>1. Following(batch, afterSeq) /\ batch # <<>>
      BY <1>0, <2>1, Zenon DEF PageInv
    <3>2. /\ Head(batch) = afterSeq + 1 /\ Following(Tail(batch), afterSeq + 1)
          /\ Len(batch) # 1 => Tail(batch) # <<>>
      BY <1>0, <3>1, FollowingDelivered, Zenon
    <3>3. afterSeq' = afterSeq + 1
      BY <1>0, <2>3, <3>2
    <3>4. PageInv'
      <4>1. Following(batch', afterSeq')
        BY <2>3, <3>2, <3>3, Zenon
      <4>2. poller' # "waiting" /\ (poller' = "delivering" => batch' # <<>>)
        BY <2>3, <3>2
      <4> QED
        BY <4>1, <4>2, Zenon DEF PageInv
    <3>5. /\ Len(inbound) \in Nat /\ Len(got) \in Nat /\ Len(got) + Len(inbound) = afterSeq
          /\ inbound \in Seq(Nat) /\ got \in Seq(Nat)
      BY <1>0 DEF QueueInv
    <3>6. /\ inbound' \in Seq(Nat) /\ Len(inbound') = Len(inbound) + 1
          /\ \A i \in 1..Len(inbound) : inbound'[i] = inbound[i]
          /\ inbound'[Len(inbound) + 1] = afterSeq + 1
      BY <1>0, <2>3, <3>2, <3>5
    <3>7. ASSUME NEW i \in 1..Len(inbound') PROVE inbound'[i] = Len(got) + i
      <4>1. CASE i \in 1..Len(inbound)
        BY <1>0, <3>6, <4>1, Zenon DEF QueueInv
      <4>2. CASE i = Len(inbound) + 1
        BY <3>5, <3>6, <4>2
      <4> QED
        BY <3>5, <3>6, <4>1, <4>2
    <3>8. Len(got) + Len(inbound') = afterSeq' /\ afterSeq' \in Nat
      BY <3>3, <3>5, <3>6
    <3>9. QueueInv'
      BY <1>0, <2>1, <3>6, <3>7, <3>8, Zenon DEF QueueInv
    <3> QED
      BY <3>4, <3>9, Zenon DEF OrderInv
  <2> QED
    BY <1>5, <2>2, <2>3, Zenon DEF PollDeliver
<1>6. CASE RecvFrame
  <2>1. UNCHANGED <<afterSeq, batch, poller, reply>>
    BY <1>6, Zenon DEF RecvFrame, pollVars
  <2>2. CASE UNCHANGED <<got, inbound>>
    BY <1>1, <2>1, <2>2, Zenon
  <2>3. CASE inbound # <<>> /\ got' = Append(got, Head(inbound)) /\ inbound' = Tail(inbound)
    <3>1. /\ inbound \in Seq(Nat) /\ got \in Seq(Nat) /\ inbound # <<>>
          /\ Len(inbound) \in Nat \ {0} /\ Len(got) \in Nat
          /\ Len(got) + Len(inbound) = afterSeq
      BY <1>0, <2>3 DEF QueueInv
    <3>2. Head(inbound) = Len(got) + 1
      <4>1. 1 \in 1..Len(inbound) /\ Head(inbound) = inbound[1]
        BY <3>1
      <4> QED
        BY <1>0, <4>1, Zenon DEF QueueInv
    <3>3. /\ inbound' \in Seq(Nat) /\ Len(inbound') = Len(inbound) - 1
          /\ \A i \in 1..Len(inbound') : inbound'[i] = inbound[i + 1]
      BY <2>3, <3>1
    <3>4. /\ got' \in Seq(Nat) /\ Len(got') = Len(got) + 1
          /\ \A i \in 1..Len(got) : got'[i] = got[i]
          /\ got'[Len(got) + 1] = Len(got) + 1
      BY <2>3, <3>1, <3>2
    <3>5. ASSUME NEW i \in 1..Len(got') PROVE got'[i] = i
      <4>1. i \in 1..Len(got) \/ i = Len(got) + 1
        BY <3>1, <3>4
      <4> QED
        BY <1>0, <3>4, <4>1, Zenon DEF QueueInv
    <3>6. ASSUME NEW i \in 1..Len(inbound') PROVE inbound'[i] = Len(got') + i
      <4>1. i + 1 \in 1..Len(inbound) /\ inbound'[i] = inbound[i + 1]
        BY <3>1, <3>3
      <4>2. inbound[i + 1] = Len(got) + (i + 1)
        BY <1>0, <4>1, Zenon DEF QueueInv
      <4> QED
        BY <3>1, <3>4, <4>1, <4>2
    <3>7. Len(got') + Len(inbound') = afterSeq'
      BY <2>1, <3>1, <3>3, <3>4
    <3>8. QueueInv'
      BY <1>0, <2>1, <3>3, <3>4, <3>5, <3>6, <3>7, Zenon DEF QueueInv
    <3>9. PageInv'
      BY <1>0, <2>1, Zenon DEF PageInv
    <3> QED
      BY <3>8, <3>9, Zenon DEF OrderInv
  <2> QED
    BY <1>6, <2>2, <2>3, Zenon DEF RecvFrame
<1>7. CASE ~Start /\ ~Poll /\ ~RecvFrame
  <2> USE DEF transportVars, pollVars, runVars
  <2>1. CASE CheckClaim \/ AskReadiness \/ Authorize \/ Select \/ Join \/ CloseTransport \/ Result
    BY <1>1, <1>7, <2>1, Zenon DEF CheckClaim, AskReadiness, Authorize, Unready, Select, Join, KeepTransport,
                            CloseTransport, CloseStop, Result
  <2>2. CASE ReadinessAnswer
    BY <1>1, <2>2, ReadinessCases, Zenon DEF AskAgain, Unready, Armed, Arm
  <2>3. CASE Delivery
    BY <1>1, <2>3, Zenon DEF Delivery, PostResult, PostCancelled, ObserveResult, Retry
  <2>4. CASE DispatchRun
    BY <1>1, <2>4, Zenon DEF DispatchRun, Dispatch
  <2>5. CASE SendFrame \/ RunEnds
    BY <1>1, <2>5, Zenon DEF SendFrame, RunEnds
  <2>6. CASE Backend \/ Time \/ Shutdown \/ UNCHANGED vars
    BY <1>1, <2>6, Zenon DEF Backend, Time, Shutdown, vars
  <2> QED
    BY <1>7, <2>1, <2>2, <2>3, <2>4, <2>5, <2>6, Zenon DEF Next, Owner, Others, Run, Left
<1> QED
  BY <1>2, <1>3, <1>4, <1>5, <1>6, <1>7, Zenon DEF Poll

LEMMA OrderInit == Init => OrderInv
<1> SUFFICES ASSUME Init PROVE OrderInv
  OBVIOUS
<1>1. <<>> \in Seq(Nat) /\ Len(<<>>) = 0
  OBVIOUS
<1>2. afterSeq = 0 /\ got = <<>> /\ inbound = <<>> /\ batch = <<>> /\ poller = "off"
  BY Zenon DEF Init, TransportInit
<1>3. QueueInv
  BY <1>1, <1>2 DEF QueueInv
<1>4. PageInv
  <2>1. Following(batch, afterSeq)
    BY <1>2, NothingFollows
  <2> QED
    BY <1>2, <2>1 DEF PageInv
<1> QED
  BY <1>3, <1>4, Zenon DEF OrderInv

-----------------------------------------------------------------------------
(* The theorems.                                                           *)

SessionInv == SessionTypeOK /\ WindowInv /\ RunInv /\ ResultInv /\ GivingUpInv /\ OrderInv

LEMMA SessionInvariant == Spec => []SessionInv
<1>1. Init => SessionInv
  <2> SUFFICES ASSUME Init PROVE SessionInv
    OBVIOUS
  <2>1. session.status # "COMPLETED"
    BY DEF Init, Pending, Running
  <2>2. RunInv /\ ResultInv
    BY <2>1 DEF Init, TransportInit, RunInv, ResultInv, Active, Joined, Delivering, None
  <2>3. GivingUpInv
    BY Zenon DEF Init, GivingUpInv, ResolvedOrStopping
  <2> QED
    BY <2>2, <2>3, WindowInit, OrderInit DEF SessionInv
<1>2. SessionInv /\ [Next]_vars => SessionInv'
  BY SessionStep, WindowStep, RunStep, ResultStep, GivingUpStep, OrderStep, Zenon DEF SessionInv
<1> QED
  BY <1>1, <1>2, PTL DEF Spec

\* For every window, margin and deadline, and whenever the co-signer learns of
\* the start: while a run is alive under a live context, more than the margin
\* is left of the window the backend granted (signExecutionBudget and the
\* execution context of sign_session.go).
THEOREM RunsInsideWindow == Spec => []InsideWindow
<1>1. SessionInv => InsideWindow
  <2> SUFFICES ASSUME SessionInv, Active, ctx = "live"
               PROVE  now + Margin < session.executionExpiresAt
    BY DEF InsideWindow
  <2>1. pc \in Executing
    BY DEF SessionInv, RunInv, Executing
  <2>2. now < armed /\ armed <= claimed.executionExpiresAt - Margin
    BY <2>1 DEF SessionInv, WindowInv
  <2>3. claimed.executionExpiresAt = session.executionExpiresAt
    BY <2>1 DEF SessionInv, WindowInv, SameStart
  <2>4. now \in Int /\ armed \in Int /\ claimed.executionExpiresAt \in Int
    BY SessionFields DEF SessionInv, SessionTypeOK
  <2> QED
    BY <2>2, <2>3, <2>4, TransportAssumption
<1> QED
  BY <1>1, SessionInvariant, PTL

\* The backend records COMPLETED only for a run that was dispatched, returned
\* no error, and whose session the poller never found invalid: no order of
\* run, poller, shutdown and delivery turns a failure into a completion
\* (runSignProtocol, Close, BuildResult).
THEOREM CompletionsAreTrue == Spec => []CompletedIsTrue
<1>1. SessionInv => CompletedIsTrue
  BY DEF SessionInv, ResultInv, CompletedIsTrue
<1> QED
  BY <1>1, SessionInvariant, PTL

\* A session that gives its permit back is resolved at the backend, or the
\* worker is stopping (deliverSignResult).
THEOREM LeavesResolved == Spec => []ResolvedOrStopping
<1>1. SessionInv => ResolvedOrStopping
  BY DEF SessionInv, GivingUpInv
<1> QED
  BY <1>1, SessionInvariant, PTL

\* For any number of messages, any pages and any capacity of the inbound
\* channel, the run sees the platform's messages once each and in delivery
\* order (deliverMessages, RecvFrame).
THEOREM MessagesInOrder == Spec => []InOrderOnce
<1>1. SessionInv => InOrderOnce
  <2> SUFFICES ASSUME SessionInv PROVE InOrderOnce
    OBVIOUS
  <2> DEFINE all == got \o inbound
  <2>1. got \in Seq(Nat) /\ inbound \in Seq(Nat)
    BY DEF SessionInv, OrderInv, QueueInv
  <2>2. /\ Len(all) = Len(got) + Len(inbound)
        /\ \A i \in 1..(Len(got) + Len(inbound)) :
             all[i] = IF i <= Len(got) THEN got[i] ELSE inbound[i - Len(got)]
    BY <2>1
  <2>3. ASSUME NEW i \in 1..Len(all) PROVE all[i] = i
    <3>1. Len(got) \in Nat /\ Len(inbound) \in Nat
      BY <2>1
    <3>2. CASE i <= Len(got)
      BY <2>2, <3>1, <3>2 DEF SessionInv, OrderInv, QueueInv
    <3>3. CASE ~(i <= Len(got))
      <4>1. i - Len(got) \in 1..Len(inbound) /\ all[i] = inbound[i - Len(got)]
        BY <2>2, <3>1, <3>3
      <4>2. inbound[i - Len(got)] = Len(got) + (i - Len(got))
        BY <4>1, Zenon DEF SessionInv, OrderInv, QueueInv
      <4> QED
        BY <3>1, <4>1, <4>2
    <3> QED
      BY <3>2, <3>3
  <2> QED
    BY <2>3 DEF InOrderOnce
<1> QED
  BY <1>1, SessionInvariant, PTL

=============================================================================

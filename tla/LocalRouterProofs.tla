-------------------------- MODULE LocalRouterProofs --------------------------
(***************************************************************************)
(* The safety of the local router for any frames the three parties may     *)
(* send and any queue capacity: frames of one sender reach a party in      *)
(* order, a recorded frame is not lost unnoticed, and a closed router      *)
(* hands nothing out.                                                      *)
(***************************************************************************)
EXTENDS LocalRouter, TLAPS

-----------------------------------------------------------------------------
(* The inductive invariant.                                                *)

Frames == UNION {Outgoing[p] : p \in Parties}

\* What a party was handed and what waits for it, in order.
Stream(p) == got[p] \o inbound[p]

IsFor(f, p) == f.from # p /\ f.to \in {p, All}

\* The accepted frame and the local parties that do not have it yet.
Delivering ==
  /\ arrived \in [frame : Outgoing[Platform] \cap seen, to : Seq(Local)]
  /\ \/ arrived.frame.to = All /\ arrived.to \in {<<Primary, Recovery>>, <<Recovery>>}
     \/ arrived.frame.to \in Local /\ arrived.to = <<arrived.frame.to>>

ReceiverOK ==
  /\ receiver \in {"unstarted", "receiving", "delivering", "exited"}
  /\ receiver = "delivering" => Delivering

\* A call of a party has a frame of it in hand, recorded after the check.
CallsOK ==
  /\ party \in [Local -> {"running", "failed", "left"}]
  /\ sending \in [Local -> {"idle", "checked", "recorded", "network"}]
  /\ frame \in [Local -> Frames \cup {NoFrame}]
  /\ \A p \in Local :
       /\ sending[p] # "idle" => frame[p] \in Outgoing[p]
       /\ sending[p] \in {"recorded", "network"} => frame[p] \in seen /\ validateRecipient(frame[p])
       /\ sending[p] = "network" => frame[p].to \in {Platform, All}

RouterTypeOK ==
  /\ seen \subseteq Frames
  /\ inbound \in [Local -> Seq(Frames)] /\ got \in [Local -> Seq(Frames)]
  /\ ReceiverOK /\ CallsOK

\* Recorded frames on their way to p, not yet in its queue.
Coming(f, p) ==
  \/ receiver = "delivering" /\ f = arrived.frame /\ p \in Range(arrived.to)
  \/ \E s \in Local \ {p} : sending[s] = "recorded" /\ f = frame[s] /\ f.to \in {p, All}

Ordered(s) ==
  \A i, j \in 1..Len(s) : i < j /\ s[i].from = s[j].from => s[i].seq < s[j].seq

OrderInv ==
  \A p \in Local :
    /\ Ordered(Stream(p))
    /\ \A g \in Range(Stream(p)) : g \in seen /\ IsFor(g, p)
    /\ \A g \in Range(Stream(p)), f \in Frames :
         Coming(f, p) /\ g.from = f.from => g.seq < f.seq

HasFrame(p, f) == f \in Range(Stream(p))

\* Where a recorded frame is, while the router neither failed nor finishes.
Accounted(f) ==
  IF f.from = Platform
    THEN \A p \in Local : IsFor(f, p) =>
           HasFrame(p, f) \/ (receiver = "delivering" /\ arrived.frame = f /\ p \in Range(arrived.to))
    ELSE \/ party[f.from] = "failed"
         \/ frame[f.from] = f /\ sending[f.from] = "recorded"
         \/ /\ \A p \in Local : IsFor(f, p) => HasFrame(p, f)
            /\ f.to \in {Platform, All} =>
                 f \in wired \/ (frame[f.from] = f /\ sending[f.from] = "network")

LossInv == terminalErr = None /\ ~finishing => \A f \in seen : Accounted(f)

RouterInv == RouterTypeOK /\ OrderInv /\ LossInv

-----------------------------------------------------------------------------
(* Sequences.                                                              *)

LEMMA Elementwise ==
  ASSUME NEW S, NEW s \in Seq(S), NEW t \in Seq(S), Len(s) = Len(t),
         \A i \in 1..Len(s) : s[i] = t[i]
  PROVE  s = t
  OBVIOUS

LEMMA Concatenated ==
  ASSUME NEW S, NEW s \in Seq(S), NEW t \in Seq(S)
  PROVE  /\ s \o t \in Seq(S) /\ Len(s \o t) = Len(s) + Len(t) /\ Len(s) \in Nat /\ Len(t) \in Nat
         /\ \A i \in 1..(Len(s) + Len(t)) : (s \o t)[i] = IF i <= Len(s) THEN s[i] ELSE t[i - Len(s)]
  OBVIOUS

LEMMA Appended ==
  ASSUME NEW S, NEW s \in Seq(S), NEW e \in S
  PROVE  /\ Append(s, e) \in Seq(S) /\ Len(Append(s, e)) = Len(s) + 1 /\ Len(s) \in Nat
         /\ \A i \in 1..Len(s) : Append(s, e)[i] = s[i]
         /\ Append(s, e)[Len(s) + 1] = e
  OBVIOUS

\* Moving the head of a queue to the end of what was handed out.
LEMMA AppendHead ==
  ASSUME NEW S, NEW s \in Seq(S), NEW t \in Seq(S), t # <<>>
  PROVE  /\ Append(s, Head(t)) \in Seq(S) /\ Tail(t) \in Seq(S)
         /\ Append(s, Head(t)) \o Tail(t) = s \o t
<1> DEFINE a == Append(s, Head(t))
           u == Tail(t)
           m == Len(s)
           n == Len(t)
<1>1. /\ u \in Seq(S) /\ Len(u) = n - 1 /\ m \in Nat /\ n \in Nat \ {0} /\ Head(t) \in S /\ Head(t) = t[1]
      /\ \A i \in 1..(n - 1) : u[i] = t[i + 1]
  OBVIOUS
<1>2. a \in Seq(S) /\ Len(a) = m + 1 /\ a[m + 1] = t[1] /\ \A i \in 1..m : a[i] = s[i]
  BY <1>1
<1> HIDE DEF a, u
<1>3. /\ a \o u \in Seq(S) /\ Len(a \o u) = m + n
      /\ \A i \in 1..(m + n) : (a \o u)[i] = IF i <= m + 1 THEN a[i] ELSE u[i - (m + 1)]
  <2>0. a \in Seq(S) /\ u \in Seq(S)
    BY <1>1, <1>2, Zenon
  <2>1. /\ a \o u \in Seq(S) /\ Len(a \o u) = Len(a) + Len(u)
        /\ \A i \in 1..(Len(a) + Len(u)) : (a \o u)[i] = IF i <= Len(a) THEN a[i] ELSE u[i - Len(a)]
    BY <2>0, Concatenated, Zenon
  <2>2. Len(a) + Len(u) = m + n
    BY <1>1, <1>2
  <2> QED
    BY <1>2, <2>1, <2>2, Zenon
<1>4. /\ s \o t \in Seq(S) /\ Len(s \o t) = m + n
      /\ \A i \in 1..(m + n) : (s \o t)[i] = IF i <= m THEN s[i] ELSE t[i - m]
  BY Concatenated, Zenon
<1> HIDE DEF m, n
<1>5. ASSUME NEW i \in 1..(m + n) PROVE (a \o u)[i] = (s \o t)[i]
  <2>1. CASE i <= m
    BY <1>1, <1>2, <1>3, <1>4, <2>1
  <2>2. CASE i = m + 1
    <3>1. i <= m + 1 /\ ~(i <= m) /\ i - m = 1
      BY <1>1, <2>2
    <3> QED
      BY <1>2, <1>3, <1>4, <2>2, <3>1, Zenon
  <2>3. CASE i > m + 1
    <3>1. i - (m + 1) \in 1..(n - 1) /\ (i - (m + 1)) + 1 = i - m /\ ~(i <= m) /\ ~(i <= m + 1)
      BY <1>1, <2>3
    <3>2. u[i - (m + 1)] = t[i - m]
      BY <1>1, <3>1
    <3> QED
      BY <1>3, <1>4, <3>1, <3>2, Zenon
  <2>4. i <= m \/ i = m + 1 \/ i > m + 1
    BY <1>1
  <2> QED
    BY <2>1, <2>2, <2>3, <2>4, Zenon
<1>6. a \o u = s \o t
  BY <1>3, <1>4, <1>5, Elementwise, Zenon
<1> QED
  BY <1>1, <1>2, <1>6, Zenon DEF a, u

LEMMA AppendLast ==
  ASSUME NEW S, NEW s \in Seq(S), NEW t \in Seq(S), NEW e \in S
  PROVE  s \o Append(t, e) = Append(s \o t, e)
<1> DEFINE u == Append(t, e)
           w == s \o t
           v == Append(w, e)
           m == Len(s)
           n == Len(t)
<1>1. /\ u \in Seq(S) /\ Len(u) = n + 1 /\ m \in Nat /\ n \in Nat /\ u[n + 1] = e
      /\ \A i \in 1..n : u[i] = t[i]
  BY Appended
<1>2. /\ w \in Seq(S) /\ Len(w) = m + n
      /\ \A i \in 1..(m + n) : w[i] = IF i <= m THEN s[i] ELSE t[i - m]
  BY Concatenated, Zenon
<1> HIDE DEF u, w
<1>3. v \in Seq(S) /\ Len(v) = (m + n) + 1 /\ v[(m + n) + 1] = e /\ \A i \in 1..(m + n) : v[i] = w[i]
  <2>1. w \in Seq(S)
    BY <1>2, Zenon
  <2>2. /\ v \in Seq(S) /\ Len(v) = Len(w) + 1 /\ v[Len(w) + 1] = e
        /\ \A i \in 1..Len(w) : v[i] = w[i]
    BY <2>1, Appended
  <2> QED
    BY <1>2, <2>2, Zenon
<1> HIDE DEF v
<1>4. /\ s \o u \in Seq(S) /\ Len(s \o u) = m + (n + 1)
      /\ \A i \in 1..(m + (n + 1)) : (s \o u)[i] = IF i <= m THEN s[i] ELSE u[i - m]
  <2>1. /\ s \o u \in Seq(S) /\ Len(s \o u) = Len(s) + Len(u)
        /\ \A i \in 1..(Len(s) + Len(u)) : (s \o u)[i] = IF i <= Len(s) THEN s[i] ELSE u[i - Len(s)]
    BY <1>1, Concatenated, Zenon
  <2> QED
    BY <1>1, <2>1, Zenon
<1> HIDE DEF m, n
<1>5. ASSUME NEW i \in 1..((m + n) + 1) PROVE (s \o u)[i] = v[i]
  <2>1. CASE i <= m
    BY <1>1, <1>2, <1>3, <1>4, <2>1
  <2>2. CASE i > m /\ i <= m + n
    <3>1. i - m \in 1..n /\ i \in 1..(m + n) /\ i \in 1..(m + (n + 1)) /\ ~(i <= m)
      BY <1>1, <2>2
    <3> QED
      BY <1>1, <1>2, <1>3, <1>4, <3>1, Zenon
  <2>3. CASE i = (m + n) + 1
    <3>1. i - m = n + 1 /\ i \in 1..(m + (n + 1)) /\ ~(i <= m)
      BY <1>1, <2>3
    <3> QED
      BY <1>1, <1>3, <1>4, <2>3, <3>1, Zenon
  <2>4. i <= m \/ (i > m /\ i <= m + n) \/ i = (m + n) + 1
    BY <1>1
  <2> QED
    BY <2>1, <2>2, <2>3, <2>4, Zenon
<1>6. Len(s \o u) = Len(v) /\ Len(v) = (m + n) + 1
  BY <1>1, <1>3, <1>4
<1>7. s \o u = v
  BY <1>3, <1>4, <1>5, <1>6, Elementwise, Zenon
<1> QED
  BY <1>7, Zenon DEF u, v, w

LEMMA AppendElements ==
  ASSUME NEW S, NEW s \in Seq(S), NEW e \in S
  PROVE  Append(s, e) \in Seq(S) /\ Range(Append(s, e)) = Range(s) \cup {e}
<1>1. /\ Append(s, e) \in Seq(S) /\ Len(Append(s, e)) = Len(s) + 1 /\ Len(s) \in Nat
      /\ \A i \in 1..Len(s) : Append(s, e)[i] = s[i]
      /\ Append(s, e)[Len(s) + 1] = e
  BY Appended
<1>2. DOMAIN Append(s, e) = 1..(Len(s) + 1) /\ DOMAIN s = 1..Len(s)
  BY <1>1
<1> QED
  BY <1>1, <1>2 DEF Range

LEMMA ConcatElements ==
  ASSUME NEW S, NEW s \in Seq(S), NEW t \in Seq(S)
  PROVE  /\ s \o t \in Seq(S) /\ Len(s \o t) = Len(s) + Len(t)
         /\ \A i \in 1..Len(s) : (s \o t)[i] = s[i]
         /\ Range(s \o t) = Range(s) \cup Range(t)
<1>1. /\ s \o t \in Seq(S) /\ Len(s \o t) = Len(s) + Len(t) /\ Len(s) \in Nat /\ Len(t) \in Nat
      /\ \A i \in 1..(Len(s) + Len(t)) : (s \o t)[i] = IF i <= Len(s) THEN s[i] ELSE t[i - Len(s)]
  BY Concatenated, Zenon
<1>2. \A i \in 1..Len(s) : i \in 1..(Len(s) + Len(t)) /\ (s \o t)[i] = s[i]
  BY <1>1
<1>3. ASSUME NEW i \in 1..Len(t) PROVE Len(s) + i \in 1..(Len(s) + Len(t)) /\ (s \o t)[Len(s) + i] = t[i]
  <2>1. Len(s) + i \in 1..(Len(s) + Len(t)) /\ ~(Len(s) + i <= Len(s)) /\ (Len(s) + i) - Len(s) = i
    BY <1>1
  <2> QED
    BY <1>1, <2>1
<1>4. DOMAIN (s \o t) = 1..(Len(s) + Len(t)) /\ DOMAIN s = 1..Len(s) /\ DOMAIN t = 1..Len(t)
  BY <1>1
<1>5. Range(s) \subseteq Range(s \o t) /\ Range(t) \subseteq Range(s \o t)
  BY <1>2, <1>3, <1>4, Zenon DEF Range
<1>6. ASSUME NEW i \in 1..(Len(s) + Len(t)) PROVE (s \o t)[i] \in Range(s) \cup Range(t)
  <2>1. CASE i <= Len(s)
    BY <1>1, <1>4, <2>1 DEF Range
  <2>2. CASE ~(i <= Len(s))
    <3>1. i - Len(s) \in 1..Len(t)
      BY <1>1, <2>2
    <3> QED
      BY <1>1, <1>4, <2>2, <3>1, Zenon DEF Range
  <2> QED
    BY <2>1, <2>2
<1>7. Range(s \o t) \subseteq Range(s) \cup Range(t)
  BY <1>4, <1>6, Zenon DEF Range
<1> QED
  BY <1>1, <1>2, <1>5, <1>7, Zenon

-----------------------------------------------------------------------------
(* Types.                                                                  *)

LEMMA Outgoings ==
  ASSUME NEW p \in Parties
  PROVE  /\ Outgoing[p] \subseteq Frames
         /\ \A f \in Outgoing[p] : f.from = p /\ f.seq \in Nat
  BY RouterAssumption DEF Frames

LEMMA FrameSender ==
  ASSUME NEW f \in Frames
  PROVE  f.from \in Parties /\ f \in Outgoing[f.from] /\ f.seq \in Nat
  BY RouterAssumption DEF Frames

LEMMA LocalParties == Local \subseteq Parties /\ Platform \in Parties /\ Platform \notin Local
  BY RouterAssumption DEF Parties

LEMMA SiblingIsOther ==
  ASSUME NEW p \in Local
  PROVE  Sibling(p) \in Local /\ Sibling(p) # p /\ Local = {p, Sibling(p)}
<1>1. \E q \in Local : q # p
  BY RouterAssumption DEF Local
<1>2. Sibling(p) \in Local /\ Sibling(p) # p
  BY <1>1 DEF Sibling
<1> QED
  BY <1>2 DEF Local

LEMMA AcceptedRecipient ==
  ASSUME NEW f, validateAndRecord(f) = "ok"
  PROVE  validateRecipient(f)
  BY DEF validateAndRecord

\* A call that returns leaves nothing in hand; a call that goes on keeps it.
LEMMA ReturnType ==
  ASSUME RouterTypeOK, NEW p \in Local, NEW err, Return(p, err)
  PROVE  /\ party' \in [Local -> {"running", "failed", "left"}]
         /\ sending' \in [Local -> {"idle", "checked", "recorded", "network"}]
         /\ frame' \in [Local -> Frames \cup {NoFrame}]
         /\ sending'[p] = "idle"
         /\ \A q \in Local \ {p} : sending'[q] = sending[q] /\ frame'[q] = frame[q] /\ party'[q] = party[q]
         /\ err # None => party'[p] = "failed"
         /\ err = None => party' = party
  BY Zenon DEF RouterTypeOK, CallsOK, Return

LEMMA ReturnCalls ==
  ASSUME RouterTypeOK, NEW p \in Local, NEW err, Return(p, err), seen' = seen
  PROVE  CallsOK'
  BY ReturnType, Zenon DEF RouterTypeOK, CallsOK

LEMMA ProceedType ==
  ASSUME RouterTypeOK, NEW p \in Local, NEW to \in {"recorded", "network"}, Proceed(p, to)
  PROVE  /\ sending' \in [Local -> {"idle", "checked", "recorded", "network"}]
         /\ frame' = frame /\ party' = party /\ sending'[p] = to
         /\ \A q \in Local \ {p} : sending'[q] = sending[q]
  BY DEF RouterTypeOK, CallsOK, Proceed

LEMMA EnqueueType ==
  ASSUME RouterTypeOK, NEW p \in Local, NEW f \in Frames, Enqueue(p, f)
  PROVE  inbound' \in [Local -> Seq(Frames)]
<1>1. Append(inbound[p], f) \in Seq(Frames)
  BY AppendElements DEF RouterTypeOK
<1> QED
  BY <1>1 DEF RouterTypeOK, Enqueue

LEMMA QuietReceiver ==
  ASSUME NEW err, EndReceive(err) \/ ExitQuietly \/ Fail(err)
  PROVE  receiver' = "exited"
  BY DEF EndReceive, ExitQuietly, Fail

LEMMA CallsRest ==
  ASSUME RouterTypeOK, UNCHANGED <<party, sending, frame>>, seen \subseteq seen'
  PROVE  CallsOK'
  BY DEF RouterTypeOK, CallsOK

LEMMA ReceiverRests ==
  ASSUME RouterTypeOK, UNCHANGED <<receiver, arrived>>, seen \subseteq seen'
  PROVE  ReceiverOK'
  BY Zenon DEF RouterTypeOK, ReceiverOK, Delivering

LEMMA RouterTypeStep ==
  ASSUME RouterTypeOK, [Next]_vars
  PROVE  RouterTypeOK'
<1> DEFINE Queues == inbound' \in [Local -> Seq(Frames)] /\ got' \in [Local -> Seq(Frames)]
<1>0. /\ seen \subseteq Frames
      /\ inbound \in [Local -> Seq(Frames)] /\ got \in [Local -> Seq(Frames)]
      /\ UNCHANGED <<inbound, got>> => Queues
  BY DEF RouterTypeOK
<1>1. CASE Start
  <2>1. UNCHANGED <<seen, inbound, got, party, sending, frame>> /\ receiver' \in {"exited", "receiving"}
    BY <1>1 DEF Start, callerVars
  <2> QED
    BY <1>0, <2>1, CallsRest, Zenon DEF RouterTypeOK, ReceiverOK
<1>2. CASE ReceiveError
  <2>1. UNCHANGED <<seen, inbound, got, party, sending, frame>>
    BY <1>2 DEF ReceiveError, callerVars
  <2>2. receiver' = "exited"
    BY <1>2, QuietReceiver DEF ReceiveError
  <2> QED
    BY <1>0, <2>1, <2>2, CallsRest, Zenon DEF RouterTypeOK, ReceiverOK
<1>3. CASE ReceiveFrame
  <2>1. UNCHANGED <<inbound, got, party, sending, frame>>
    BY <1>3 DEF ReceiveFrame, callerVars
  <2>2. PICK f \in Outgoing[Platform] :
          \/ (ExitQuietly \/ Fail(validateAndRecord(f))) /\ UNCHANGED seen
          \/ /\ validateAndRecord(f) = "ok" /\ seen' = seen \cup {f}
             /\ receiver' = "delivering" /\ arrived' = [frame |-> f, to |-> Recipients(f)]
    BY <1>3, Zenon DEF ReceiveFrame
  <2>3. f \in Frames /\ f.from = Platform
    BY LocalParties, Outgoings
  <2>4. seen \subseteq seen' /\ seen' \subseteq Frames
    BY <1>0, <2>2, <2>3, Zenon
  <2>5. ReceiverOK'
    <3>1. CASE receiver' = "exited"
      BY <3>1 DEF ReceiverOK
    <3>2. CASE /\ validateAndRecord(f) = "ok" /\ seen' = seen \cup {f}
               /\ receiver' = "delivering" /\ arrived' = [frame |-> f, to |-> Recipients(f)]
      <4>1. f.to = All \/ f.to \in Local
        BY <2>3, <3>2, AcceptedRecipient, Zenon DEF validateRecipient, Parties
      <4>2. arrived'.frame = f /\ arrived'.to = IF f.to = All THEN <<Primary, Recovery>> ELSE <<f.to>>
        BY <3>2 DEF Recipients
      <4>3. arrived' \in [frame : Outgoing[Platform] \cap seen', to : Seq(Local)]
        <5>1. Recipients(f) = <<Primary, Recovery>> \/ (f.to \in Local /\ Recipients(f) = <<f.to>>)
          BY <4>1 DEF Recipients
        <5>2. Recipients(f) \in Seq(Local)
          <6>1. <<Primary, Recovery>> \in Seq(Local)
            BY DEF Local
          <6>2. \A x \in Local : <<x>> \in Seq(Local)
            OBVIOUS
          <6> QED
            BY <5>1, <6>1, <6>2, Zenon
        <5> QED
          BY <3>2, <5>2
      <4>4. Delivering'
        BY <4>1, <4>2, <4>3, Zenon DEF Delivering
      <4> QED
        BY <3>2, <4>4 DEF ReceiverOK
    <3> QED
      BY <2>2, <3>1, <3>2, QuietReceiver, Zenon
  <2> QED
    BY <1>0, <2>1, <2>4, <2>5, CallsRest, Zenon DEF RouterTypeOK
<1>4. CASE DeliverArrived
  <2>1. UNCHANGED <<seen, got, party, sending, frame>>
    BY <1>4 DEF DeliverArrived, callerVars
  <2>2. Delivering
    BY <1>4 DEF DeliverArrived, RouterTypeOK, ReceiverOK
  <2>3. PICK err : \/ EndReceive(err) /\ UNCHANGED inbound
                   \/ /\ Enqueue(Head(arrived.to), arrived.frame)
                      /\ IF Len(arrived.to) > 1
                           THEN arrived' = [arrived EXCEPT !.to = Tail(@)] /\ UNCHANGED receiver
                           ELSE arrived' = Nothing /\ receiver' = "receiving"
    BY <1>4 DEF DeliverArrived
  <2>4. CASE EndReceive(err) /\ UNCHANGED inbound
    BY <1>0, <2>1, <2>4, CallsRest, QuietReceiver, Zenon DEF RouterTypeOK, ReceiverOK
  <2>5. CASE /\ Enqueue(Head(arrived.to), arrived.frame)
             /\ IF Len(arrived.to) > 1
                  THEN arrived' = [arrived EXCEPT !.to = Tail(@)] /\ UNCHANGED receiver
                  ELSE arrived' = Nothing /\ receiver' = "receiving"
    <3>1. Head(arrived.to) \in Local /\ arrived.frame \in Frames
      BY <2>2, LocalParties, Outgoings DEF Delivering, Local
    <3>2. Queues
      BY <1>0, <2>1, <2>5, <3>1, EnqueueType, Zenon
    <3>3. ReceiverOK'
      <4>1. CASE Len(arrived.to) > 1
        <5>1. arrived.frame.to = All /\ arrived.to = <<Primary, Recovery>>
          <6>1. ASSUME NEW x, arrived.to = <<x>> PROVE FALSE
            <7>1. Len(<<x>>) = 1
              OBVIOUS
            <7>2. Len(arrived.to) = 1
              BY <6>1, <7>1
            <7> QED
              BY <4>1, <7>2
          <6> QED
            BY <2>2, <6>1, Zenon DEF Delivering
        <5>2. arrived' = [arrived EXCEPT !.to = Tail(@)] /\ receiver' = "delivering"
          BY <1>4, <2>5, <4>1, Zenon DEF DeliverArrived
        <5>3. /\ arrived'.frame = arrived.frame /\ arrived'.to = <<Recovery>>
              /\ arrived' \in [frame : Outgoing[Platform] \cap seen, to : Seq(Local)]
          <6>1. arrived \in [frame : Outgoing[Platform] \cap seen, to : Seq(Local)]
            BY <2>2, Zenon DEF Delivering
          <6>2. Tail(<<Primary, Recovery>>) = <<Recovery>> /\ <<Recovery>> \in Seq(Local)
            BY DEF Local
          <6>3. arrived'.frame = arrived.frame /\ arrived'.to = Tail(arrived.to)
            BY <5>2, <6>1
          <6>4. arrived' = [frame |-> arrived'.frame, to |-> arrived'.to]
            BY <5>2, <6>1, Zenon
          <6>5. arrived.frame \in Outgoing[Platform] \cap seen
            BY <6>1
          <6>6. arrived'.to = <<Recovery>>
            BY <5>1, <6>2, <6>3, Zenon
          <6> QED
            BY <6>2, <6>3, <6>4, <6>5, <6>6, Zenon
        <5> QED
          BY <2>1, <2>2, <5>1, <5>2, <5>3, Zenon DEF ReceiverOK, Delivering
      <4>2. CASE ~(Len(arrived.to) > 1)
        BY <2>5, <4>2 DEF ReceiverOK
      <4> QED
        BY <4>1, <4>2
    <3> QED
      BY <1>0, <2>1, <3>2, <3>3, CallsRest, Zenon DEF RouterTypeOK
  <2> QED
    BY <2>3, <2>4, <2>5, Zenon
<1>5. CASE Finish \/ CancelRun \/ Stopped \/ UNCHANGED vars
  <2>1. UNCHANGED <<seen, inbound, got, party, sending, frame>>
    BY <1>5, Zenon DEF Finish, FinishEnter, FinishCancel, FinishJoined, CancelRun, Stopped, routerVars, callerVars, vars
  <2>2. UNCHANGED <<receiver, arrived>> \/ receiver' = "exited"
    BY <1>5, Zenon DEF Finish, FinishEnter, FinishCancel, FinishJoined, CancelRun, Stopped, routerVars, vars
  <2> QED
    BY <1>0, <2>1, <2>2, CallsRest, ReceiverRests, Zenon DEF RouterTypeOK, ReceiverOK
<1>6. ASSUME NEW p \in Local, SendFrame(p) PROVE RouterTypeOK'
  <2>1. UNCHANGED <<seen, inbound, got, receiver, arrived>>
    BY <1>6 DEF SendFrame, routerVars
  <2>2. CASE Return(p, terminalErr)
    BY <1>0, <2>1, <2>2, ReturnCalls, ReceiverRests, Zenon DEF RouterTypeOK
  <2>3. CASE ~Return(p, terminalErr)
    <3>1. PICK f \in Outgoing[p] : /\ sending' = [sending EXCEPT ![p] = "checked"]
                                   /\ frame' = [frame EXCEPT ![p] = f] /\ UNCHANGED party
      BY <1>6, <2>3 DEF SendFrame
    <3>2. f \in Frames
      BY LocalParties, Outgoings
    <3>3. CallsOK'
      BY <2>1, <3>1, <3>2, Zenon DEF RouterTypeOK, CallsOK
    <3> QED
      BY <1>0, <2>1, <3>3, ReceiverRests, Zenon DEF RouterTypeOK
  <2> QED
    BY <2>2, <2>3
<1>7. ASSUME NEW p \in Local, Record(p) PROVE RouterTypeOK'
  <2>1. UNCHANGED <<inbound, got, receiver, arrived>>
    BY <1>7 DEF Record
  <2>2. \/ (\E err : Return(p, err)) /\ UNCHANGED seen
        \/ /\ validateAndRecord(frame[p]) = "ok"
           /\ Proceed(p, "recorded") /\ seen' = seen \cup {frame[p]}
    BY <1>7 DEF Record
  <2>3. CASE (\E err : Return(p, err)) /\ UNCHANGED seen
    BY <1>0, <2>1, <2>3, ReturnCalls, ReceiverRests, Zenon DEF RouterTypeOK
  <2>4. CASE /\ validateAndRecord(frame[p]) = "ok"
             /\ Proceed(p, "recorded") /\ seen' = seen \cup {frame[p]}
    <3>1. frame[p] \in Outgoing[p] /\ frame[p] \in Frames
      BY <1>7, LocalParties, Outgoings, Zenon DEF Record, RouterTypeOK, CallsOK
    <3>2. CallsOK'
      <4>1. /\ sending' \in [Local -> {"idle", "checked", "recorded", "network"}]
            /\ frame' = frame /\ party' = party /\ sending'[p] = "recorded"
            /\ \A q \in Local \ {p} : sending'[q] = sending[q]
        BY <2>4, ProceedType, Zenon
      <4>2. frame[p] \in seen' /\ validateRecipient(frame[p]) /\ seen \subseteq seen'
        BY <2>4, AcceptedRecipient, Zenon
      <4>3. CallsOK
        BY DEF RouterTypeOK
      <4>4. ASSUME NEW q \in Local
            PROVE  /\ sending'[q] # "idle" => frame'[q] \in Outgoing[q]
                   /\ sending'[q] \in {"recorded", "network"} =>
                        frame'[q] \in seen' /\ validateRecipient(frame'[q])
                   /\ sending'[q] = "network" => frame'[q].to \in {Platform, All}
        <5>1. CASE q = p
          BY <3>1, <4>1, <4>2, <5>1, Zenon
        <5>2. CASE q # p
          BY <4>1, <4>2, <4>3, <5>2, Zenon DEF CallsOK
        <5> QED
          BY <5>1, <5>2, Zenon
      <4> QED
        BY <4>1, <4>3, <4>4, Zenon DEF CallsOK
    <3> QED
      BY <1>0, <2>1, <2>4, <3>1, <3>2, ReceiverRests, Zenon DEF RouterTypeOK
  <2> QED
    BY <2>2, <2>3, <2>4, Zenon
<1>8. ASSUME NEW p \in Local, RouteLocal(p) PROVE RouterTypeOK'
  <2>1. UNCHANGED <<seen, got, receiver, arrived>>
    BY <1>8, Zenon DEF RouteLocal
  <2>2. frame[p] \in Frames /\ sending[p] = "recorded"
    BY <1>8, LocalParties, Outgoings, Zenon DEF RouteLocal, RouterTypeOK, CallsOK
  <2>3. inbound' = inbound \/ Enqueue(Sibling(p), frame[p])
    BY <1>8, Zenon DEF RouteLocal
  <2>4. Queues
    BY <1>0, <2>1, <2>2, <2>3, EnqueueType, SiblingIsOther, Zenon
  <2>5. \/ \E err : Return(p, err)
        \/ Proceed(p, "network") /\ frame[p].to \in {Platform, All}
    BY <1>8, Zenon DEF RouteLocal
  <2>6. CASE \E err : Return(p, err)
    BY <1>0, <2>1, <2>4, <2>6, ReturnCalls, ReceiverRests, Zenon DEF RouterTypeOK
  <2>7. CASE Proceed(p, "network") /\ frame[p].to \in {Platform, All}
    <3>1. CallsOK'
      BY <2>1, <2>2, <2>7, ProceedType, Zenon DEF RouterTypeOK, CallsOK
    <3> QED
      BY <1>0, <2>1, <2>4, <3>1, ReceiverRests, Zenon DEF RouterTypeOK
  <2> QED
    BY <2>5, <2>6, <2>7, Zenon
<1>9. ASSUME NEW p \in Local, RouteNetwork(p) PROVE RouterTypeOK'
  <2>1. UNCHANGED <<seen, inbound, got, receiver, arrived>> /\ \E err : Return(p, err)
    BY <1>9 DEF RouteNetwork, routerVars
  <2> QED
    BY <1>0, <2>1, ReturnCalls, ReceiverRests, Zenon DEF RouterTypeOK
<1>10. ASSUME NEW p \in Local, RecvFrame(p) PROVE RouterTypeOK'
  <2>1. UNCHANGED <<seen, receiver, arrived, sending, frame>>
    BY <1>10, Zenon DEF RecvFrame
  <2>2. Queues
    <3>1. CASE UNCHANGED <<inbound, got>>
      BY <1>0, <3>1
    <3>2. CASE ~UNCHANGED <<inbound, got>>
      <4>1. /\ inbound[p] # <<>> /\ inbound' = [inbound EXCEPT ![p] = Tail(@)]
            /\ got' = [got EXCEPT ![p] = Append(@, Head(inbound[p]))]
        BY <1>10, <3>2, Zenon DEF RecvFrame
      <4>2. Append(got[p], Head(inbound[p])) \in Seq(Frames) /\ Tail(inbound[p]) \in Seq(Frames)
        BY <1>0, <4>1, AppendHead, Zenon
      <4> QED
        BY <1>0, <4>1, <4>2, Zenon
    <3> QED
      BY <3>1, <3>2
  <2>3. CallsOK'
    <3>1. party' \in [Local -> {"running", "failed", "left"}]
      BY <1>10, Zenon DEF RecvFrame, RouterTypeOK, CallsOK
    <3> QED
      BY <2>1, <3>1, Zenon DEF RouterTypeOK, CallsOK
  <2> QED
    BY <1>0, <2>1, <2>2, <2>3, ReceiverRests, Zenon DEF RouterTypeOK
<1>11. ASSUME NEW p \in Local, PartyLeaves(p) PROVE RouterTypeOK'
  <2>1. UNCHANGED <<seen, inbound, got, receiver, arrived, sending, frame>>
    BY <1>11 DEF PartyLeaves, routerVars
  <2>2. CallsOK'
    BY <1>11, <2>1, Zenon DEF PartyLeaves, RouterTypeOK, CallsOK
  <2> QED
    BY <1>0, <2>1, <2>2, ReceiverRests, Zenon DEF RouterTypeOK
<1> QED
  BY <1>1, <1>2, <1>3, <1>4, <1>5, <1>6, <1>7, <1>8, <1>9, <1>10, <1>11, Zenon DEF Next, Receiver, PartyStep

-----------------------------------------------------------------------------
(* Order.                                                                  *)

\* What a party got, followed by what waits in its channel.
LEMMA StreamElements ==
  ASSUME RouterTypeOK, NEW p \in Local
  PROVE  /\ Stream(p) \in Seq(Frames)
         /\ Len(Stream(p)) = Len(got[p]) + Len(inbound[p])
         /\ \A k \in 1..Len(got[p]) : Stream(p)[k] = got[p][k]
         /\ Range(Stream(p)) = Range(got[p]) \cup Range(inbound[p])
<1> DEFINE s == got[p]
           t == inbound[p]
<1>1. s \in Seq(Frames) /\ t \in Seq(Frames)
  BY DEF RouterTypeOK
<1> HIDE DEF s, t
<1>2. /\ s \o t \in Seq(Frames) /\ Len(s \o t) = Len(s) + Len(t)
      /\ \A k \in 1..Len(s) : (s \o t)[k] = s[k]
      /\ Range(s \o t) = Range(s) \cup Range(t)
  BY <1>1, ConcatElements
<1> QED
  BY <1>2, Zenon DEF s, t, Stream

LEMMA StreamType ==
  ASSUME RouterTypeOK, NEW p \in Local
  PROVE  Stream(p) \in Seq(Frames)
  BY StreamElements, Zenon

\* A frame the validator accepts is later than every recorded frame of its
\* sender for the same party.
LEMMA AcceptedIsLater ==
  ASSUME RouterTypeOK, NEW f \in Frames, validateAndRecord(f) = "ok",
         NEW p \in Local, IsFor(f, p), NEW g \in seen, IsFor(g, p), g.from = f.from
  PROVE  g.seq < f.seq
<1>1. g.seq \in Nat /\ f.seq \in Nat
  BY FrameSender DEF RouterTypeOK
<1>2. ~(f.seq < g.seq)
  BY DEF validateAndRecord
<1>3. ASSUME g.seq = f.seq PROVE FALSE
  <2>1. g.id = f.id /\ SequenceDigest(g) = SequenceDigest(f)
    BY <1>3 DEF validateAndRecord
  <2>2. (g.to = All) <=> (f.to = All)
    BY <2>1 DEF SequenceDigest
  <2>3. g.to = f.to
    BY <2>2 DEF IsFor
  <2>4. FrameKey(g) = FrameKey(f)
    BY <1>3, <2>1, <2>3 DEF FrameKey
  <2> QED
    BY <2>4 DEF validateAndRecord
<1> QED
  BY <1>1, <1>2, <1>3

Later(f, p) == \A g \in Range(Stream(p)) : g.from = f.from => g.seq < f.seq

\* The streams stay, and what comes next is later.
LEMMA OrderKept ==
  ASSUME OrderInv, seen \subseteq seen', \A p \in Local : Stream(p)' = Stream(p),
         \A p \in Local : \A f \in Frames : Coming(f, p)' => Coming(f, p) \/ Later(f, p)
  PROVE  OrderInv'
<1> SUFFICES ASSUME NEW p \in Local
             PROVE  /\ Ordered(Stream(p)')
                    /\ \A g \in Range(Stream(p)') : g \in seen' /\ IsFor(g, p)
                    /\ \A g \in Range(Stream(p)'), f \in Frames :
                         Coming(f, p)' /\ g.from = f.from => g.seq < f.seq
  BY Zenon DEF OrderInv, Ordered, IsFor, Range
<1>1. Stream(p)' = Stream(p)
  OBVIOUS
<1>2. Ordered(Stream(p)) /\ \A g \in Range(Stream(p)) : g \in seen /\ IsFor(g, p)
  BY DEF OrderInv
<1>3. \A g \in Range(Stream(p)), f \in Frames : Coming(f, p) /\ g.from = f.from => g.seq < f.seq
  BY DEF OrderInv
<1> QED
  BY <1>1, <1>2, <1>3, Zenon DEF Later

\* One stream gets the frame that was coming.
LEMMA OrderEnqueued ==
  ASSUME RouterTypeOK, OrderInv, seen' = seen, NEW q \in Local, NEW h \in seen, IsFor(h, q), Coming(h, q),
         Stream(q)' = Append(Stream(q), h), \A p \in Local \ {q} : Stream(p)' = Stream(p),
         \A p \in Local : \A f \in Frames : Coming(f, p)' => Coming(f, p),
         \A f \in Frames : Coming(f, q)' => f.from # h.from
  PROVE  OrderInv'
<1> SUFFICES ASSUME NEW p \in Local
             PROVE  /\ Ordered(Stream(p)')
                    /\ \A g \in Range(Stream(p)') : g \in seen' /\ IsFor(g, p)
                    /\ \A g \in Range(Stream(p)'), f \in Frames :
                         Coming(f, p)' /\ g.from = f.from => g.seq < f.seq
  BY Zenon DEF OrderInv, Ordered, IsFor, Range
<1>1. Ordered(Stream(p)) /\ \A g \in Range(Stream(p)) : g \in seen /\ IsFor(g, p)
  BY DEF OrderInv
<1>2. \A g \in Range(Stream(p)), f \in Frames : Coming(f, p) /\ g.from = f.from => g.seq < f.seq
  BY Zenon DEF OrderInv
<1>3. CASE p # q
  BY <1>1, <1>2, <1>3, Zenon
<1>4. CASE p = q
  <2> DEFINE s == Stream(q)
  <2>0. h \in Frames
    BY DEF RouterTypeOK
  <2>1. s \in Seq(Frames)
    BY StreamType, Zenon
  <2>2. Range(Append(s, h)) = Range(s) \cup {h}
    BY <2>0, <2>1, AppendElements
  <2>3. /\ Len(Append(s, h)) = Len(s) + 1 /\ Len(s) \in Nat
        /\ \A i \in 1..Len(s) : Append(s, h)[i] = s[i]
        /\ Append(s, h)[Len(s) + 1] = h
    BY <2>0, <2>1, Appended
  <2>4. \A i \in 1..Len(s) : s[i] \in Range(s)
    BY <2>1 DEF Range
  <2>5. Ordered(s) /\ \A g \in Range(s) : g.from = h.from => g.seq < h.seq
    BY <1>1, <1>2, <1>4, <2>0, Zenon
  <2> HIDE DEF s
  <2>6. ASSUME NEW i \in 1..(Len(s) + 1), NEW j \in 1..(Len(s) + 1), i < j,
               Append(s, h)[i].from = Append(s, h)[j].from
        PROVE  Append(s, h)[i].seq < Append(s, h)[j].seq
    <3>1. i \in 1..Len(s) /\ Append(s, h)[i] = s[i]
      BY <2>1, <2>3, <2>6
    <3>2. CASE j \in 1..Len(s)
      <4>1. Append(s, h)[j] = s[j]
        BY <2>3, <3>2, Zenon
      <4> QED
        BY <2>5, <2>6, <3>1, <3>2, <4>1, Zenon DEF Ordered
    <3>3. CASE j = Len(s) + 1
      BY <2>3, <2>4, <2>5, <2>6, <3>1, <3>3, Zenon
    <3> QED
      BY <2>1, <3>2, <3>3
  <2>7. Ordered(Append(s, h))
    BY <2>3, <2>6, Zenon DEF Ordered
  <2>8. Stream(p)' = Append(s, h)
    BY <1>4 DEF s
  <2>9. \A g \in Range(Append(s, h)) : g \in seen' /\ IsFor(g, p)
    BY <1>1, <1>4, <2>2, Zenon DEF s
  <2>10. ASSUME NEW g \in Range(Append(s, h)), NEW f \in Frames, Coming(f, p)', g.from = f.from
         PROVE  g.seq < f.seq
    <3>1. g # h
      BY <1>4, <2>10, Zenon
    <3>2. g \in Range(Stream(p)) /\ Coming(f, p)
      BY <1>4, <2>2, <2>10, <3>1, Zenon DEF s
    <3> QED
      BY <1>2, <2>10, <3>2, Zenon
  <2> QED
    BY <2>7, <2>8, <2>9, <2>10, Zenon
<1> QED
  BY <1>3, <1>4, Zenon

\* A queued frame extends the stream of its party; a received one does not
\* change it.
LEMMA EnqueueStream ==
  ASSUME RouterTypeOK, NEW p \in Local, NEW f \in Frames, Enqueue(p, f), got' = got
  PROVE  /\ Stream(p)' = Append(Stream(p), f)
         /\ \A q \in Local \ {p} : Stream(q)' = Stream(q)
<1>1. inbound' = [inbound EXCEPT ![p] = Append(@, f)] /\ inbound[p] \in Seq(Frames) /\ got[p] \in Seq(Frames)
  BY DEF Enqueue, RouterTypeOK
<1>2. inbound'[p] = Append(inbound[p], f) /\ \A q \in Local \ {p} : inbound'[q] = inbound[q]
  BY <1>1 DEF RouterTypeOK
<1>3. got[p] \o Append(inbound[p], f) = Append(got[p] \o inbound[p], f)
  <2>1. inbound[p] \in Seq(Frames) /\ got[p] \in Seq(Frames)
    BY <1>1
  <2>2. \A s, t \in Seq(Frames) : s \o Append(t, f) = Append(s \o t, f)
    BY AppendLast
  <2> QED
    BY <2>1, <2>2, Zenon
<1> QED
  BY <1>2, <1>3, Zenon DEF Stream

LEMMA RecvStream ==
  ASSUME RouterTypeOK, NEW p \in Local, RecvFrame(p)
  PROVE  \A q \in Local : Stream(q)' = Stream(q)
<1>1. CASE UNCHANGED <<inbound, got>>
  BY <1>1 DEF Stream
<1>2. CASE ~UNCHANGED <<inbound, got>>
  <2>1. /\ inbound[p] # <<>> /\ inbound' = [inbound EXCEPT ![p] = Tail(@)]
        /\ got' = [got EXCEPT ![p] = Append(@, Head(inbound[p]))]
    BY <1>2, Zenon DEF RecvFrame
  <2>2. Append(got[p], Head(inbound[p])) \o Tail(inbound[p]) = got[p] \o inbound[p]
    <3>1. got[p] \in Seq(Frames) /\ inbound[p] \in Seq(Frames)
      BY Zenon DEF RouterTypeOK
    <3>2. inbound[p] # <<>>
      BY <2>1, Zenon
    <3> QED
      BY <3>1, <3>2, AppendHead, Zenon
  <2>3. \A q \in Local : got'[q] \o inbound'[q] = got[q] \o inbound[q]
    BY <2>1, <2>2, Zenon DEF RouterTypeOK
  <2> QED
    BY <2>3, Zenon DEF Stream
<1> QED
  BY <1>1, <1>2


\* Each recipient of a platform frame is addressed by it.
LEMMA RecipientsAre ==
  ASSUME NEW f
  PROVE  Range(Recipients(f)) = IF f.to = All THEN Local ELSE {f.to}
<1>1. Range(<<Primary, Recovery>>) = Local
  <2>1. DOMAIN <<Primary, Recovery>> = {1, 2}
    OBVIOUS
  <2> QED
    BY <2>1 DEF Range, Local
<1>2. Range(<<f.to>>) = {f.to}
  BY DEF Range
<1> QED
  BY <1>1, <1>2 DEF Recipients

\* A delivery takes its party off the list.
LEMMA DeliverNext ==
  ASSUME Delivering, receiver = "delivering",
         IF Len(arrived.to) > 1
           THEN arrived' = [arrived EXCEPT !.to = Tail(@)] /\ UNCHANGED receiver
           ELSE arrived' = Nothing /\ receiver' = "receiving"
  PROVE  /\ Head(arrived.to) \in Local /\ Head(arrived.to) \in Range(arrived.to)
         /\ arrived.frame.to \in {Head(arrived.to), All}
         /\ \/ /\ receiver' = "receiving" /\ Range(arrived.to) = {Head(arrived.to)}
            \/ /\ receiver' = "delivering" /\ arrived'.frame = arrived.frame
               /\ Range(arrived'.to) = Range(arrived.to) \ {Head(arrived.to)}
<1>1. CASE arrived.frame.to = All /\ arrived.to = <<Primary, Recovery>>
  <2>1. Len(arrived.to) = 2 /\ Head(arrived.to) = Primary /\ Tail(arrived.to) = <<Recovery>>
    BY <1>1
  <2>2. arrived' = [arrived EXCEPT !.to = Tail(@)] /\ receiver' = "delivering"
    BY <2>1
  <2>3. arrived'.frame = arrived.frame /\ arrived'.to = <<Recovery>>
    BY <2>1, <2>2, Zenon DEF Delivering
  <2>4. Range(<<Recovery>>) = {Recovery} /\ Range(<<Primary, Recovery>>) = {Primary, Recovery}
    <3>1. DOMAIN <<Primary, Recovery>> = {1, 2} /\ DOMAIN <<Recovery>> = {1}
      OBVIOUS
    <3> QED
      BY <3>1 DEF Range
  <2> QED
    BY <1>1, <2>1, <2>2, <2>3, <2>4, RouterAssumption, Zenon DEF Local
<1>2. ASSUME NEW x \in Local, arrived.frame.to \in {x, All}, arrived.to = <<x>>
      PROVE  /\ Head(arrived.to) = x /\ Range(arrived.to) = {x} /\ receiver' = "receiving"
  <2>1. Len(<<x>>) = 1 /\ Head(<<x>>) = x
    OBVIOUS
  <2>2. Range(<<x>>) = {x}
    BY DEF Range
  <2>3. ~(Len(arrived.to) > 1)
    BY <1>2, <2>1
  <2> QED
    BY <1>2, <2>1, <2>2, <2>3
<1>3. \/ arrived.frame.to = All /\ arrived.to = <<Primary, Recovery>>
      \/ \E x \in Local : arrived.frame.to \in {x, All} /\ arrived.to = <<x>>
  BY DEF Delivering, Local
<1> QED
  BY <1>1, <1>2, <1>3, Zenon

LEMMA OrderStep ==
  ASSUME RouterTypeOK, OrderInv, [Next]_vars
  PROVE  OrderInv'
<1> DEFINE Still == \A p \in Local : Stream(p)' = Stream(p)
<1>0. UNCHANGED <<inbound, got>> => Still
  BY DEF Stream
<1>1. ASSUME UNCHANGED <<seen, inbound, got, sending, frame>>,
             UNCHANGED <<receiver, arrived>> \/ receiver' # "delivering"
      PROVE  OrderInv'
  <2>1. \A p \in Local : \A f \in Frames : Coming(f, p)' => Coming(f, p)
    BY <1>1 DEF Coming
  <2> QED
    BY <1>0, <1>1, <2>1, OrderKept, Zenon
<1>2. CASE Start
  BY <1>1, <1>2, Zenon DEF Start, callerVars
<1>3. CASE ReceiveError
  BY <1>1, <1>3, QuietReceiver, Zenon DEF ReceiveError, callerVars
<1>4. CASE ReceiveFrame
  <2>1. UNCHANGED <<inbound, got, sending, frame>>
    BY <1>4, Zenon DEF ReceiveFrame, callerVars
  <2>2. PICK f \in Outgoing[Platform] :
          \/ (ExitQuietly \/ Fail(validateAndRecord(f))) /\ UNCHANGED seen
          \/ /\ validateAndRecord(f) = "ok" /\ seen' = seen \cup {f}
             /\ receiver' = "delivering" /\ arrived' = [frame |-> f, to |-> Recipients(f)]
    BY <1>4, Zenon DEF ReceiveFrame
  <2>3. CASE (ExitQuietly \/ Fail(validateAndRecord(f))) /\ UNCHANGED seen
    BY <1>1, <2>1, <2>3, QuietReceiver, Zenon
  <2>4. CASE /\ validateAndRecord(f) = "ok" /\ seen' = seen \cup {f}
             /\ receiver' = "delivering" /\ arrived' = [frame |-> f, to |-> Recipients(f)]
    <3>1. f \in Frames /\ f.from = Platform
      BY LocalParties, Outgoings
    <3>2. ASSUME NEW p \in Local, p \in Range(Recipients(f)) PROVE Later(f, p)
      <4>1. IsFor(f, p)
        BY <3>1, <3>2, LocalParties, RecipientsAre, Zenon DEF IsFor
      <4>2. \A g \in Range(Stream(p)) : g \in seen /\ IsFor(g, p)
        BY DEF OrderInv
      <4> QED
        BY <2>4, <3>1, <4>1, <4>2, AcceptedIsLater, Zenon DEF Later
    <3>3. arrived'.frame = f /\ arrived'.to = Recipients(f)
      BY <2>4
    <3>4. ASSUME NEW p \in Local, NEW g \in Frames, Coming(g, p)' PROVE Coming(g, p) \/ Later(g, p)
      BY <2>1, <3>2, <3>3, <3>4, Zenon DEF Coming
    <3> QED
      BY <1>0, <2>1, <2>4, <3>4, OrderKept, Zenon
  <2> QED
    BY <2>2, <2>3, <2>4, Zenon
<1>5. CASE DeliverArrived
  <2>1. UNCHANGED <<seen, got, sending, frame>> /\ receiver = "delivering" /\ Delivering
    BY <1>5, Zenon DEF DeliverArrived, callerVars, RouterTypeOK, ReceiverOK
  <2>2. PICK err : \/ EndReceive(err) /\ UNCHANGED inbound
                   \/ /\ Enqueue(Head(arrived.to), arrived.frame)
                      /\ IF Len(arrived.to) > 1
                           THEN arrived' = [arrived EXCEPT !.to = Tail(@)] /\ UNCHANGED receiver
                           ELSE arrived' = Nothing /\ receiver' = "receiving"
    BY <1>5, Zenon DEF DeliverArrived
  <2>3. CASE EndReceive(err) /\ UNCHANGED inbound
    BY <1>1, <2>1, <2>3, QuietReceiver, Zenon
  <2>4. CASE /\ Enqueue(Head(arrived.to), arrived.frame)
             /\ IF Len(arrived.to) > 1
                  THEN arrived' = [arrived EXCEPT !.to = Tail(@)] /\ UNCHANGED receiver
                  ELSE arrived' = Nothing /\ receiver' = "receiving"
    <3> DEFINE h == arrived.frame
    <3>0. PICK q \in Local : q = Head(arrived.to)
      BY <2>1, <2>4, DeliverNext, Zenon
    <3>1. h \in seen /\ h \in Frames /\ h.from = Platform
      BY <2>1, LocalParties, Outgoings, Zenon DEF Delivering
    <3>2. /\ q \in Range(arrived.to) /\ h.to \in {q, All}
          /\ \/ receiver' # "delivering"
             \/ /\ receiver' = "delivering" /\ arrived'.frame = h
                /\ \A p \in Range(arrived'.to) : p \in Range(arrived.to) /\ p # q
      BY <2>1, <2>4, <3>0, DeliverNext, Zenon
    <3> HIDE DEF h
    <3>3. IsFor(h, q)
      BY <3>1, <3>2, LocalParties, Zenon DEF IsFor
    <3>4. Coming(h, q)
      BY <2>1, <3>2, Zenon DEF Coming, h
    <3>5. Enqueue(q, h)
      BY <2>4, <3>0, Zenon DEF h
    <3>6. Stream(q)' = Append(Stream(q), h) /\ \A p \in Local \ {q} : Stream(p)' = Stream(p)
      BY <2>1, <3>1, <3>2, <3>5, EnqueueStream, Zenon
    <3>7. \A p \in Local : \A f \in Frames : Coming(f, p)' => Coming(f, p)
      BY <2>1, <3>2, Zenon DEF Coming, h
    <3>8. ASSUME NEW f \in Frames, Coming(f, q)' PROVE f.from # h.from
      <4>1. PICK s \in Local \ {q} : sending[s] = "recorded" /\ f = frame[s]
        BY <2>1, <3>2, <3>8, Zenon DEF Coming
      <4>2. f.from = s
        BY <4>1, LocalParties, Outgoings, Zenon DEF RouterTypeOK, CallsOK
      <4> QED
        BY <3>1, <4>2, LocalParties
    <3> QED
      BY <2>1, <3>1, <3>2, <3>3, <3>4, <3>6, <3>7, <3>8, OrderEnqueued, Zenon
  <2> QED
    BY <2>2, <2>3, <2>4, Zenon
<1>6. CASE Finish \/ CancelRun \/ Stopped \/ UNCHANGED vars
  <2>1. UNCHANGED <<seen, inbound, got, sending, frame>>
    BY <1>6, Zenon DEF Finish, FinishEnter, FinishCancel, FinishJoined, CancelRun, Stopped, routerVars, callerVars, vars
  <2>2. UNCHANGED <<receiver, arrived>> \/ receiver' # "delivering"
    BY <1>6, Zenon DEF Finish, FinishEnter, FinishCancel, FinishJoined, CancelRun, Stopped, routerVars, vars
  <2> QED
    BY <1>1, <2>1, <2>2
<1>7. ASSUME NEW p \in Local, UNCHANGED <<seen, inbound, got, receiver, arrived>>,
             sending'[p] # "recorded",
             \A q \in Local \ {p} : sending'[q] = sending[q] /\ frame'[q] = frame[q]
      PROVE  OrderInv'
  <2>1. \A q \in Local : \A f \in Frames : Coming(f, q)' => Coming(f, q)
    BY <1>7 DEF Coming
  <2> QED
    BY <1>0, <1>7, <2>1, OrderKept, Zenon
<1>8. ASSUME NEW p \in Local, SendFrame(p) PROVE OrderInv'
  <2>1. UNCHANGED <<seen, inbound, got, receiver, arrived>>
    BY <1>8 DEF SendFrame, routerVars
  <2>2. sending'[p] # "recorded" /\ \A q \in Local \ {p} : sending'[q] = sending[q] /\ frame'[q] = frame[q]
    BY <1>8, Zenon DEF SendFrame, Return, RouterTypeOK, CallsOK
  <2> QED
    BY <1>7, <2>1, <2>2, Zenon
<1>9. ASSUME NEW p \in Local, Record(p) PROVE OrderInv'
  <2>1. UNCHANGED <<inbound, got, receiver, arrived>>
    BY <1>9 DEF Record
  <2>2. \/ (\E err : Return(p, err)) /\ UNCHANGED seen
        \/ /\ validateAndRecord(frame[p]) = "ok"
           /\ Proceed(p, "recorded") /\ seen' = seen \cup {frame[p]}
    BY <1>9, Zenon DEF Record
  <2>3. CASE (\E err : Return(p, err)) /\ UNCHANGED seen
    <3>1. sending'[p] = "idle" /\ \A q \in Local \ {p} : sending'[q] = sending[q] /\ frame'[q] = frame[q]
      BY <2>3, ReturnType
    <3> QED
      BY <1>7, <2>1, <2>3, <3>1, Zenon
  <2>4. CASE /\ validateAndRecord(frame[p]) = "ok"
             /\ Proceed(p, "recorded") /\ seen' = seen \cup {frame[p]}
    <3>1. frame[p] \in Outgoing[p] /\ frame[p] \in Frames /\ frame[p].from = p
      BY <1>9, LocalParties, Outgoings, Zenon DEF Record, RouterTypeOK, CallsOK
    <3>2. ASSUME NEW q \in Local \ {p}, frame[p].to \in {q, All} PROVE Later(frame[p], q)
      <4>1. IsFor(frame[p], q)
        BY <3>1, <3>2, Zenon DEF IsFor
      <4>2. \A g \in Range(Stream(q)) : g \in seen /\ IsFor(g, q)
        BY DEF OrderInv
      <4> QED
        BY <2>4, <3>1, <4>1, <4>2, AcceptedIsLater, Zenon DEF Later
    <3>3. sending'[p] = "recorded" /\ frame' = frame /\ \A q \in Local \ {p} : sending'[q] = sending[q]
      BY <2>4, ProceedType, Zenon
    <3>4. ASSUME NEW q \in Local, NEW g \in Frames, Coming(g, q)' PROVE Coming(g, q) \/ Later(g, q)
      BY <2>1, <3>2, <3>3, <3>4, Zenon DEF Coming
    <3> QED
      BY <1>0, <2>1, <2>4, <3>4, OrderKept, Zenon
  <2> QED
    BY <2>2, <2>3, <2>4, Zenon
<1>10. ASSUME NEW p \in Local, RouteLocal(p) PROVE OrderInv'
  <2>1. UNCHANGED <<seen, got, receiver, arrived>> /\ sending[p] = "recorded"
    BY <1>10, Zenon DEF RouteLocal
  <2>2. (\E err : Return(p, err)) \/ Proceed(p, "network")
    BY <1>10, Zenon DEF RouteLocal
  <2>3. sending'[p] # "recorded" /\ \A q \in Local \ {p} : sending'[q] = sending[q] /\ frame'[q] = frame[q]
    BY <2>2, ReturnType, ProceedType, Zenon
  <2>4. CASE inbound' = inbound
    BY <1>7, <2>1, <2>3, <2>4, Zenon
  <2>5. CASE inbound' # inbound
    <3> DEFINE q == Sibling(p)
               h == frame[p]
    <3>1. Enqueue(q, h) /\ h.to # Platform
      BY <1>10, <2>5, Zenon DEF RouteLocal
    <3>2. h \in Frames /\ h \in seen /\ h.from = p /\ validateRecipient(h)
      BY <2>1, LocalParties, Outgoings, Zenon DEF RouterTypeOK, CallsOK
    <3>3. q \in Local /\ q # p /\ Local = {p, q}
      BY SiblingIsOther
    <3>4. h.to \in {q, All}
      BY <3>1, <3>2, <3>3, Zenon DEF validateRecipient, Parties
    <3>5. IsFor(h, q) /\ Coming(h, q)
      BY <2>1, <3>2, <3>3, <3>4, Zenon DEF IsFor, Coming
    <3> HIDE DEF q, h
    <3>6. Stream(q)' = Append(Stream(q), h) /\ \A r \in Local \ {q} : Stream(r)' = Stream(r)
      BY <2>1, <3>1, <3>2, <3>3, EnqueueStream, Zenon
    <3>7. \A r \in Local : \A f \in Frames : Coming(f, r)' => Coming(f, r)
      BY <2>1, <2>3, Zenon DEF Coming
    <3>8. ASSUME NEW f \in Frames, Coming(f, q)' PROVE f.from # h.from
      <4>1. receiver = "delivering" /\ f = arrived.frame
        BY <2>1, <2>3, <3>3, <3>8, Zenon DEF Coming
      <4>2. f.from = Platform
        BY <4>1, LocalParties, Outgoings, Zenon DEF RouterTypeOK, ReceiverOK, Delivering
      <4> QED
        BY <3>2, <4>2, LocalParties
    <3> QED
      BY <2>1, <3>2, <3>3, <3>5, <3>6, <3>7, <3>8, OrderEnqueued, Zenon
  <2> QED
    BY <2>4, <2>5
<1>11. ASSUME NEW p \in Local, RouteNetwork(p) PROVE OrderInv'
  <2>1. UNCHANGED <<seen, inbound, got, receiver, arrived>> /\ \E err : Return(p, err)
    BY <1>11 DEF RouteNetwork, routerVars
  <2> QED
    BY <1>7, <2>1, ReturnType, Zenon
<1>12. ASSUME NEW p \in Local, RecvFrame(p) PROVE OrderInv'
  <2>1. UNCHANGED <<seen, receiver, arrived, sending, frame>>
    BY <1>12, Zenon DEF RecvFrame
  <2>2. \A q \in Local : \A f \in Frames : Coming(f, q)' => Coming(f, q)
    BY <2>1 DEF Coming
  <2> QED
    BY <1>12, <2>1, <2>2, RecvStream, OrderKept, Zenon
<1>13. ASSUME NEW p \in Local, PartyLeaves(p) PROVE OrderInv'
  BY <1>1, <1>13, Zenon DEF PartyLeaves, routerVars
<1> QED
  BY <1>2, <1>3, <1>4, <1>5, <1>6, <1>8, <1>9, <1>10, <1>11, <1>12, <1>13, Zenon DEF Next, Receiver, PartyStep

-----------------------------------------------------------------------------
(* No silent loss.                                                         *)

\* The router neither reopens nor stops finishing.
LEMMA OpenBefore ==
  ASSUME [Next]_vars, terminalErr' = None, ~finishing'
  PROVE  terminalErr = None /\ ~finishing
<1>1. CASE Receiver
  BY <1>1 DEF Receiver, Start, ReceiveError, ReceiveFrame, DeliverArrived, EndReceive, ExitQuietly, Fail
<1>2. CASE Finish
  BY <1>2 DEF Finish, FinishEnter, FinishCancel, FinishJoined
<1>3. ASSUME NEW p \in Local, PartyStep(p) PROVE terminalErr = None /\ ~finishing
  <2>1. UNCHANGED <<terminalErr, finishing>>
    BY <1>3, Zenon DEF PartyStep, SendFrame, Record, RouteLocal, RouteNetwork, RecvFrame, PartyLeaves, routerVars
  <2> QED
    BY <2>1
<1>4. CASE CancelRun \/ Stopped \/ UNCHANGED vars
  BY <1>4 DEF CancelRun, Stopped, vars, routerVars
<1> QED
  BY <1>1, <1>2, <1>3, <1>4 DEF Next

\* An error that ends the receiver closes the router, or it is finishing.
LEMMA EndIsSeen ==
  ASSUME NEW err, err # None, EndReceive(err) \/ Fail(err)
  PROVE  terminalErr' # None \/ finishing
  BY DEF EndReceive, Fail

LEMMA RefusalIsError ==
  ASSUME NEW f
  PROVE  validateAndRecord(f) # None
  BY DEF validateAndRecord, None

Growing == \A p \in Local : Range(Stream(p)) \subseteq Range(Stream(p)')

LEMMA PlatformAccounted ==
  ASSUME NEW f, f.from = Platform, Accounted(f), Growing,
         UNCHANGED <<receiver, arrived>> \/ receiver # "delivering"
  PROVE  Accounted(f)'
  BY Zenon DEF Accounted, HasFrame, Growing

LEMMA LocalAccounted ==
  ASSUME NEW f, f.from # Platform, Accounted(f), Growing, wired \subseteq wired',
         party[f.from] = "failed" => party'[f.from] = "failed",
         sending'[f.from] = sending[f.from] /\ frame'[f.from] = frame[f.from]
  PROVE  Accounted(f)'
  BY Zenon DEF Accounted, HasFrame, Growing

\* What a call does not have in hand any more, or not yet.
LEMMA OthersAccounted ==
  ASSUME NEW f, f.from # Platform, Accounted(f), Growing, wired \subseteq wired',
         party[f.from] = "failed" => party'[f.from] = "failed",
         sending[f.from] \in {"idle", "checked"} \/ frame[f.from] # f
  PROVE  Accounted(f)'
<1>1. CASE party[f.from] = "failed"
  BY <1>1, Zenon DEF Accounted
<1>2. CASE party[f.from] # "failed"
  <2>1. /\ \A p \in Local : IsFor(f, p) => HasFrame(p, f)
        /\ f.to \in {Platform, All} => f \in wired
    BY <1>2, Zenon DEF Accounted
  <2> QED
    BY <2>1, Zenon DEF Accounted, HasFrame, Growing
<1> QED
  BY <1>1, <1>2, Zenon

LEMMA FailedAccounted ==
  ASSUME NEW f, f.from # Platform, party'[f.from] = "failed"
  PROVE  Accounted(f)'
  BY DEF Accounted

LEMMA LossStep ==
  ASSUME RouterTypeOK, RouterTypeOK', LossInv, [Next]_vars
  PROVE  LossInv'
<1> SUFFICES ASSUME terminalErr' = None, ~finishing', NEW f \in seen'
             PROVE  Accounted(f)'
  BY DEF LossInv
<1>0. terminalErr = None /\ ~finishing
  BY OpenBefore
<1>a. f \in seen => Accounted(f)
  BY <1>0 DEF LossInv
<1>b. f \in Frames /\ (f.from = Platform \/ f.from \in Local) /\ Platform \notin Local
  BY FrameSender, LocalParties, Zenon DEF RouterTypeOK, Parties
<1>c. UNCHANGED <<inbound, got>> => Growing
  BY DEF Growing, Stream
\* Steps of the receiver.
<1>d. ASSUME f.from \in Local, f \in seen, Growing, UNCHANGED <<wired, party, sending, frame>>
      PROVE  Accounted(f)'
  BY <1>a, <1>b, <1>d, LocalAccounted, Zenon
<1>1. CASE Start
  <2>1. UNCHANGED <<seen, inbound, got, wired, party, sending, frame>> /\ receiver # "delivering"
    BY <1>1 DEF Start, callerVars
  <2> QED
    BY <1>a, <1>b, <1>c, <1>d, <2>1, PlatformAccounted, Zenon
<1>2. CASE ReceiveError
  BY <1>0, <1>2, EndIsSeen, Zenon DEF ReceiveError
<1>3. CASE ReceiveFrame
  <2>1. UNCHANGED <<inbound, got, wired, party, sending, frame>> /\ receiver = "receiving"
    BY <1>3, Zenon DEF ReceiveFrame, callerVars
  <2>2. PICK g \in Outgoing[Platform] :
          \/ Fail(validateAndRecord(g))
          \/ /\ seen' = seen \cup {g} /\ validateAndRecord(g) = "ok"
             /\ receiver' = "delivering" /\ arrived' = [frame |-> g, to |-> Recipients(g)]
    BY <1>0, <1>3, Zenon DEF ReceiveFrame
  <2>3. /\ seen' = seen \cup {g} /\ validateAndRecord(g) = "ok"
        /\ receiver' = "delivering" /\ arrived'.frame = g /\ arrived'.to = Recipients(g)
    BY <1>0, <2>2, EndIsSeen, RefusalIsError
  <2>4. CASE f \in seen
    BY <1>a, <1>b, <1>c, <1>d, <2>1, <2>4, PlatformAccounted, Zenon
  <2>5. CASE f = g
    <3>1. f.from = Platform
      BY <2>5, LocalParties, Outgoings, Zenon
    <3>2. \A p \in Local : IsFor(f, p) => p \in Range(Recipients(f))
      BY RecipientsAre DEF IsFor
    <3> QED
      BY <2>3, <2>5, <3>1, <3>2, Zenon DEF Accounted
  <2> QED
    BY <2>3, <2>4, <2>5, Zenon
<1>4. CASE DeliverArrived
  <2>1. UNCHANGED <<seen, got, wired, party, sending, frame>> /\ receiver = "delivering" /\ Delivering
    BY <1>4, Zenon DEF DeliverArrived, callerVars, RouterTypeOK, ReceiverOK
  <2>2. \/ \E err : err # None /\ EndReceive(err)
        \/ /\ Enqueue(Head(arrived.to), arrived.frame)
           /\ IF Len(arrived.to) > 1
                THEN arrived' = [arrived EXCEPT !.to = Tail(@)] /\ UNCHANGED receiver
                ELSE arrived' = Nothing /\ receiver' = "receiving"
    BY <1>4, Zenon DEF DeliverArrived
  <2>3. /\ Enqueue(Head(arrived.to), arrived.frame)
        /\ IF Len(arrived.to) > 1
             THEN arrived' = [arrived EXCEPT !.to = Tail(@)] /\ UNCHANGED receiver
             ELSE arrived' = Nothing /\ receiver' = "receiving"
    BY <1>0, <2>2, EndIsSeen, Zenon
  <2>4. PICK q \in Local : q = Head(arrived.to)
    BY <2>1, <2>3, DeliverNext, Zenon
  <2>5. \/ receiver' = "receiving" /\ Range(arrived.to) = {q}
        \/ /\ receiver' = "delivering" /\ arrived'.frame = arrived.frame
           /\ Range(arrived'.to) = Range(arrived.to) \ {q}
    BY <2>1, <2>3, <2>4, DeliverNext, Zenon
  <2>6. arrived.frame \in Frames
    BY <2>1, LocalParties, Outgoings, Zenon DEF Delivering
  <2>7. Stream(q)' = Append(Stream(q), arrived.frame) /\ \A p \in Local \ {q} : Stream(p)' = Stream(p)
    BY <2>1, <2>3, <2>4, <2>6, EnqueueStream, Zenon
  <2>8. Growing /\ arrived.frame \in Range(Stream(q)')
    <3>1. Range(Stream(q)') = Range(Stream(q)) \cup {arrived.frame}
      BY <2>6, <2>7, StreamType, AppendElements
    <3> QED
      BY <2>7, <3>1, Zenon DEF Growing
  <2>9. CASE f.from \in Local
    BY <1>d, <2>1, <2>8, <2>9, Zenon
  <2>10. CASE f.from = Platform
    <3>1. ASSUME NEW p \in Local, IsFor(f, p)
          PROVE  HasFrame(p, f)' \/ (receiver' = "delivering" /\ arrived'.frame = f /\ p \in Range(arrived'.to))
      <4>1. HasFrame(p, f) \/ (arrived.frame = f /\ p \in Range(arrived.to))
        BY <1>a, <2>1, <2>10, <3>1, Zenon DEF Accounted
      <4>2. CASE HasFrame(p, f)
        BY <2>8, <4>2, Zenon DEF HasFrame, Growing
      <4>3. CASE arrived.frame = f /\ p \in Range(arrived.to)
        BY <2>5, <2>8, <4>3, Zenon DEF HasFrame
      <4> QED
        BY <4>1, <4>2, <4>3, Zenon
    <3> QED
      BY <2>10, <3>1, Zenon DEF Accounted
  <2> QED
    BY <1>b, <2>9, <2>10, Zenon
\* Finish.
<1>5. CASE Finish
  <2>1. FinishCancel
    BY <1>5, Zenon DEF Finish, FinishEnter, FinishJoined, None
  <2>2. /\ UNCHANGED <<seen, inbound, got, wired, party, sending, frame>>
        /\ UNCHANGED <<receiver, arrived>> \/ receiver # "delivering"
    BY <2>1 DEF FinishCancel, callerVars
  <2> QED
    BY <1>a, <1>b, <1>c, <1>d, <2>2, PlatformAccounted, Zenon
<1>6. CASE CancelRun \/ Stopped \/ UNCHANGED vars
  <2>1. UNCHANGED <<seen, inbound, got, wired, party, sending, frame, receiver, arrived>>
    BY <1>6, Zenon DEF CancelRun, Stopped, vars, routerVars, callerVars
  <2> QED
    BY <1>a, <1>b, <1>c, <1>d, <2>1, PlatformAccounted, Zenon
\* Steps of a party.
<1>e. ASSUME NEW p \in Local, f.from # p, f \in seen, Growing, wired \subseteq wired', UNCHANGED <<receiver, arrived>>,
             \A q \in Local \ {p} : sending'[q] = sending[q] /\ frame'[q] = frame[q] /\ party'[q] = party[q]
      PROVE  Accounted(f)'
  BY <1>a, <1>b, <1>e, PlatformAccounted, LocalAccounted, Zenon
<1>7. ASSUME NEW p \in Local, SendFrame(p) PROVE Accounted(f)'
  <2>1. UNCHANGED <<seen, inbound, got, receiver, arrived, wired>> /\ sending[p] = "idle"
    BY <1>7, Zenon DEF SendFrame, routerVars
  <2>2. UNCHANGED party /\ \A q \in Local \ {p} : sending'[q] = sending[q] /\ frame'[q] = frame[q]
    BY <1>0, <1>7, Zenon DEF SendFrame, RouterTypeOK, CallsOK
  <2> QED
    BY <1>a, <1>b, <1>c, <1>e, <2>1, <2>2, OthersAccounted, Zenon
<1>8. ASSUME NEW p \in Local, Record(p) PROVE Accounted(f)'
  <2>1. UNCHANGED <<inbound, got, receiver, arrived, wired>> /\ sending[p] = "checked"
    BY <1>8, Zenon DEF Record
  <2>2. \/ (\E err : err # None /\ Return(p, err)) /\ UNCHANGED seen
        \/ Proceed(p, "recorded") /\ seen' = seen \cup {frame[p]}
    BY <1>0, <1>8, RefusalIsError, Zenon DEF Record
  <2>3. CASE (\E err : err # None /\ Return(p, err)) /\ UNCHANGED seen
    <3>1. PICK err : err # None /\ Return(p, err)
      BY <2>3
    <3>2. /\ party'[p] = "failed"
          /\ \A q \in Local \ {p} : sending'[q] = sending[q] /\ frame'[q] = frame[q] /\ party'[q] = party[q]
      BY <3>1, ReturnType, Zenon
    <3>3. CASE f.from = p
      BY <1>b, <3>2, <3>3, FailedAccounted, Zenon
    <3>4. CASE f.from # p
      BY <1>b, <1>c, <1>e, <2>1, <2>3, <3>2, <3>4, Zenon
    <3> QED
      BY <3>3, <3>4
  <2>4. CASE Proceed(p, "recorded") /\ seen' = seen \cup {frame[p]}
    <3>1. /\ sending'[p] = "recorded" /\ UNCHANGED <<frame, party>>
          /\ \A q \in Local \ {p} : sending'[q] = sending[q]
      BY <2>4, ProceedType, Zenon
    <3>2. frame[p].from = p
      BY <2>1, LocalParties, Outgoings, Zenon DEF RouterTypeOK, CallsOK
    <3>3. CASE f = frame[p]
      BY <1>b, <3>1, <3>2, <3>3, Zenon DEF Accounted
    <3>4. CASE f \in seen /\ f.from # p
      BY <1>c, <1>e, <2>1, <3>1, <3>4, Zenon
    <3>5. CASE f \in seen /\ f.from = p
      BY <1>a, <1>b, <1>c, <2>1, <3>1, <3>5, OthersAccounted, Zenon
    <3> QED
      BY <2>4, <3>3, <3>4, <3>5, Zenon
  <2> QED
    BY <2>2, <2>3, <2>4, Zenon
<1>9. ASSUME NEW p \in Local, RouteLocal(p) PROVE Accounted(f)'
  <2>1. UNCHANGED <<seen, got, receiver, arrived, wired>> /\ sending[p] = "recorded"
    BY <1>9, Zenon DEF RouteLocal
  <2>2. /\ frame[p] \in Frames /\ frame[p].from = p /\ validateRecipient(frame[p])
    BY <2>1, LocalParties, Outgoings, Zenon DEF RouterTypeOK, CallsOK
  <2>3. Sibling(p) \in Local /\ Sibling(p) # p /\ Local = {p, Sibling(p)}
    BY SiblingIsOther
  <2>4. \/ \E err : err # None /\ Return(p, err) /\ UNCHANGED inbound
        \/ frame[p].to = Platform /\ Proceed(p, "network") /\ UNCHANGED inbound
        \/ frame[p].to = All /\ Proceed(p, "network") /\ Enqueue(Sibling(p), frame[p])
        \/ frame[p].to \notin {Platform, All} /\ Return(p, None) /\ Enqueue(Sibling(p), frame[p])
    BY <1>9, Zenon DEF RouteLocal
  <2>5. ASSUME Enqueue(Sibling(p), frame[p])
        PROVE  Growing /\ frame[p] \in Range(Stream(Sibling(p))')
    <3>1. /\ Stream(Sibling(p))' = Append(Stream(Sibling(p)), frame[p])
          /\ \A r \in Local \ {Sibling(p)} : Stream(r)' = Stream(r)
      BY <2>1, <2>2, <2>3, <2>5, EnqueueStream, Zenon
    <3>2. Range(Stream(Sibling(p))') = Range(Stream(Sibling(p))) \cup {frame[p]}
      BY <2>2, <2>3, <3>1, StreamType, AppendElements
    <3> QED
      BY <3>1, <3>2, Zenon DEF Growing
  <2>6. Growing
    BY <1>c, <2>1, <2>4, <2>5, Zenon
  <2>7. \/ \E err : Return(p, err)
        \/ Proceed(p, "network")
    BY <2>4, Zenon
  <2>8. \A q \in Local \ {p} : sending'[q] = sending[q] /\ frame'[q] = frame[q] /\ party'[q] = party[q]
    BY <2>7, ReturnType, ProceedType, Zenon
  <2>9. party[p] = "failed" => party'[p] = "failed"
    BY <2>7, ReturnType, ProceedType, Zenon
  <2>10. CASE f.from # p
    BY <1>e, <2>1, <2>6, <2>8, <2>10, Zenon
  <2>11. CASE f.from = p /\ f # frame[p]
    BY <1>a, <1>b, <2>1, <2>6, <2>9, <2>11, OthersAccounted, Zenon
  <2>12. CASE f = frame[p]
    <3>1. CASE \E err : err # None /\ Return(p, err)
      <4>1. PICK err : err # None /\ Return(p, err)
        BY <3>1
      <4>2. party'[p] = "failed"
        BY <4>1, ReturnType, Zenon
      <4> QED
        BY <1>b, <2>2, <2>12, <4>2, FailedAccounted, Zenon
    <3>2. CASE frame[p].to = Platform /\ Proceed(p, "network")
      <4>1. \A q \in Local : ~IsFor(f, q)
        BY <1>b, <2>12, <3>2, RouterAssumption, Zenon DEF IsFor, Parties
      <4>2. frame'[p] = f /\ sending'[p] = "network"
        BY <2>12, <3>2, ProceedType, Zenon
      <4> QED
        BY <1>b, <2>2, <2>12, <4>1, <4>2, Zenon DEF Accounted
    <3>3. CASE Enqueue(Sibling(p), frame[p]) /\ ~(\E err : err # None /\ Return(p, err))
      <4>1. \A q \in Local : IsFor(f, q) => HasFrame(q, f)'
        BY <2>2, <2>3, <2>5, <2>12, <3>3, Zenon DEF IsFor, HasFrame
      <4>2. f.to \in {Platform, All} => frame'[p] = f /\ sending'[p] = "network"
        <5>1. CASE Proceed(p, "network")
          BY <2>12, <5>1, ProceedType, Zenon
        <5>2. CASE ~Proceed(p, "network")
          BY <2>4, <2>12, <3>3, <5>2, Zenon
        <5> QED
          BY <5>1, <5>2, Zenon
      <4> QED
        BY <1>b, <2>2, <2>12, <4>1, <4>2, Zenon DEF Accounted
    <3> QED
      BY <2>4, <3>1, <3>2, <3>3, Zenon
  <2> QED
    BY <2>2, <2>10, <2>11, <2>12, Zenon
<1>10. ASSUME NEW p \in Local, RouteNetwork(p) PROVE Accounted(f)'
  <2>1. UNCHANGED <<seen, inbound, got, receiver, arrived>> /\ sending[p] = "network"
    BY <1>10, Zenon DEF RouteNetwork, routerVars
  <2>2. \/ Return(p, None) /\ wired' = wired \cup {frame[p]}
        \/ Return(p, "transport") /\ wired' = wired
    BY <1>10 DEF RouteNetwork
  <2>3. /\ wired \subseteq wired'
        /\ \A q \in Local \ {p} : sending'[q] = sending[q] /\ frame'[q] = frame[q] /\ party'[q] = party[q]
        /\ party[p] = "failed" => party'[p] = "failed"
        /\ party'[p] = "failed" \/ frame[p] \in wired'
    BY <2>2, ReturnType DEF None
  <2>4. CASE f.from # p
    BY <1>c, <1>e, <2>1, <2>3, <2>4, Zenon
  <2>5. CASE f.from = p /\ f # frame[p]
    BY <1>a, <1>b, <1>c, <2>1, <2>3, <2>5, OthersAccounted, Zenon
  <2>6. CASE f.from = p /\ f = frame[p]
    <3>1. CASE party'[p] = "failed"
      BY <1>b, <2>6, <3>1, FailedAccounted, Zenon
    <3>2. CASE party'[p] # "failed"
      <4>1. \A q \in Local : IsFor(f, q) => HasFrame(q, f)
        BY <1>a, <1>b, <2>1, <2>3, <2>6, <3>2, Zenon DEF Accounted
      <4> QED
        BY <1>b, <1>c, <2>1, <2>3, <2>6, <3>2, <4>1, Zenon DEF Accounted, HasFrame, Growing
    <3> QED
      BY <3>1, <3>2
  <2> QED
    BY <2>4, <2>5, <2>6, Zenon
<1>11. ASSUME NEW p \in Local, RecvFrame(p) PROVE Accounted(f)'
  <2>1. UNCHANGED <<seen, receiver, arrived, sending, frame, wired>> /\ Growing
    BY <1>11, RecvStream, Zenon DEF RecvFrame, Growing
  <2>2. \A q \in Local : party[q] = "failed" => party'[q] = "failed"
    BY <1>11, Zenon DEF RecvFrame, RouterTypeOK, CallsOK
  <2> QED
    BY <1>a, <1>b, <2>1, <2>2, PlatformAccounted, LocalAccounted, Zenon
<1>12. ASSUME NEW p \in Local, PartyLeaves(p) PROVE Accounted(f)'
  <2>1. UNCHANGED <<seen, inbound, got, receiver, arrived, sending, frame, wired>>
    BY <1>12, Zenon DEF PartyLeaves, routerVars
  <2>2. \A q \in Local : party[q] = "failed" => party'[q] = "failed"
    BY <1>12, Zenon DEF PartyLeaves, RouterTypeOK, CallsOK
  <2> QED
    BY <1>a, <1>b, <1>c, <2>1, <2>2, PlatformAccounted, LocalAccounted, Zenon
<1> QED
  BY <1>1, <1>2, <1>3, <1>4, <1>5, <1>6, <1>7, <1>8, <1>9, <1>10, <1>11, <1>12, Zenon DEF Next, Receiver, PartyStep

-----------------------------------------------------------------------------
(* The theorems about the router.                                          *)

LEMMA RouterInvInit ==
  ASSUME Init
  PROVE  RouterInv
<1>0. <<>> \in Seq(Frames)
  OBVIOUS
<1>1. RouterTypeOK
  BY <1>0, Zenon DEF Init, RouterTypeOK, ReceiverOK, CallsOK
<1>2. \A p \in Local : Stream(p) = <<>>
  BY DEF Init, Stream
<1>3. OrderInv
  BY <1>2 DEF Init, OrderInv, Ordered, Range
<1>4. LossInv
  BY DEF Init, LossInv
<1> QED
  BY <1>1, <1>3, <1>4 DEF RouterInv

LEMMA RouterInvariant == Spec => []RouterInv
<1>1. ASSUME RouterInv, [Next]_vars PROVE RouterInv'
  BY <1>1, RouterTypeStep, OrderStep, LossStep DEF RouterInv
<1> QED
  BY <1>1, RouterInvInit, PTL DEF Spec

\* A party gets the frames of one sender in strictly increasing order, none
\* twice, whatever the network repeats, reorders or contradicts
\* (validation.go validateAndRecord, router.go routeOutbound, receiveNetwork).
THEOREM FramesInOrder == Spec => []OrderedPerSender
<1>1. ASSUME RouterInv, NEW p \in Local, NEW i \in 1..Len(got[p]), NEW j \in 1..Len(got[p]),
             i < j, got[p][i].from = got[p][j].from
      PROVE  got[p][i].seq < got[p][j].seq
  <2>1. /\ got[p] \in Seq(Frames) /\ inbound[p] \in Seq(Frames)
        /\ Len(got[p]) \in Nat /\ Len(inbound[p]) \in Nat
    <3>1. got[p] \in Seq(Frames) /\ inbound[p] \in Seq(Frames)
      BY <1>1, Zenon DEF RouterInv, RouterTypeOK
    <3> QED
      BY <3>1
  <2>2. /\ Len(Stream(p)) = Len(got[p]) + Len(inbound[p])
        /\ \A k \in 1..Len(got[p]) : Stream(p)[k] = got[p][k]
    BY <1>1, StreamElements, Zenon DEF RouterInv
  <2>3. i \in 1..Len(Stream(p)) /\ j \in 1..Len(Stream(p))
    <3> DEFINE m == Len(got[p])
               n == Len(inbound[p])
    <3>1. m \in Nat /\ n \in Nat /\ Len(Stream(p)) = m + n /\ i \in 1..m /\ j \in 1..m
      BY <2>1, <2>2, Zenon
    <3> HIDE DEF m, n
    <3> QED
      BY <3>1
  <2>4. Ordered(Stream(p))
    BY <1>1, Zenon DEF RouterInv, OrderInv
  <2> QED
    BY <1>1, <2>2, <2>3, <2>4, Zenon DEF Ordered
<1>2. RouterInv => OrderedPerSender
  BY <1>1, Zenon DEF OrderedPerSender
<1> QED
  BY <1>2, RouterInvariant, PTL

\* A recorded frame has reached its recipients, is on its way, or its loss is
\* seen (router.go routeOutbound, receiveNetwork).
THEOREM LossIsSeen == Spec => []NoSilentLoss
<1>1. ASSUME RouterInv, NEW f \in seen, terminalErr = None, ~finishing
      PROVE  \/ ReachedAll(f) \/ arrived.frame = f
             \/ f.from \in Local /\ (frame[f.from] = f \/ party[f.from] = "failed")
  <2>1. Accounted(f) /\ (f.from = Platform \/ f.from \in Local) /\ Platform \notin Local
    BY <1>1, FrameSender, LocalParties, Zenon DEF RouterInv, RouterTypeOK, LossInv, Parties
  <2>2. ASSUME NEW p \in Local, HasFrame(p, f) PROVE Has(p, f)
    <3>1. Range(Stream(p)) = Range(got[p]) \cup Range(inbound[p])
      BY <1>1, StreamElements, Zenon DEF RouterInv
    <3> QED
      BY <2>2, <3>1 DEF HasFrame, Has
  <2>3. ASSUME \A p \in Local : IsFor(f, p) => HasFrame(p, f)
        PROVE  \A p \in Local \ {f.from} : f.to \in {p, All} => Has(p, f)
    BY <2>2, <2>3 DEF IsFor
  <2>4. CASE f.from = Platform
    BY <2>1, <2>3, <2>4, Zenon DEF Accounted, ReachedAll
  <2>5. CASE f.from \in Local
    BY <2>1, <2>3, <2>5, Zenon DEF Accounted, ReachedAll
  <2> QED
    BY <2>1, <2>4, <2>5, Zenon
<1>2. RouterInv => NoSilentLoss
  BY <1>1 DEF NoSilentLoss
<1> QED
  BY <1>2, RouterInvariant, PTL

\* Once done is closed no party is handed a frame and the error stays
\* (router.go fail, closeNormally, RecvFrame).
THEOREM ClosedStaysClosed == Spec => FailClosed
<1>1. ASSUME [Next]_vars, terminalErr # None PROVE got' = got /\ terminalErr' = terminalErr
  <2>1. CASE Receiver
    BY <1>1, <2>1, Zenon DEF Receiver, Start, ReceiveError, ReceiveFrame, DeliverArrived, EndReceive, ExitQuietly, Fail,
                      callerVars
  <2>2. CASE Finish
    BY <1>1, <2>2, Zenon DEF Finish, FinishEnter, FinishCancel, FinishJoined, callerVars
  <2>3. ASSUME NEW p \in Local, PartyStep(p) PROVE got' = got /\ terminalErr' = terminalErr
    BY <1>1, <2>3, Zenon DEF PartyStep, SendFrame, Record, RouteLocal, RouteNetwork, RecvFrame, PartyLeaves, routerVars
  <2>4. CASE CancelRun \/ Stopped \/ UNCHANGED vars
    BY <2>4, Zenon DEF CancelRun, Stopped, vars, routerVars, callerVars
  <2> QED
    BY <1>1, <2>1, <2>2, <2>3, <2>4 DEF Next
<1> QED
  BY <1>1, PTL DEF Spec, FailClosed

=============================================================================

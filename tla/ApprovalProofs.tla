---------------------------- MODULE ApprovalProofs ----------------------------
(***************************************************************************)
(* The safety of the approval subsystem, for any set of requests, any      *)
(* evidence and any number of crashes and restarts:                        *)
(* a receipt saved before it is sent, a signature admitted on the evidence *)
(* it was granted for, a saved hint kept, and the whole an implementation  *)
(* of the abstract ledger.                                                 *)
(*                                                                         *)
(* The invariant joins what every journal operation keeps of the journal   *)
(* (JournalInv) with what the dispatcher (InHand) and the SIGN gate        *)
(* (GateInv) hold of it in memory, and what was sent and admitted in       *)
(* earlier lives of the process (HistoryInv).                              *)
(***************************************************************************)
EXTENDS Approval, JournalProofs

-----------------------------------------------------------------------------
(* The dispatcher and the gate over the journal.                           *)

\* The directory stream names saved receipts only.
DispatcherTypeOK ==
  /\ mode \in Modes
  /\ signed \in [Requests -> Nat]
  /\ verdict \in [Requests -> Acknowledgements \cup {None}]
  /\ todo \subseteq Requests
  /\ hints \in Seq(Keys)
  /\ scan.left \subseteq {r \in Requests : journal.disk[r].receipt # None}

\* What the dispatcher has in hand at each point: an admission, a receipt to
\* save, a receipt that is durable before it is sent, an acknowledgement.
InHand ==
  /\ dpc = "items" => todo # {}
  /\ dpc = "evaluate" => cur \in Requests /\ arg \in Admissions
  /\ dpc = "save" => cur \in Requests /\ arg \in Receipts
  /\ dpc = "send" =>
       /\ cur \in Requests /\ <<cur, "receipt">> \in journal.synced
       /\ arg = None \/ (arg \in Receipts /\ arg = journal.disk[cur].receipt)
  /\ dpc = "ack" => cur \in Requests /\ arg \in Acknowledgements

Claims == [request : Requests, hash : Hashes, receipt : Receipts]

\* A SIGN attempt in progress names a request.
GateInv ==
  /\ gpc \in [Bindings -> {"idle", "waiting", "bind", "authorized", "denied"}]
  /\ claim \in [Bindings -> Claims \cup {None}]
  /\ \A b \in Bindings : gpc[b] \in {"waiting", "bind"} => claim[b] \in Claims

\* What was sent is the durable receipt, what was admitted rests on evidence.
HistoryInv ==
  /\ sent \in [Requests -> SUBSET Receipts]
  /\ \A r \in Requests : \A x \in sent[r] :
       <<r, "receipt">> \in journal.synced /\ journal.disk[r].receipt = x
  /\ \A a \in admitted :
       /\ a \in Requests \X Bindings
       /\ Evidence(journal, a[1], a[2])

ApprovalInv ==
  JournalInv(journal) /\ DispatcherTypeOK /\ InHand /\ GateInv /\ HistoryInv /\ crashes \in Nat

-----------------------------------------------------------------------------
(* Sequences of hints.                                                     *)

\* Cutting an element out of a sequence keeps the others.
Cut(s, i) == SubSeq(s, 1, i - 1) \o SubSeq(s, i + 1, Len(s))

LEMMA CutKeeps ==
  ASSUME NEW S, NEW s \in Seq(S), NEW i \in 1..Len(s)
  PROVE  /\ Cut(s, i) \in Seq(S)
         /\ \A x \in Range(s) : x = s[i] \/ x \in Range(Cut(s, i))
<1> DEFINE a == SubSeq(s, 1, i - 1)
           b == SubSeq(s, i + 1, Len(s))
<1>0. Len(s) \in Nat /\ DOMAIN s = 1..Len(s) /\ \A j \in 1..Len(s) : s[j] \in S
  OBVIOUS
<1>1. /\ a \in Seq(S) /\ Len(a) = i - 1
      /\ \A j \in 1..(i - 1) : a[j] = s[j]
  <2>1. \A j \in 1..(i - 1) : s[j] \in S
    BY <1>0
  <2>2. /\ a \in Seq(S) /\ Len(a) = IF 1 <= i - 1 THEN (i - 1) - 1 + 1 ELSE 0
        /\ \A j \in 1..((i - 1) - 1 + 1) : a[j] = s[1 + j - 1]
    BY <1>0, <2>1
  <2> QED
    BY <2>2
<1>2. /\ b \in Seq(S) /\ Len(b) = Len(s) - i
      /\ \A j \in 1..(Len(s) - i) : b[j] = s[i + j]
  <2>1. \A j \in (i + 1)..Len(s) : s[j] \in S
    BY <1>0
  <2>2. /\ b \in Seq(S) /\ Len(b) = IF i + 1 <= Len(s) THEN Len(s) - (i + 1) + 1 ELSE 0
        /\ \A j \in 1..(Len(s) - (i + 1) + 1) : b[j] = s[(i + 1) + j - 1]
    BY <1>0, <2>1
  <2> HIDE DEF b
  <2>3. Len(b) = Len(s) - i
    <3>1. i \in Nat /\ Len(s) \in Nat /\ i <= Len(s)
      BY <1>0
    <3>2. Len(b) = IF i + 1 <= Len(s) THEN Len(s) - (i + 1) + 1 ELSE 0
      BY <2>2
    <3>3. CASE i + 1 <= Len(s)
      BY <3>1, <3>2, <3>3
    <3>4. CASE i = Len(s)
      BY <3>1, <3>2, <3>4
    <3> QED
      BY <3>1, <3>3, <3>4
  <2>4. ASSUME NEW j \in 1..(Len(s) - i) PROVE b[j] = s[i + j]
    <3>1. j \in 1..(Len(s) - (i + 1) + 1) /\ (i + 1) + j - 1 = i + j
      BY <1>0
    <3> QED
      BY <2>2, <3>1, Zenon
  <2> QED
    BY <2>2, <2>3, <2>4, Zenon
<1> HIDE DEF a, b
<1>3. /\ a \o b \in Seq(S) /\ Len(a \o b) = Len(a) + Len(b)
      /\ \A j \in 1..(Len(a) + Len(b)) : (a \o b)[j] = IF j <= Len(a) THEN a[j] ELSE b[j - Len(a)]
  <2>1. a \in Seq(S) /\ b \in Seq(S)
    BY <1>1, <1>2
  <2> QED
    BY <2>1
<1> DEFINE c == a \o b
<1>c. DOMAIN c = 1..Len(c)
  BY <1>3
<1> HIDE DEF c
<1>4. ASSUME NEW j \in 1..Len(s), j # i PROVE s[j] \in Range(c)
  <2>1. CASE j < i
    <3>1. j \in 1..Len(c) /\ c[j] = s[j]
      BY <1>0, <1>1, <1>2, <1>3, <2>1 DEF c
    <3> QED
      BY <1>c, <3>1, Zenon DEF Range
  <2>2. CASE j > i
    <3>1. j - 1 \in 1..Len(c) /\ j - i \in 1..(Len(s) - i)
      BY <1>0, <1>1, <1>2, <1>3, <2>2 DEF c
    <3>2. c[j - 1] = b[j - i]
      BY <1>0, <1>1, <1>2, <1>3, <2>2, <3>1 DEF c
    <3>3. b[j - i] = s[i + (j - i)]
      BY <1>2, <3>1, Zenon
    <3>4. c[j - 1] = s[j]
      BY <3>2, <3>3
    <3> QED
      BY <1>c, <3>1, <3>4, Zenon DEF Range
  <2> QED
    BY <1>4, <2>1, <2>2
<1>5. Cut(s, i) = c /\ c \in Seq(S)
  BY <1>3, Zenon DEF Cut, a, b, c
<1> QED
  BY <1>0, <1>4, <1>5 DEF Range

LEMMA DeleteKeeps ==
  ASSUME NEW S, NEW s \in Seq(S), NEW e
  PROVE  /\ Delete(s, e) \in Seq(S)
         /\ \A x \in Range(s) : x = e \/ x \in Range(Delete(s, e))
<1>1. CASE e \in Range(s)
  <2> DEFINE i == CHOOSE j \in DOMAIN s : s[j] = e
  <2>1. i \in DOMAIN s /\ s[i] = e
    BY <1>1 DEF Range
  <2>2. Delete(s, e) = Cut(s, i)
    BY <1>1, Zenon DEF Delete, Cut
  <2> HIDE DEF i
  <2>3. i \in 1..Len(s)
    BY <2>1
  <2> QED
    BY <2>1, <2>2, <2>3, CutKeeps, Zenon
<1>2. CASE e \notin Range(s)
  BY <1>2 DEF Delete
<1> QED
  BY <1>1, <1>2, Zenon

LEMMA AppendKeeps ==
  ASSUME NEW S, NEW s \in Seq(S), NEW e \in S
  PROVE  Append(s, e) \in Seq(S) /\ Range(Append(s, e)) = Range(s) \cup {e}
<1>1. /\ Append(s, e) \in Seq(S) /\ Len(Append(s, e)) = Len(s) + 1 /\ Len(s) \in Nat
      /\ \A i \in 1..Len(s) : Append(s, e)[i] = s[i]
      /\ Append(s, e)[Len(s) + 1] = e
  OBVIOUS
<1>2. DOMAIN Append(s, e) = 1..(Len(s) + 1) /\ DOMAIN s = 1..Len(s)
  BY <1>1
<1> QED
  BY <1>1, <1>2 DEF Range

\* Neither a new hint nor the cap drops the hint of a saved receipt.
LEMMA SuppressKeeps ==
  ASSUME NEW h \in Seq(Keys), NEW key \in Keys
  PROVE  Suppress(h, key) \in Seq(Keys) /\ SavedHints(h) \subseteq Range(Suppress(h, key))
<1> DEFINE oldest == First({i \in DOMAIN h : ~h[i].savedReceipt})
<1>1. CASE key \in Range(h) \/ Len(h) < HintCap
  <2>1. Suppress(h, key) = Append(Delete(h, key), key)
    BY <1>1, Zenon DEF Suppress
  <2>2. /\ Delete(h, key) \in Seq(Keys)
        /\ \A x \in Range(h) : x = key \/ x \in Range(Delete(h, key))
    BY DeleteKeeps
  <2>3. /\ Append(Delete(h, key), key) \in Seq(Keys)
        /\ Range(Append(Delete(h, key), key)) = Range(Delete(h, key)) \cup {key}
    BY <2>2, AppendKeeps
  <2> QED
    BY <2>1, <2>2, <2>3, Zenon DEF SavedHints
<1>2. CASE ~(key \in Range(h) \/ Len(h) < HintCap) /\ oldest = {}
  <2>1. Suppress(h, key) = h
    BY <1>2 DEF Suppress
  <2> QED
    BY <2>1 DEF SavedHints
<1>3. CASE ~(key \in Range(h) \/ Len(h) < HintCap) /\ oldest # {}
  <2> DEFINE i == CHOOSE i \in oldest : TRUE
  <2>1. Suppress(h, key) = Append(Delete(h, h[i]), key)
    BY <1>3, Zenon DEF Suppress
  <2>2. i \in oldest
    BY <1>3, Zenon
  <2> HIDE DEF i
  <2>4. i \in 1..Len(h) /\ ~h[i].savedReceipt
    BY <2>2 DEF First
  <2>5. /\ Delete(h, h[i]) \in Seq(Keys)
        /\ \A x \in Range(h) : x = h[i] \/ x \in Range(Delete(h, h[i]))
    BY DeleteKeeps
  <2>6. /\ Append(Delete(h, h[i]), key) \in Seq(Keys)
        /\ Range(Append(Delete(h, h[i]), key)) = Range(Delete(h, h[i])) \cup {key}
    BY <2>5, AppendKeeps
  <2> QED
    BY <2>1, <2>4, <2>5, <2>6, Zenon DEF SavedHints
<1> QED
  BY <1>1, <1>2, <1>3, Zenon

-----------------------------------------------------------------------------
(* The journal at each step.                                               *)

LEMMA GrowsReflexive ==
  ASSUME NEW j
  PROVE  Grows(j, j)
  BY DEF Grows, Keeps

LEMMA SavedHintInHand ==
  ASSUME DispatcherTypeOK, NEW i \in First(DueSaved)
  PROVE  hints[i] \in Keys /\ hints[i].request \in Requests
<1>1. i \in DOMAIN hints
  BY DEF First, DueSaved
<1>2. hints[i] \in Keys
  BY <1>1 DEF DispatcherTypeOK
<1> QED
  BY <1>2 DEF Keys

LEMMA ItemInHand ==
  ASSUME DispatcherTypeOK, NEW r \in First(todo)
  PROVE  r \in todo /\ r \in Requests
  BY DEF DispatcherTypeOK, First

\* No step but a crash removes or changes a file.
LEMMA DispatcherJournal ==
  ASSUME JournalInv(journal), DispatcherTypeOK, InHand, DispatcherStep
  PROVE  JournalInv(journal') /\ Grows(journal, journal')
<1> DEFINE Good(j) == JournalInv(j) /\ Grows(journal, j)
<1>0. Good(journal)
  BY GrowsReflexive
<1>1. CASE \/ BeginStep \/ FetchPage \/ FetchFails \/ EvaluateLater \/ EvaluateFinal
           \/ SendFails \/ SendAnswered
  BY <1>0, <1>1, Zenon DEF BeginStep, FetchPage, FetchFails, EvaluateLater, EvaluateFinal, SendFails, SendAnswered
<1>2. CASE RetrySavedHint
  <2>1. CASE DueSaved = {}
    BY <1>0, <1>2, <2>1, Zenon DEF RetrySavedHint
  <2>2. CASE DueSaved # {}
    <3>1. PICK i \in First(DueSaved) : \E o \in Load(journal, hints[i].request) : journal' = o.j
      BY <1>2, <2>2, Zenon DEF RetrySavedHint
    <3> QED
      BY <3>1, SavedHintInHand, LoadKeeps, Zenon
  <2> QED
    BY <2>1, <2>2
<1>3. CASE PendingReceipts
  <2>1. \/ journal' = journal
        \/ \E r \in (IF scan.open THEN scan.left ELSE Requests) : \E o \in Load(journal, r) : journal' = o.j
    BY <1>3, Zenon DEF PendingReceipts
  <2>2. \/ journal' = journal
        \/ \E r \in Requests : \E o \in Load(journal, r) : journal' = o.j
    BY <2>1, Zenon DEF DispatcherTypeOK
  <2> QED
    BY <1>0, <2>2, LoadKeeps, Zenon
<1>4. CASE Process
  <2>0. PICK r \in First(todo), hash \in Hashes : \E o \in Load(journal, r) : ProcessItem(r, hash, o)
    BY <1>4, Zenon DEF Process
  <2>1. r \in Requests
    BY ItemInHand
  <2>2. PICK o \in Load(journal, r) :
          \/ journal' = o.j
          \/ \E a \in Admit(o.j, r, [mode |-> mode, hash |-> hash]) : journal' = a.j
    BY <2>0, Zenon DEF ProcessItem
  <2>3. Good(o.j)
    BY <2>1, LoadKeeps, Zenon
  <2>4. [mode |-> mode, hash |-> hash] \in Admissions
    BY Zenon DEF Admissions, DispatcherTypeOK
  <2>5. ASSUME NEW a \in Admit(o.j, r, [mode |-> mode, hash |-> hash]) PROVE Good(a.j)
    <3>1. JournalInv(a.j) /\ Grows(o.j, a.j)
      BY <2>1, <2>3, <2>4, AdmitKeeps, Zenon
    <3> QED
      BY <2>3, <3>1, GrowsTransitive, Zenon
  <2> QED
    BY <2>2, <2>3, <2>5, Zenon
<1>5. CASE Save
  <2>1. PICK o \in SaveReceipt(journal, cur, arg) : journal' = o.j
    BY <1>5, Zenon DEF Save
  <2>2. cur \in Requests /\ arg \in Receipts
    BY <1>5, Zenon DEF Save, InHand
  <2> QED
    BY <2>1, <2>2, SaveReceiptKeeps, Zenon
<1>6. CASE AcknowledgeDecision
  <2>1. PICK o \in Acknowledge(journal, cur, arg.disposition) : journal' = o.j
    BY <1>6 DEF AcknowledgeDecision
  <2>2. cur \in Requests /\ arg.disposition \in Dispositions
    BY <1>6, Zenon DEF AcknowledgeDecision, InHand, Acknowledgements
  <2> QED
    BY <2>1, <2>2, AcknowledgeKeeps, Zenon
<1> QED
  BY <1>1, <1>2, <1>3, <1>4, <1>5, <1>6, Zenon DEF DispatcherStep

LEMMA GateJournal ==
  ASSUME JournalInv(journal), GateInv, NEW b \in Bindings,
         SignClaimed(b) \/ Authorize(b) \/ SignExpires(b) \/ Bind(b)
  PROVE  JournalInv(journal') /\ Grows(journal, journal')
<1>1. CASE SignClaimed(b) \/ SignExpires(b)
  <2>1. journal' = journal
    BY <1>1, Zenon DEF SignClaimed, SignExpires
  <2> QED
    BY <2>1, GrowsReflexive
<1>2. CASE Authorize(b)
  <2>1. PICK o \in Load(journal, claim[b].request) : journal' = o.j
    BY <1>2, Zenon DEF Authorize
  <2>2. claim[b].request \in Requests
    BY <1>2, Zenon DEF Authorize, GateInv, Claims
  <2> QED
    BY <2>1, <2>2, LoadKeeps, Zenon
<1>3. CASE Bind(b)
  <2>1. PICK o \in BindExecution(journal, claim[b].request, b) : journal' = o.j
    BY <1>3, Zenon DEF Bind
  <2>2. claim[b].request \in Requests
    BY <1>3, Zenon DEF Bind, GateInv, Claims
  <2> QED
    BY <2>1, <2>2, BindExecutionKeeps, Zenon
<1> QED
  BY <1>1, <1>2, <1>3, Zenon

LEMMA JournalStep ==
  ASSUME ApprovalInv, [Next]_vars
  PROVE  /\ JournalInv(journal') /\ Keeps(journal, journal')
         /\ Grows(journal, journal') \/ Crash
<1> USE DEF ApprovalInv
<1>1. CASE Dispatch
  BY <1>1, DispatcherJournal, Zenon DEF Dispatch, Grows
<1>2. CASE Gate
  BY <1>2, GateJournal, Zenon DEF Gate, Grows
<1>3. CASE Environment \/ UNCHANGED vars
  <2>1. journal' = journal
    BY <1>3, Zenon DEF Environment, HintDue, BackendCancels, vars
  <2> QED
    BY <2>1, GrowsReflexive, Zenon DEF Grows
<1>4. CASE Crash
  <2>1. PICK lost \in SUBSET (Visible(journal) \ journal.synced) : journal' = Reopen(journal, lost)
    BY <1>4, Zenon DEF Crash
  <2> QED
    BY <1>4, <2>1, ReopenKeeps, Zenon
<1> QED
  BY <1>1, <1>2, <1>3, <1>4, Zenon DEF Next

-----------------------------------------------------------------------------
(* The dispatcher at each step.                                            *)

\* A step that leaves the dispatcher alone.
LEMMA DispatcherRests ==
  ASSUME DispatcherTypeOK, InHand, Grows(journal, journal'),
         UNCHANGED <<mode, signed, verdict, todo, hints, scan, dpc, cur, arg>>
  PROVE  DispatcherTypeOK' /\ InHand'
<1>1. "receipt" \in Kinds
  BY DEF Kinds
<1>2. \A r \in Requests :
        /\ journal.disk[r].receipt # None => journal'.disk[r].receipt = journal.disk[r].receipt
        /\ <<r, "receipt">> \in journal.synced =>
             <<r, "receipt">> \in journal'.synced /\ journal'.disk[r].receipt = journal.disk[r].receipt
  BY <1>1, Zenon DEF Grows, Keeps
<1>3. DispatcherTypeOK'
  BY <1>2, Zenon DEF DispatcherTypeOK
<1>4. InHand'
  BY <1>2, Zenon DEF InHand
<1> QED
  BY <1>3, <1>4

\* Putting nothing in hand.
LEMMA GotoInHand ==
  ASSUME NEW step, Goto(step), step \in {"idle", "hint", "scan", "last", "page"} \/ (step = "items" /\ todo' # {})
  PROVE  InHand'
  BY DEF Goto, InHand

LEMMA SavedAgain ==
  ASSUME DispatcherTypeOK, Grows(journal, journal')
  PROVE  \A r \in Requests : journal.disk[r].receipt # None => journal'.disk[r].receipt # None
<1>1. "receipt" \in Kinds
  BY DEF Kinds
<1> QED
  BY <1>1, Zenon DEF Grows

\* What is sent is the durable receipt of the request in hand.
LEMMA OutgoingIsSaved ==
  ASSUME JournalInv(journal), InHand, dpc = "send"
  PROVE  /\ cur \in Requests /\ Outgoing \in Receipts
         /\ <<cur, "receipt">> \in journal.synced /\ journal.disk[cur].receipt = Outgoing
<1>1. /\ cur \in Requests /\ <<cur, "receipt">> \in journal.synced
      /\ arg = None \/ (arg \in Receipts /\ arg = journal.disk[cur].receipt)
  BY DEF InHand
<1>2. "receipt" \in Kinds
  BY DEF Kinds
<1>3. journal.disk[cur]["receipt"] # None
  BY <1>1, <1>2, Zenon DEF JournalInv, Visible
<1>4. journal.disk[cur]["receipt"] \in Contents["receipt"]
  BY <1>1, <1>2, <1>3, Zenon DEF JournalInv, JournalType
<1>5. journal.disk[cur].receipt \in Receipts
  BY <1>4, Zenon DEF Contents
<1> QED
  BY <1>1, <1>5, Zenon DEF Outgoing

LEMMA AppliedType ==
  ASSUME DispatcherTypeOK, NEW r \in Requests, NEW receipt \in Receipts
  PROVE  Applied(r, receipt) \in Acknowledgements
<1>1. CASE verdict[r] = None
  <2>1. Applied(r, receipt) =
          [receipt |-> receipt, disposition |-> IF r \in cancelled THEN "NOT_APPLIED_CANCELLED" ELSE "APPLIED"]
    BY <1>1 DEF Applied
  <2> QED
    BY <2>1 DEF Acknowledgements, Dispositions
<1>2. CASE verdict[r] # None /\ verdict[r].receipt = receipt
  <2>1. Applied(r, receipt) = verdict[r]
    BY <1>2 DEF Applied
  <2> QED
    BY <1>2, <2>1, Zenon DEF DispatcherTypeOK
<1>3. CASE verdict[r] # None /\ verdict[r].receipt # receipt
  <2>1. Applied(r, receipt) = [receipt |-> receipt, disposition |-> "TERMINAL_CONFLICT"]
    BY <1>3 DEF Applied
  <2> QED
    BY <2>1 DEF Acknowledgements, Dispositions
<1> QED
  BY <1>1, <1>2, <1>3, Zenon

LEMMA DispatcherTypeStep ==
  ASSUME JournalInv(journal), DispatcherTypeOK, InHand, Grows(journal, journal'), DispatcherStep
  PROVE  DispatcherTypeOK'
<1> DEFINE Scan == scan'.left \subseteq {r \in Requests : journal'.disk[r].receipt # None}
<1>0. scan' = scan => Scan
  BY SavedAgain, Zenon DEF DispatcherTypeOK
<1>a. mode' = mode /\ mode' \in Modes
  BY Zenon DEF DispatcherTypeOK, DispatcherStep, BeginStep, RetrySavedHint, PendingReceipts, FetchPage, FetchFails,
         Process, ProcessItem, EvaluateLater, EvaluateFinal, Save, SendFails, SendAnswered, AcknowledgeDecision
<1>1. CASE BeginStep \/ FetchFails
  BY <1>0, <1>1, Zenon DEF BeginStep, FetchFails, DispatcherTypeOK, backendVars
<1>2. CASE RetrySavedHint
  <2>1. hints' \in Seq(Keys)
    <3>1. hints' = hints \/ \E i \in First(DueSaved) : suppress(hints[i]) \/ forget(hints[i])
      BY <1>2, Zenon DEF RetrySavedHint
    <3>2. \A i \in First(DueSaved) : hints[i] \in Keys
      BY SavedHintInHand
    <3>3. hints' = hints \/ \E key \in Keys : suppress(key) \/ forget(key)
      BY <3>1, <3>2, Zenon
    <3> QED
      BY <3>3, SuppressKeeps, DeleteKeeps DEF DispatcherTypeOK, suppress, forget
  <2> QED
    BY <1>0, <1>2, <2>1, Zenon DEF RetrySavedHint, DispatcherTypeOK, backendVars
<1>3. CASE PendingReceipts
  <2>1. scan'.left = {} \/ scan'.left \subseteq {r \in Requests : journal.disk[r].receipt # None}
    <3> DEFINE saved == {r \in Requests : journal.disk[r].receipt # None}
               left == IF scan.open THEN scan.left ELSE saved
               unacknowledged == {r \in left : journal.disk[r].ack = None}
    <3>1. left \subseteq saved
      BY Zenon DEF DispatcherTypeOK
    <3>2. unacknowledged \subseteq saved
      BY <3>1, Zenon
    <3>3. \/ scan' = [open |-> FALSE, left |-> {}]
          \/ \E r \in unacknowledged : scan' = [open |-> TRUE, left |-> unacknowledged \ {r}]
      BY <1>3, Zenon DEF PendingReceipts
    <3> HIDE DEF left, unacknowledged
    <3> QED
      BY <3>2, <3>3
  <2>2. Scan
    BY <2>1, SavedAgain, Zenon
  <2> QED
    BY <1>3, <2>2, Zenon DEF PendingReceipts, DispatcherTypeOK, backendVars
<1>4. CASE FetchPage
  <2>1. todo' \subseteq Requests
    BY <1>4, Zenon DEF FetchPage, FirstPage, Unresolved
  <2> QED
    BY <1>0, <1>4, <2>1, Zenon DEF FetchPage, DispatcherTypeOK, backendVars
<1>5. CASE Process
  <2>1. PICK r \in First(todo), hash \in Hashes : \E o \in Load(journal, r) : ProcessItem(r, hash, o)
    BY <1>5, Zenon DEF Process
  <2>2. todo' \subseteq todo
    BY <2>1, Zenon DEF ProcessItem, NextItem, Taken
  <2> QED
    BY <1>0, <1>5, <2>2, Zenon DEF Process, DispatcherTypeOK, backendVars
<1>6. CASE EvaluateLater
  <2>1. Key(cur, FALSE) \in Keys
    BY <1>6, Zenon DEF EvaluateLater, InHand, Key, Keys
  <2>2. hints' \in Seq(Keys)
    BY <1>6, <2>1, SuppressKeeps, Zenon DEF EvaluateLater, suppress, DispatcherTypeOK
  <2> QED
    BY <1>0, <1>6, <2>2, Zenon DEF EvaluateLater, DispatcherTypeOK, backendVars
<1>7. CASE EvaluateFinal
  <2>1. signed' \in [Requests -> Nat]
    BY <1>7 DEF EvaluateFinal, DispatcherTypeOK, InHand
  <2> QED
    BY <1>0, <1>7, <2>1, Zenon DEF EvaluateFinal, DispatcherTypeOK, backendVars
<1>8. CASE Save
  <2>1. hints' = hints \/ forget(Key(cur, FALSE))
    BY <1>8, Zenon DEF Save
  <2>2. hints \in Seq(Keys) /\ Delete(hints, Key(cur, FALSE)) \in Seq(Keys)
    BY DeleteKeeps, Zenon DEF DispatcherTypeOK
  <2>3. hints' \in Seq(Keys)
    BY <2>1, <2>2, Zenon DEF forget
  <2> QED
    BY <1>0, <1>8, <2>3, Zenon DEF Save, DispatcherTypeOK, backendVars
<1>9. ASSUME BackendReceives, dpc = "send" PROVE verdict' \in [Requests -> Acknowledgements \cup {None}]
  <2>1. Applied(cur, Outgoing) \in Acknowledgements
    BY <1>9, OutgoingIsSaved, AppliedType, Zenon
  <2> QED
    BY <1>9, <2>1, Zenon DEF BackendReceives, DispatcherTypeOK, InHand
<1>10. CASE SendFails
  <2>1. Key(cur, TRUE) \in Keys
    BY <1>10, Zenon DEF SendFails, InHand, Key, Keys
  <2>2. hints' \in Seq(Keys)
    BY <1>10, <2>1, SuppressKeeps, Zenon DEF SendFails, suppress, DispatcherTypeOK
  <2>3. verdict' \in [Requests -> Acknowledgements \cup {None}]
    BY <1>9, <1>10, Zenon DEF SendFails, DispatcherTypeOK
  <2> QED
    BY <1>0, <1>10, <2>2, <2>3, Zenon DEF SendFails, DispatcherTypeOK
<1>11. CASE SendAnswered
  <2>1. verdict' \in [Requests -> Acknowledgements \cup {None}]
    BY <1>9, <1>11, Zenon DEF SendAnswered
  <2> QED
    BY <1>0, <1>11, <2>1, Zenon DEF SendAnswered, DispatcherTypeOK
<1>12. CASE AcknowledgeDecision
  <2>1. Key(cur, TRUE) \in Keys
    BY <1>12, Zenon DEF AcknowledgeDecision, InHand, Key, Keys
  <2>2. suppress(Key(cur, TRUE)) \/ forget(Key(cur, TRUE))
    BY <1>12, Zenon DEF AcknowledgeDecision
  <2>3. /\ Suppress(hints, Key(cur, TRUE)) \in Seq(Keys)
        /\ Delete(hints, Key(cur, TRUE)) \in Seq(Keys)
    BY <2>1, SuppressKeeps, DeleteKeeps, Zenon DEF DispatcherTypeOK
  <2>4. hints' \in Seq(Keys)
    BY <2>2, <2>3, Zenon DEF suppress, forget
  <2> QED
    BY <1>0, <1>12, <2>4, Zenon DEF AcknowledgeDecision, DispatcherTypeOK, backendVars
<1> QED
  BY <1>1, <1>2, <1>3, <1>4, <1>5, <1>6, <1>7, <1>8, <1>10, <1>11, <1>12, Zenon DEF DispatcherStep


LEMMA NothingInHand ==
  ASSUME Goto(AfterItem), todo' = todo
  PROVE  InHand'
  BY GotoInHand DEF AfterItem

\* After a successful load a receipt that is there is durable.
LEMMA LoadedReceipt ==
  ASSUME JournalInv(journal), NEW r \in Requests, NEW o \in Load(journal, r), o.err = "none",
         o.j.disk[r].receipt # None
  PROVE  <<r, "receipt">> \in o.j.synced
<1>1. o.j.synced = Visible(o.j)
  BY LoadKeeps, Zenon
<1> QED
  BY <1>1, Zenon DEF Visible, Kinds

LEMMA DeliverInHand ==
  ASSUME JournalInv(journal), NEW r \in Requests, NEW o \in Load(journal, r), o.err = "none",
         o.j.disk[r].receipt # None, journal' = o.j, NEW return, Deliver(r, return)
  PROVE  InHand'
<1>1. <<r, "receipt">> \in journal'.synced
  BY LoadedReceipt, Zenon
<1> QED
  BY <1>1, Zenon DEF Deliver, InHand

LEMMA InHandStep ==
  ASSUME JournalInv(journal), DispatcherTypeOK, InHand, DispatcherStep
  PROVE  InHand'
<1>1. CASE BeginStep
  <2>1. \E step \in {"hint", "scan"} : Goto(step)
    BY <1>1 DEF BeginStep
  <2> QED
    BY <2>1, GotoInHand
<1>2. CASE RetrySavedHint
  <2>1. CASE \E step \in {"scan", "page"} : Goto(step)
    BY <2>1, GotoInHand
  <2>2. CASE ~ \E step \in {"scan", "page"} : Goto(step)
    <3>1. PICK i \in First(DueSaved) : \E o \in Load(journal, hints[i].request) :
            /\ journal' = o.j
            /\ o.err = "none" /\ o.j.disk[hints[i].request].receipt # None
            /\ Deliver(hints[i].request, "page")
      BY <1>2, <2>2, Zenon DEF RetrySavedHint
    <3> DEFINE r == hints[i].request
    <3>2. PICK o \in Load(journal, r) :
            /\ journal' = o.j
            /\ o.err = "none" /\ o.j.disk[r].receipt # None /\ Deliver(r, "page")
      BY <3>1, Zenon
    <3>3. r \in Requests
      BY SavedHintInHand
    <3> HIDE DEF r
    <3> QED
      BY <3>2, <3>3, DeliverInHand, Zenon
  <2> QED
    BY <2>1, <2>2
<1>3. CASE PendingReceipts
  <2>1. CASE \E step \in {"scan", "last"} : Goto(step)
    BY <2>1, GotoInHand
  <2>2. CASE ~ \E step \in {"scan", "last"} : Goto(step)
    <3> DEFINE saved == {r \in Requests : journal.disk[r].receipt # None}
               left == IF scan.open THEN scan.left ELSE saved
    <3>1. left \subseteq saved
      BY Zenon DEF DispatcherTypeOK
    <3>2. PICK r \in left : \E o \in Load(journal, r) :
            journal' = o.j /\ o.err = "none" /\ Deliver(r, "page")
      BY <1>3, <2>2, Zenon DEF PendingReceipts
    <3>3. PICK o \in Load(journal, r) : journal' = o.j /\ o.err = "none" /\ Deliver(r, "page")
      BY <3>2, Zenon
    <3>4. r \in Requests /\ o.j.disk[r].receipt # None
      BY <3>1, LoadKeeps, Zenon
    <3> QED
      BY <3>3, <3>4, DeliverInHand, Zenon
  <2> QED
    BY <2>1, <2>2
<1>4. CASE FetchPage
  <2>1. Goto("idle") \/ (Goto("items") /\ todo' # {})
    BY <1>4, Zenon DEF FetchPage
  <2> QED
    BY <2>1, GotoInHand
<1>5. CASE FetchFails
  BY <1>5, GotoInHand, Zenon DEF FetchFails
<1>6. CASE Process
  <2>0. PICK r \in First(todo), hash \in Hashes : \E o \in Load(journal, r) : ProcessItem(r, hash, o)
    BY <1>6, Zenon DEF Process
  <2>1. r \in Requests
    BY ItemInHand
  <2>2. CASE NextItem(r)
    <3>1. Goto("idle") \/ (Goto("items") /\ todo' # {})
      BY <2>2 DEF NextItem
    <3> QED
      BY <3>1, GotoInHand
  <2>3. CASE ~NextItem(r)
    <3>1. PICK o \in Load(journal, r) :
            \/ /\ o.err = "none" /\ o.j.disk[r].receipt # None
               /\ journal' = o.j /\ Deliver(r, "items")
            \/ dpc' = "evaluate" /\ cur' = r /\ arg' = [mode |-> mode, hash |-> hash]
      BY <2>0, <2>3, Zenon DEF ProcessItem
    <3>2. CASE dpc' = "evaluate" /\ cur' = r /\ arg' = [mode |-> mode, hash |-> hash]
      <4>1. arg' \in Admissions
        BY <3>2, Zenon DEF Admissions, DispatcherTypeOK
      <4> QED
        BY <2>1, <3>2, <4>1, Zenon DEF InHand
    <3>3. CASE /\ o.err = "none" /\ o.j.disk[r].receipt # None
               /\ journal' = o.j /\ Deliver(r, "items")
      BY <2>1, <3>3, DeliverInHand, Zenon
    <3> QED
      BY <3>1, <3>2, <3>3, Zenon
  <2> QED
    BY <2>2, <2>3
<1>7. CASE EvaluateLater
  BY <1>7, NothingInHand, Zenon DEF EvaluateLater
<1>8. CASE EvaluateFinal
  <2>1. cur \in Requests /\ arg \in Admissions /\ signed[cur] + 1 \in Nat
    BY <1>8 DEF EvaluateFinal, InHand, DispatcherTypeOK
  <2>2. PICK decision \in Decisions : arg' = Receipt(decision, arg.hash, arg.mode, signed[cur] + 1)
    BY <1>8, DispatcherAssumption, Zenon DEF EvaluateFinal, Decisions
  <2>3. arg' \in Receipts
    BY <2>1, <2>2, Zenon DEF Receipt, Receipts, Admissions
  <2> QED
    BY <1>8, <2>1, <2>3, Zenon DEF EvaluateFinal, InHand
<1>9. CASE Save
  <2>1. CASE Goto(AfterItem)
    BY <1>9, <2>1, NothingInHand, Zenon DEF Save
  <2>2. CASE ~Goto(AfterItem)
    <3>1. PICK o \in SaveReceipt(journal, cur, arg) :
            /\ journal' = o.j /\ o.err = "none" /\ dpc' = "send" /\ UNCHANGED <<cur, arg>>
      BY <1>9, <2>2, Zenon DEF Save
    <3>2. cur \in Requests /\ arg \in Receipts
      BY <1>9, Zenon DEF Save, InHand
    <3>3. journal'.disk[cur].receipt = arg /\ <<cur, "receipt">> \in journal'.synced
      BY <3>1, <3>2, SaveReceiptKeeps
    <3> QED
      BY <3>1, <3>2, <3>3, Zenon DEF InHand
  <2> QED
    BY <2>1, <2>2
<1>10. CASE SendFails \/ AcknowledgeDecision
  <2>1. Goto("page") \/ Goto(AfterItem)
    BY <1>10, Zenon DEF SendFails, AcknowledgeDecision, AfterDelivery
  <2>2. todo' = todo
    BY <1>10, Zenon DEF SendFails, AcknowledgeDecision
  <2> QED
    BY <2>1, <2>2, GotoInHand, NothingInHand
<1>11. CASE SendAnswered
  <2>1. cur \in Requests /\ Applied(cur, Outgoing) \in Acknowledgements
    BY <1>11, OutgoingIsSaved, AppliedType, Zenon DEF SendAnswered
  <2> QED
    BY <1>11, <2>1, Zenon DEF SendAnswered, InHand
<1> QED
  BY <1>1, <1>2, <1>3, <1>4, <1>5, <1>6, <1>7, <1>8, <1>9, <1>10, <1>11, Zenon DEF DispatcherStep

-----------------------------------------------------------------------------
(* The gate and the histories at each step.                                *)

LEMMA LeaveKeeps ==
  ASSUME GateInv, NEW b \in Bindings, NEW to \in {"authorized", "denied"}, Leave(b, to)
  PROVE  GateInv'
  BY DEF GateInv, Leave

LEMMA GateStep ==
  ASSUME ApprovalInv, [Next]_vars
  PROVE  GateInv'
<1>0. GateInv
  BY DEF ApprovalInv
<1>1. CASE Dispatch \/ Environment \/ UNCHANGED vars
  BY <1>0, <1>1, Zenon DEF Dispatch, Environment, gateVars, vars, GateInv
<1>2. ASSUME NEW b \in Bindings, SignClaimed(b) PROVE GateInv'
  <2>1. PICK r \in Requests, hash \in Hashes : \E receipt \in sent[r] :
          claim' = [claim EXCEPT ![b] = [request |-> r, hash |-> hash, receipt |-> receipt]]
    BY <1>2, Zenon DEF SignClaimed
  <2>2. PICK receipt \in Receipts :
          claim' = [claim EXCEPT ![b] = [request |-> r, hash |-> hash, receipt |-> receipt]]
    BY <2>1, Zenon DEF ApprovalInv, HistoryInv
  <2>3. [request |-> r, hash |-> hash, receipt |-> receipt] \in Claims
    BY DEF Claims
  <2>4. gpc' = [gpc EXCEPT ![b] = "waiting"]
    BY <1>2, Zenon DEF SignClaimed
  <2> QED
    BY <1>0, <2>2, <2>3, <2>4, Zenon DEF GateInv
<1>3. ASSUME NEW b \in Bindings, Authorize(b) PROVE GateInv'
  <2>1. \/ Leave(b, "denied") \/ UNCHANGED <<gpc, claim>>
        \/ gpc' = [gpc EXCEPT ![b] = "bind"] /\ UNCHANGED claim
    BY <1>3, Zenon DEF Authorize
  <2>2. CASE UNCHANGED <<gpc, claim>>
    BY <1>0, <2>2, Zenon DEF GateInv
  <2>3. CASE gpc' = [gpc EXCEPT ![b] = "bind"] /\ UNCHANGED claim
    <3>1. gpc[b] = "waiting"
      BY <1>3, Zenon DEF Authorize
    <3> QED
      BY <1>0, <2>3, <3>1, Zenon DEF GateInv
  <2> QED
    BY <1>0, <2>1, <2>2, <2>3, LeaveKeeps, Zenon
<1>4. ASSUME NEW b \in Bindings, SignExpires(b) PROVE GateInv'
  BY <1>0, <1>4, LeaveKeeps, Zenon DEF SignExpires
<1>5. ASSUME NEW b \in Bindings, Bind(b) PROVE GateInv'
  <2>1. \E to \in {"authorized", "denied"} : Leave(b, to)
    BY <1>5, Zenon DEF Bind
  <2> QED
    BY <1>0, <2>1, LeaveKeeps
<1>6. CASE Crash
  BY <1>6, Zenon DEF Crash, GateInv
<1> QED
  BY <1>1, <1>2, <1>3, <1>4, <1>5, <1>6, Zenon DEF Next, Gate

\* Durable evidence stays.
LEMMA EvidenceKept ==
  ASSUME NEW j, JournalInv(j), NEW k, Keeps(j, k), NEW r \in Requests, NEW b, Evidence(j, r, b)
  PROVE  Evidence(k, r, b)
<1>1. <<r, "admission">> \in j.synced
  BY Zenon DEF JournalInv, RestsOn, Evidence, validateExecution
<1>2. \A kind \in Kinds : <<r, kind>> \in j.synced
  BY <1>1, Zenon DEF Kinds, Evidence
<1>3. \A kind \in Kinds : <<r, kind>> \in k.synced /\ k.disk[r][kind] = j.disk[r][kind]
  BY <1>2, Zenon DEF Keeps
<1>4. /\ k.disk[r].admission = j.disk[r].admission /\ k.disk[r].receipt = j.disk[r].receipt
      /\ k.disk[r].ack = j.disk[r].ack /\ k.disk[r].known = j.disk[r].known
      /\ k.disk[r].execution = j.disk[r].execution
  BY <1>3, Zenon DEF Kinds
<1>5. validateExecution(k.disk[r])
  BY <1>4, Zenon DEF Evidence, validateExecution
<1> QED
  BY <1>3, <1>4, <1>5, Zenon DEF Evidence, Kinds

LEMMA HistoryStep ==
  ASSUME ApprovalInv, [Next]_vars
  PROVE  HistoryInv'
<1> DEFINE SentOk ==
      /\ sent' \in [Requests -> SUBSET Receipts]
      /\ \A r \in Requests : \A x \in sent'[r] :
           <<r, "receipt">> \in journal'.synced /\ journal'.disk[r].receipt = x
    AdmittedOk ==
      \A a \in admitted' : a \in Requests \X Bindings /\ Evidence(journal', a[1], a[2])
<1>0. JournalInv(journal) /\ Keeps(journal, journal') /\ HistoryInv /\ InHand
  BY JournalStep DEF ApprovalInv
<1>1. sent' = sent => SentOk
  <2>1. "receipt" \in Kinds
    BY DEF Kinds
  <2> QED
    BY <1>0, <2>1 DEF HistoryInv, Keeps
<1>2. ASSUME admitted' = admitted PROVE AdmittedOk
  BY <1>0, <1>2, EvidenceKept DEF HistoryInv
<1>3. ASSUME BackendReceives, dpc = "send", journal' = journal PROVE SentOk
  <2>1. /\ cur \in Requests /\ Outgoing \in Receipts
        /\ <<cur, "receipt">> \in journal.synced /\ journal.disk[cur].receipt = Outgoing
    BY <1>0, <1>3, OutgoingIsSaved, Zenon
  <2>2. sent' = [sent EXCEPT ![cur] = @ \cup {Outgoing}]
    BY <1>3 DEF BackendReceives
  <2> QED
    BY <1>0, <1>3, <2>1, <2>2 DEF HistoryInv
<1>4. CASE Dispatch
  <2>1. admitted' = admitted
    BY <1>4 DEF Dispatch, gateVars
  <2>2. \/ sent' = sent
        \/ BackendReceives /\ dpc = "send" /\ journal' = journal
    BY <1>4, Zenon DEF Dispatch, DispatcherStep, BeginStep, RetrySavedHint, PendingReceipts, FetchPage, FetchFails,
                Process, ProcessItem, EvaluateLater, EvaluateFinal, Save, SendFails, SendAnswered, AcknowledgeDecision,
                backendVars
  <2> QED
    BY <1>1, <1>2, <1>3, <2>1, <2>2, Zenon DEF HistoryInv
<1>5. CASE Environment \/ Crash \/ UNCHANGED vars
  <2>1. sent' = sent /\ admitted' = admitted
    BY <1>5, Zenon DEF Environment, HintDue, BackendCancels, Crash, gateVars, backendVars, vars
  <2> QED
    BY <1>1, <1>2, <2>1, Zenon DEF HistoryInv
<1>6. ASSUME NEW b \in Bindings, SignClaimed(b) \/ Authorize(b) \/ SignExpires(b) PROVE HistoryInv'
  <2>1. sent' = sent /\ admitted' = admitted
    BY <1>6, Zenon DEF SignClaimed, Authorize, SignExpires, backendVars
  <2> QED
    BY <1>1, <1>2, <2>1, Zenon DEF HistoryInv
<1>7. ASSUME NEW b \in Bindings, Bind(b) PROVE HistoryInv'
  <2> DEFINE r == claim[b].request
  <2>1. sent' = sent
    BY <1>7, Zenon DEF Bind, backendVars
  <2>2. r \in Requests
    BY <1>7, Zenon DEF Bind, ApprovalInv, GateInv, Claims
  <2>3. PICK o \in BindExecution(journal, r, b) :
          /\ journal' = o.j
          /\ admitted' = admitted \/ (o.err = "none" /\ admitted' = admitted \cup {<<r, b>>})
    BY <1>7, Zenon DEF Bind
  <2>4. CASE admitted' = admitted
    BY <1>1, <1>2, <2>1, <2>4, Zenon DEF HistoryInv
  <2>5. CASE o.err = "none" /\ admitted' = admitted \cup {<<r, b>>}
    <3>1. Evidence(journal', r, b)
      BY <1>0, <2>2, <2>3, <2>5, BindExecutionKeeps, Zenon
    <3>2. \A a \in admitted : a \in Requests \X Bindings /\ Evidence(journal', a[1], a[2])
      BY <1>0, EvidenceKept DEF HistoryInv
    <3> HIDE DEF r
    <3>3. AdmittedOk
      BY <2>2, <2>5, <3>1, <3>2
    <3> QED
      BY <1>1, <2>1, <3>3, Zenon DEF HistoryInv
  <2> QED
    BY <2>3, <2>4, <2>5, Zenon
<1> QED
  BY <1>4, <1>5, <1>6, <1>7, Zenon DEF Next, Gate

-----------------------------------------------------------------------------
(* The theorems about the approval subsystem.                              *)

LEMMA ApprovalInvInit ==
  ASSUME Init
  PROVE  ApprovalInv
<1>1. JournalInv(journal)
  <2>1. journal = EmptyJournal
    BY DEF Init
  <2>2. \A r \in Requests, k \in Kinds : journal.disk[r][k] = None
    BY <2>1, Zenon DEF EmptyJournal
  <2>3. JournalType(journal)
    BY <2>1, <2>2, Zenon DEF JournalType, EmptyJournal, Files
  <2>4. journal.synced = {}
    BY <2>1 DEF EmptyJournal
  <2>5. \A r \in Requests : RestsOn(journal, r)
    BY <2>2, Zenon DEF RestsOn, Kinds
  <2> QED
    BY <2>3, <2>4, <2>5 DEF JournalInv
<1>2. DispatcherTypeOK
  <2>1. <<>> \in Seq(Keys)
    OBVIOUS
  <2> QED
    BY <2>1, ApprovalAssumption, Zenon DEF Init, DispatcherStart, DispatcherTypeOK
<1>3. InHand
  BY Zenon DEF Init, DispatcherStart, InHand
<1>4. GateInv
  BY DEF Init, GateInv
<1>5. HistoryInv
  BY DEF Init, HistoryInv
<1> QED
  BY <1>1, <1>2, <1>3, <1>4, <1>5, Zenon DEF ApprovalInv, Init

LEMMA ApprovalInvStep ==
  ASSUME ApprovalInv, [Next]_vars
  PROVE  ApprovalInv'
<1>1. JournalInv(journal)'
  BY JournalStep
<1>2. DispatcherTypeOK' /\ InHand'
  <2>0. JournalInv(journal) /\ DispatcherTypeOK /\ InHand
    BY DEF ApprovalInv
  <2>1. CASE Dispatch
    <3>1. DispatcherStep
      BY <2>1 DEF Dispatch
    <3> QED
      BY <2>0, <3>1, DispatcherJournal, DispatcherTypeStep, InHandStep, Zenon
  <2>2. CASE Environment \/ UNCHANGED vars
    <3>1. UNCHANGED <<journal, mode, signed, verdict, todo, hints, scan, dpc, cur, arg>>
      BY <2>2, Zenon DEF Environment, HintDue, BackendCancels, vars, dispVars, backendVars
    <3>2. Grows(journal, journal')
      BY <3>1, GrowsReflexive
    <3> QED
      BY <2>0, <3>1, <3>2, DispatcherRests, Zenon
  <2>3. CASE Gate
    <3>1. UNCHANGED <<mode, signed, verdict, todo, hints, scan, dpc, cur, arg>>
      BY <2>3, Zenon DEF Gate, SignClaimed, Authorize, SignExpires, Bind, dispVars, backendVars
    <3>2. Grows(journal, journal')
      BY <2>3, GateJournal, Zenon DEF Gate, ApprovalInv
    <3> QED
      BY <2>0, <3>1, <3>2, DispatcherRests, Zenon
  <2>4. CASE Crash
    <3>1. DispatcherTypeOK'
      <4>1. <<>> \in Seq(Keys)
        OBVIOUS
      <4> QED
        BY <2>0, <2>4, <4>1, ApprovalAssumption, Zenon DEF Crash, DispatcherTypeOK, backendVars
    <3>2. InHand'
      BY <2>4, Zenon DEF Crash, InHand
    <3> QED
      BY <3>1, <3>2
  <2> QED
    BY <2>1, <2>2, <2>3, <2>4 DEF Next
<1>3. GateInv' /\ HistoryInv'
  BY GateStep, HistoryStep
<1>4. crashes' \in Nat
  <2>1. crashes' = crashes \/ crashes' = crashes + 1
    <3>1. CASE Dispatch \/ Environment \/ UNCHANGED vars
      BY <3>1, Zenon DEF Dispatch, Environment, vars
    <3>2. CASE Gate
      BY <3>2, Zenon DEF Gate, SignClaimed, Authorize, SignExpires, Bind
    <3>3. CASE Crash
      BY <3>3, Zenon DEF Crash
    <3> QED
      BY <3>1, <3>2, <3>3 DEF Next
  <2> QED
    BY <2>1 DEF ApprovalInv
<1> QED
  BY <1>1, <1>2, <1>3, <1>4 DEF ApprovalInv

LEMMA ApprovalInvariant == Spec => []ApprovalInv
  BY ApprovalInvInit, ApprovalInvStep, PTL DEF Spec


\* Every receipt ever handed to the backend is the saved one, durably
\* (dispatcher.go process, deliver), for any number of requests, faults,
\* crashes and restarts in another mode.
THEOREM SentReceiptsAreSaved == Spec => []SentIsSaved
<1>1. ApprovalInv => SentIsSaved
  BY Zenon DEF ApprovalInv, HistoryInv, SentIsSaved, Durable
<1> QED
  BY <1>1, ApprovalInvariant, PTL

\* An execution admitted to MPC rests for ever on a durable applied approval
\* and on its own binding (sign_gate.go Authorize, journal.go BindExecution).
THEOREM AdmissionsRestOnEvidence == Spec => []AdmittedOnEvidence
<1>1. ASSUME ApprovalInv, NEW a \in admitted
      PROVE  /\ Durable(a[1], "receipt") # None /\ Durable(a[1], "receipt").decision = "APPROVED"
             /\ Durable(a[1], "ack") # None /\ Durable(a[1], "ack").disposition = "APPLIED"
             /\ Durable(a[1], "known") = a[2] /\ Durable(a[1], "execution") = a[2]
  <2>1. Evidence(journal, a[1], a[2])
    BY <1>1, Zenon DEF ApprovalInv, HistoryInv
  <2> QED
    BY <2>1, Zenon DEF Evidence, validateExecution, Durable
<1>2. ApprovalInv => AdmittedOnEvidence
  BY <1>1, Zenon DEF AdmittedOnEvidence
<1> QED
  BY <1>2, ApprovalInvariant, PTL

\* A hint for a saved receipt is dropped only with its acknowledgement on disk
\* or by a restart (dispatcher.go suppress, deliver, retrySavedHint): no sweep
\* of organization hints makes the dispatcher forget what it must deliver.
THEOREM SavedHintsStay == Spec => SavedHintsKept
<1> DEFINE Kept == \A key \in SavedHints(hints) \ Range(hints') :
                     journal'.disk[key.request].ack # None \/ crashes' # crashes
<1>1. ASSUME ApprovalInv, [Next]_vars PROVE Kept
  <2>0. JournalInv(journal) /\ DispatcherTypeOK /\ InHand /\ hints \in Seq(Keys)
    BY <1>1, Zenon DEF ApprovalInv, DispatcherTypeOK
  <2>1. hints' = hints => Kept
    BY DEF SavedHints
  <2>2. ASSUME NEW key \in Keys, suppress(key) PROVE Kept
    BY <2>0, <2>2, SuppressKeeps, Zenon DEF suppress, SavedHints
  <2>3. ASSUME NEW key \in Keys, forget(key), ~key.savedReceipt \/ journal'.disk[key.request].ack # None
        PROVE  Kept
    BY <2>0, <2>3, DeleteKeeps, Zenon DEF forget, SavedHints
  <2>4. CASE Dispatch
    <3>1. CASE RetrySavedHint
      <4>1. CASE DueSaved = {}
        BY <2>1, <3>1, <4>1, Zenon DEF RetrySavedHint
      <4>2. CASE DueSaved # {}
        <5>0. PICK i \in First(DueSaved) :
                \/ suppress(hints[i]) \/ hints' = hints
                \/ forget(hints[i]) /\ journal'.disk[hints[i].request].ack # None
          BY <3>1, <4>2, Zenon DEF RetrySavedHint
        <5> DEFINE key == hints[i]
        <5>1. key \in Keys
          BY <2>0, SavedHintInHand
        <5>2. \/ suppress(key) \/ hints' = hints
              \/ forget(key) /\ journal'.disk[key.request].ack # None
          BY <5>0, Zenon
        <5> HIDE DEF key
        <5> QED
          BY <2>1, <2>2, <2>3, <5>1, <5>2, Zenon
      <4> QED
        BY <4>1, <4>2, Zenon
    <3>2. CASE EvaluateLater
      <4>1. Key(cur, FALSE) \in Keys
        BY <2>0, <3>2, Zenon DEF EvaluateLater, InHand, Key, Keys
      <4> QED
        BY <2>2, <3>2, <4>1, Zenon DEF EvaluateLater
    <3>3. CASE Save
      <4>1. Key(cur, FALSE) \in Keys /\ ~Key(cur, FALSE).savedReceipt
        BY <2>0, <3>3, Zenon DEF Save, InHand, Key, Keys
      <4>2. hints' = hints \/ forget(Key(cur, FALSE))
        BY <3>3, Zenon DEF Save
      <4> QED
        BY <2>1, <2>3, <4>1, <4>2, Zenon
    <3>4. CASE SendFails
      <4>1. Key(cur, TRUE) \in Keys
        BY <2>0, <3>4, Zenon DEF SendFails, InHand, Key, Keys
      <4> QED
        BY <2>2, <3>4, <4>1, Zenon DEF SendFails
    <3>5. CASE AcknowledgeDecision
      <4>1. cur \in Requests /\ arg.disposition \in Dispositions
        BY <2>0, <3>5, Zenon DEF AcknowledgeDecision, InHand, Acknowledgements
      <4>2. Key(cur, TRUE) \in Keys /\ Key(cur, TRUE).request = cur
        BY <4>1 DEF Key, Keys
      <4>3. PICK o \in Acknowledge(journal, cur, arg.disposition) :
              /\ journal' = o.j
              /\ IF o.err = "none" THEN forget(Key(cur, TRUE)) ELSE suppress(Key(cur, TRUE))
        BY <3>5, Zenon DEF AcknowledgeDecision
      <4>4. o.err = "none" => journal'.disk[cur].ack # None
        BY <2>0, <4>1, <4>3, AcknowledgeKeeps, Zenon
      <4> QED
        BY <2>2, <2>3, <4>2, <4>3, <4>4, Zenon
    <3>6. CASE \/ BeginStep \/ PendingReceipts \/ FetchPage \/ FetchFails \/ Process
               \/ EvaluateFinal \/ SendAnswered
      <4>1. hints' = hints
        BY <3>6, Zenon DEF BeginStep, PendingReceipts, FetchPage, FetchFails, Process, EvaluateFinal, SendAnswered
      <4> QED
        BY <2>1, <4>1, Zenon
    <3> QED
      BY <2>4, <3>1, <3>2, <3>3, <3>4, <3>5, <3>6, Zenon DEF Dispatch, DispatcherStep
  <2>5. CASE Environment \/ Gate \/ UNCHANGED vars
    <3>1. hints' = hints
      BY <2>5, Zenon DEF Environment, HintDue, BackendCancels, Gate, SignClaimed, Authorize, SignExpires, Bind,
                  vars, dispVars
    <3> QED
      BY <2>1, <3>1, Zenon
  <2>6. CASE Crash
    <3>1. crashes \in Nat /\ crashes' = crashes + 1
      BY <1>1, <2>6, Zenon DEF ApprovalInv, Crash
    <3> QED
      BY <3>1
  <2> QED
    BY <1>1, <2>4, <2>5, <2>6, Zenon DEF Next
<1>2. ASSUME ApprovalInv, [Next]_vars PROVE [Kept]_vars
  BY <1>1, <1>2, Zenon
<1> QED
  BY <1>2, ApprovalInvariant, PTL DEF Spec, SavedHintsKept

\* An entry of the ledger is what is durable of a file.
LEMMA DurableKept ==
  ASSUME Keeps(journal, journal'), NEW r \in Requests, NEW kind \in Kinds
  PROVE  Durable(r, kind) = None \/ Durable(r, kind)' = Durable(r, kind)
  BY Zenon DEF Keeps, Durable

\* The journal implements the ledger: durable settings, decision, application
\* and execution are written once, in this order, and a decision was taken
\* under the settings its request was admitted with (journal.go).  Each step
\* of the dispatcher, the gate or a crash is a Record step of the ledger.
THEOREM RefinesLedger == Spec => ImplementsLedger
<1>1. Init => Ledger!Init
  <2>1. Init => \A r \in Requests, kind \in Kinds : Durable(r, kind) = None
    BY DEF Init, EmptyJournal, Durable
  <2> QED
    BY <2>1 DEF Ledger!Init, Kinds
<1>2. ASSUME ApprovalInv, [Next]_vars PROVE [Ledger!Record]_(Ledger!ledger)
  <2> DEFINE settings == [r \in Requests |-> Durable(r, "admission")]
             decision == [r \in Requests |-> Durable(r, "receipt")]
             application == [r \in Requests |-> Durable(r, "ack")]
             execution == [r \in Requests |-> IF Durable(r, "known") = None THEN None ELSE Durable(r, "execution")]
  <2>0. JournalInv(journal') /\ Keeps(journal, journal')
    BY <1>2, JournalStep
  <2>1. \A kind \in {"admission", "receipt", "ack", "known", "execution"} : kind \in Kinds
    BY DEF Kinds
  <2>2. /\ \A r \in Requests : settings[r] = None \/ settings'[r] = settings[r]
        /\ \A r \in Requests : decision[r] = None \/ decision'[r] = decision[r]
        /\ \A r \in Requests : application[r] = None \/ application'[r] = application[r]
    BY <2>0, <2>1, DurableKept, Zenon
  <2>3. ASSUME NEW r \in Requests PROVE execution[r] = None \/ execution'[r] = execution[r]
    <3>1. /\ Durable(r, "known") = None \/ Durable(r, "known")' = Durable(r, "known")
          /\ Durable(r, "execution") = None \/ Durable(r, "execution")' = Durable(r, "execution")
      BY <2>0, <2>1, DurableKept, Zenon
    <3> QED
      BY <3>1, Zenon
  <2>4. ASSUME NEW r \in Requests
        PROVE  /\ decision'[r] # None => settings'[r] # None /\ validateReceipt(settings'[r], decision'[r])
               /\ application'[r] # None => decision'[r] # None
               /\ execution'[r] # None =>
                    /\ application'[r] # None /\ decision'[r].decision = "APPROVED"
                    /\ application'[r].disposition = "APPLIED"
    <3>1. RestsOn(journal', r) /\ \A kind \in Kinds : <<r, kind>> \in journal'.synced => journal'.disk[r][kind] # None
      BY <2>0, Zenon DEF JournalInv, Visible
    <3>2. /\ settings'[r] = IF <<r, "admission">> \in journal'.synced THEN journal'.disk[r].admission ELSE None
          /\ decision'[r] = IF <<r, "receipt">> \in journal'.synced THEN journal'.disk[r].receipt ELSE None
          /\ application'[r] = IF <<r, "ack">> \in journal'.synced THEN journal'.disk[r].ack ELSE None
          /\ execution'[r] # None => journal'.disk[r].known # None
      BY Zenon DEF Durable
    <3> HIDE DEF settings, decision, application, execution
    <3>3. decision'[r] # None => settings'[r] # None /\ validateReceipt(settings'[r], decision'[r])
      BY <3>1, <3>2, Zenon DEF RestsOn
    <3>4. application'[r] # None => decision'[r] # None
      BY <3>1, <3>2, Zenon DEF RestsOn
    <3>5. ASSUME execution'[r] # None
          PROVE  /\ application'[r] # None /\ decision'[r].decision = "APPROVED"
                 /\ application'[r].disposition = "APPLIED"
      <4>1. validateExecution(journal'.disk[r]) /\ <<r, "ack">> \in journal'.synced
        BY <3>1, <3>2, <3>5, Zenon DEF RestsOn
      <4>2. <<r, "receipt">> \in journal'.synced
        BY <3>1, <4>1, Zenon DEF RestsOn, validateExecution
      <4> QED
        BY <3>2, <4>1, <4>2, Zenon DEF validateExecution
    <3> QED
      BY <3>3, <3>4, <3>5, Zenon
  <2>5. Ledger!Record
    BY <2>2, <2>3, <2>4, Zenon DEF Ledger!Record, Ledger!WriteOnce
  <2> QED
    BY <2>5
<1> QED
  BY <1>1, <1>2, ApprovalInvariant, PTL DEF Spec, ImplementsLedger, Ledger!Spec

=============================================================================

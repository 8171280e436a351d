---------------------------- MODULE JournalProofs ----------------------------
(***************************************************************************)
(* What every operation on the approval journal keeps, whatever process    *)
(* performs it and wherever a crash cuts the writes that are not synced:   *)
(* the lemmas under the proofs of the dispatcher and of the SIGN gate.     *)
(***************************************************************************)
EXTENDS ApprovalJournal, TLAPS

-----------------------------------------------------------------------------
(* The journal's files.                                                    *)

Admissions == [mode : Modes, hash : Hashes]
Receipts == [decision : Decisions, hash : Hashes, source : Modes, number : Nat]
Acknowledgements == [receipt : Receipts, disposition : Dispositions]

\* What a file of each kind holds.
Contents ==
  [admission |-> Admissions, receipt |-> Receipts, ack |-> Acknowledgements,
   known |-> Bindings, execution |-> Bindings]

Files == Admissions \cup Receipts \cup Acknowledgements \cup Bindings \cup {None}

JournalType(j) ==
  /\ j \in [disk : [Requests -> [Kinds -> Files]], synced : SUBSET (Requests \X Kinds), faults : Nat]
  /\ \A r \in Requests, k \in Kinds : j.disk[r][k] \in Contents[k] \cup {None}

\* Each file agrees with the one it rests on, which is durable before the file
\* is even visible: a power loss takes files away in reverse order only.
RestsOn(j, r) ==
  LET s == j.disk[r]
  IN /\ s.receipt # None =>
          s.admission # None /\ validateReceipt(s.admission, s.receipt) /\ <<r, "admission">> \in j.synced
     /\ s.ack # None => s.receipt # None /\ <<r, "receipt">> \in j.synced
     /\ s.known # None => validateExecution(s) /\ <<r, "ack">> \in j.synced
     /\ s.execution # None => s.known = s.execution /\ <<r, "known">> \in j.synced

JournalInv(j) ==
  /\ JournalType(j)
  /\ j.synced \subseteq Visible(j)
  /\ \A r \in Requests : RestsOn(j, r)

\* Durable files are kept as they are; without a crash visible ones are too.
Keeps(j, k) ==
  \A r \in Requests, kind \in Kinds :
    <<r, kind>> \in j.synced => <<r, kind>> \in k.synced /\ k.disk[r][kind] = j.disk[r][kind]

Grows(j, k) ==
  /\ Keeps(j, k)
  /\ \A r \in Requests, kind \in Kinds :
       j.disk[r][kind] # None => k.disk[r][kind] = j.disk[r][kind]

LEMMA ContentsPresent ==
  ASSUME NEW kind \in Kinds, NEW value \in Contents[kind]
  PROVE  value # None /\ value \in Files
<1>1. CASE kind \in {"known", "execution"}
  <2>1. value \in Bindings
    BY <1>1 DEF Contents
  <2> QED
    BY <2>1, JournalAssumption DEF Files
<1>2. CASE kind \in {"admission", "receipt", "ack"}
  <2>1. value \in Admissions \cup Receipts \cup Acknowledgements
    BY <1>2 DEF Contents
  <2>2. value # None
    BY <2>1 DEF None, Admissions, Receipts, Acknowledgements
  <2> QED
    BY <2>1, <2>2 DEF Files
<1> QED
  BY <1>1, <1>2 DEF Kinds

\* fsync changes no file; when it succeeds every visible name is durable.
LEMMA SyncOutcome ==
  ASSUME NEW j, JournalType(j), NEW o \in SyncDirectory(j)
  PROVE  /\ JournalType(o.j) /\ o.j.disk = j.disk
         /\ o.j.synced = j.synced \/ o.j.synced = Visible(j)
         /\ o.err = "none" => o.j.synced = Visible(j)
<1>1. CASE o = Ok([j EXCEPT !.synced = Visible(j)])
  BY <1>1, Zenon DEF JournalType, Ok, Visible
<1>2. CASE o \in IOError(j)
  BY <1>2 DEF JournalType, IOError, Fail
<1> QED
  BY <1>1, <1>2 DEF SyncDirectory

\* A put writes the value where nothing was, or leaves the files alone; when it
\* succeeds the value is there and every visible name is durable.
LEMMA PutOutcome ==
  ASSUME NEW j, JournalType(j), NEW r \in Requests, NEW kind \in Kinds, NEW value \in Contents[kind],
         NEW o \in put(j, r, kind, value)
  PROVE  /\ JournalType(o.j)
         /\ \/ o.j.disk = j.disk
            \/ /\ j.disk[r][kind] = None
               /\ o.j.disk = [j.disk EXCEPT ![r] = [j.disk[r] EXCEPT ![kind] = value]]
         /\ o.j.synced = j.synced \/ o.j.synced = Visible(o.j)
         /\ o.err = "none" => o.j.disk[r][kind] = value /\ o.j.synced = Visible(o.j)
<1> DEFINE w == [j EXCEPT !.disk[r][kind] = value]
<1>1. CASE j.disk[r][kind] = None
  <2>0. put(j, r, kind, value) = publishJournalFile(j, r, kind, value)
    BY <1>1, ContentsPresent DEF put
  <2>1. o \in IOError(j) \/ o \in SyncDirectory(w)
    BY <2>0 DEF publishJournalFile
  <2>2. CASE o \in IOError(j)
    BY <2>2 DEF IOError, Fail, JournalType
  <2>3. CASE o \in SyncDirectory(w)
    <3>1. /\ w.disk = [j.disk EXCEPT ![r] = [j.disk[r] EXCEPT ![kind] = value]]
          /\ w.synced = j.synced /\ w.disk[r][kind] = value
      BY DEF JournalType
    <3>2. JournalType(w)
      <4>1. value \in Files
        BY ContentsPresent
      <4>2. w \in [disk : [Requests -> [Kinds -> Files]], synced : SUBSET (Requests \X Kinds), faults : Nat]
        BY <4>1, Zenon DEF JournalType
      <4>3. \A q \in Requests, k \in Kinds : w.disk[q][k] \in Contents[k] \cup {None}
        BY <3>1 DEF JournalType
      <4> QED
        BY <4>2, <4>3, Zenon DEF JournalType
    <3> HIDE DEF w
    <3>3. /\ JournalType(o.j) /\ o.j.disk = w.disk
          /\ o.j.synced = w.synced \/ o.j.synced = Visible(w)
          /\ o.err = "none" => o.j.synced = Visible(w)
      BY <2>3, <3>2, SyncOutcome
    <3>4. Visible(o.j) = Visible(w)
      BY <3>3, Zenon DEF Visible
    <3> QED
      BY <1>1, <3>1, <3>3, <3>4, Zenon
  <2> QED
    BY <2>1, <2>2, <2>3, Zenon
<1>2. CASE j.disk[r][kind] = value
  <2>1. o \in SyncDirectory(j)
    BY <1>2, ContentsPresent DEF put
  <2>2. /\ JournalType(o.j) /\ o.j.disk = j.disk
        /\ o.j.synced = j.synced \/ o.j.synced = Visible(j)
        /\ o.err = "none" => o.j.synced = Visible(j)
    BY <2>1, SyncOutcome
  <2>3. Visible(o.j) = Visible(j)
    BY <2>2, Zenon DEF Visible
  <2> QED
    BY <1>2, <2>2, <2>3, Zenon
<1>3. CASE j.disk[r][kind] # None /\ j.disk[r][kind] # value
  <2>1. o = Fail(j, "conflict")
    BY <1>3 DEF put
  <2> QED
    BY <2>1 DEF Fail
<1> QED
  BY <1>1, <1>2, <1>3, Zenon

\* When everything visible is durable, a put whose value rests on what is there
\* keeps the invariant.
LEMMA PutKeeps ==
  ASSUME NEW j, JournalInv(j), j.synced = Visible(j),
         NEW r \in Requests, NEW kind \in Kinds, NEW value \in Contents[kind],
         kind = "receipt" => j.disk[r].admission # None /\ validateReceipt(j.disk[r].admission, value),
         kind = "ack" => j.disk[r].receipt # None,
         kind = "known" => validateExecution(j.disk[r]),
         kind = "execution" => j.disk[r].known = value,
         NEW o \in put(j, r, kind, value)
  PROVE  /\ JournalInv(o.j) /\ Grows(j, o.j)
         /\ o.err = "none" => o.j.disk[r][kind] = value /\ o.j.synced = Visible(o.j)
<1>1. /\ JournalType(o.j)
      /\ \/ o.j.disk = j.disk
         \/ /\ j.disk[r][kind] = None
            /\ o.j.disk = [j.disk EXCEPT ![r] = [j.disk[r] EXCEPT ![kind] = value]]
      /\ o.j.synced = j.synced \/ o.j.synced = Visible(o.j)
      /\ o.err = "none" => o.j.disk[r][kind] = value /\ o.j.synced = Visible(o.j)
  BY PutOutcome DEF JournalInv
<1>2. \A q \in Requests, k \in Kinds : j.disk[q][k] # None => o.j.disk[q][k] = j.disk[q][k]
  BY <1>1 DEF JournalInv, JournalType
<1>3. Visible(j) \subseteq Visible(o.j)
  BY <1>2 DEF Visible
<1>4. Grows(j, o.j) /\ o.j.synced \subseteq Visible(o.j)
  BY <1>1, <1>2, <1>3, Zenon DEF Grows, Keeps, Visible
<1>5. ASSUME NEW q \in Requests PROVE RestsOn(o.j, q)
  <2>1. RestsOn(j, q)
    BY DEF JournalInv
  <2>2. CASE o.j.disk[q] = j.disk[q]
    BY <1>1, <1>3, <2>1, <2>2, Zenon DEF RestsOn
  <2>3. CASE o.j.disk[q] # j.disk[q]
    <3>1. /\ q = r /\ j.disk[r][kind] = None
          /\ o.j.disk[r] = [j.disk[r] EXCEPT ![kind] = value]
          /\ j.disk[r] \in [Kinds -> Files]
      BY <1>1, <2>3, Zenon DEF JournalInv, JournalType
    <3>2. \A k \in Kinds : j.disk[r][k] # None => <<r, k>> \in o.j.synced
      BY <1>1, <1>3, Zenon DEF Visible
    <3>3. CASE kind = "admission"
      BY <2>1, <3>1, <3>2, <3>3, Zenon DEF RestsOn, Kinds, validateExecution
    <3>4. CASE kind = "receipt"
      BY <2>1, <3>1, <3>2, <3>4, Zenon DEF RestsOn, Kinds, validateExecution
    <3>5. CASE kind = "ack"
      BY <2>1, <3>1, <3>2, <3>5, Zenon DEF RestsOn, Kinds, validateExecution
    <3>6. CASE kind = "known"
      BY <2>1, <3>1, <3>2, <3>6, Zenon DEF RestsOn, Kinds, validateExecution
    <3>7. CASE kind = "execution"
      BY <2>1, <3>1, <3>2, <3>7, ContentsPresent DEF RestsOn, Kinds, validateExecution
    <3> QED
      BY <3>3, <3>4, <3>5, <3>6, <3>7, Zenon DEF Kinds
  <2> QED
    BY <2>2, <2>3, Zenon
<1> QED
  BY <1>1, <1>4, <1>5, Zenon DEF JournalInv

\* A load changes no file; when it succeeds the request's files are consistent
\* and every visible name is durable.
LEMMA LoadKeeps ==
  ASSUME NEW j, JournalInv(j), NEW r \in Requests, NEW o \in Load(j, r)
  PROVE  /\ JournalInv(o.j) /\ Grows(j, o.j) /\ o.j.disk = j.disk
         /\ o.err = "none" => o.j.synced = Visible(o.j) /\ Consistent(o.j.disk[r])
<1>1. CASE ~Consistent(j.disk[r])
  <2>1. o = Fail(j, "integrity")
    BY <1>1 DEF Load
  <2> QED
    BY <2>1 DEF Fail, Grows, Keeps
<1>2. CASE Consistent(j.disk[r])
  <2>1. /\ JournalType(o.j) /\ o.j.disk = j.disk
        /\ o.j.synced = j.synced \/ o.j.synced = Visible(j)
        /\ o.err = "none" => o.j.synced = Visible(j)
    BY <1>2, SyncOutcome, Zenon DEF Load, JournalInv
  <2>2. Visible(o.j) = Visible(j)
    BY <2>1, Zenon DEF Visible
  <2>3. j.synced \subseteq o.j.synced /\ o.j.synced \subseteq Visible(o.j)
    BY <2>1, <2>2 DEF JournalInv
  <2>4. \A q \in Requests : RestsOn(o.j, q)
    BY <2>1, <2>3, Zenon DEF JournalInv, RestsOn
  <2> QED
    BY <1>2, <2>1, <2>2, <2>3, <2>4, Zenon DEF JournalInv, Grows, Keeps
<1> QED
  BY <1>1, <1>2, Zenon

LEMMA GrowsTransitive ==
  ASSUME NEW j, NEW k, NEW l, Grows(j, k), Grows(k, l)
  PROVE  Grows(j, l)
  BY DEF Grows, Keeps

\* Each operation of the journal keeps the invariant and what is there.
LEMMA AdmitKeeps ==
  ASSUME NEW j, JournalInv(j), NEW r \in Requests, NEW admission \in Admissions,
         NEW o \in Admit(j, r, admission)
  PROVE  JournalInv(o.j) /\ Grows(j, o.j)
<1>1. \/ o \in Load(j, r)
      \/ \E p \in Load(j, r) :
           /\ p.err = "none"
           /\ \/ o \in put(p.j, r, "admission", admission)
              \/ o \in {Ok(p.j), Fail(p.j, "conflict")}
  BY Zenon DEF Admit, Then
<1>2. CASE o \in Load(j, r)
  BY <1>2, LoadKeeps
<1>3. ASSUME NEW p \in Load(j, r), p.err = "none", o \in put(p.j, r, "admission", admission)
      PROVE  JournalInv(o.j) /\ Grows(j, o.j)
  <2>1. JournalInv(p.j) /\ Grows(j, p.j) /\ p.j.synced = Visible(p.j)
    BY <1>3, LoadKeeps
  <2>2. "admission" \in Kinds /\ admission \in Contents["admission"]
    BY DEF Kinds, Contents
  <2>3. JournalInv(o.j) /\ Grows(p.j, o.j)
    BY <1>3, <2>1, <2>2, PutKeeps, Zenon
  <2> QED
    BY <2>1, <2>3, GrowsTransitive
<1>4. ASSUME NEW p \in Load(j, r), o \in {Ok(p.j), Fail(p.j, "conflict")}
      PROVE  JournalInv(o.j) /\ Grows(j, o.j)
  BY <1>4, LoadKeeps DEF Ok, Fail
<1> QED
  BY <1>1, <1>2, <1>3, <1>4, Zenon

LEMMA SaveReceiptKeeps ==
  ASSUME NEW j, JournalInv(j), NEW r \in Requests, NEW receipt \in Receipts,
         NEW o \in SaveReceipt(j, r, receipt)
  PROVE  /\ JournalInv(o.j) /\ Grows(j, o.j)
         /\ o.err = "none" => o.j.disk[r].receipt = receipt /\ <<r, "receipt">> \in o.j.synced
<1>1. \/ o \in Load(j, r) /\ o.err # "none"
      \/ \E p \in Load(j, r) :
           /\ p.err = "none"
           /\ \/ /\ p.j.disk[r].admission # None /\ validateReceipt(p.j.disk[r].admission, receipt)
                 /\ o \in put(p.j, r, "receipt", receipt)
              \/ o = Fail(p.j, "integrity")
  BY Zenon DEF SaveReceipt, Then
<1>2. CASE o \in Load(j, r) /\ o.err # "none"
  BY <1>2, LoadKeeps, Zenon
<1>3. ASSUME NEW p \in Load(j, r), p.err = "none",
             p.j.disk[r].admission # None, validateReceipt(p.j.disk[r].admission, receipt),
             o \in put(p.j, r, "receipt", receipt)
      PROVE  /\ JournalInv(o.j) /\ Grows(j, o.j)
             /\ o.err = "none" => o.j.disk[r].receipt = receipt /\ <<r, "receipt">> \in o.j.synced
  <2>1. JournalInv(p.j) /\ Grows(j, p.j) /\ p.j.synced = Visible(p.j)
    BY <1>3, LoadKeeps, Zenon
  <2>2. "receipt" \in Kinds /\ receipt \in Contents["receipt"]
    BY DEF Kinds, Contents
  <2>3. /\ JournalInv(o.j) /\ Grows(p.j, o.j)
        /\ o.err = "none" => o.j.disk[r]["receipt"] = receipt /\ o.j.synced = Visible(o.j)
    BY <1>3, <2>1, <2>2, PutKeeps
  <2>4. receipt # None
    BY <2>2, ContentsPresent
  <2> QED
    BY <2>1, <2>2, <2>3, <2>4, GrowsTransitive, Zenon DEF Visible
<1>4. ASSUME NEW p \in Load(j, r), o = Fail(p.j, "integrity")
      PROVE  JournalInv(o.j) /\ Grows(j, o.j) /\ o.err # "none"
  BY <1>4, LoadKeeps, Zenon DEF Fail
<1> QED
  BY <1>1, <1>2, <1>3, <1>4, Zenon

LEMMA AcknowledgeKeeps ==
  ASSUME NEW j, JournalInv(j), NEW r \in Requests, NEW disposition \in Dispositions,
         NEW o \in Acknowledge(j, r, disposition)
  PROVE  /\ JournalInv(o.j) /\ Grows(j, o.j)
         /\ o.err = "none" => o.j.disk[r].ack # None
<1>1. \/ o \in Load(j, r) /\ o.err # "none"
      \/ \E p \in Load(j, r) :
           /\ p.err = "none"
           /\ \/ /\ p.j.disk[r].receipt # None
                 /\ o \in put(p.j, r, "ack", [receipt |-> p.j.disk[r].receipt, disposition |-> disposition])
              \/ o = Fail(p.j, "integrity")
  BY Zenon DEF Acknowledge, Then
<1>2. CASE o \in Load(j, r) /\ o.err # "none"
  BY <1>2, LoadKeeps, Zenon
<1>3. ASSUME NEW p \in Load(j, r), p.err = "none", p.j.disk[r].receipt # None,
             o \in put(p.j, r, "ack", [receipt |-> p.j.disk[r].receipt, disposition |-> disposition])
      PROVE  /\ JournalInv(o.j) /\ Grows(j, o.j)
             /\ o.err = "none" => o.j.disk[r].ack # None
  <2> DEFINE ack == [receipt |-> p.j.disk[r].receipt, disposition |-> disposition]
  <2>1. JournalInv(p.j) /\ Grows(j, p.j) /\ p.j.synced = Visible(p.j)
    BY <1>3, LoadKeeps, Zenon
  <2>2. "ack" \in Kinds /\ "receipt" \in Kinds
    BY DEF Kinds
  <2>3. p.j.disk[r]["receipt"] \in Contents["receipt"]
    BY <1>3, <2>1, <2>2, Zenon DEF JournalInv, JournalType
  <2>4. ack \in Contents["ack"] /\ ack # None
    BY <2>2, <2>3, ContentsPresent, Zenon DEF Contents, Acknowledgements
  <2> HIDE DEF ack
  <2>5. /\ JournalInv(o.j) /\ Grows(p.j, o.j)
        /\ o.err = "none" => o.j.disk[r]["ack"] = ack
    BY <1>3, <2>1, <2>2, <2>4, PutKeeps DEF ack
  <2> QED
    BY <2>1, <2>4, <2>5, GrowsTransitive, Zenon
<1>4. ASSUME NEW p \in Load(j, r), o = Fail(p.j, "integrity")
      PROVE  JournalInv(o.j) /\ Grows(j, o.j) /\ o.err # "none"
  BY <1>4, LoadKeeps, Zenon DEF Fail
<1> QED
  BY <1>1, <1>2, <1>3, <1>4, Zenon

\* The evidence an execution of request r with binding b rests on.
Evidence(j, r, b) ==
  /\ \A kind \in {"receipt", "ack", "known", "execution"} : <<r, kind>> \in j.synced
  /\ validateExecution(j.disk[r])
  /\ j.disk[r].known = b /\ j.disk[r].execution = b

LEMMA BindExecutionKeeps ==
  ASSUME NEW j, JournalInv(j), NEW r \in Requests, NEW b \in Bindings,
         NEW o \in BindExecution(j, r, b)
  PROVE  /\ JournalInv(o.j) /\ Grows(j, o.j)
         /\ o.err = "none" => Evidence(o.j, r, b)
<1>0. /\ "known" \in Kinds /\ "execution" \in Kinds
      /\ b \in Contents["known"] /\ b \in Contents["execution"] /\ b # None
  BY JournalAssumption DEF Kinds, Contents
<1>1. \/ o \in Load(j, r) /\ o.err # "none"
      \/ \E p \in Load(j, r) :
           /\ p.err = "none"
           /\ \/ o = Fail(p.j, "integrity")
              \/ /\ validateExecution(p.j.disk[r])
                 /\ \/ o \in put(p.j, r, "known", b) /\ o.err # "none"
                    \/ \E q \in put(p.j, r, "known", b) : q.err = "none" /\ o \in put(q.j, r, "execution", b)
  BY DEF BindExecution, Then, Fail
<1>2. CASE o \in Load(j, r) /\ o.err # "none"
  BY <1>2, LoadKeeps
<1>3. ASSUME NEW p \in Load(j, r), o = Fail(p.j, "integrity")
      PROVE  JournalInv(o.j) /\ Grows(j, o.j) /\ o.err # "none"
  BY <1>3, LoadKeeps, Zenon DEF Fail
<1>4. ASSUME NEW p \in Load(j, r), p.err = "none", validateExecution(p.j.disk[r]),
             NEW q \in put(p.j, r, "known", b)
      PROVE  /\ JournalInv(q.j) /\ Grows(j, q.j)
             /\ q.err = "none" => q.j.disk[r]["known"] = b /\ q.j.synced = Visible(q.j)
  <2>1. JournalInv(p.j) /\ Grows(j, p.j) /\ p.j.synced = Visible(p.j)
    BY <1>4, LoadKeeps, Zenon
  <2>2. /\ JournalInv(q.j) /\ Grows(p.j, q.j)
        /\ q.err = "none" => q.j.disk[r]["known"] = b /\ q.j.synced = Visible(q.j)
    BY <1>0, <1>4, <2>1, PutKeeps
  <2> QED
    BY <2>1, <2>2, GrowsTransitive, Zenon
<1>5. ASSUME NEW q, JournalInv(q.j), Grows(j, q.j), q.j.disk[r]["known"] = b, q.j.synced = Visible(q.j),
             o \in put(q.j, r, "execution", b)
      PROVE  /\ JournalInv(o.j) /\ Grows(j, o.j)
             /\ o.err = "none" => Evidence(o.j, r, b)
  <2>1. /\ JournalInv(o.j) /\ Grows(q.j, o.j)
        /\ o.err = "none" => o.j.disk[r]["execution"] = b /\ o.j.synced = Visible(o.j)
    BY <1>0, <1>5, PutKeeps
  <2>2. ASSUME o.err = "none" PROVE Evidence(o.j, r, b)
    <3>1. RestsOn(o.j, r) /\ o.j.disk[r].execution = b /\ o.j.synced = Visible(o.j)
      BY <2>1, <2>2, Zenon DEF JournalInv
    <3>2. /\ o.j.disk[r].known = b /\ validateExecution(o.j.disk[r])
          /\ <<r, "ack">> \in o.j.synced /\ <<r, "known">> \in o.j.synced /\ <<r, "receipt">> \in o.j.synced
      BY <1>0, <3>1, Zenon DEF RestsOn, validateExecution
    <3>3. <<r, "execution">> \in o.j.synced
      BY <1>0, <3>1, Zenon DEF Visible
    <3> QED
      BY <3>1, <3>2, <3>3, Zenon DEF Evidence
  <2> QED
    BY <1>5, <2>1, <2>2, GrowsTransitive, Zenon
<1>6. ASSUME NEW p \in Load(j, r), p.err = "none", validateExecution(p.j.disk[r]),
             NEW q \in put(p.j, r, "known", b), q.err = "none", o \in put(q.j, r, "execution", b)
      PROVE  /\ JournalInv(o.j) /\ Grows(j, o.j)
             /\ o.err = "none" => Evidence(o.j, r, b)
  BY <1>4, <1>5, <1>6, Zenon
<1> QED
  BY <1>1, <1>2, <1>3, <1>4, <1>6, Zenon

\* A restart, after a power loss or not, loses no durable file.
LEMMA ReopenKeeps ==
  ASSUME NEW j, JournalInv(j), NEW lost \in SUBSET (Visible(j) \ j.synced)
  PROVE  JournalInv(Reopen(j, lost)) /\ Keeps(j, Reopen(j, lost))
<1> DEFINE k == Reopen(j, lost)
<1>1. /\ k.disk = [r \in Requests |-> [f \in Kinds |-> IF <<r, f>> \in lost THEN None ELSE j.disk[r][f]]]
      /\ k.synced = Visible(j) \ lost
      /\ k \in [disk : [Requests -> [Kinds -> Files]], synced : SUBSET (Requests \X Kinds), faults : Nat]
  <2> DEFINE disk == [r \in Requests |-> [f \in Kinds |-> IF <<r, f>> \in lost THEN None ELSE j.disk[r][f]]]
             synced == Visible(j) \ lost
  <2>1. k = [j EXCEPT !.disk = disk, !.synced = synced]
    BY DEF Reopen
  <2>2. j \in [disk : [Requests -> [Kinds -> Files]], synced : SUBSET (Requests \X Kinds), faults : Nat]
    BY DEF JournalInv, JournalType
  <2>3. disk \in [Requests -> [Kinds -> Files]]
    BY <2>2, Zenon DEF Files
  <2>4. synced \in SUBSET (Requests \X Kinds)
    BY Zenon DEF Visible
  <2> HIDE DEF disk, synced, k
  <2>5. k.disk = disk /\ k.synced = synced
        /\ k \in [disk : [Requests -> [Kinds -> Files]], synced : SUBSET (Requests \X Kinds), faults : Nat]
    BY <2>1, <2>2, <2>3, <2>4, Zenon
  <2> QED
    BY <2>5, Zenon DEF disk, synced
<1> HIDE DEF k
<1>2. \A r \in Requests, f \in Kinds : k.disk[r][f] = IF <<r, f>> \in lost THEN None ELSE j.disk[r][f]
  BY <1>1
<1>3. JournalType(k)
  BY <1>1, <1>2 DEF JournalInv, JournalType
<1>4. k.synced \subseteq Visible(k) /\ j.synced \subseteq k.synced
  <2>1. lost \cap j.synced = {}
    OBVIOUS
  <2> QED
    BY <1>1, <1>2, <2>1 DEF JournalInv, Visible
<1>5. Keeps(j, k)
  BY <1>2, <1>4, Zenon DEF Keeps
<1>6. ASSUME NEW r \in Requests PROVE RestsOn(k, r)
  <2>1. RestsOn(j, r)
    BY DEF JournalInv
  <2>2. \A f \in Kinds : /\ k.disk[r][f] # None => j.disk[r][f] = k.disk[r][f]
                         /\ <<r, f>> \in j.synced => <<r, f>> \in k.synced /\ k.disk[r][f] = j.disk[r][f]
    BY <1>2, <1>4, Zenon
  <2>3. \A f \in {"admission", "receipt", "ack", "known", "execution"} : f \in Kinds
    BY DEF Kinds
  <2>4. k.disk[r].receipt # None => k.disk[r].admission # None
          /\ validateReceipt(k.disk[r].admission, k.disk[r].receipt) /\ <<r, "admission">> \in k.synced
    BY <2>1, <2>2, <2>3, Zenon DEF RestsOn
  <2>5. k.disk[r].ack # None => k.disk[r].receipt # None /\ <<r, "receipt">> \in k.synced
    BY <2>1, <2>2, <2>3, Zenon DEF RestsOn
  <2>6. k.disk[r].known # None => validateExecution(k.disk[r]) /\ <<r, "ack">> \in k.synced
    BY <2>1, <2>2, <2>3, Zenon DEF RestsOn, validateExecution
  <2>7. k.disk[r].execution # None => k.disk[r].known = k.disk[r].execution /\ <<r, "known">> \in k.synced
    BY <2>1, <2>2, <2>3, Zenon DEF RestsOn
  <2> QED
    BY <2>4, <2>5, <2>6, <2>7, Zenon DEF RestsOn
<1> QED
  BY <1>3, <1>4, <1>5, <1>6, Zenon DEF JournalInv, k
=============================================================================

--------------------------- MODULE AuditLogProofs ---------------------------
(***************************************************************************)
(* What holds of AuditLog for any number of bridges and requests.          *)
(*                                                                         *)
(* That what was sent was recorded needs to know, of every request that is *)
(* still on its way, whether its row is in the file already.  That the     *)
(* chain is intact needs _prev of the one bridge that runs to be the last  *)
(* hash, and the lock to keep it so between the hash and the insert.       *)
(***************************************************************************)
EXTENDS AuditLog, SequenceTheorems, WellFoundedInduction, TLAPS

OneRow(r) == \E i \in DOMAIN file : /\ RowsOf(r) = {i}
                                    /\ file[i].entry.answer = entry[r].answer

\* A request has no row before its insert, and one from then on.
Recorded ==
  damage = NoDamage =>
    \A r \in Requests :
      /\ stage[r] \in {"new", "executed", "hashed", "failed"} => RowsOf(r) = {}
      /\ stage[r] = "recorded" => OneRow(r)
      /\ sent[r] \in Answers => sent[r] = entry[r].answer /\ OneRow(r)

Unsent == \A r \in Requests : stage[r] # "done" => sent[r] = "nothing"

Named == \A r \in Requests : entry[r].request = r

RecordInv == TypeOK /\ Named /\ Unsent /\ Recorded

-----------------------------------------------------------------------------
LEMMA EntryType ==
  ASSUME NEW e \in Entries
  PROVE  /\ Stored(e) \in Entries
         /\ Stored(e).request = e.request
         /\ Stored(e).answer = e.answer
  BY DEF Stored, Entries

LEMMA RowType ==
  ASSUME NEW e \in Entries, NEW h \in Hashes
  PROVE  Row(h, e) \in Rows /\ RowHash(h, e) \in Hashes
  BY EntryType, AppendProperties DEF Row, Rows, RowHash, Hashes

LEMMA LastHashType ==
  ASSUME NEW f \in Seq(Rows)
  PROVE  LastHash(f) \in Hashes
  <1>1. Len(f) \in Nat
    BY LenProperties
  <1>2. CASE Len(f) = 0
    BY <1>2, EmptySeq DEF LastHash, HashBefore, Genesis, Hashes
  <1>3. CASE Len(f) # 0
    <2>1. f[Len(f)] \in Rows
      BY <1>1, <1>3, ElementOfSeq
    <2>2. QED BY <1>1, <1>3, <2>1 DEF LastHash, HashBefore, Rows
  <1>4. QED BY <1>2, <1>3

LEMMA ContentsType ==
  ASSUME NEW f \in Seq(Rows)
  PROVE  Contents(f) \in Seq(Entries)
  <1>1. Len(f) \in Nat /\ DOMAIN f = 1..Len(f) /\ \A i \in 1..Len(f) : f[i] \in Rows
    BY LenProperties, ElementOfSeq
  <1>2. QED BY <1>1 DEF Contents, Rows

-----------------------------------------------------------------------------
LEMMA InitType == Init => TypeOK
  BY EmptySeq DEF Init, TypeOK, Hashes, Rows, Genesis, NoDamage, NothingNoted

LEMMA ByHandType ==
  ASSUME TypeOK, ByHand
  PROVE  TypeOK'
  <1>0. Len(file) \in Nat /\ DOMAIN file = 1..Len(file)
        /\ \A i \in 1..Len(file) : file[i] \in Rows
    BY LenProperties, ElementOfSeq DEF TypeOK
  <1>1. ASSUME NEW kind \in {"change", "remove", "cut", "swap"}, NEW i \in DOMAIN file,
               NEW f \in Seq(Rows), DamageDone(kind, i, f)
        PROVE  TypeOK'
    <2>1. damage' \in [kind : {"none", "change", "remove", "cut", "swap"}, at : Nat]
      BY <1>0, <1>1 DEF DamageDone
    <2>2. QED BY <1>1, <2>1 DEF DamageDone, TypeOK, requestVars
  <1>2. ASSUME NEW i \in DOMAIN file, NEW e \in Entries, Change(i, e)
        PROVE  TypeOK'
    <2>1. [file[i] EXCEPT !.entry = Stored(e)] \in Rows
      BY <1>0, EntryType DEF Rows
    <2>2. [file EXCEPT ![i].entry = Stored(e)] \in Seq(Rows)
      BY <1>0, <2>1, ExceptSeq DEF TypeOK
    <2>3. QED BY <1>1, <1>2, <2>2 DEF Change
  <1>3. ASSUME NEW i \in DOMAIN file, Remove(i)
        PROVE  TypeOK'
    <2>1. /\ SubSeq(file, 1, i - 1) \in Seq(Rows)
          /\ SubSeq(file, i + 1, Len(file)) \in Seq(Rows)
      BY <1>0, SubSeqProperties
    <2>2. SubSeq(file, 1, i - 1) \o SubSeq(file, i + 1, Len(file)) \in Seq(Rows)
      BY <2>1, ConcatProperties
    <2>3. QED BY <1>1, <1>3, <2>2 DEF Remove
  <1>4. ASSUME NEW i \in DOMAIN file, Swap(i)
        PROVE  TypeOK'
    <2>1. i \in 1..Len(file) /\ i + 1 \in 1..Len(file)
      BY <1>0, <1>4 DEF Swap
    <2>2. /\ [file EXCEPT ![i] = file[i + 1]] \in Seq(Rows)
          /\ Len([file EXCEPT ![i] = file[i + 1]]) = Len(file)
      <3>1. file[i + 1] \in Rows
        BY <1>0, <2>1
      <3>2. file \in Seq(Rows)
        BY DEF TypeOK
      <3>3. QED BY ONLY <2>1, <3>1, <3>2, ExceptSeq
    <2>3. [[file EXCEPT ![i] = file[i + 1]] EXCEPT ![i + 1] = file[i]] \in Seq(Rows)
      BY <1>0, <2>1, <2>2, ExceptSeq
    <2>4. [file EXCEPT ![i] = file[i + 1], ![i + 1] = file[i]] \in Seq(Rows)
      BY <2>3
    <2>5. QED BY <1>1, <1>4, <2>4 DEF Swap
  <1>5. CASE Note
    BY <1>5, LastHashType, ContentsType DEF Note, TypeOK, requestVars
  <1>6. QED BY <1>2, <1>3, <1>4, <1>5 DEF ByHand

LEMMA NextType == TypeOK /\ [Next]_vars => TypeOK'
  <1> SUFFICES ASSUME TypeOK, [Next]_vars PROVE TypeOK'
    OBVIOUS
  <1> USE DEF TypeOK, requestVars
  <1>1. ASSUME NEW p \in Bridges, Start(p)
        PROVE  TypeOK'
    BY <1>1, LastHashType DEF Start
  <1>2. ASSUME NEW p \in Bridges, Crash(p)
        PROVE  TypeOK'
    BY <1>2 DEF Crash
  <1>3. ASSUME NEW r \in Requests, NoQuery(r) \/ Execute(r)
        PROVE  TypeOK'
    BY <1>3 DEF NoQuery, Execute
  <1>4. ASSUME NEW r \in Requests, Hash(r)
        PROVE  TypeOK'
    BY <1>4 DEF Hash
  <1>5. ASSUME NEW r \in Requests, Insert(r)
        PROVE  TypeOK'
    <2>1. /\ Row(link[r], entry[r]) \in Rows
          /\ RowHash(link[r], entry[r]) \in Hashes
      BY RowType
    <2>2. Append(file, Row(link[r], entry[r])) \in Seq(Rows)
      BY <2>1, AppendProperties
    <2>3. QED BY <1>5, <2>1, <2>2 DEF Insert
  <1>6. ASSUME NEW r \in Requests, InsertFails(r)
        PROVE  TypeOK'
    BY <1>6 DEF InsertFails
  <1>7. ASSUME NEW r \in Requests, Reply(r) \/ Withhold(r)
        PROVE  TypeOK'
    <2>1. entry[r].answer \in Answers
      BY DEF Entries
    <2>2. QED BY <1>7, <2>1 DEF Reply, Withhold, Send
  <1>8. CASE UNCHANGED vars
    BY <1>8 DEF vars
  <1>9. QED
    BY <1>1, <1>2, <1>3, <1>4, <1>5, <1>6, <1>7, <1>8, ByHandType DEF Next, Serve

\* AuditLog's type invariant.
THEOREM TypeCorrect == Spec => []TypeOK
  BY InitType, NextType, PTL DEF Spec

-----------------------------------------------------------------------------
(* What was sent was recorded.                                             *)

LEMMA InitRecorded == Init => RecordInv
  <1> SUFFICES ASSUME Init PROVE RecordInv
    OBVIOUS
  <1>1. DOMAIN file = {}
    BY EmptySeq, LenProperties DEF Init
  <1>2. Recorded
    BY <1>1, AuditAssumption DEF Init, Recorded, RowsOf, AuditAssumption
  <1>3. QED BY <1>2, InitType DEF Init, RecordInv, Named, Unsent

\* A new row is the only one of its request and leaves the others alone.
LEMMA InsertRows ==
  ASSUME TypeOK, Named, NEW r \in Requests, Insert(r)
  PROVE  /\ RowsOf(r)' = RowsOf(r) \cup {Len(file) + 1}
         /\ \A q \in Requests : q # r => RowsOf(q)' = RowsOf(q)
         /\ \A i \in DOMAIN file : i \in DOMAIN file' /\ file'[i] = file[i]
         /\ Len(file) + 1 \in DOMAIN file'
         /\ file'[Len(file) + 1].entry.answer = entry[r].answer
  <1> DEFINE row == Row(link[r], entry[r])
  <1>1. row \in Rows
    BY RowType DEF TypeOK
  <1>2. /\ file' \in Seq(Rows)
        /\ Len(file') = Len(file) + 1
        /\ \A i \in 1..Len(file) : file'[i] = file[i]
        /\ file'[Len(file) + 1] = row
    <2>1. file \in Seq(Rows) /\ file' = Append(file, row)
      BY DEF TypeOK, Insert
    <2>2. QED BY ONLY <1>1, <2>1, AppendProperties
  <1>3. /\ Len(file) \in Nat /\ DOMAIN file = 1..Len(file)
        /\ DOMAIN file' = 1..(Len(file) + 1)
    BY <1>2, LenProperties DEF TypeOK
  <1>4. row.entry.request = r /\ row.entry.answer = entry[r].answer
    BY EntryType DEF TypeOK, Named, Row
  <1>5. QED BY <1>2, <1>3, <1>4 DEF RowsOf

\* What the other steps of a request do: it moves on, and what it is sent, if
\* anything, was recorded or is no answer.
LEMMA MovesOn ==
  ASSUME TypeOK, Named, Unsent, Recorded, UNCHANGED <<file, entry, damage>>,
         NEW r \in Requests, NEW place, NEW what,
         stage[r] # "done",
         stage' = [stage EXCEPT ![r] = place],
         sent' = [sent EXCEPT ![r] = what],
         \/ place = "done"
         \/ /\ place \in {"executed", "hashed", "failed"}
            /\ stage[r] \in {"new", "executed", "hashed"}
            /\ what = "nothing",
         what \in Answers => what = entry[r].answer /\ stage[r] = "recorded"
  PROVE  Named' /\ Unsent' /\ Recorded'
  <1>1. \A q \in Requests : RowsOf(q)' = RowsOf(q) /\ (OneRow(q)' <=> OneRow(q))
    BY DEF RowsOf, OneRow
  <1>2. Named' /\ Unsent'
    BY DEF TypeOK, Named, Unsent
  <1>3. ASSUME damage = NoDamage, NEW q \in Requests
        PROVE  /\ stage'[q] \in {"new", "executed", "hashed", "failed"}
                  => RowsOf(q) = {}
               /\ stage'[q] = "recorded" => OneRow(q)
               /\ sent'[q] \in Answers => sent'[q] = entry[q].answer /\ OneRow(q)
    <2>1. CASE q = r
      BY <1>3, <2>1 DEF TypeOK, Recorded
    <2>2. CASE q # r
      BY <1>3, <2>2 DEF TypeOK, Recorded
    <2>3. QED BY <2>1, <2>2
  <1>4. QED BY <1>1, <1>2, <1>3 DEF Recorded

LEMMA NextRecorded == RecordInv /\ [Next]_vars => RecordInv'
  <1> SUFFICES ASSUME RecordInv, [Next]_vars PROVE RecordInv'
    OBVIOUS
  <1>0. TypeOK' /\ TypeOK /\ Named /\ Unsent /\ Recorded
    BY NextType DEF RecordInv
  <1> SUFFICES Named' /\ Unsent' /\ Recorded'
    BY <1>0 DEF RecordInv
  <1>1. ASSUME NEW p \in Bridges, Start(p)
        PROVE  Named' /\ Unsent' /\ Recorded'
    BY <1>0, <1>1 DEF Start, requestVars, Named, Unsent, Recorded, RowsOf, OneRow
  <1>2. ASSUME NEW p \in Bridges, Crash(p)
        PROVE  Named' /\ Unsent' /\ Recorded'
    <2>1. UNCHANGED <<file, entry, sent, damage>>
          /\ \A r \in Requests : stage'[r] \in {stage[r], "done"}
      BY <1>2 DEF Crash
    <2>2. QED BY <1>0, <2>1 DEF Named, Unsent, Recorded, RowsOf, OneRow
  <1>3. ASSUME NEW r \in Requests, NoQuery(r)
        PROVE  Named' /\ Unsent' /\ Recorded'
    <2>1. "no query" \notin Answers
      BY AuditAssumption DEF AuditAssumption
    <2>2. QED BY <1>0, <1>3, <2>1, MovesOn DEF NoQuery
  <1>4. ASSUME NEW r \in Requests, Execute(r) \/ Hash(r) \/ InsertFails(r)
        PROVE  Named' /\ Unsent' /\ Recorded'
    <2>1. sent[r] = "nothing" /\ "nothing" \notin Answers
      BY <1>0, <1>4, AuditAssumption DEF Execute, Hash, InsertFails, Unsent,
                                         AuditAssumption
    <2>2. sent' = [sent EXCEPT ![r] = "nothing"]
      BY <1>0, <1>4, <2>1 DEF Execute, Hash, InsertFails, TypeOK
    <2>3. QED BY <1>0, <1>4, <2>1, <2>2, MovesOn DEF Execute, Hash, InsertFails
  <1>5. ASSUME NEW r \in Requests, Insert(r)
        PROVE  Named' /\ Unsent' /\ Recorded'
    <2>1. UNCHANGED <<entry, sent, damage>>
          /\ stage' = [stage EXCEPT ![r] = "recorded"] /\ stage[r] = "hashed"
      BY <1>5 DEF Insert
    <2>2. Named' /\ Unsent'
      BY <1>0, <2>1 DEF TypeOK, Named, Unsent
    <2>3. ASSUME damage = NoDamage
          PROVE  OneRow(r)'
      <3>1. RowsOf(r) = {}
        BY <1>0, <2>1, <2>3 DEF Recorded
      <3>2. QED BY <1>0, <1>5, <2>1, <3>1, InsertRows DEF OneRow
    <2>4. ASSUME NEW q \in Requests, q # r
          PROVE  RowsOf(q)' = RowsOf(q) /\ (OneRow(q) => OneRow(q)')
      BY <1>0, <1>5, <2>1, <2>4, InsertRows DEF OneRow
    <2>5. sent[r] = "nothing" /\ "nothing" \notin Answers
      BY <1>0, <2>1, AuditAssumption DEF Unsent, AuditAssumption
    <2>6. ASSUME damage = NoDamage, NEW q \in Requests
          PROVE  /\ stage'[q] \in {"new", "executed", "hashed", "failed"}
                    => RowsOf(q)' = {}
                 /\ stage'[q] = "recorded" => OneRow(q)'
                 /\ sent[q] \in Answers => sent[q] = entry[q].answer /\ OneRow(q)'
      <3>1. CASE q = r
        BY <1>0, <2>1, <2>3, <2>5, <2>6, <3>1 DEF TypeOK
      <3>2. CASE q # r
        BY <1>0, <2>1, <2>4, <2>6, <3>2 DEF TypeOK, Recorded
      <3>3. QED BY <3>1, <3>2
    <2>7. QED BY <2>1, <2>2, <2>6 DEF Recorded
  <1>6. ASSUME NEW r \in Requests, Reply(r) \/ Withhold(r)
        PROVE  Named' /\ Unsent' /\ Recorded'
    <2>1. "withheld" \notin Answers
      BY AuditAssumption DEF AuditAssumption
    <2>2. CASE Reply(r)
      BY <1>0, <2>2, MovesOn DEF Reply, Send
    <2>3. CASE Withhold(r)
      BY <1>0, <2>1, <2>3, MovesOn DEF Withhold, Send
    <2>4. QED BY <1>6, <2>2, <2>3
  <1>7. CASE Note \/ UNCHANGED vars
    BY <1>0, <1>7 DEF Note, vars, requestVars, Named, Unsent, Recorded, RowsOf, OneRow
  <1>8. CASE ByHand /\ ~Note
    <2>1. UNCHANGED <<entry, stage, sent>>
      BY <1>8 DEF ByHand, Change, Remove, Swap, DamageDone, requestVars
    <2>2. damage' # NoDamage
      BY <1>8 DEF ByHand, Change, Remove, Swap, DamageDone, NoDamage
    <2>3. QED BY <1>0, <2>1, <2>2 DEF Named, Unsent, Recorded
  <1>9. QED
    BY <1>1, <1>2, <1>3, <1>4, <1>5, <1>6, <1>7, <1>8 DEF Next, Serve

\* Data that was not recorded is never handed out: with any number of bridges
\* sharing the file, whatever fails and whoever dies.
THEOREM NothingSentUnrecorded == Spec => []SentWasRecorded
  <1>1. RecordInv => SentWasRecorded
    BY DEF RecordInv, Recorded, SentWasRecorded, OneRow
  <1>2. QED BY <1>1, InitRecorded, NextRecorded, PTL DEF Spec

-----------------------------------------------------------------------------
(* The chain is intact.                                                    *)

OneBridge == \A p, q \in up : p = q

Serving == \A r \in Requests :
             stage[r] \in {"executed", "hashed", "recorded", "failed"} => by[r] \in up

Locked == \A r \in Requests :
            stage[r] = "hashed" => lock[by[r]] = r /\ link[r] = prev[by[r]]

Chained == damage = NoDamage =>
             Intact(file) /\ \A p \in up : prev[p] = LastHash(file)

ChainInv == TypeOK /\ OneBridge /\ Serving /\ Locked /\ Chained

TextOnly == ~MayShare /\ Forms \subseteq {"text"}

LEMMA AppendKeepsChain ==
  ASSUME NEW f \in Seq(Rows), NEW row \in Rows, Intact(f),
         row.prev_hash = LastHash(f), row.hash = RowHash(row.prev_hash, row.entry)
  PROVE  Intact(Append(f, row)) /\ LastHash(Append(f, row)) = row.hash
  <1> DEFINE g == Append(f, row)
  <1>1. /\ g \in Seq(Rows) /\ Len(g) = Len(f) + 1
        /\ \A i \in 1..Len(f) : g[i] = f[i]
        /\ g[Len(f) + 1] = row
    BY AppendProperties
  <1>2. Len(f) \in Nat /\ DOMAIN f = 1..Len(f) /\ DOMAIN g = 1..(Len(f) + 1)
    BY <1>1, LenProperties
  <1>3. \A i \in 1..(Len(f) + 1) : HashBefore(g, i) = HashBefore(f, i)
    BY <1>1, <1>2 DEF HashBefore
  <1>4. ASSUME NEW i \in DOMAIN g PROVE Matches(g, i)
    <2>1. CASE i \in 1..Len(f)
      BY <1>1, <1>2, <1>3, <2>1 DEF Intact, Matches
    <2>2. CASE i = Len(f) + 1
      BY <1>1, <1>3, <2>2, <1>2 DEF Matches, LastHash
    <2>3. QED BY <1>2, <1>4, <2>1, <2>2
  <1>5. LastHash(g) = row.hash
    BY <1>1, <1>2 DEF LastHash, HashBefore
  <1>6. QED BY <1>4, <1>5 DEF Intact

LEMMA StoredText ==
  ASSUME TextOnly, NEW e \in Entries
  PROVE  Stored(e) = e
  BY DEF TextOnly, Stored, Entries

LEMMA InitChain == Init => ChainInv
  <1> SUFFICES ASSUME Init PROVE ChainInv
    OBVIOUS
  <1>1. DOMAIN file = {}
    BY EmptySeq, LenProperties DEF Init
  <1>2. QED BY <1>1, InitType
            DEF Init, ChainInv, OneBridge, Serving, Locked, Chained, Intact

LEMMA NextChain == TextOnly /\ ChainInv /\ [Next]_vars => ChainInv'
  <1> SUFFICES ASSUME TextOnly, ChainInv, [Next]_vars PROVE ChainInv'
    OBVIOUS
  <1> USE DEF requestVars
  <1>0. TypeOK /\ TypeOK' /\ OneBridge /\ Serving /\ Locked /\ Chained
    BY NextType DEF ChainInv
  <1> SUFFICES OneBridge' /\ Serving' /\ Locked' /\ Chained'
    BY <1>0 DEF ChainInv
  <1>1. ASSUME NEW p \in Bridges, Start(p)
        PROVE  OneBridge' /\ Serving' /\ Locked' /\ Chained'
    <2>1. up = {} /\ up' = {p} /\ prev'[p] = LastHash(file)
      BY <1>0, <1>1 DEF Start, TextOnly, TypeOK
    <2>2. QED BY <1>0, <1>1, <2>1 DEF Start, OneBridge, Serving, Locked, Chained
  <1>2. ASSUME NEW p \in Bridges, Crash(p)
        PROVE  OneBridge' /\ Serving' /\ Locked' /\ Chained'
    BY <1>0, <1>2 DEF Crash, TypeOK, OneBridge, Serving, Locked, Chained
  <1>3. ASSUME NEW r \in Requests,
               NoQuery(r) \/ Execute(r) \/ Reply(r) \/ Withhold(r)
        PROVE  OneBridge' /\ Serving' /\ Locked' /\ Chained'
    <2>1. UNCHANGED <<file, up, prev, lock, by, link, damage>>
      BY <1>3 DEF NoQuery, Execute, Reply, Withhold, Send
    <2>2. \/ stage' = [stage EXCEPT ![r] = "done"]
          \/ stage' = [stage EXCEPT ![r] = "executed"] /\ by[r] \in up
      BY <1>3 DEF NoQuery, Execute, Reply, Withhold, Send
    <2>3. OneBridge' /\ Chained'
      BY <1>0, <2>1 DEF OneBridge, Chained
    <2>4. ASSUME NEW q \in Requests
          PROVE  \/ stage'[q] \in {stage[q], "done"}
                 \/ stage'[q] = "executed" /\ by[q] \in up
      <3>1. CASE q = r
        BY <1>0, <2>2, <3>1 DEF TypeOK
      <3>2. CASE q # r
        BY <1>0, <2>2, <3>2 DEF TypeOK
      <3>3. QED BY <3>1, <3>2
    <2>5. Serving' /\ Locked'
      BY <1>0, <2>1, <2>4 DEF Serving, Locked
    <2>6. QED BY <2>3, <2>5
  <1>4. ASSUME NEW r \in Requests, Hash(r)
        PROVE  OneBridge' /\ Serving' /\ Locked' /\ Chained'
    <2>1. OneBridge' /\ Serving' /\ Chained'
      BY <1>0, <1>4 DEF Hash, TypeOK, OneBridge, Serving, Chained
    <2>2. \A q \in Requests : stage[q] = "hashed" => by[q] # by[r]
      BY <1>0, <1>4, AuditAssumption DEF Hash, Locked, AuditAssumption
    <2>3. Locked'
      BY <1>0, <1>4, <2>2 DEF Hash, TypeOK, Locked
    <2>4. QED BY <2>1, <2>3
  <1>5. ASSUME NEW r \in Requests, Insert(r)
        PROVE  OneBridge' /\ Serving' /\ Locked' /\ Chained'
    <2> DEFINE row == Row(link[r], entry[r])
    <2>1. by[r] \in up /\ by[r] \in Bridges /\ link[r] = prev[by[r]]
      BY <1>0, <1>5 DEF Insert, Serving, Locked, TypeOK
    <2>2. \A q \in Requests : stage[q] = "hashed" => q = r
      BY <1>0, <1>5, <2>1 DEF Insert, OneBridge, Serving, Locked
    <2>3. OneBridge' /\ Serving' /\ Locked'
      <3>1. UNCHANGED <<up, by>> /\ stage' = [stage EXCEPT ![r] = "recorded"]
        BY <1>5 DEF Insert
      <3>2. \A q \in Requests : stage'[q] = IF q = r THEN "recorded" ELSE stage[q]
        BY <1>0, <3>1 DEF TypeOK
      <3>3. QED BY <1>0, <2>1, <2>2, <3>1, <3>2 DEF OneBridge, Serving, Locked
    <2>4. /\ row \in Rows /\ row.prev_hash = link[r]
          /\ row.hash = RowHash(row.prev_hash, row.entry)
      BY <1>0, RowType, StoredText DEF TypeOK, Row
    <2>5. file \in Seq(Rows) /\ file' = Append(file, row) /\ damage' = damage
      BY <1>0, <1>5 DEF TypeOK, Insert
    <2>6. prev'[by[r]] = row.hash /\ up' = {by[r]}
      <3>1. prev'[by[r]] = RowHash(link[r], entry[r])
        BY <1>0, <1>5, <2>1 DEF Insert, TypeOK
      <3>2. row.hash = RowHash(link[r], entry[r])
        BY DEF Row
      <3>3. up' = {by[r]}
        BY <1>0, <1>5, <2>1 DEF Insert, OneBridge
      <3>4. QED BY <3>1, <3>2, <3>3
    <2>7. Chained'
      BY <1>0, <2>1, <2>4, <2>5, <2>6, AppendKeepsChain DEF Chained
    <2>8. QED BY <2>3, <2>7
  <1>6. ASSUME NEW r \in Requests, InsertFails(r)
        PROVE  OneBridge' /\ Serving' /\ Locked' /\ Chained'
    <2>1. \A q \in Requests : stage[q] = "hashed" => q = r
      BY <1>0, <1>6 DEF InsertFails, OneBridge, Serving, Locked
    <2>2. /\ UNCHANGED <<file, up, prev, by, damage>>
          /\ stage[r] = "hashed" /\ stage' = [stage EXCEPT ![r] = "failed"]
      BY <1>6 DEF InsertFails
    <2>3. \A q \in Requests : stage'[q] = IF q = r THEN "failed" ELSE stage[q]
      BY <1>0, <2>2 DEF TypeOK
    <2>4. Serving' /\ Locked'
      BY <1>0, <2>1, <2>2, <2>3 DEF Serving, Locked
    <2>5. OneBridge' /\ Chained'
      BY <1>0, <2>2 DEF OneBridge, Chained
    <2>6. QED BY <2>4, <2>5
  <1>7. CASE Note \/ UNCHANGED vars
    BY <1>0, <1>7 DEF Note, vars, OneBridge, Serving, Locked, Chained
  <1>8. CASE ByHand /\ ~Note
    <2>1. UNCHANGED <<up, prev, lock, stage, by, link>>
      BY <1>8 DEF ByHand, Change, Remove, Swap, DamageDone
    <2>2. damage' # NoDamage
      BY <1>8 DEF ByHand, Change, Remove, Swap, DamageDone, NoDamage
    <2>3. QED BY <1>0, <2>1, <2>2 DEF OneBridge, Serving, Locked, Chained
  <1>9. QED
    BY <1>1, <1>2, <1>3, <1>4, <1>5, <1>6, <1>7, <1>8 DEF Next, Serve

\* One bridge at a time, asked in text, leaves a file that verify is content
\* with, whatever fails and however often the bridge dies.
THEOREM ChainStaysIntact ==
  ASSUME TextOnly
  PROVE  Spec => []UndamagedIsIntact
  <1>1. ChainInv /\ [Next]_vars => ChainInv'
    BY NextChain
  <1>2. ChainInv => UndamagedIsIntact
    BY DEF ChainInv, Chained, UndamagedIsIntact
  <1>3. QED BY <1>1, <1>2, InitChain, PTL DEF Spec

-----------------------------------------------------------------------------
(* A hash vouches for what went into it.                                   *)

\* The hash of row i is made of the rows up to it.
Spelled(f, i) == /\ Len(f[i].hash) = i
                 /\ \A j \in 1..i : f[i].hash[j] = f[j].entry

\* The first row of an intact file that did not spell the rows up to it would
\* follow one that does.
LEMMA IntactSpells ==
  ASSUME NEW f \in Seq(Rows), Intact(f)
  PROVE  \A i \in DOMAIN f : Spelled(f, i)
  <1> SUFFICES ASSUME ~ \A i \in DOMAIN f : Spelled(f, i)
               PROVE  FALSE
    OBVIOUS
  <1> DEFINE bad == {i \in DOMAIN f : ~Spelled(f, i)}
  <1>1. /\ Len(f) \in Nat /\ DOMAIN f = 1..Len(f)
        /\ \A i \in 1..Len(f) : f[i] \in Rows
    BY LenProperties, ElementOfSeq
  <1>2. bad \subseteq Nat /\ bad # {}
    BY <1>1
  <1>3. PICK i \in bad : \A k \in bad : ~(<<k, i>> \in OpToRel(<, Nat))
    BY <1>2, NatLessThanWellFounded, WFMin
  <1>4. \A k \in bad : ~(k < i)
    BY <1>2, <1>3 DEF OpToRel
  <1>5. i \in 1..Len(f) /\ ~Spelled(f, i)
    BY <1>1
  <1>6. f[i].hash = Append(HashBefore(f, i), f[i].entry)
    BY <1>1, <1>5 DEF Intact, Matches, RowHash
  <1>7. f[i].entry \in Entries
    BY <1>1, <1>5 DEF Rows
  <1>8. CASE i = 1
    <2>1. f[i].hash = Append(<<>>, f[i].entry)
      BY <1>6, <1>8 DEF HashBefore, Genesis
    <2>2. Len(f[i].hash) = 1 /\ f[i].hash[1] = f[i].entry
      BY <1>7, <2>1, EmptySeq, AppendProperties
    <2>3. QED BY <1>5, <1>8, <2>2 DEF Spelled
  <1>9. CASE i # 1
    <2>1. i - 1 \in 1..Len(f)
      BY <1>1, <1>5, <1>9
    <2>2. i - 1 \notin bad
      BY <1>1, <1>4, <1>5, <2>1
    <2>3. Spelled(f, i - 1)
      BY <1>1, <2>1, <2>2
    <2>4. f[i - 1].hash \in Seq(Entries)
      BY <1>1, <2>1 DEF Rows, Hashes
    <2>5. f[i].hash = Append(f[i - 1].hash, f[i].entry)
      BY <1>6, <1>9 DEF HashBefore
    <2>6. /\ Len(f[i].hash) = Len(f[i - 1].hash) + 1
          /\ \A j \in 1..Len(f[i - 1].hash) : f[i].hash[j] = f[i - 1].hash[j]
          /\ f[i].hash[Len(f[i - 1].hash) + 1] = f[i].entry
      BY <1>7, <2>4, <2>5, AppendProperties
    <2>7. Len(f[i].hash) = i /\ \A j \in 1..i : f[i].hash[j] = f[j].entry
      BY <1>1, <1>5, <2>3, <2>6 DEF Spelled
    <2>8. QED BY <1>5, <2>7 DEF Spelled
  <1>10. QED BY <1>8, <1>9

\* What was written down was the hash of the rows of its time.
NotedInv == TypeOK /\ noted.hash = noted.rows

LEMMA LastHashSpells ==
  ASSUME NEW f \in Seq(Rows), f # <<>>, Intact(f)
  PROVE  LastHash(f) = Contents(f)
  <1>1. /\ Len(f) \in Nat /\ DOMAIN f = 1..Len(f)
        /\ \A i \in 1..Len(f) : f[i] \in Rows
    BY LenProperties, ElementOfSeq
  <1>2. Len(f) # 0
    BY EmptySeq
  <1>3. LastHash(f) = f[Len(f)].hash
    BY <1>1, <1>2 DEF LastHash, HashBefore
  <1>4. Len(f) \in 1..Len(f)
    BY <1>1, <1>2
  <1>5. f[Len(f)].hash \in Seq(Entries)
    BY <1>1, <1>4 DEF Rows, Hashes
  <1>6. Spelled(f, Len(f))
    BY <1>1, <1>4, IntactSpells
  <1>7. Contents(f) \in Seq(Entries) /\ DOMAIN Contents(f) = 1..Len(f)
    BY <1>1, ContentsType DEF Contents
  <1>8. Len(Contents(f)) = Len(f)
    BY <1>1, <1>7, LenProperties
  <1>9. \A j \in 1..Len(f) : f[Len(f)].hash[j] = Contents(f)[j]
    BY <1>1, <1>6 DEF Spelled, Contents
  <1>10. f[Len(f)].hash = Contents(f)
    BY <1>5, <1>6, <1>7, <1>8, <1>9, SeqEqual DEF Spelled
  <1>11. QED BY <1>3, <1>10

\* A written-down hash vouches for all the rows of its time in every file that
\* verify accepts, however many bridges wrote it and whatever was done to it.
THEOREM NotesVouch == Spec => []NotedHashVouches
  <1>1. Init => NotedInv
    BY InitType DEF Init, NotedInv, NothingNoted, Genesis
  <1>2. NotedInv /\ [Next]_vars => NotedInv'
    <2> SUFFICES ASSUME NotedInv, [Next]_vars PROVE NotedInv'
      OBVIOUS
    <2>1. TypeOK /\ TypeOK'
      BY NextType DEF NotedInv
    <2>2. CASE Note
      <3>1. LastHash(file) = Contents(file)
        BY <2>1, <2>2, LastHashSpells DEF Note, TypeOK
      <3>2. QED BY <2>1, <2>2, <3>1 DEF Note, NotedInv
    <2>3. CASE noted' = noted
      BY <2>1, <2>3 DEF NotedInv
    <2>4. Note \/ noted' = noted
      BY DEF Next, Serve, ByHand, Start, Crash, NoQuery, Execute, Hash, Insert,
             InsertFails, Reply, Withhold, Send, Change, Remove, Swap, DamageDone,
             vars
    <2>5. QED BY <2>2, <2>3, <2>4
  <1>3. NotedInv => NotedHashVouches
    <2> SUFFICES ASSUME NotedInv, Intact(file), NEW i \in DOMAIN file,
                        noted.hash = file[i].hash
                 PROVE  /\ Len(noted.rows) <= Len(file)
                        /\ \A j \in DOMAIN noted.rows :
                             file[j].entry = noted.rows[j]
      BY DEF NotedHashVouches
    <2>1. /\ Len(file) \in Nat /\ DOMAIN file = 1..Len(file)
          /\ noted.rows \in Seq(Entries)
      BY LenProperties DEF NotedInv, TypeOK
    <2>2. DOMAIN noted.rows = 1..Len(noted.rows)
      BY <2>1, LenProperties
    <2>3. Spelled(file, i)
      BY IntactSpells DEF NotedInv, TypeOK
    <2>4. QED BY <2>1, <2>2, <2>3 DEF NotedInv, Spelled
  <1>4. QED BY <1>1, <1>2, <1>3, PTL DEF Spec

-----------------------------------------------------------------------------
(* Damage is found where it was done.                                      *)

\* The damaged row is the first that does not match.
Broken(f, at) == /\ at \in DOMAIN f
                 /\ ~Matches(f, at)
                 /\ \A j \in 1..(at - 1) : Matches(f, j)

BrokenInv == damage.kind \in {"change", "remove", "swap"} => Broken(file, damage.at)

\* Whether a row matches depends on it and on the row before it.
LEMMA MatchesIsLocal ==
  ASSUME NEW f \in Seq(Rows), NEW g \in Seq(Rows), NEW n \in Nat,
         n <= Len(f), n <= Len(g), \A j \in 1..n : g[j] = f[j]
  PROVE  \A j \in 1..n : Matches(g, j) <=> Matches(f, j)
  <1> SUFFICES ASSUME NEW j \in 1..n PROVE Matches(g, j) <=> Matches(f, j)
    OBVIOUS
  <1>1. HashBefore(g, j) = HashBefore(f, j)
    BY DEF HashBefore
  <1>2. QED BY <1>1 DEF Matches

\* A file that is intact up to the damaged row.
LEMMA BrokenFirst ==
  ASSUME NEW f \in Seq(Rows), Intact(f), NEW g \in Seq(Rows), NEW i \in 1..Len(f),
         i <= Len(g), \A j \in 1..(i - 1) : g[j] = f[j], ~Matches(g, i)
  PROVE  Broken(g, i)
  <1>1. /\ Len(f) \in Nat /\ DOMAIN f = 1..Len(f)
        /\ Len(g) \in Nat /\ DOMAIN g = 1..Len(g)
    BY LenProperties
  <1>2. \A j \in 1..(i - 1) : Matches(g, j) <=> Matches(f, j)
    BY <1>1, MatchesIsLocal
  <1>3. QED BY <1>1, <1>2 DEF Intact, Broken

\* In an intact file a row's hash is longer than that of the row before it.
LEMMA HashesGrow ==
  ASSUME NEW f \in Seq(Rows), Intact(f), NEW i \in 1..Len(f)
  PROVE  /\ f[i].hash = Append(HashBefore(f, i), f[i].entry)
         /\ f[i].entry \in Entries
         /\ HashBefore(f, i) \in Hashes
         /\ f[i].hash # HashBefore(f, i)
  <1>1. /\ Len(f) \in Nat /\ DOMAIN f = 1..Len(f)
        /\ \A j \in 1..Len(f) : f[j] \in Rows
    BY LenProperties, ElementOfSeq
  <1>2. f[i].hash = Append(HashBefore(f, i), f[i].entry)
    BY <1>1 DEF Intact, Matches, RowHash
  <1>3. f[i].entry \in Entries
    BY <1>1 DEF Rows
  <1>4. HashBefore(f, i) \in Hashes
    <2>1. f[i].prev_hash \in Hashes /\ f[i].prev_hash = HashBefore(f, i)
      BY <1>1 DEF Rows, Intact, Matches
    <2>2. QED BY <2>1
  <1>5. /\ Len(f[i].hash) = Len(HashBefore(f, i)) + 1
        /\ Len(HashBefore(f, i)) \in Nat
    BY <1>2, <1>3, <1>4, AppendProperties, LenProperties DEF Hashes
  <1>6. QED BY <1>2, <1>3, <1>4, <1>5

LEMMA ChangeBreaks ==
  ASSUME NEW f \in Seq(Rows), Intact(f), NEW i \in 1..Len(f), NEW e \in Entries,
         e # f[i].entry
  PROVE  Broken([f EXCEPT ![i].entry = e], i)
  <1> DEFINE g == [f EXCEPT ![i].entry = e]
  <1>1. /\ Len(f) \in Nat /\ DOMAIN f = 1..Len(f)
        /\ \A j \in 1..Len(f) : f[j] \in Rows
    BY LenProperties, ElementOfSeq
  <1>2. [f[i] EXCEPT !.entry = e] \in Rows
    BY <1>1 DEF Rows
  <1>3. g \in Seq(Rows) /\ Len(g) = Len(f)
    BY <1>1, <1>2, ExceptSeq
  <1>4. /\ \A j \in 1..Len(f) : j # i => g[j] = f[j]
        /\ g[i] = [f[i] EXCEPT !.entry = e]
    BY <1>1
  <1>5. g[i].entry = e /\ g[i].hash = f[i].hash /\ g[i].prev_hash = f[i].prev_hash
    <2>1. f[i] \in Rows
      BY <1>1
    <2>2. QED BY <1>4, <2>1 DEF Rows
  <1>6. f[i].prev_hash = HashBefore(f, i)
    BY <1>1 DEF Intact, Matches
  <1>7. Append(HashBefore(f, i), e) # Append(HashBefore(f, i), f[i].entry)
    <2> DEFINE n == Len(HashBefore(f, i)) + 1
    <2>1. HashBefore(f, i) \in Seq(Entries) /\ f[i].entry \in Entries
      BY HashesGrow DEF Hashes
    <2>2. /\ Append(HashBefore(f, i), e)[n] = e
          /\ Append(HashBefore(f, i), f[i].entry)[n] = f[i].entry
      BY <2>1, AppendProperties
    <2>3. QED BY <2>2
  <1>8. ~Matches(g, i)
    BY <1>5, <1>6, <1>7, HashesGrow DEF Matches, RowHash
  <1>9. i <= Len(g) /\ \A j \in 1..(i - 1) : g[j] = f[j]
    BY <1>1, <1>3, <1>4
  <1> HIDE DEF g
  <1>10. Broken(g, i)
    BY <1>3, <1>8, <1>9, BrokenFirst
  <1>11. QED BY <1>10 DEF g

\* Where a row follows one that it did not follow, the links disagree.
LEMMA ShiftBreaks ==
  ASSUME NEW f \in Seq(Rows), Intact(f), NEW g \in Seq(Rows), NEW i \in 1..Len(f),
         i + 1 \in 1..Len(f), i <= Len(g), \A j \in 1..(i - 1) : g[j] = f[j],
         g[i] = f[i + 1]
  PROVE  Broken(g, i)
  <1>1. /\ Len(f) \in Nat /\ DOMAIN f = 1..Len(f)
    BY LenProperties
  <1>2. f[i + 1].prev_hash = f[i].hash
    BY <1>1 DEF Intact, Matches, HashBefore
  <1>3. HashBefore(g, i) = HashBefore(f, i)
    BY <1>1 DEF HashBefore
  <1>4. ~Matches(g, i)
    BY <1>2, <1>3, HashesGrow DEF Matches
  <1>5. QED BY <1>4, BrokenFirst

LEMMA RemoveBreaks ==
  ASSUME NEW f \in Seq(Rows), Intact(f), NEW i \in 1..Len(f), i # Len(f)
  PROVE  Broken(SubSeq(f, 1, i - 1) \o SubSeq(f, i + 1, Len(f)), i)
  <1>1. Len(f) \in Nat /\ \A j \in 1..Len(f) : f[j] \in Rows
    BY LenProperties, ElementOfSeq
  <1>2. i \in Nat /\ i >= 1 /\ i + 1 <= Len(f)
    BY <1>1
  <1> DEFINE a == SubSeq(f, 1, i - 1)
             b == SubSeq(f, i + 1, Len(f))
             g == a \o b
  <1>3. /\ a \in Seq(Rows) /\ Len(a) = i - 1
        /\ \A j \in 1..(i - 1) : a[j] = f[j]
    <2>1. 1 \in Int /\ i - 1 \in Int /\ \A j \in 1..(i - 1) : f[j] \in Rows
      BY <1>1, <1>2
    <2>2. /\ a \in Seq(Rows)
          /\ Len(a) = IF 1 <= i - 1 THEN i - 1 - 1 + 1 ELSE 0
          /\ \A j \in 1..(i - 1 - 1 + 1) : a[j] = f[1 + j - 1]
      BY ONLY <2>1, SubSeqProperties
    <2>3. Len(a) = i - 1
      BY <1>2, <2>2
    <2>4. ASSUME NEW j \in 1..(i - 1) PROVE a[j] = f[j]
      <3>1. j \in 1..(i - 1 - 1 + 1) /\ 1 + j - 1 = j
        BY <1>2
      <3>2. a[j] = f[1 + j - 1]
        BY <2>2, <3>1
      <3>3. QED BY <3>1, <3>2
    <2>5. QED BY <2>2, <2>3, <2>4
  <1>4. b \in Seq(Rows) /\ Len(b) = Len(f) - i /\ b[1] = f[i + 1]
    <2>1. i + 1 \in Int /\ Len(f) \in Int /\ \A j \in (i + 1)..Len(f) : f[j] \in Rows
      BY <1>1, <1>2
    <2>2. /\ b \in Seq(Rows)
          /\ Len(b) = IF i + 1 <= Len(f) THEN Len(f) - (i + 1) + 1 ELSE 0
          /\ \A j \in 1..(Len(f) - (i + 1) + 1) : b[j] = f[(i + 1) + j - 1]
      BY ONLY <2>1, SubSeqProperties
    <2>3. Len(b) = Len(f) - i
      BY <1>1, <1>2, <2>2
    <2>4. 1 \in 1..(Len(f) - (i + 1) + 1) /\ (i + 1) + 1 - 1 = i + 1
      BY <1>1, <1>2
    <2>5. b[1] = f[(i + 1) + 1 - 1]
      BY <2>2, <2>4
    <2>6. QED BY <2>2, <2>3, <2>4, <2>5
  <1> HIDE DEF a, b
  <1>5. /\ g \in Seq(Rows) /\ Len(g) = Len(a) + Len(b)
        /\ \A j \in 1..(Len(a) + Len(b)) :
             g[j] = IF j <= Len(a) THEN a[j] ELSE b[j - Len(a)]
    BY <1>3, <1>4, ConcatProperties
  <1> HIDE DEF g
  <1>6. Len(a) + Len(b) = Len(f) - 1 /\ i <= Len(g)
    BY <1>1, <1>2, <1>3, <1>4, <1>5
  <1>7. \A j \in 1..(i - 1) : g[j] = f[j]
    <2>1. \A j \in 1..(i - 1) : j \in 1..(Len(a) + Len(b)) /\ j <= Len(a)
      BY <1>1, <1>2, <1>3, <1>6
    <2>2. QED BY <1>3, <1>5, <2>1
  <1>8. g[i] = f[i + 1]
    <2>1. i \in 1..(Len(a) + Len(b)) /\ ~(i <= Len(a)) /\ i - Len(a) = 1
      BY <1>1, <1>2, <1>3, <1>6
    <2>2. g[i] = b[i - Len(a)]
      BY <1>5, <2>1
    <2>3. QED BY <1>4, <2>1, <2>2
  <1>9. i + 1 \in 1..Len(f)
    BY <1>1, <1>2
  <1>10. Broken(g, i)
    BY <1>5, <1>6, <1>7, <1>8, <1>9, ShiftBreaks
  <1>11. QED BY <1>10 DEF g, a, b

LEMMA SwapBreaks ==
  ASSUME NEW f \in Seq(Rows), Intact(f), NEW i \in 1..Len(f), i < Len(f)
  PROVE  Broken([f EXCEPT ![i] = f[i + 1], ![i + 1] = f[i]], i)
  <1> DEFINE h == [f EXCEPT ![i] = f[i + 1]]
             g == [h EXCEPT ![i + 1] = f[i]]
  <1>1. /\ Len(f) \in Nat /\ DOMAIN f = 1..Len(f)
        /\ \A j \in 1..Len(f) : f[j] \in Rows
    BY LenProperties, ElementOfSeq
  <1>2. i + 1 \in 1..Len(f)
    BY <1>1
  <1>3. h \in Seq(Rows) /\ Len(h) = Len(f)
    BY <1>1, <1>2, ExceptSeq
  <1>4. g \in Seq(Rows) /\ Len(g) = Len(f)
    BY <1>1, <1>2, <1>3, ExceptSeq
  <1>5. g[i] = f[i + 1] /\ \A j \in 1..(i - 1) : g[j] = f[j]
    BY <1>1, <1>2
  <1> HIDE DEF g
  <1>6. Broken(g, i)
    BY <1>1, <1>2, <1>4, <1>5, ShiftBreaks
  <1>7. QED BY <1>6 DEF g

\* Rows added later leave the damage where it is.
LEMMA InsertKeepsBroken ==
  ASSUME TypeOK, NEW r \in Requests, Insert(r), NEW at, Broken(file, at)
  PROVE  Broken(file', at)
  <1> DEFINE row == Row(link[r], entry[r])
  <1>1. file \in Seq(Rows) /\ file' = Append(file, row) /\ row \in Rows
    BY RowType DEF TypeOK, Insert
  <1>2. /\ file' \in Seq(Rows) /\ Len(file') = Len(file) + 1
        /\ \A j \in 1..Len(file) : file'[j] = file[j]
    BY ONLY <1>1, AppendProperties
  <1>3. /\ Len(file) \in Nat /\ DOMAIN file = 1..Len(file)
        /\ DOMAIN file' = 1..(Len(file) + 1)
    BY <1>1, <1>2, LenProperties
  <1>4. \A j \in 1..Len(file) : Matches(file', j) <=> Matches(file, j)
    <2>1. Len(file) <= Len(file) /\ Len(file) <= Len(file')
      BY <1>2, <1>3
    <2>2. QED BY ONLY <1>1, <1>2, <1>3, <2>1, MatchesIsLocal
  <1>5. at \in 1..Len(file)
    BY <1>3 DEF Broken
  <1>6. at \in DOMAIN file' /\ ~Matches(file', at)
    BY <1>3, <1>4, <1>5 DEF Broken
  <1>7. ASSUME NEW j \in 1..(at - 1) PROVE Matches(file', j)
    <2>1. j \in 1..Len(file) /\ Matches(file, j)
      BY <1>3, <1>5 DEF Broken
    <2>2. QED BY <1>4, <2>1
  <1>8. QED BY <1>6, <1>7 DEF Broken

LEMMA DamageBreaks ==
  ASSUME ChainInv, ByHand, ~Note
  PROVE  BrokenInv'
  <1>1. /\ file \in Seq(Rows) /\ Len(file) \in Nat /\ DOMAIN file = 1..Len(file)
        /\ \A i \in 1..Len(file) : file[i] \in Rows
    BY LenProperties, ElementOfSeq DEF ChainInv, TypeOK
  <1>2. Intact(file)
    BY DEF ChainInv, Chained, ByHand, Change, Remove, Swap, DamageDone
  <1>3. ASSUME NEW i \in DOMAIN file, NEW e \in Entries, Change(i, e)
        PROVE  BrokenInv'
    <2>1. /\ file' = [file EXCEPT ![i].entry = Stored(e)] /\ damage'.at = i
          /\ Stored(e) \in Entries /\ Stored(e) # file[i].entry
      BY <1>3, EntryType DEF Change, DamageDone
    <2>2. Broken(file', i)
      BY <1>1, <1>2, <2>1, ChangeBreaks
    <2>3. QED BY <2>1, <2>2 DEF BrokenInv
  <1>4. ASSUME NEW i \in DOMAIN file, Remove(i)
        PROVE  BrokenInv'
    <2>1. CASE i = Len(file)
      BY <1>4, <2>1 DEF Remove, DamageDone, BrokenInv
    <2>2. CASE i # Len(file)
      <3>1. /\ file' = SubSeq(file, 1, i - 1) \o SubSeq(file, i + 1, Len(file))
            /\ damage'.at = i
        BY <1>4 DEF Remove, DamageDone
      <3>2. Broken(file', i)
        BY <1>1, <1>2, <2>2, <3>1, RemoveBreaks
      <3>3. QED BY <3>1, <3>2 DEF BrokenInv
    <2>3. QED BY <2>1, <2>2
  <1>5. ASSUME NEW i \in DOMAIN file, Swap(i)
        PROVE  BrokenInv'
    <2>1. /\ file' = [file EXCEPT ![i] = file[i + 1], ![i + 1] = file[i]]
          /\ damage'.at = i /\ i < Len(file)
      BY <1>5 DEF Swap, DamageDone
    <2>2. Broken(file', i)
      BY <1>1, <1>2, <2>1, SwapBreaks
    <2>3. QED BY <2>1, <2>2 DEF BrokenInv
  <1>6. QED BY <1>3, <1>4, <1>5 DEF ByHand

\* An edit, a removal from the middle or a swap in a file of one bridge is
\* found, and the row it was done to is named, whatever is added afterwards.
THEOREM DamageIsFound ==
  ASSUME TextOnly
  PROVE  Spec => []DamageIsNamed
  <1>1. Init => BrokenInv
    BY DEF Init, BrokenInv, NoDamage
  <1>2. ChainInv /\ BrokenInv /\ [Next]_vars => BrokenInv'
    <2> SUFFICES ASSUME ChainInv, BrokenInv, [Next]_vars PROVE BrokenInv'
      OBVIOUS
    <2>1. CASE ByHand /\ ~Note
      BY <2>1, DamageBreaks
    <2>2. ASSUME NEW r \in Requests, Insert(r) PROVE BrokenInv'
      <3>1. damage' = damage
        BY <2>2 DEF Insert
      <3>2. QED BY <2>2, <3>1, InsertKeepsBroken DEF BrokenInv, ChainInv
    <2>3. CASE file' = file /\ damage' = damage
      BY <2>3 DEF BrokenInv
    <2>4. \/ ByHand /\ ~Note
          \/ \E r \in Requests : Insert(r)
          \/ file' = file /\ damage' = damage
      BY DEF Next, Serve, ByHand, Note, Start, Crash, NoQuery, Execute, Hash,
             InsertFails, Reply, Withhold, Send, vars
    <2>5. QED BY <2>1, <2>2, <2>3, <2>4
  <1>3. ChainInv /\ BrokenInv => DamageIsNamed
    <2> SUFFICES ASSUME ChainInv, BrokenInv,
                        damage.kind \in {"change", "remove", "swap"}
                 PROVE  ~Intact(file) /\ FirstBad(file) = damage.at
      BY DEF DamageIsNamed
    <2> DEFINE at == damage.at
               First(i) == ~Matches(file, i) /\ \A j \in 1..(i - 1) : Matches(file, j)
    <2>1. at \in DOMAIN file /\ First(at)
      BY DEF BrokenInv, Broken
    <2>2. DOMAIN file \subseteq Nat \ {0}
      <3>1. DOMAIN file = 1..Len(file) /\ Len(file) \in Nat
        BY LenProperties DEF ChainInv, TypeOK
      <3>2. QED BY <3>1
    <2>3. ASSUME NEW i \in DOMAIN file, First(i) PROVE i = at
      <3>1. i \notin 1..(at - 1) /\ at \notin 1..(i - 1)
        BY <2>1, <2>3
      <3>2. i \in Nat \ {0} /\ at \in Nat \ {0}
        BY <2>1, <2>2
      <3> HIDE DEF at
      <3>3. QED BY <3>1, <3>2
    <2>4. ~Intact(file)
      BY <2>1 DEF Intact
    <2>5. FirstBad(file) = at
      BY <2>1, <2>3 DEF FirstBad
    <2>6. QED BY <2>4, <2>5
  <1>4. ChainInv /\ [Next]_vars => ChainInv'
    BY NextChain
  <1>5. QED BY <1>1, <1>2, <1>3, <1>4, InitChain, PTL DEF Spec
=============================================================================

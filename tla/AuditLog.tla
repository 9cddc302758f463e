------------------------------ MODULE AuditLog ------------------------------
(***************************************************************************)
(* ibase_bridge/audit.py and its callers, the query handler of             *)
(* ibase_server.py and `audited` of studio.py.  A request is executed, its *)
(* answer is written to the audit file, and only then is it sent.  Rows    *)
(* are chained: each holds the hash of the row before it, which a bridge   *)
(* keeps in memory (_prev) from one record to the next.                    *)
(*                                                                         *)
(* A bridge may die between any two steps and be started again.  The file  *)
(* may be damaged by hand, the triggers dropped first, and somebody may    *)
(* run `verify` at any time and write down the last hash it prints.        *)
(*                                                                         *)
(* A row is what was asked and what was answered.  A hash is the sequence  *)
(* of the rows that went into it: SHA-256 without collisions.              *)
(***************************************************************************)
EXTENDS Naturals, Sequences, FiniteSets

CONSTANTS
  Bridges,    \* processes that may write the file
  MayShare,   \* whether two of them may run at once
  Requests,
  Forms,      \* what the query of a request is in its JSON: text, a number
  Answers,    \* what execute may answer: rows of the database, or a message
  MayDamage,  \* whether the file may be damaged, once
  Nobody

ASSUME AuditAssumption ==
  /\ MayShare \in BOOLEAN
  /\ MayDamage \in BOOLEAN
  /\ Forms \subseteq {"text", "number"}
  /\ Answers \subseteq {"rows", "message"}
  /\ Nobody \notin Requests

VARIABLES
  file,    \* the audit table in the order of id
  up,      \* the bridges that run
  prev,    \* _prev of each bridge
  lock,    \* who holds a bridge's _lock
  stage,   \* how far each request is
  by,      \* the bridge that serves it
  entry,   \* what is to be recorded of it
  link,    \* the prev_hash its row is to have
  sent,    \* what its caller was sent
  damage,  \* what was done to the file by hand, and where
  noted    \* the last hash somebody wrote down, with the rows of that time

requestVars == <<stage, by, entry, link, sent>>
vars == <<file, up, prev, lock, requestVars, damage, noted>>

Entries == [request : Requests, query : Forms \cup {"text"}, answer : Answers]

Genesis == <<>>
RowHash(h, e) == Append(h, e)

\* A column of SQLite declared TEXT turns a number into its digits.
Stored(e) == [e EXCEPT !.query = "text"]

Row(h, e) == [entry |-> Stored(e), prev_hash |-> h, hash |-> RowHash(h, e)]

HashBefore(f, i) == IF i = 1 THEN Genesis ELSE f[i - 1].hash
LastHash(f) == HashBefore(f, Len(f) + 1)

\* Faulty: looks at each row and not at the order of the rows.
MatchesAlone(f, i) == f[i].hash = RowHash(f[i].prev_hash, f[i].entry)

\* Faulty: looks at the order and not at what the rows hold.
MatchesLink(f, i) == f[i].prev_hash = HashBefore(f, i)

\* verify: what the loop asks of a row before it goes on to the next.
Matches(f, i) == /\ f[i].prev_hash = HashBefore(f, i)
                 /\ f[i].hash = RowHash(f[i].prev_hash, f[i].entry)

Intact(f) == \A i \in DOMAIN f : Matches(f, i)

\* The row that verify names when it does not print "ok".
FirstBad(f) == CHOOSE i \in DOMAIN f :
                 ~Matches(f, i) /\ \A j \in 1..(i - 1) : Matches(f, j)

Contents(f) == [i \in DOMAIN f |-> f[i].entry]

NothingNoted == [hash |-> Genesis, rows |-> <<>>]
NoDamage == [kind |-> "none", at |-> 0]

-----------------------------------------------------------------------------
Init ==
  /\ file = <<>>
  /\ up = {}
  /\ prev = [p \in Bridges |-> Genesis]
  /\ lock = [p \in Bridges |-> Nobody]
  /\ stage = [r \in Requests |-> "new"]
  /\ by \in [Requests -> Bridges]
  /\ entry \in [Requests -> Entries]
  /\ \A r \in Requests : entry[r].request = r
  /\ link = [r \in Requests |-> Genesis]
  /\ sent = [r \in Requests |-> "nothing"]
  /\ damage = NoDamage
  /\ noted = NothingNoted

\* Faulty: every start begins a chain of its own.
StartAnew(p) ==
  /\ p \notin up
  /\ MayShare \/ up = {}
  /\ up' = up \cup {p}
  /\ prev' = [prev EXCEPT ![p] = Genesis]
  /\ UNCHANGED <<file, lock, requestVars, damage, noted>>

\* AuditLog.__init__: carry on from the last row in the file.
Start(p) ==
  /\ p \notin up
  /\ MayShare \/ up = {}
  /\ up' = up \cup {p}
  /\ prev' = [prev EXCEPT ![p] = LastHash(file)]
  /\ UNCHANGED <<file, lock, requestVars, damage, noted>>

\* The process ends; its memory and its requests are gone.
Crash(p) ==
  /\ p \in up
  /\ up' = up \ {p}
  /\ lock' = [lock EXCEPT ![p] = Nobody]
  /\ stage' = [r \in Requests |-> IF by[r] = p /\ stage[r] # "new"
                                  THEN "done" ELSE stage[r]]
  /\ UNCHANGED <<file, prev, by, entry, link, sent, damage, noted>>

\* A request without a query is answered at once and not recorded.
NoQuery(r) ==
  /\ stage[r] = "new"
  /\ by[r] \in up
  /\ stage' = [stage EXCEPT ![r] = "done"]
  /\ sent' = [sent EXCEPT ![r] = "no query"]
  /\ UNCHANGED <<file, up, prev, lock, by, entry, link, damage, noted>>

\* The processor, or the studio's lookup, has produced rows or a message.
Execute(r) ==
  /\ stage[r] = "new"
  /\ by[r] \in up
  /\ stage' = [stage EXCEPT ![r] = "executed"]
  /\ UNCHANGED <<file, up, prev, lock, by, entry, link, sent, damage, noted>>

\* Faulty: no lock.
HashUnlocked(r) ==
  /\ stage[r] = "executed"
  /\ lock' = [lock EXCEPT ![by[r]] = r]
  /\ link' = [link EXCEPT ![r] = prev[by[r]]]
  /\ stage' = [stage EXCEPT ![r] = "hashed"]
  /\ UNCHANGED <<file, up, prev, by, entry, sent, damage, noted>>

\* record: under the lock, the hash of the new row is computed ...
Hash(r) ==
  /\ stage[r] = "executed"
  /\ lock[by[r]] = Nobody
  /\ lock' = [lock EXCEPT ![by[r]] = r]
  /\ link' = [link EXCEPT ![r] = prev[by[r]]]
  /\ stage' = [stage EXCEPT ![r] = "hashed"]
  /\ UNCHANGED <<file, up, prev, by, entry, sent, damage, noted>>

\* ... the row is inserted, in a transaction of its own, and becomes _prev ...
Insert(r) ==
  /\ stage[r] = "hashed"
  /\ file' = Append(file, Row(link[r], entry[r]))
  /\ prev' = [prev EXCEPT ![by[r]] = RowHash(link[r], entry[r])]
  /\ lock' = [lock EXCEPT ![by[r]] = Nobody]
  /\ stage' = [stage EXCEPT ![r] = "recorded"]
  /\ UNCHANGED <<up, by, entry, link, sent, damage, noted>>

\* Faulty: _prev is set before the insert.
InsertFailsLate(r) ==
  /\ stage[r] = "hashed"
  /\ prev' = [prev EXCEPT ![by[r]] = RowHash(link[r], entry[r])]
  /\ lock' = [lock EXCEPT ![by[r]] = Nobody]
  /\ stage' = [stage EXCEPT ![r] = "failed"]
  /\ UNCHANGED <<file, up, by, entry, link, sent, damage, noted>>

\* Faulty: an exception leaves the lock taken.
InsertFailsLocked(r) ==
  /\ stage[r] = "hashed"
  /\ stage' = [stage EXCEPT ![r] = "failed"]
  /\ UNCHANGED <<file, up, prev, lock, by, entry, link, sent, damage, noted>>

\* ... or the insert raises (the disk is full, the file is locked) and both
\* the file and _prev stay as they are.
InsertFails(r) ==
  /\ stage[r] = "hashed"
  /\ lock' = [lock EXCEPT ![by[r]] = Nobody]
  /\ stage' = [stage EXCEPT ![r] = "failed"]
  /\ UNCHANGED <<file, up, prev, by, entry, link, sent, damage, noted>>

Send(r, what) ==
  /\ sent' = [sent EXCEPT ![r] = what]
  /\ stage' = [stage EXCEPT ![r] = "done"]
  /\ UNCHANGED <<file, up, prev, lock, by, entry, link, damage, noted>>

Reply(r) == stage[r] = "recorded" /\ Send(r, entry[r].answer)

\* Faulty: a failure of the log is only logged.
WithholdNot(r) == stage[r] = "failed" /\ Send(r, entry[r].answer)

\* Faulty: AuditWriteFailed is not caught.
WithholdRaises(r) == stage[r] = "failed" /\ Send(r, "server error")

\* AuditWriteFailed: the caller is told that the result was withheld.
Withhold(r) == stage[r] = "failed" /\ Send(r, "withheld")

\* What accidents and casual edits do to the rows: one is changed, one is
\* taken out, two are swapped.  Hashes are not computed anew.
DamageDone(kind, i, f) ==
  /\ MayDamage
  /\ damage = NoDamage
  /\ file' = f
  /\ damage' = [kind |-> kind, at |-> i]
  /\ UNCHANGED <<up, prev, lock, requestVars, noted>>

Change(i, e) ==
  /\ Stored(e) # file[i].entry
  /\ DamageDone("change", i, [file EXCEPT ![i].entry = Stored(e)])

Remove(i) == DamageDone(IF i = Len(file) THEN "cut" ELSE "remove", i,
                        SubSeq(file, 1, i - 1) \o SubSeq(file, i + 1, Len(file)))

Swap(i) == /\ i < Len(file)
           /\ DamageDone("swap", i,
                [file EXCEPT ![i] = file[i + 1], ![i + 1] = file[i]])

\* verify prints "ok" and the last hash, and somebody keeps the hash.
Note ==
  /\ file # <<>>
  /\ Intact(file)
  /\ noted' = [hash |-> LastHash(file), rows |-> Contents(file)]
  /\ UNCHANGED <<file, up, prev, lock, requestVars, damage>>

Serve(r) == \/ Hash(r) \/ Insert(r) \/ InsertFails(r) \/ Reply(r) \/ Withhold(r)

ByHand == \/ \E i \in DOMAIN file : \/ \E e \in Entries : Change(i, e)
                                    \/ Remove(i) \/ Swap(i)
          \/ Note

Next == \/ \E p \in Bridges : Start(p) \/ Crash(p)
        \/ \E r \in Requests : NoQuery(r) \/ Execute(r) \/ Serve(r)
        \/ ByHand

\* A handler that has begun runs on.
Fairness == \A r \in Requests : WF_vars(Serve(r))

Spec == Init /\ [][Next]_vars /\ Fairness

-----------------------------------------------------------------------------
(* Properties.                                                             *)

Hashes == Seq(Entries)
Rows == [entry : Entries, prev_hash : Hashes, hash : Hashes]

TypeOK ==
  /\ file \in Seq(Rows)
  /\ up \subseteq Bridges
  /\ prev \in [Bridges -> Hashes]
  /\ lock \in [Bridges -> Requests \cup {Nobody}]
  /\ stage \in [Requests -> {"new", "executed", "hashed", "recorded", "failed",
                            "done"}]
  /\ by \in [Requests -> Bridges]
  /\ entry \in [Requests -> Entries]
  /\ link \in [Requests -> Hashes]
  /\ sent \in [Requests -> {"nothing", "no query", "withheld"} \cup Answers]
  /\ damage \in [kind : {"none", "change", "remove", "cut", "swap"}, at : Nat]
  /\ noted \in [hash : Hashes, rows : Seq(Entries)]

(***************************************************************************)
(* Data that was not recorded is never handed out (audit.py:8): whatever   *)
(* answer a caller was sent, the file holds one row of that request, with  *)
(* that answer, whoever failed or died in between.                         *)
(***************************************************************************)
RowsOf(r) == {i \in DOMAIN file : file[i].entry.request = r}

SentWasRecorded ==
  damage = NoDamage =>
    \A r \in Requests : sent[r] \in Answers =>
      \E i \in DOMAIN file : /\ RowsOf(r) = {i}
                             /\ file[i].entry.answer = sent[r]

(***************************************************************************)
(* verify finds the chain intact in every file that only bridges wrote:    *)
(* failed inserts, crashes and restarts leave no gap.                      *)
(***************************************************************************)
UndamagedIsIntact == damage = NoDamage => Intact(file)

(***************************************************************************)
(* A row that was edited, removed from the middle or swapped with the next *)
(* is found, and it is the row verify names, however many rows bridges     *)
(* have added since (README.md:460, tests/test_pipeline.py:876).           *)
(***************************************************************************)
DamageIsNamed ==
  damage.kind \in {"change", "remove", "swap"} =>
    ~Intact(file) /\ FirstBad(file) = damage.at

(***************************************************************************)
(* If verify is content with a file and the hash written down earlier is   *)
(* in it, then so are all the rows of that time, in their places           *)
(* (README.md:465), even if the last row was cut off and more were added.  *)
(***************************************************************************)
NotedHashVouches ==
  Intact(file) /\ noted.hash \in {file[i].hash : i \in DOMAIN file} =>
    /\ Len(noted.rows) <= Len(file)
    /\ \A i \in DOMAIN noted.rows : file[i].entry = noted.rows[i]

(***************************************************************************)
(* Every request that has been executed ends: it is answered, or told that *)
(* its answer is withheld, or its bridge dies.  A failed insert blocks no  *)
(* later request.                                                          *)
(***************************************************************************)
EveryRequestEnds ==
  \A r \in Requests : stage[r] = "executed" ~> stage[r] = "done"
=============================================================================

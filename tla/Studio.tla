------------------------------- MODULE Studio -------------------------------
(***************************************************************************)
(* The schema editor: pages in browser tabs (the script in studio.PAGE),   *)
(* its routes (studio.build_router), the mapping file with its backup, and *)
(* the part of the bridge they change (ibase_server.BridgeState).          *)
(*                                                                         *)
(* Each page edits a copy of the draft, D, and sends it along with most    *)
(* requests; the bridge keeps the last one it was sent.  Routes run one    *)
(* after the other on one event loop, without awaiting anything, so a      *)
(* route is one step - except that the process may die, or a write fail,   *)
(* between the writes of a save.  A page's answer is taken to arrive       *)
(* before the next thing done on that page.                                *)
(***************************************************************************)
EXTENDS Drafts

CONSTANTS
  Tabs,
  NodeNames,    \* NodeNames[t]: labels a person may type for table t
  LinkNames,    \* LinkNames[l]: types a person may type for link l
  Pools,        \* names for connection pools
  NoDraft,      \* None, or null in a page
  FirstMapping, \* the mapping file the bridge was first started on
  MaxEdits,     \* bound: how often drafts are edited
  MaxFailures   \* bound: how often the process dies or a write fails

ASSUME StudioAssumption ==
  /\ NodeNames \in [Tables -> SUBSET Names]
  /\ LinkNames \in [Links -> SUBSET Names]
  /\ Pools # {}
  /\ MaxEdits \in Nat /\ MaxFailures \in Nat
  /\ FirstMapping \in Mappings /\ Loads(FirstMapping)

VARIABLES
  page,      \* D of each tab
  draft,     \* state.draft
  file,      \* the mapping in the mapping file
  backup,    \* the mapping in the .bak file
  save,      \* the save that is being written: its mapping and how far it is
  up,        \* whether the process runs
  serving,   \* state.mapping, with the codec and backend built from it
  conn,      \* state.connection
  using,     \* the connection of state.backend
  open,      \* the pools that have not been closed
  whole,     \* the mapping of the last save that was written to its end
  edits, failures

\* No save is being written.
NoSave == [mapping |-> NoMapping, step |-> "none"]

files == <<file, backup, save, whole>>
bridge == <<up, serving, conn, using, open>>
vars == <<page, draft, files, bridge, edits, failures>>

-----------------------------------------------------------------------------
Init ==
  /\ page = [p \in Tabs |-> NoDraft]
  /\ draft = NoDraft
  /\ file = FirstMapping
  /\ backup = NoMapping
  /\ save = NoSave
  /\ up = TRUE
  /\ serving = file
  /\ conn = CHOOSE c \in Pools : TRUE
  /\ using = conn
  /\ open = {conn}
  /\ whole = file
  /\ edits = 0
  /\ failures = 0

\* A route can run: the process does, and is not in the middle of a save.
Free == up /\ save = NoSave

-----------------------------------------------------------------------------
(* What happens in a page alone.                                           *)

Edit(p, d) ==
  /\ edits < MaxEdits
  /\ page' = [page EXCEPT ![p] = d]
  /\ edits' = edits + 1
  /\ UNCHANGED <<draft, files, bridge, failures>>

EditNode(p) == \E t \in Tables :
  \/ \E x \in NodeNames[t] \ {page[p].nodes[t].label} :
       Edit(p, RenameNode(page[p], t, x))
  \/ Edit(p, IncludeNode(page[p], t))

EditEdge(p) == \E l \in Links :
  /\ page[p].edges[l] # NoEdge
  /\ \/ \E x \in LinkNames[l] \ {page[p].edges[l].type} :
          Edit(p, RenameEdge(page[p], l, x))
     \/ Edit(p, IncludeEdge(page[p], l))

-----------------------------------------------------------------------------
(* Routes that change drafts only.                                         *)

\* boot: the page is opened, and shows the draft of the bridge.
Boot(p) ==
  /\ Free
  /\ page' = [page EXCEPT ![p] = draft]
  /\ UNCHANGED <<draft, files, bridge, edits, failures>>

Discover(p) ==
  /\ Free
  /\ draft' = Discovered
  /\ page' = [page EXCEPT ![p] = Discovered]
  /\ UNCHANGED <<files, bridge, edits, failures>>

\* Check direction, Table data and Show the file send the page's draft.
SendDraft(p) ==
  /\ Free
  /\ page[p] # NoDraft
  /\ draft' = page[p]
  /\ UNCHANGED <<page, files, bridge, edits, failures>>

\* The link as the bridge knows it is flipped and put into the page, which
\* then previews it and so sends its draft.
Flip(p, l) ==
  /\ Free
  /\ page[p].edges[l] # NoEdge
  /\ draft # NoDraft
  /\ Reaches(draft, l)
  /\ page' = [page EXCEPT ![p].edges[l] = Flipped(draft.edges[l])]
  /\ draft' = page'[p]
  /\ UNCHANGED <<files, bridge, edits, failures>>

\* A bridge without a draft answers without a link, and the page stores that.
FlipFails(p, l) ==
  /\ Free
  /\ page[p].edges[l] # NoEdge
  /\ draft = NoDraft
  /\ page' = [page EXCEPT ![p].edges[l] = NoEdge]
  /\ UNCHANGED <<draft, files, bridge, edits, failures>>

-----------------------------------------------------------------------------
(* Saving.                                                                 *)

Sent(p) == IF page[p] # NoDraft THEN page[p] ELSE draft

\* Faulty: what is about to be written is not loaded first.
SaveUnchecked(p) ==
  /\ Free
  /\ draft' = Sent(p)
  /\ draft' # NoDraft
  /\ HasMapping(draft')
  /\ \E c \in Cut(file) :
       /\ backup' = c
       /\ save' = [mapping |-> ToMapping(draft'), step |-> "backup"]
  /\ UNCHANGED <<page, file, whole, bridge, edits, failures>>

\* The draft is taken over, turned into a mapping and loaded; only then is the
\* backup opened, which empties it.
StartSave(p) ==
  /\ Free
  /\ draft' = Sent(p)
  /\ draft' # NoDraft
  /\ HasMapping(draft')
  /\ Loads(ToMapping(draft'))
  /\ \E c \in Cut(file) :
       /\ backup' = c
       /\ save' = [mapping |-> ToMapping(draft'), step |-> "backup"]
  /\ UNCHANGED <<page, file, whole, bridge, edits, failures>>

\* What cannot be loaded is not written.
SaveRefused(p) ==
  /\ Free
  /\ Sent(p) # NoDraft
  /\ HasMapping(Sent(p)) => ~Loads(ToMapping(Sent(p)))
  /\ draft' = Sent(p)
  /\ UNCHANGED <<page, files, bridge, edits, failures>>

\* Faulty: the file is opened before the backup is written to its end.
WriteBackupLate ==
  /\ save.step = "backup"
  /\ \E c \in Cut(save.mapping) : file' = c
  /\ save' = [save EXCEPT !.step = "file"]
  /\ UNCHANGED <<page, draft, backup, whole, bridge, edits, failures>>

\* The backup is complete, and the file itself is opened and so emptied.
WriteBackup ==
  /\ save.step = "backup"
  /\ backup' = file
  /\ \E c \in Cut(save.mapping) : file' = c
  /\ save' = [save EXCEPT !.step = "file"]
  /\ UNCHANGED <<page, draft, whole, bridge, edits, failures>>

WriteFile ==
  /\ save.step = "file"
  /\ file' = save.mapping
  /\ whole' = save.mapping
  /\ save' = NoSave
  /\ UNCHANGED <<page, draft, backup, bridge, edits, failures>>

\* A write raises: the page is told, and whatever was written stays.
WriteFails ==
  /\ save # NoSave
  /\ failures < MaxFailures
  /\ failures' = failures + 1
  /\ save' = NoSave
  /\ UNCHANGED <<page, draft, file, backup, whole, bridge, edits>>

-----------------------------------------------------------------------------
(* The bridge.                                                             *)

\* Which name a new pool gets does not matter.
NewPool == CHOOSE c \in Pools \ open : TRUE

\* Faulty: the file is taken as it is.
RebuildAnyway(c) == serving' = file /\ using' = c

\* BridgeState.reload with a file that loads.
Rebuild(c) == Loads(file) /\ serving' = file /\ using' = c

\* Faulty: compares how many names there are.
MovedCount(m1, m2) == Len(Order(m1)) # Len(Order(m2))

\* The ids_moved of the answer: names are compared.
Moved(m1, m2) == Order(m1) # Order(m2)

\* Reload bridge.  A file that does not load changes nothing.
Reload ==
  /\ Free
  /\ Rebuild(conn)
  /\ UNCHANGED <<page, draft, files, up, conn, open, edits, failures>>

\* Faulty: the old pool is closed before the file is loaded.
SwitchFailsClosed ==
  /\ Free
  /\ Pools \ open # {}
  /\ ~Loads(file)
  /\ conn' = NewPool
  /\ open' = (open \cup {NewPool}) \ {conn}
  /\ UNCHANGED <<page, draft, files, up, serving, using, edits, failures>>

\* Test and use, after a new pool has been made: the mapping is reloaded on it,
\* the draft dropped and the old pool closed ...
Switch ==
  /\ Free
  /\ Pools \ open # {}
  /\ Rebuild(NewPool)
  /\ conn' = NewPool
  /\ open' = (open \cup {NewPool}) \ {conn}
  /\ draft' = NoDraft
  /\ UNCHANGED <<page, files, up, edits, failures>>

\* ... or the file does not load, after state.connection has been set.
SwitchFails ==
  /\ Free
  /\ Pools \ open # {}
  /\ ~Loads(file)
  /\ conn' = NewPool
  /\ open' = open \cup {NewPool}
  /\ UNCHANGED <<page, draft, files, up, serving, using, edits, failures>>

\* The process dies; files and pages stay.
Crash ==
  /\ up
  /\ failures < MaxFailures
  /\ failures' = failures + 1
  /\ up' = FALSE
  /\ save' = NoSave
  /\ draft' = NoDraft
  /\ open' = {}
  /\ UNCHANGED <<page, file, backup, whole, serving, conn, using, edits>>

\* build_state: it is started again, on a file that loads.
Start ==
  /\ ~up
  /\ Rebuild(NewPool)
  /\ up' = TRUE
  /\ conn' = NewPool
  /\ open' = {NewPool}
  /\ UNCHANGED <<page, draft, files, edits, failures>>

\* Somebody puts the backup in the place of a file that does not load.
Restore ==
  /\ ~up
  /\ ~Loads(file)
  /\ Loads(backup)
  /\ file' = backup
  /\ UNCHANGED <<page, draft, backup, save, whole, bridge, edits, failures>>

Next ==
  \/ \E p \in Tabs :
       \/ Boot(p) \/ Discover(p) \/ SendDraft(p)
       \/ StartSave(p) \/ SaveRefused(p)
       \/ /\ page[p] # NoDraft
          /\ \/ EditNode(p) \/ EditEdge(p)
             \/ \E l \in Links : Flip(p, l) \/ FlipFails(p, l)
  \/ WriteBackup \/ WriteFile \/ WriteFails
  \/ Reload \/ Crash \/ Restore
  \/ Switch \/ SwitchFails \/ Start

Spec == Init /\ [][Next]_vars

-----------------------------------------------------------------------------
(* Properties.                                                             *)

TypeOK ==
  /\ page \in [Tabs -> Drafts \cup {NoDraft}]
  /\ draft \in Drafts \cup {NoDraft}
  /\ file \in Mappings \cup {NoMapping}
  /\ backup \in Mappings \cup {NoMapping}
  /\ serving \in Mappings /\ whole \in Mappings
  /\ save \in [mapping : Mappings, step : {"backup", "file"}] \cup {NoSave}
  /\ up \in BOOLEAN
  /\ conn \in Pools /\ using \in Pools /\ open \subseteq Pools
  /\ edits \in 0..MaxEdits /\ failures \in 0..MaxFailures

(***************************************************************************)
(* README.md:290: saving keeps the previous file.  After a crash or a      *)
(* write error at any moment, and whatever is saved or restored after it,  *)
(* the last mapping that was saved is in the file or in its backup.        *)
(***************************************************************************)
NothingLost == save = NoSave => whole \in {file, backup}

(***************************************************************************)
(* README.md:290: a mapping that will not load is not written, whatever    *)
(* names were typed, records left out or drafts of other tabs sent.        *)
(***************************************************************************)
SavedLoads == Loads(whole) /\ (failures = 0 /\ save = NoSave => Loads(file))

(***************************************************************************)
(* README.md:256: leaving records and links out never makes a draft one    *)
(* that will not be saved; only the names typed can do that, or leaving    *)
(* out every record.                                                       *)
(***************************************************************************)
NamesIn(d) == [t \in Included(d) |-> d.nodes[t].label]
TypesIn(d) == [l \in {k \in Links : d.edges[k].include} |-> d.edges[l].type]

LeavingOutIsSafe ==
  \A p \in Tabs :
    page[p] # NoDraft /\ HasMapping(page[p]) =>
      LET labels == NamesIn(page[p])
          types == TypesIn(page[p])
      IN /\ DOMAIN labels # {}
         /\ IsInjective(labels) /\ IsInjective(types)
         /\ Range(labels) \cap Range(types) = {}
         /\ Range(labels) \cup Range(types) \subseteq Identifiers
         => Loads(ToMapping(page[p]))

(***************************************************************************)
(* A link in any mapping that was written joins, at each end, the records  *)
(* of the table its column refers to, through all renaming, flipping and   *)
(* leaving out (README.md:256 and 260).                                    *)
(***************************************************************************)
JoinsItsTables(m) ==
  \A e \in Range(m.edges) : \A end \in {e.src, e.dst} :
    [label |-> end.label, table |-> Joins[e.table][end.column]] \in Range(m.nodes)

LinksJoinTheirTables == JoinsItsTables(whole)

(***************************************************************************)
(* Neither the queries nor the editor are left with a pool that was closed *)
(* under them, however often the database is changed and fails to be.      *)
(***************************************************************************)
PoolsInUseAreOpen == up => {conn, using} \subseteq open

\* The table that each number of an id stands for.
Numbered(m) == [i \in DOMAIN m.nodes |-> m.nodes[i].table]
               \o [i \in DOMAIN m.edges |-> m.edges[i].table]

(***************************************************************************)
(* A reload that does not say that ids moved leaves every number to its    *)
(* table, so that the ids Kineviz holds stand for the rows they stood for  *)
(* (README.md:291, studio.py:763).  Only names are compared, so this needs *)
(* that no name is given to one table after another: whatever is left out, *)
(* put back and renamed in between, in several edits and saves.            *)
(***************************************************************************)
HeldIdsStand ==
  [][Reload /\ ~Moved(serving, serving') => Numbered(serving') = Numbered(serving)]_vars
=============================================================================

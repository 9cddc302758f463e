---------------------------- MODULE StudioProofs ----------------------------
(***************************************************************************)
(* What holds of Studio for any tables, links, names and tabs.  The files  *)
(* and the connections change apart from each other and from the drafts,   *)
(* so that each has an inductive invariant of its own, and a step that     *)
(* leaves its variables alone keeps it.  What is said of the drafts rests  *)
(* on what editing does to a draft, and on the mapping a draft becomes.    *)
(***************************************************************************)
EXTENDS Studio, ListsProofs

(***************************************************************************)
(* Until the first failure the last saved mapping is in the file, or, once *)
(* the file has been opened for writing, in the backup.                    *)
(***************************************************************************)
FilesInv ==
  /\ failures \in 0..MaxFailures
  /\ save = [mapping |-> save.mapping, step |-> save.step]
  /\ save.step \in {"none", "backup", "file"}
  /\ save.step # "none" => Loads(save.mapping)
  /\ Loads(whole)
  /\ failures = 0 /\ save.step \in {"none", "backup"} => file = whole
  /\ failures = 0 /\ save.step = "file" => backup = whole

\* One failure may take either of the two away; a second one, while a save is
\* repeated over a file that was cut short, could take both.
AtMostOneFailure == MaxFailures \in {0, 1}

KeptInv ==
  /\ FilesInv
  /\ save.step = "none" => whole \in {file, backup}

-----------------------------------------------------------------------------
(* The actions, by what they change.                                       *)

FileSteps == \/ WriteBackup \/ WriteFile \/ WriteFails \/ Crash \/ Restore
             \/ \E p \in Tabs : StartSave(p)

PoolSteps == Reload \/ Switch \/ SwitchFails \/ Crash \/ Start

LEMMA OtherStepsKeepFiles ==
  ASSUME [Next]_vars
  PROVE  FileSteps \/ UNCHANGED <<files, failures>>
  <1>1. ASSUME NEW p \in Tabs,
               Boot(p) \/ Discover(p) \/ SendDraft(p) \/ SaveRefused(p)
        PROVE  UNCHANGED <<files, failures>>
    BY <1>1 DEF Boot, Discover, SendDraft, SaveRefused
  <1>2. ASSUME NEW p \in Tabs, EditNode(p) \/ EditEdge(p)
        PROVE  UNCHANGED <<files, failures>>
    BY <1>2 DEF EditNode, EditEdge, Edit
  <1>3. ASSUME NEW p \in Tabs, NEW l \in Links, Flip(p, l) \/ FlipFails(p, l)
        PROVE  UNCHANGED <<files, failures>>
    BY <1>3 DEF Flip, FlipFails
  <1>4. Reload \/ Switch \/ SwitchFails \/ Start => UNCHANGED <<files, failures>>
    BY DEF Reload, Switch, SwitchFails, Start
  <1>5. UNCHANGED vars => UNCHANGED <<files, failures>>
    BY DEF vars
  <1>6. QED BY <1>1, <1>2, <1>3, <1>4, <1>5 DEF Next, FileSteps

LEMMA OtherStepsKeepPools ==
  ASSUME [Next]_vars
  PROVE  PoolSteps \/ UNCHANGED <<up, conn, using, open>>
  <1>1. ASSUME NEW p \in Tabs,
               \/ Boot(p) \/ Discover(p) \/ SendDraft(p)
               \/ StartSave(p) \/ SaveRefused(p)
        PROVE  UNCHANGED <<up, conn, using, open>>
    BY <1>1 DEF Boot, Discover, SendDraft, StartSave, SaveRefused, bridge
  <1>2. ASSUME NEW p \in Tabs, EditNode(p) \/ EditEdge(p)
        PROVE  UNCHANGED <<up, conn, using, open>>
    BY <1>2 DEF EditNode, EditEdge, Edit, bridge
  <1>3. ASSUME NEW p \in Tabs, NEW l \in Links, Flip(p, l) \/ FlipFails(p, l)
        PROVE  UNCHANGED <<up, conn, using, open>>
    BY <1>3 DEF Flip, FlipFails, bridge
  <1>4. WriteBackup \/ WriteFile \/ WriteFails \/ Restore
          => UNCHANGED <<up, conn, using, open>>
    BY DEF WriteBackup, WriteFile, WriteFails, Restore, bridge
  <1>5. UNCHANGED vars => UNCHANGED <<up, conn, using, open>>
    BY DEF vars, bridge
  <1>6. QED BY <1>1, <1>2, <1>3, <1>4, <1>5 DEF Next, PoolSteps

-----------------------------------------------------------------------------
LEMMA InitFilesInv == Init => FilesInv
  BY StudioAssumption DEF Init, FilesInv, NoSave, StudioAssumption

LEMMA StepFilesInv ==
  ASSUME FilesInv, [Next]_vars
  PROVE  FilesInv'
  <1>1. CASE UNCHANGED <<files, failures>>
    BY <1>1 DEF FilesInv, files
  <1>2. ASSUME NEW p \in Tabs, StartSave(p)
        PROVE  FilesInv'
    <2>1. /\ save = NoSave
          /\ UNCHANGED <<file, whole, failures>>
          /\ Loads(ToMapping(draft'))
          /\ save' = [mapping |-> ToMapping(draft'), step |-> "backup"]
      BY <1>2 DEF StartSave, Free
    <2>2. failures' = 0 => file' = whole'
      BY <2>1 DEF FilesInv, NoSave
    <2>3. save'.mapping = ToMapping(draft') /\ save'.step = "backup"
      BY <2>1
    <2>4. QED BY <2>1, <2>2, <2>3 DEF FilesInv
  <1>3. CASE WriteBackup
    <2>1. /\ save.step = "backup"
          /\ backup' = file
          /\ save' = [save EXCEPT !.step = "file"]
          /\ UNCHANGED <<whole, failures>>
      BY <1>3 DEF WriteBackup
    <2>2. save' = [mapping |-> save.mapping, step |-> "file"]
      BY <2>1 DEF FilesInv
    <2>3. save'.mapping = save.mapping /\ save'.step = "file"
      BY <2>2
    <2>4. QED BY <2>1, <2>2, <2>3 DEF FilesInv
  <1>4. CASE WriteFile
    <2>1. /\ save.step = "file"
          /\ file' = save.mapping /\ whole' = save.mapping
          /\ save' = NoSave
          /\ UNCHANGED failures
      BY <1>4 DEF WriteFile
    <2>2. QED BY <2>1 DEF FilesInv, NoSave
  <1>5. CASE WriteFails \/ Crash
    <2>1. /\ failures < MaxFailures /\ failures' = failures + 1
          /\ save' = NoSave
          /\ UNCHANGED <<file, backup, whole>>
      BY <1>5 DEF WriteFails, Crash
    <2>2. failures' # 0 /\ failures' \in 0..MaxFailures
      BY <2>1, StudioAssumption DEF FilesInv, StudioAssumption
    <2>3. QED BY <2>1, <2>2 DEF FilesInv, NoSave
  <1>6. CASE Restore
    <2>1. /\ ~Loads(file)
          /\ file' = backup
          /\ UNCHANGED <<backup, save, whole, failures>>
      BY <1>6 DEF Restore
    <2>2. file # whole
      BY <2>1 DEF FilesInv
    <2>3. QED BY <2>1, <2>2 DEF FilesInv
  <1>7. QED BY <1>1, <1>2, <1>3, <1>4, <1>5, <1>6, OtherStepsKeepFiles DEF FileSteps

LEMMA StepKeptInv ==
  ASSUME AtMostOneFailure, KeptInv, [Next]_vars
  PROVE  KeptInv'
  <1> USE DEF KeptInv
  <1>1. FilesInv'
    BY StepFilesInv
  <1>2. ASSUME save'.step = "none" PROVE whole' \in {file', backup'}
    <2>1. CASE UNCHANGED <<files, failures>>
      BY <1>2, <2>1 DEF files
    <2>2. ASSUME NEW p \in Tabs, StartSave(p) PROVE FALSE
      <3>1. save'.step = "backup"
        BY <2>2 DEF StartSave
      <3> QED BY <1>2, <3>1
    <2>3. ~WriteBackup
      <3>1. ASSUME WriteBackup PROVE FALSE
        <4>1. save' = [save EXCEPT !.step = "file"]
          BY <3>1 DEF WriteBackup
        <4>2. save'.step = "file"
          BY <4>1 DEF FilesInv
        <4> QED BY <1>2, <4>2
      <3> QED BY <3>1
    <2>4. CASE WriteFile
      BY <2>4 DEF WriteFile
    <2>5. CASE WriteFails \/ Crash
      <3>1. /\ failures < MaxFailures /\ failures' = failures + 1
            /\ UNCHANGED <<file, backup, whole>>
        BY <2>5 DEF WriteFails, Crash
      <3>2. failures = 0
        BY <3>1 DEF FilesInv, AtMostOneFailure
      <3>3. whole \in {file, backup}
        BY <3>2 DEF FilesInv
      <3> QED BY <3>1, <3>3
    <2>6. CASE Restore
      <3>1. /\ ~Loads(file) /\ file' = backup
            /\ UNCHANGED <<backup, save, whole>>
        BY <2>6 DEF Restore
      <3>2. file # whole
        BY <3>1 DEF FilesInv
      <3> QED BY <1>2, <3>1, <3>2
    <2> QED BY <2>1, <2>2, <2>3, <2>4, <2>5, <2>6, OtherStepsKeepFiles DEF FileSteps
  <1> QED BY <1>1, <1>2

-----------------------------------------------------------------------------
(***************************************************************************)
(* The last mapping that was saved is never lost (studio.py, save): one    *)
(* crash or one write error, at whatever moment, leaves it in the mapping  *)
(* file or in its backup.                                                  *)
(***************************************************************************)
THEOREM SavedMappingIsKept ==
  ASSUME AtMostOneFailure
  PROVE  Spec => []NothingLost
  <1>1. Init => KeptInv
    BY InitFilesInv DEF Init, KeptInv
  <1>2. KeptInv /\ [Next]_vars => KeptInv'
    BY StepKeptInv
  <1>3. KeptInv => NothingLost
    BY DEF KeptInv, NothingLost, NoSave
  <1>4. QED BY <1>1, <1>2, <1>3, PTL DEF Spec

(***************************************************************************)
(* Only mappings that load are written (studio.py, save, and               *)
(* mapping.from_dict), however many writes fail.                           *)
(***************************************************************************)
THEOREM OnlyLoadableIsSaved == Spec => []SavedLoads
  <1>1. FilesInv /\ [Next]_vars => FilesInv'
    BY StepFilesInv
  <1>2. FilesInv => SavedLoads
    BY DEF FilesInv, SavedLoads, NoSave
  <1>3. QED BY InitFilesInv, <1>1, <1>2, PTL DEF Spec

-----------------------------------------------------------------------------
LEMMA NewPoolIsNew == Pools \ open # {} => NewPool \in Pools \ open
  BY DEF NewPool

LEMMA StepPools ==
  ASSUME PoolsInUseAreOpen, [Next]_vars
  PROVE  PoolsInUseAreOpen'
  <1>1. CASE UNCHANGED <<up, conn, using, open>>
    BY <1>1 DEF PoolsInUseAreOpen
  <1>2. CASE Reload
    BY <1>2 DEF Reload, Rebuild, Free, PoolsInUseAreOpen
  <1>3. CASE Switch
    <2>1. /\ up /\ Pools \ open # {}
          /\ using' = NewPool /\ conn' = NewPool
          /\ open' = (open \cup {NewPool}) \ {conn}
      BY <1>3 DEF Switch, Rebuild, Free
    <2>2. NewPool # conn
      BY <2>1, NewPoolIsNew DEF PoolsInUseAreOpen
    <2>3. QED BY <2>1, <2>2 DEF PoolsInUseAreOpen
  <1>4. CASE SwitchFails
    BY <1>4 DEF SwitchFails, Free, PoolsInUseAreOpen
  <1>5. CASE Crash
    BY <1>5 DEF Crash, PoolsInUseAreOpen
  <1>6. CASE Start
    BY <1>6 DEF Start, Rebuild, PoolsInUseAreOpen
  <1>7. QED BY <1>1, <1>2, <1>3, <1>4, <1>5, <1>6, OtherStepsKeepPools DEF PoolSteps

(***************************************************************************)
(* No pool is closed while queries or the editor use it (studio.py,        *)
(* use_conn), however many times the database is changed.                  *)
(***************************************************************************)
THEOREM NoPoolClosedInUse == Spec => []PoolsInUseAreOpen
  <1>1. Init => PoolsInUseAreOpen
    BY DEF Init, PoolsInUseAreOpen
  <1>2. PoolsInUseAreOpen /\ [Next]_vars => PoolsInUseAreOpen'
    BY StepPools
  <1>3. QED BY <1>1, <1>2, PTL DEF Spec

-----------------------------------------------------------------------------
(* Editing a draft leaves a draft.                                         *)

LEMMA PlacedLinks ==
  ASSUME NEW l \in Links
  PROVE  \E j \in DOMAIN LinkOrder : LinkOrder[j] = l
BY DEF Links, Range

LEMMA ReachedIsThere ==
  ASSUME NEW d \in Drafts, NEW l \in Links, Reaches(d, l)
  PROVE  d.edges[l] # NoEdge
<1> DEFINE j == CHOOSE j \in DOMAIN LinkOrder : LinkOrder[j] = l
<1>1. j \in DOMAIN LinkOrder /\ LinkOrder[j] = l
  BY PlacedLinks
<1>2. DOMAIN LinkOrder = 1..Len(LinkOrder) /\ Len(LinkOrder) \in Nat
  BY DraftAssumption, InList DEF DraftAssumption
<1>3. \A i \in 1..j : d.edges[LinkOrder[i]] # NoEdge
  BY DEF Reaches
<1> HIDE DEF j
<1>4. j \in 1..j
  BY <1>1, <1>2
<1>5. d.edges[LinkOrder[j]] # NoEdge
  BY <1>3, <1>4
<1> QED BY <1>1, <1>5

LEMMA LinkParts ==
  ASSUME NEW e \in Edges, e # NoEdge
  PROVE  /\ e = [type |-> e.type, include |-> e.include, src |-> e.src, dst |-> e.dst]
         /\ e.type \in Names /\ e.include \in BOOLEAN
         /\ e.src \in Ends /\ e.dst \in Ends
BY DEF Edges

LEMMA FlippedParts ==
  ASSUME NEW e \in Edges, e # NoEdge
  PROVE  Flipped(e) = [type |-> e.type, include |-> e.include, src |-> e.dst, dst |-> e.src]
<1>1. PICK a, b, s, t : e = [type |-> a, include |-> b, src |-> s, dst |-> t]
  BY LinkParts
<1>2. /\ DOMAIN Flipped(e) = {"type", "include", "src", "dst"}
      /\ Flipped(e).type = a /\ Flipped(e).include = b
      /\ Flipped(e).src = t /\ Flipped(e).dst = s
  BY <1>1 DEF Flipped
<1>3. Flipped(e) = [x \in {"type", "include", "src", "dst"} |-> Flipped(e)[x]]
  BY <1>1, <1>2 DEF Flipped
<1>4. Flipped(e) = [type |-> a, include |-> b, src |-> t, dst |-> s]
  BY <1>2, <1>3
<1>5. e.type = a /\ e.include = b /\ e.src = s /\ e.dst = t
  BY <1>1
<1> QED BY <1>4, <1>5

LEMMA DraftParts ==
  ASSUME NEW d \in Drafts
  PROVE  /\ d = [nodes |-> d.nodes, edges |-> d.edges]
         /\ d.nodes \in [Tables -> [label : Names, include : BOOLEAN]]
         /\ d.edges \in [Links -> Edges]
BY DEF Drafts

LEMMA RenamedIsEnd ==
  ASSUME NEW end \in Ends, NEW old, NEW new \in Names
  PROVE  Renamed(end, old, new) \in Ends
BY DEF Renamed, Ends

LEMMA RenameNodeType ==
  ASSUME NEW d \in Drafts, NEW t \in Tables, NEW new \in Names
  PROVE  RenameNode(d, t, new) \in Drafts
<1> DEFINE old == d.nodes[t].label
           ns == [d.nodes EXCEPT ![t].label = new]
           es == [l \in Links |->
                    IF Reaches(d, l)
                    THEN [d.edges[l] EXCEPT !.src = Renamed(@, old, new),
                                            !.dst = Renamed(@, old, new)]
                    ELSE d.edges[l]]
<1>1. ns \in [Tables -> [label : Names, include : BOOLEAN]]
  BY DraftParts
<1>2. ASSUME NEW l \in Links PROVE es[l] \in Edges
  <2>1. d.edges[l] \in Edges
    BY DraftParts
  <2>2. CASE Reaches(d, l)
    <3>1. d.edges[l] # NoEdge
      BY <2>2, ReachedIsThere
    <3> DEFINE e == d.edges[l]
    <3>2. /\ e = [type |-> e.type, include |-> e.include, src |-> e.src, dst |-> e.dst]
          /\ e.type \in Names /\ e.include \in BOOLEAN
          /\ e.src \in Ends /\ e.dst \in Ends
      BY <2>1, <3>1, LinkParts
    <3>3. Renamed(e.src, old, new) \in Ends /\ Renamed(e.dst, old, new) \in Ends
      BY <3>2, RenamedIsEnd
    <3>4. es[l] = [e EXCEPT !.src = Renamed(@, old, new), !.dst = Renamed(@, old, new)]
      BY <2>2
    <3> HIDE DEF e, es
    <3>5. es[l] = [type |-> e.type, include |-> e.include,
                   src |-> Renamed(e.src, old, new), dst |-> Renamed(e.dst, old, new)]
      BY <3>2, <3>4
    <3> QED BY <3>2, <3>3, <3>5 DEF Edges
  <2> QED BY <2>1, <2>2
<1>3. es \in [Links -> Edges]
  BY <1>2
<1>4. RenameNode(d, t, new) = [nodes |-> ns, edges |-> es]
  BY DEF RenameNode
<1> HIDE DEF ns, es
<1> QED BY <1>1, <1>3, <1>4 DEF Drafts

LEMMA IncludeNodeType ==
  ASSUME NEW d \in Drafts, NEW t \in Tables
  PROVE  IncludeNode(d, t) \in Drafts
<1>1. d.nodes[t] = [label |-> d.nodes[t].label, include |-> d.nodes[t].include]
  BY DraftParts
<1> DEFINE ns == [d.nodes EXCEPT ![t].include = ~@]
<1>2. ns \in [Tables -> [label : Names, include : BOOLEAN]]
  BY <1>1, DraftParts
<1>3. IncludeNode(d, t) = [nodes |-> ns, edges |-> d.edges]
  <2>1. d = [nodes |-> d.nodes, edges |-> d.edges]
    BY DraftParts
  <2> QED BY ONLY <2>1 DEF IncludeNode, ns
<1> HIDE DEF ns
<1> QED BY <1>2, <1>3, DraftParts DEF Drafts

\* Putting one link in the place of another.
LEMMA PutLinkType ==
  ASSUME NEW d \in Drafts, NEW l \in Links, NEW e \in Edges
  PROVE  [d EXCEPT !.edges[l] = e] \in Drafts
<1> DEFINE es == [d.edges EXCEPT ![l] = e]
<1>1. es \in [Links -> Edges]
  BY DraftParts
<1>2. [d EXCEPT !.edges[l] = e] = [nodes |-> d.nodes, edges |-> es]
  BY DraftParts
<1> HIDE DEF es
<1> QED BY <1>1, <1>2, DraftParts DEF Drafts

LEMMA EditedLinkType ==
  ASSUME NEW e \in Edges, e # NoEdge, NEW x \in Names
  PROVE  /\ [e EXCEPT !.type = x] \in Edges
         /\ [e EXCEPT !.include = ~@] \in Edges
         /\ Flipped(e) \in Edges
<1>1. /\ e = [type |-> e.type, include |-> e.include, src |-> e.src, dst |-> e.dst]
      /\ e.type \in Names /\ e.src \in Ends /\ e.dst \in Ends
  BY LinkParts
<1>2. e.include \in BOOLEAN
  BY LinkParts
<1>3. (~e.include) \in BOOLEAN
  OBVIOUS
<1>4. [e EXCEPT !.type = x]
        = [type |-> x, include |-> e.include, src |-> e.src, dst |-> e.dst]
  BY <1>1
<1>5. [e EXCEPT !.include = ~@]
        = [type |-> e.type, include |-> ~e.include, src |-> e.src, dst |-> e.dst]
  BY <1>1
<1>6. Flipped(e) = [type |-> e.type, include |-> e.include, src |-> e.dst, dst |-> e.src]
  BY FlippedParts
<1>7. [e EXCEPT !.type = x] \in Edges /\ Flipped(e) \in Edges
  BY <1>1, <1>2, <1>4, <1>6 DEF Edges
<1>8. [type |-> e.type, include |-> ~e.include, src |-> e.src, dst |-> e.dst] \in Edges
  BY <1>1, <1>3, Zenon DEF Edges
<1> QED BY <1>5, <1>7, <1>8

LEMMA EditedDraftType ==
  ASSUME NEW d \in Drafts, NEW l \in Links, d.edges[l] # NoEdge, NEW x \in Names
  PROVE  RenameEdge(d, l, x) \in Drafts /\ IncludeEdge(d, l) \in Drafts
<1> DEFINE e == d.edges[l]
<1>1. [e EXCEPT !.type = x] \in Edges /\ [e EXCEPT !.include = ~@] \in Edges
  BY DraftParts, EditedLinkType
<1>2. RenameEdge(d, l, x) = [d EXCEPT !.edges[l] = [e EXCEPT !.type = x]]
  BY DraftParts DEF RenameEdge
<1>3. IncludeEdge(d, l) = [d EXCEPT !.edges[l] = [e EXCEPT !.include = ~@]]
  BY DraftParts DEF IncludeEdge
<1> QED BY <1>1, <1>2, <1>3, PutLinkType

LEMMA DiscoveredType == Discovered \in Drafts
<1>1. /\ \A t \in Tables : t \in Names
      /\ \A l \in Links : l \in Names /\ Joins[l][1] \in Names /\ Joins[l][2] \in Names
  BY DraftAssumption DEF DraftAssumption
<1> QED BY <1>1 DEF Discovered, Drafts, Edges, Ends

-----------------------------------------------------------------------------
(* The mapping a draft becomes.                                            *)

TablesOf(d) == Kept(TableOrder, Included(d))
LinksOf(d) == Kept(LinkOrder, {l \in Links : Written(d, l)})

LEMMA ListsOf ==
  ASSUME NEW d
  PROVE  /\ TablesOf(d) \in Seq(Tables) /\ IsInjective(TablesOf(d))
         /\ Range(TablesOf(d)) = Included(d)
         /\ LinksOf(d) \in Seq(Links) /\ IsInjective(LinksOf(d))
         /\ Range(LinksOf(d)) = {l \in Links : Written(d, l)}
<1>1. \A s : Range(s) = ToSet(s)
  BY DEF Range, ToSet
<1>2. /\ TablesOf(d) \in Seq(Tables) /\ IsInjective(TablesOf(d))
      /\ Range(TablesOf(d)) = Tables \cap Included(d)
  BY <1>1, DraftAssumption, KeptHolds DEF TablesOf, Tables, DraftAssumption
<1>3. /\ LinksOf(d) \in Seq(Links) /\ IsInjective(LinksOf(d))
      /\ Range(LinksOf(d)) = Links \cap {l \in Links : Written(d, l)}
  BY <1>1, DraftAssumption, KeptHolds DEF LinksOf, Links, DraftAssumption
<1>4. Tables \cap Included(d) = Included(d)
  BY DEF Included
<1> QED BY <1>2, <1>3, <1>4

LEMMA ResolveType ==
  ASSUME NEW d \in Drafts, NEW n \in Names
  PROVE  Resolve(d, n) \in Names
BY DraftParts DEF Resolve, Included

LEMMA MappedEdgeParts ==
  ASSUME NEW d \in Drafts, NEW l \in Links, d.edges[l] # NoEdge
  PROVE  /\ MappedEdge(d, l) =
              [type |-> d.edges[l].type, table |-> l,
               src |-> [label |-> Resolve(d, d.edges[l].src.label),
                        column |-> d.edges[l].src.column],
               dst |-> [label |-> Resolve(d, d.edges[l].dst.label),
                        column |-> d.edges[l].dst.column]]
         /\ MappedEdge(d, l).src \in Ends /\ MappedEdge(d, l).dst \in Ends
         /\ d.edges[l].type \in Names
<1> DEFINE e == d.edges[l]
<1>1. e.type \in Names /\ e.src \in Ends /\ e.dst \in Ends
  BY DraftParts, LinkParts
<1>2. ASSUME NEW end \in Ends
      PROVE  /\ [end EXCEPT !.label = Resolve(d, @)]
                  = [label |-> Resolve(d, end.label), column |-> end.column]
             /\ [label |-> Resolve(d, end.label), column |-> end.column] \in Ends
  <2>1. end = [label |-> end.label, column |-> end.column]
        /\ end.label \in Names /\ end.column \in 1..2
    BY DEF Ends
  <2>2. Resolve(d, end.label) \in Names
    BY <2>1, ResolveType
  <2> QED BY <2>1, <2>2 DEF Ends
<1>3. MappedEdge(d, l) = [type |-> e.type, table |-> l,
                          src |-> [e.src EXCEPT !.label = Resolve(d, @)],
                          dst |-> [e.dst EXCEPT !.label = Resolve(d, @)]]
  BY DEF MappedEdge
<1> HIDE DEF e
<1>4. PICK s, t : /\ s = [label |-> Resolve(d, e.src.label), column |-> e.src.column]
                  /\ t = [label |-> Resolve(d, e.dst.label), column |-> e.dst.column]
  OBVIOUS
<1>5. /\ MappedEdge(d, l) = [type |-> e.type, table |-> l, src |-> s, dst |-> t]
      /\ s \in Ends /\ t \in Ends
  BY <1>1, <1>2, <1>3, <1>4
<1> QED BY <1>1, <1>4, <1>5 DEF e

LEMMA MappingParts ==
  ASSUME NEW d \in Drafts, HasMapping(d)
  PROVE  /\ ToMapping(d) \in Mappings
         /\ ToMapping(d) # NoMapping
         /\ Len(ToMapping(d).nodes) = Len(TablesOf(d))
         /\ \A i \in 1..Len(TablesOf(d)) :
              ToMapping(d).nodes[i] = [label |-> d.nodes[TablesOf(d)[i]].label,
                                       table |-> TablesOf(d)[i]]
         /\ Len(ToMapping(d).edges) = Len(LinksOf(d))
         /\ \A i \in 1..Len(LinksOf(d)) : ToMapping(d).edges[i] = MappedEdge(d, LinksOf(d)[i])
<1> DEFINE ts == TablesOf(d)
           ls == LinksOf(d)
           ns == [i \in DOMAIN ts |-> [label |-> d.nodes[ts[i]].label, table |-> ts[i]]]
           es == [i \in DOMAIN ls |-> MappedEdge(d, ls[i])]
<1>1. /\ DOMAIN ts = 1..Len(ts) /\ Len(ts) \in Nat /\ \A i \in 1..Len(ts) : ts[i] \in Tables
      /\ DOMAIN ls = 1..Len(ls) /\ Len(ls) \in Nat /\ \A i \in 1..Len(ls) : ls[i] \in Links
  BY ListsOf, InList
<1>2. ToMapping(d) = [nodes |-> ns, edges |-> es]
  BY DEF ToMapping, TablesOf, LinksOf
<1> HIDE DEF ts, ls
<1>3. ns \in [1..Len(ts) -> [label : Names, table : Tables]]
  BY <1>1, DraftParts
<1>4. es \in [1..Len(ls) -> [type : Names, table : Links, src : Ends, dst : Ends]]
  <2>1. ASSUME NEW l \in Links
        PROVE  MappedEdge(d, l) \in [type : Names, table : Links, src : Ends, dst : Ends]
    <3>1. d.edges[l] # NoEdge
      BY DEF HasMapping
    <3> QED BY <3>1, MappedEdgeParts
  <2> QED BY <1>1, <2>1
<1>5. /\ \A i \in 1..Len(ts) : ns[i] = [label |-> d.nodes[ts[i]].label, table |-> ts[i]]
      /\ \A i \in 1..Len(ls) : es[i] = MappedEdge(d, ls[i])
  BY <1>1
<1> HIDE DEF ns, es
<1>6. \A S, s : \A n \in Nat : s \in [1..n -> S] => s \in Seq(S) /\ Len(s) = n
  BY IsASeq
<1>7. /\ ns \in Seq([label : Names, table : Tables]) /\ Len(ns) = Len(ts)
      /\ es \in Seq([type : Names, table : Links, src : Ends, dst : Ends])
      /\ Len(es) = Len(ls)
  BY ONLY <1>1, <1>3, <1>4, <1>6, Zenon
<1>8. ToMapping(d) \in Mappings
  BY <1>2, <1>7 DEF Mappings
<1>9. ToMapping(d) # NoMapping
  BY <1>8, DraftAssumption DEF DraftAssumption
<1>10. ToMapping(d).nodes = ns /\ ToMapping(d).edges = es
  BY <1>2
<1> QED BY <1>5, <1>7, <1>8, <1>9, <1>10 DEF ts, ls

\* A file whose writing stopped is empty, or a mapping that lacks some of it.
LEMMA CutType ==
  ASSUME NEW m \in Mappings \cup {NoMapping}
  PROVE  Cut(m) \subseteq Mappings \cup {NoMapping}
<1>1. CASE m = NoMapping
  BY <1>1 DEF Cut
<1>2. CASE m # NoMapping
  <2> DEFINE N == [label : Names, table : Tables]
             E == [type : Names, table : Links, src : Ends, dst : Ends]
  <2>1. /\ m = [nodes |-> m.nodes, edges |-> m.edges]
        /\ m.nodes \in Seq(N) /\ m.edges \in Seq(E)
    BY <1>2 DEF Mappings
  <2> HIDE DEF N, E
  <2>2. ASSUME NEW i \in 1..Len(m.nodes)
        PROVE  [nodes |-> SubSeq(m.nodes, 1, i), edges |-> <<>>] \in Mappings
    <3>1. SubSeq(m.nodes, 1, i) \in Seq(N) /\ <<>> \in Seq(E)
      BY <2>1, SubSeqProperties, LenProperties, EmptySeq
    <3> QED BY <3>1 DEF Mappings, N, E
  <2>3. ASSUME NEW j \in DOMAIN m.edges
        PROVE  [m EXCEPT !.edges = SubSeq(@, 1, j)] \in Mappings
    <3>1. SubSeq(m.edges, 1, j) \in Seq(E)
      BY <2>1, SubSeqProperties, LenProperties
    <3>2. PICK es : es = SubSeq(m.edges, 1, j)
      OBVIOUS
    <3>3. [m EXCEPT !.edges = es] = [nodes |-> m.nodes, edges |-> es]
      BY <2>1
    <3>4. [nodes |-> m.nodes, edges |-> es] \in Mappings
      BY <2>1, <3>1, <3>2 DEF Mappings, N, E
    <3>5. [m EXCEPT !.edges = SubSeq(@, 1, j)] = [m EXCEPT !.edges = es]
      BY <3>2
    <3> QED BY <3>3, <3>4, <3>5
  <2>4. Shorter(m) \subseteq Mappings
    BY <2>2, <2>3 DEF Shorter
  <2> QED BY <1>2, <2>4 DEF Cut
<1> QED BY <1>1, <1>2

-----------------------------------------------------------------------------
(* The type invariant.  A process that does not run has no open pool, so   *)
(* that one can be made when it is started.                                *)

TypeInv ==
  /\ TypeOK
  /\ ~up => open = {}

LEMMA InitTypeInv == Init => TypeInv
<1> SUFFICES ASSUME Init PROVE TypeInv
  OBVIOUS
<1>1. conn \in Pools /\ using \in Pools /\ open \subseteq Pools
  BY StudioAssumption DEF Init, StudioAssumption
<1>2. page \in [Tabs -> Drafts \cup {NoDraft}] /\ draft \in Drafts \cup {NoDraft}
  BY DEF Init
<1>3. /\ file \in Mappings \cup {NoMapping} /\ backup \in Mappings \cup {NoMapping}
      /\ serving \in Mappings /\ whole \in Mappings
  BY StudioAssumption DEF Init, StudioAssumption
<1>4. /\ save \in [mapping : Mappings, step : {"backup", "file"}] \cup {NoSave}
      /\ up \in BOOLEAN /\ up
      /\ edits \in 0..MaxEdits /\ failures \in 0..MaxFailures
  BY StudioAssumption DEF Init, StudioAssumption
<1> QED BY <1>1, <1>2, <1>3, <1>4 DEF TypeInv, TypeOK

\* What a person does in a page.
LEMMA EditType ==
  ASSUME TypeInv, NEW p \in Tabs, NEW d \in Drafts, Edit(p, d)
  PROVE  TypeInv'
<1>1. /\ edits < MaxEdits /\ edits' = edits + 1
      /\ page' = [page EXCEPT ![p] = d]
      /\ UNCHANGED <<draft, file, backup, save, whole, up, serving, conn, using, open, failures>>
  BY DEF Edit, files, bridge
<1>2. page' \in [Tabs -> Drafts \cup {NoDraft}]
  BY <1>1 DEF TypeInv, TypeOK
<1>3. edits' \in 0..MaxEdits
  BY <1>1, StudioAssumption DEF TypeInv, TypeOK, StudioAssumption
<1> QED BY <1>1, <1>2, <1>3 DEF TypeInv, TypeOK

LEMMA PageEditType ==
  ASSUME TypeInv, NEW p \in Tabs, page[p] # NoDraft, EditNode(p) \/ EditEdge(p)
  PROVE  TypeInv'
<1>1. page[p] \in Drafts
  BY DEF TypeInv, TypeOK
<1>2. CASE EditNode(p)
  <2>1. PICK t \in Tables :
          \/ \E x \in NodeNames[t] \ {page[p].nodes[t].label} :
               Edit(p, RenameNode(page[p], t, x))
          \/ Edit(p, IncludeNode(page[p], t))
    BY <1>2 DEF EditNode
  <2>2. \A x \in NodeNames[t] : x \in Names
    BY StudioAssumption DEF StudioAssumption
  <2> QED BY <1>1, <2>1, <2>2, EditType, RenameNodeType, IncludeNodeType
<1>3. CASE EditEdge(p)
  <2>1. PICK l \in Links :
          /\ page[p].edges[l] # NoEdge
          /\ \/ \E x \in LinkNames[l] \ {page[p].edges[l].type} :
                  Edit(p, RenameEdge(page[p], l, x))
             \/ Edit(p, IncludeEdge(page[p], l))
    BY <1>3 DEF EditEdge
  <2>2. \A x \in LinkNames[l] : x \in Names
    BY StudioAssumption DEF StudioAssumption
  <2>3. CASE Edit(p, IncludeEdge(page[p], l))
    <3>1. \E x : x \in Names
      BY DraftAssumption DEF DraftAssumption
    <3> QED BY <1>1, <2>1, <2>3, <3>1, EditType, EditedDraftType
  <2>4. CASE \E x \in LinkNames[l] : Edit(p, RenameEdge(page[p], l, x))
    BY <1>1, <2>1, <2>2, <2>4, EditType, EditedDraftType
  <2> QED BY <2>1, <2>3, <2>4
<1> QED BY <1>2, <1>3

\* What a route puts into a page and into the draft of the bridge.
LEMMA PutDraftType ==
  ASSUME TypeInv, page' \in [Tabs -> Drafts \cup {NoDraft}], draft' \in Drafts \cup {NoDraft},
         UNCHANGED <<files, bridge, edits, failures>>
  PROVE  TypeInv'
BY DEF TypeInv, TypeOK, files, bridge

LEMMA DraftRouteType ==
  ASSUME TypeInv, NEW p \in Tabs, Boot(p) \/ Discover(p) \/ SendDraft(p) \/ SaveRefused(p)
  PROVE  TypeInv'
<1>1. /\ page \in [Tabs -> Drafts \cup {NoDraft}] /\ page[p] \in Drafts \cup {NoDraft}
      /\ draft \in Drafts \cup {NoDraft}
  BY DEF TypeInv, TypeOK
<1>2. CASE Boot(p)
  BY <1>1, <1>2, PutDraftType DEF Boot
<1>3. CASE Discover(p)
  BY <1>1, <1>3, PutDraftType, DiscoveredType DEF Discover
<1>4. CASE SendDraft(p)
  BY <1>1, <1>4, PutDraftType DEF SendDraft
<1>5. CASE SaveRefused(p)
  BY <1>1, <1>5, PutDraftType DEF SaveRefused, Sent
<1> QED BY <1>2, <1>3, <1>4, <1>5

\* Flipping puts a link into the page.
LEMMA PutLinkInPage ==
  ASSUME TypeInv, NEW p \in Tabs, NEW l \in Links, page[p] # NoDraft, NEW e \in Edges
  PROVE  /\ [page EXCEPT ![p].edges[l] = e] = [page EXCEPT ![p] = [@ EXCEPT !.edges[l] = e]]
         /\ [page EXCEPT ![p].edges[l] = e] \in [Tabs -> Drafts \cup {NoDraft}]
         /\ [page EXCEPT ![p].edges[l] = e][p] = [page[p] EXCEPT !.edges[l] = e]
         /\ [page[p] EXCEPT !.edges[l] = e] \in Drafts
<1>1. page \in [Tabs -> Drafts \cup {NoDraft}] /\ page[p] \in Drafts
  BY DEF TypeInv, TypeOK
<1>2. [page[p] EXCEPT !.edges[l] = e] \in Drafts
  BY <1>1, PutLinkType
<1>3. [page EXCEPT ![p].edges[l] = e] = [page EXCEPT ![p] = [@ EXCEPT !.edges[l] = e]]
  BY <1>1
<1> DEFINE d == [page[p] EXCEPT !.edges[l] = e]
<1>4. [page EXCEPT ![p] = [@ EXCEPT !.edges[l] = e]] = [page EXCEPT ![p] = d]
  OBVIOUS
<1> HIDE DEF d
<1>5. d \in Drafts
  BY <1>2 DEF d
<1>6. [page EXCEPT ![p] = d] \in [Tabs -> Drafts \cup {NoDraft}]
      /\ [page EXCEPT ![p] = d][p] = d
  BY <1>1, <1>5
<1> QED BY <1>3, <1>4, <1>5, <1>6 DEF d

LEMMA FlipType ==
  ASSUME TypeInv, NEW p \in Tabs, page[p] # NoDraft, NEW l \in Links, Flip(p, l) \/ FlipFails(p, l)
  PROVE  TypeInv'
<1>1. CASE Flip(p, l)
  <2>1. /\ draft # NoDraft /\ Reaches(draft, l)
        /\ page' = [page EXCEPT ![p].edges[l] = Flipped(draft.edges[l])]
        /\ draft' = page'[p]
        /\ UNCHANGED <<files, bridge, edits, failures>>
    BY <1>1 DEF Flip
  <2>2. draft \in Drafts
    BY <2>1 DEF TypeInv, TypeOK
  <2>3. \E x : x \in Names
    BY DraftAssumption DEF DraftAssumption
  <2>4. draft.edges[l] \in Edges /\ draft.edges[l] # NoEdge
    BY <2>1, <2>2, DraftParts, ReachedIsThere
  <2>5. Flipped(draft.edges[l]) \in Edges
    BY <2>3, <2>4, EditedLinkType
  <2>6. page' \in [Tabs -> Drafts \cup {NoDraft}] /\ page'[p] \in Drafts
    BY <2>1, <2>5, PutLinkInPage
  <2> QED BY <2>1, <2>6, PutDraftType
<1>2. CASE FlipFails(p, l)
  <2>1. /\ page' = [page EXCEPT ![p].edges[l] = NoEdge]
        /\ draft' = draft
        /\ UNCHANGED <<files, bridge, edits, failures>>
    BY <1>2 DEF FlipFails
  <2>2. NoEdge \in Edges
    BY DEF Edges
  <2>3. page' \in [Tabs -> Drafts \cup {NoDraft}]
    BY <2>1, <2>2, PutLinkInPage
  <2>4. draft' \in Drafts \cup {NoDraft}
    BY <2>1 DEF TypeInv, TypeOK
  <2> QED BY <2>1, <2>3, <2>4, PutDraftType
<1> QED BY <1>1, <1>2

\* Saving, step by step.
LEMMA SaveType ==
  ASSUME TypeInv, (\E p \in Tabs : StartSave(p)) \/ WriteBackup \/ WriteFile \/ WriteFails
  PROVE  TypeInv'
<1>1. ASSUME NEW p \in Tabs, StartSave(p) PROVE TypeInv'
  <2>1. /\ draft' = Sent(p) /\ draft' # NoDraft /\ HasMapping(draft')
        /\ backup' \in Cut(file)
        /\ save' = [mapping |-> ToMapping(draft'), step |-> "backup"]
        /\ UNCHANGED <<page, file, whole, bridge, edits, failures>>
    BY <1>1 DEF StartSave
  <2>2. draft' \in Drafts
    BY <2>1 DEF TypeInv, TypeOK, Sent
  <2>3. ToMapping(draft') \in Mappings
    BY <2>1, <2>2, MappingParts
  <2>4. backup' \in Mappings \cup {NoMapping}
    BY <2>1, CutType DEF TypeInv, TypeOK
  <2>5. save' \in [mapping : Mappings, step : {"backup", "file"}]
    BY <2>1, <2>3
  <2> QED BY <2>1, <2>2, <2>4, <2>5 DEF TypeInv, TypeOK, bridge
<1>2. CASE WriteBackup
  <2>1. /\ save.step = "backup"
        /\ backup' = file /\ file' \in Cut(save.mapping)
        /\ save' = [save EXCEPT !.step = "file"]
        /\ UNCHANGED <<page, draft, whole, bridge, edits, failures>>
    BY <1>2 DEF WriteBackup
  <2>2. save \in [mapping : Mappings, step : {"backup", "file"}]
    BY <2>1 DEF TypeInv, TypeOK, NoSave
  <2>3. file' \in Mappings \cup {NoMapping}
    BY <2>1, <2>2, CutType
  <2>4. save' \in [mapping : Mappings, step : {"backup", "file"}]
    BY <2>1, <2>2
  <2> QED BY <2>1, <2>3, <2>4 DEF TypeInv, TypeOK, bridge
<1>3. CASE WriteFile
  <2>1. /\ save.step = "file"
        /\ file' = save.mapping /\ whole' = save.mapping /\ save' = NoSave
        /\ UNCHANGED <<page, draft, backup, bridge, edits, failures>>
    BY <1>3 DEF WriteFile
  <2>2. save.mapping \in Mappings
    BY <2>1 DEF TypeInv, TypeOK, NoSave
  <2> QED BY <2>1, <2>2 DEF TypeInv, TypeOK, bridge
<1>4. CASE WriteFails
  <2>1. /\ failures < MaxFailures /\ failures' = failures + 1 /\ save' = NoSave
        /\ UNCHANGED <<page, draft, file, backup, whole, bridge, edits>>
    BY <1>4 DEF WriteFails
  <2>2. failures' \in 0..MaxFailures
    BY <2>1, StudioAssumption DEF TypeInv, TypeOK, StudioAssumption
  <2> QED BY <2>1, <2>2 DEF TypeInv, TypeOK, bridge
<1> QED BY <1>1, <1>2, <1>3, <1>4

\* Only a file that loads is served.
LEMMA RebuildType ==
  ASSUME TypeInv, NEW c, Rebuild(c)
  PROVE  serving' \in Mappings /\ using' = c
BY DEF Rebuild, Loads, TypeInv, TypeOK

LEMMA BridgeType ==
  ASSUME TypeInv, Reload \/ Switch \/ SwitchFails \/ Crash \/ Start \/ Restore
  PROVE  TypeInv'
<1>1. CASE Reload
  <2>1. serving' \in Mappings /\ using' \in Pools
    BY <1>1, RebuildType DEF Reload, TypeInv, TypeOK
  <2> QED BY <1>1, <2>1 DEF Reload, TypeInv, TypeOK, files
<1>2. CASE Switch
  <2>1. /\ Pools \ open # {} /\ up /\ conn' = NewPool
        /\ open' = (open \cup {NewPool}) \ {conn} /\ draft' = NoDraft
        /\ UNCHANGED <<page, files, up, edits, failures>>
    BY <1>2 DEF Switch, Free
  <2>2. NewPool \in Pools
    BY <2>1, NewPoolIsNew
  <2>3. serving' \in Mappings /\ using' = NewPool
    BY <1>2, RebuildType DEF Switch
  <2> QED BY <2>1, <2>2, <2>3 DEF TypeInv, TypeOK, files
<1>3. CASE SwitchFails
  <2>1. /\ Pools \ open # {} /\ up /\ conn' = NewPool
        /\ open' = open \cup {NewPool}
        /\ UNCHANGED <<page, draft, files, up, serving, using, edits, failures>>
    BY <1>3 DEF SwitchFails, Free
  <2>2. NewPool \in Pools
    BY <2>1, NewPoolIsNew
  <2> QED BY <2>1, <2>2 DEF TypeInv, TypeOK, files
<1>4. CASE Crash
  <2>1. /\ failures < MaxFailures /\ failures' = failures + 1 /\ save' = NoSave
        /\ up' = FALSE /\ draft' = NoDraft /\ open' = {}
        /\ UNCHANGED <<page, file, backup, whole, serving, conn, using, edits>>
    BY <1>4 DEF Crash
  <2>2. failures' \in 0..MaxFailures
    BY <2>1, StudioAssumption DEF TypeInv, TypeOK, StudioAssumption
  <2> QED BY <2>1, <2>2 DEF TypeInv, TypeOK
<1>5. CASE Start
  <2>1. /\ ~up /\ up' = TRUE /\ conn' = NewPool /\ open' = {NewPool}
        /\ UNCHANGED <<page, draft, files, edits, failures>>
    BY <1>5 DEF Start
  <2>2. NewPool \in Pools
    BY <2>1, NewPoolIsNew, StudioAssumption DEF TypeInv, StudioAssumption
  <2>3. serving' \in Mappings /\ using' = NewPool
    BY <1>5, RebuildType DEF Start
  <2> QED BY <2>1, <2>2, <2>3 DEF TypeInv, TypeOK, files
<1>6. CASE Restore
  <2>1. /\ ~up /\ file' = backup
        /\ UNCHANGED <<page, draft, backup, save, whole, bridge, edits, failures>>
    BY <1>6 DEF Restore
  <2> QED BY <2>1 DEF TypeInv, TypeOK, bridge
<1> QED BY <1>1, <1>2, <1>3, <1>4, <1>5, <1>6

LEMMA StepTypeInv ==
  ASSUME TypeInv, [Next]_vars
  PROVE  TypeInv'
<1>1. CASE UNCHANGED vars
  BY <1>1 DEF vars, files, bridge, TypeInv, TypeOK
<1>2. CASE Next
  BY <1>2, PageEditType, DraftRouteType, FlipType, SaveType, BridgeType DEF Next
<1> QED BY <1>1, <1>2

LEMMA TypeInvariant == Spec => []TypeInv
BY InitTypeInv, StepTypeInv, PTL DEF Spec

(***************************************************************************)
(* Pages and bridge hold drafts, files hold mappings or what is left of    *)
(* them, and what is served is a mapping (studio.py, mapping.from_dict):   *)
(* however drafts with holes in them are edited, sent, flipped and saved.  *)
(***************************************************************************)
THEOREM DraftsStayDrafts == Spec => []TypeOK
<1>1. TypeInv => TypeOK
  BY DEF TypeInv
<1> QED BY <1>1, TypeInvariant, PTL

-----------------------------------------------------------------------------
(* What is saved of a draft in which some things are left out.             *)

\* Where records and links are in the mapping.
LEMMA PlacesOf ==
  ASSUME NEW d \in Drafts, HasMapping(d)
  PROVE  LET m == ToMapping(d)
             ts == TablesOf(d)
             ls == LinksOf(d)
         IN  /\ NodeLabels(m) \in Seq(Names) /\ DOMAIN NodeLabels(m) = 1..Len(ts)
             /\ \A i \in 1..Len(ts) : NodeLabels(m)[i] = d.nodes[ts[i]].label
             /\ EdgeTypes(m) \in Seq(Names) /\ DOMAIN EdgeTypes(m) = 1..Len(ls)
             /\ \A i \in 1..Len(ls) : EdgeTypes(m)[i] = d.edges[ls[i]].type
<1> DEFINE m == ToMapping(d)
           ts == TablesOf(d)
           ls == LinksOf(d)
<1>1. /\ Len(ts) \in Nat /\ \A i \in 1..Len(ts) : ts[i] \in Tables
      /\ Len(ls) \in Nat /\ \A i \in 1..Len(ls) : ls[i] \in Links
  BY ListsOf, InList
<1>2. /\ m \in Mappings
      /\ Len(m.nodes) = Len(ts)
      /\ \A i \in 1..Len(ts) : m.nodes[i] = [label |-> d.nodes[ts[i]].label, table |-> ts[i]]
      /\ Len(m.edges) = Len(ls)
      /\ \A i \in 1..Len(ls) : m.edges[i] = MappedEdge(d, ls[i])
  BY MappingParts
<1> HIDE DEF m, ts, ls
<1>3. DOMAIN m.nodes = 1..Len(ts) /\ DOMAIN m.edges = 1..Len(ls)
  <2>1. /\ m.nodes \in Seq([label : Names, table : Tables])
        /\ m.edges \in Seq([type : Names, table : Links, src : Ends, dst : Ends])
    BY <1>2 DEF Mappings
  <2> QED BY <1>2, <2>1, InList
<1>4. \A t \in Tables : d.nodes[t].label \in Names
  BY DraftParts
<1>5. \A l \in Links : MappedEdge(d, l).type = d.edges[l].type /\ d.edges[l].type \in Names
  <2> TAKE l \in Links
  <2>1. d.edges[l] # NoEdge
    BY DEF HasMapping
  <2> QED BY <2>1, MappedEdgeParts
<1>6. NodeLabels(m) = [i \in 1..Len(ts) |-> d.nodes[ts[i]].label]
  <2>1. ASSUME NEW i \in 1..Len(ts) PROVE m.nodes[i].label = d.nodes[ts[i]].label
    <3>1. m.nodes[i] = [label |-> d.nodes[ts[i]].label, table |-> ts[i]]
      BY <1>2
    <3> QED BY ONLY <3>1
  <2> QED BY <1>3, <2>1 DEF NodeLabels
<1>7. EdgeTypes(m) = [i \in 1..Len(ls) |-> d.edges[ls[i]].type]
  BY <1>1, <1>2, <1>3, <1>5 DEF EdgeTypes
<1>8. /\ NodeLabels(m) \in [1..Len(ts) -> Names]
      /\ EdgeTypes(m) \in [1..Len(ls) -> Names]
  BY <1>1, <1>4, <1>5, <1>6, <1>7
<1>9. NodeLabels(m) \in Seq(Names) /\ EdgeTypes(m) \in Seq(Names)
  BY <1>1, <1>8, IsASeq
<1> QED BY <1>6, <1>7, <1>9 DEF m, ts, ls

\* The labels and types that are written are those of what is left in.
LEMMA WrittenNames ==
  ASSUME NEW d \in Drafts, HasMapping(d)
  PROVE  LET m == ToMapping(d)
         IN  /\ ToSet(NodeLabels(m)) = Range(NamesIn(d))
             /\ ToSet(EdgeTypes(m)) \subseteq Range(TypesIn(d))
             /\ IsInjective(NamesIn(d)) => IsInjective(NodeLabels(m))
             /\ IsInjective(TypesIn(d)) => IsInjective(EdgeTypes(m))
             /\ DOMAIN NamesIn(d) # {} => m.nodes # <<>>
<1> DEFINE m == ToMapping(d)
           ts == TablesOf(d)
           ls == LinksOf(d)
<1>1. /\ ts \in Seq(Tables) /\ IsInjective(ts) /\ Range(ts) = Included(d)
      /\ ls \in Seq(Links) /\ IsInjective(ls)
      /\ Range(ls) = {l \in Links : Written(d, l)}
  BY ListsOf
<1>2. /\ DOMAIN NodeLabels(m) = 1..Len(ts)
      /\ \A i \in 1..Len(ts) : NodeLabels(m)[i] = d.nodes[ts[i]].label
      /\ DOMAIN EdgeTypes(m) = 1..Len(ls)
      /\ \A i \in 1..Len(ls) : EdgeTypes(m)[i] = d.edges[ls[i]].type
  BY PlacesOf
<1>3. Len(m.nodes) = Len(ts)
  BY MappingParts
<1> HIDE DEF m, ts, ls
<1>4. /\ DOMAIN ts = 1..Len(ts) /\ Len(ts) \in Nat
      /\ DOMAIN ls = 1..Len(ls) /\ Len(ls) \in Nat
  BY <1>1, InList
<1>5. /\ \A i \in 1..Len(ts) : ts[i] \in Included(d)
      /\ \A t \in Included(d) : \E i \in 1..Len(ts) : ts[i] = t
      /\ \A i \in 1..Len(ls) : ls[i] \in Links /\ d.edges[ls[i]].include
  BY <1>1, <1>4 DEF Range, Written
<1>6. ToSet(NodeLabels(m)) = Range(NamesIn(d))
  <2>1. ToSet(NodeLabels(m)) = {d.nodes[ts[i]].label : i \in 1..Len(ts)}
    BY <1>2 DEF ToSet
  <2>2. Range(NamesIn(d)) = {d.nodes[t].label : t \in Included(d)}
    BY DEF Range, NamesIn
  <2> QED BY <1>5, <2>1, <2>2
<1>7. ToSet(EdgeTypes(m)) \subseteq Range(TypesIn(d))
  <2>1. ToSet(EdgeTypes(m)) = {d.edges[ls[i]].type : i \in 1..Len(ls)}
    BY <1>2 DEF ToSet
  <2>2. Range(TypesIn(d)) = {d.edges[l].type : l \in {k \in Links : d.edges[k].include}}
    BY DEF Range, TypesIn
  <2> QED BY <1>5, <2>1, <2>2
<1>8. ASSUME IsInjective(NamesIn(d)) PROVE IsInjective(NodeLabels(m))
  <2>1. \A s, t \in Included(d) : d.nodes[s].label = d.nodes[t].label => s = t
    BY <1>8 DEF IsInjective, NamesIn
  <2>2. \A i, j \in 1..Len(ts) : ts[i] = ts[j] => i = j
    BY <1>1, <1>4 DEF IsInjective
  <2>3. \A i, j \in 1..Len(ts) : d.nodes[ts[i]].label = d.nodes[ts[j]].label => i = j
    BY <1>5, <2>1, <2>2
  <2> QED BY <1>2, <2>3 DEF IsInjective
<1>9. ASSUME IsInjective(TypesIn(d)) PROVE IsInjective(EdgeTypes(m))
  <2>1. \A k, l \in Links : /\ d.edges[k].include /\ d.edges[l].include
                            /\ d.edges[k].type = d.edges[l].type
                            => k = l
    BY <1>9 DEF IsInjective, TypesIn
  <2>2. \A i, j \in 1..Len(ls) : ls[i] = ls[j] => i = j
    BY <1>1, <1>4 DEF IsInjective
  <2>3. \A i, j \in 1..Len(ls) : d.edges[ls[i]].type = d.edges[ls[j]].type => i = j
    BY <1>5, <2>1, <2>2
  <2> QED BY <1>2, <2>3 DEF IsInjective
<1>10. ASSUME DOMAIN NamesIn(d) # {} PROVE m.nodes # <<>>
  <2>1. \E t : t \in Included(d)
    BY <1>10 DEF NamesIn
  <2>2. \E i : i \in 1..Len(ts)
    BY <1>5, <2>1
  <2>3. Len(m.nodes) # 0
    BY <1>3, <1>4, <2>2
  <2> QED BY <2>3, EmptySeq
<1> QED BY <1>6, <1>7, <1>8, <1>9, <1>10 DEF m

LEMMA LoadsWhatIsLeft ==
  ASSUME NEW d \in Drafts, HasMapping(d),
         DOMAIN NamesIn(d) # {},
         IsInjective(NamesIn(d)), IsInjective(TypesIn(d)),
         Range(NamesIn(d)) \cap Range(TypesIn(d)) = {},
         Range(NamesIn(d)) \cup Range(TypesIn(d)) \subseteq Identifiers
  PROVE  Loads(ToMapping(d))
<1> DEFINE m == ToMapping(d)
           ls == LinksOf(d)
<1>1. /\ ToSet(NodeLabels(m)) = Range(NamesIn(d))
      /\ ToSet(EdgeTypes(m)) \subseteq Range(TypesIn(d))
      /\ IsInjective(NodeLabels(m)) /\ IsInjective(EdgeTypes(m))
      /\ m.nodes # <<>>
  BY WrittenNames
<1>2. NodeLabels(m) \in Seq(Names) /\ EdgeTypes(m) \in Seq(Names)
  BY PlacesOf
<1>3. /\ m # NoMapping
      /\ Len(m.edges) = Len(ls)
      /\ \A i \in 1..Len(ls) : m.edges[i] = MappedEdge(d, ls[i])
      /\ m \in Mappings
  BY MappingParts
<1>4. Range(NodeLabels(m)) = Labels(d)
  <2>1. Range(NamesIn(d)) = Labels(d)
    BY DEF Range, NamesIn, Labels
  <2>2. Range(NodeLabels(m)) = ToSet(NodeLabels(m))
    BY DEF Range, ToSet
  <2> QED BY <1>1, <2>1, <2>2
<1>5. ASSUME NEW i \in 1..Len(ls)
      PROVE  {m.edges[i].src.label, m.edges[i].dst.label} \subseteq Labels(d)
  <2>1. ls[i] \in Links /\ Written(d, ls[i])
    <3>1. DOMAIN ls = 1..Len(ls) /\ Range(ls) = {l \in Links : Written(d, l)}
      BY ListsOf, InList
    <3>2. ls[i] \in Range(ls)
      BY <3>1 DEF Range
    <3> QED BY <3>1, <3>2
  <2>2. d.edges[ls[i]] # NoEdge
    BY <2>1 DEF HasMapping
  <2>3. /\ MappedEdge(d, ls[i]).src.label = Resolve(d, d.edges[ls[i]].src.label)
        /\ MappedEdge(d, ls[i]).dst.label = Resolve(d, d.edges[ls[i]].dst.label)
    BY <2>1, <2>2, MappedEdgeParts
  <2> QED BY <1>3, <2>1, <2>3 DEF Written
<1> HIDE DEF m, ls
<1>6. \A e \in Range(m.edges) : {e.src.label, e.dst.label} \subseteq Range(NodeLabels(m))
  <2>1. m.edges \in Seq([type : Names, table : Links, src : Ends, dst : Ends])
    BY <1>3 DEF Mappings
  <2>2. DOMAIN m.edges = 1..Len(ls)
    BY <1>3, <2>1, InList
  <2>3. \A i \in DOMAIN m.edges :
          {m.edges[i].src.label, m.edges[i].dst.label} \subseteq Range(NodeLabels(m))
    BY <1>4, <1>5, <2>2
  <2> QED BY <2>3 DEF Range
<1>7. ToSet(NodeLabels(m)) \cap ToSet(EdgeTypes(m)) = {}
  BY <1>1
<1>8. IsInjective(Order(m))
  BY <1>1, <1>2, <1>7, InjectiveJoin DEF Order
<1>9. Range(Order(m)) \subseteq Identifiers
  <2>1. ToSet(Order(m)) = ToSet(NodeLabels(m)) \cup ToSet(EdgeTypes(m))
    BY <1>2, InBoth DEF Order
  <2>2. Range(Order(m)) = ToSet(Order(m))
    BY DEF Range, ToSet
  <2> QED BY <1>1, <2>1, <2>2
<1>10. Loads(m)
  BY <1>1, <1>3, <1>6, <1>8, <1>9 DEF Loads
<1> QED BY <1>10 DEF m

(***************************************************************************)
(* Leaving records and links out never makes a draft one that is not saved *)
(* (studio.py, draft_to_mapping_dict): whatever was edited, flipped and    *)
(* sent before, and for any number of tables and links.                    *)
(***************************************************************************)
THEOREM LeavingOutNeverBlocksSaving == Spec => []LeavingOutIsSafe
<1>1. TypeInv => LeavingOutIsSafe
  <2> SUFFICES ASSUME TypeInv, NEW p \in Tabs, page[p] # NoDraft, HasMapping(page[p])
               PROVE  LET labels == NamesIn(page[p])
                          types == TypesIn(page[p])
                      IN  /\ DOMAIN labels # {}
                          /\ IsInjective(labels) /\ IsInjective(types)
                          /\ Range(labels) \cap Range(types) = {}
                          /\ Range(labels) \cup Range(types) \subseteq Identifiers
                          => Loads(ToMapping(page[p]))
    BY DEF LeavingOutIsSafe
  <2>1. page[p] \in Drafts
    BY DEF TypeInv, TypeOK
  <2> QED BY <2>1, LoadsWhatIsLeft
<1> QED BY <1>1, TypeInvariant, PTL

-----------------------------------------------------------------------------
(* Which records the links that are written join.                          *)

\* The names a table goes by: its own, and what may be typed for it.
Own(t) == {t} \cup NodeNames[t]

\* No name is both one table's and another's.
NamesApart == \A s, t \in Tables : s # t => Own(s) \cap Own(t) = {}

\* An end goes by a name of the table that its column refers to.
OwnEnd(l, end) == end.label \in Own(Joins[l][end.column])
OwnNames(d) ==
  /\ \A t \in Tables : d.nodes[t].label \in Own(t)
  /\ \A l \in Links : d.edges[l] # NoEdge =>
       OwnEnd(l, d.edges[l].src) /\ OwnEnd(l, d.edges[l].dst)

JoinsInv ==
  /\ TypeInv
  /\ \A p \in Tabs : page[p] # NoDraft => OwnNames(page[p])
  /\ draft # NoDraft => OwnNames(draft)
  /\ save # NoSave => JoinsItsTables(save.mapping)
  /\ JoinsItsTables(whole)

LEMMA DiscoveredOwn == OwnNames(Discovered)
<1>1. \A t \in Tables : Discovered.nodes[t].label \in Own(t)
  BY DEF Discovered, Own
<1>2. ASSUME NEW l \in Links
      PROVE  OwnEnd(l, Discovered.edges[l].src) /\ OwnEnd(l, Discovered.edges[l].dst)
  <2>1. /\ Discovered.edges[l].src = [label |-> Joins[l][1], column |-> 1]
        /\ Discovered.edges[l].dst = [label |-> Joins[l][2], column |-> 2]
    BY DEF Discovered
  <2> QED BY <2>1 DEF OwnEnd, Own
<1> QED BY <1>1, <1>2 DEF OwnNames

\* An end that has a table's label is that table's, and may be given its new one.
LEMMA RenamedOwn ==
  ASSUME NamesApart, NEW t \in Tables, NEW old \in Own(t), NEW new \in NodeNames[t],
         NEW l \in Links, NEW end \in Ends, OwnEnd(l, end)
  PROVE  OwnEnd(l, Renamed(end, old, new))
<1>1. Joins[l][end.column] \in Tables
  BY DraftAssumption DEF DraftAssumption, Ends
<1>2. CASE end.label = old
  <2>1. Joins[l][end.column] = t
    BY <1>1, <1>2 DEF NamesApart, OwnEnd
  <2>2. PICK n, c : end = [label |-> n, column |-> c]
    BY DEF Ends
  <2>3. Renamed(end, old, new) = [label |-> new, column |-> c]
    BY <1>2, <2>2 DEF Renamed
  <2>4. Renamed(end, old, new).label = new /\ Renamed(end, old, new).column = end.column
    BY <2>2, <2>3
  <2> QED BY <2>1, <2>4 DEF OwnEnd, Own
<1>3. CASE end.label # old
  BY <1>3 DEF Renamed
<1> QED BY <1>2, <1>3

LEMMA RenameNodeOwn ==
  ASSUME NamesApart, NEW d \in Drafts, OwnNames(d), NEW t \in Tables, NEW new \in NodeNames[t]
  PROVE  OwnNames(RenameNode(d, t, new))
<1> DEFINE r == RenameNode(d, t, new)
           old == d.nodes[t].label
<1>1. old \in Own(t)
  BY DEF OwnNames
<1>2. /\ r.nodes = [d.nodes EXCEPT ![t].label = new]
      /\ \A l \in Links : r.edges[l] =
           IF Reaches(d, l)
           THEN [d.edges[l] EXCEPT !.src = Renamed(@, old, new), !.dst = Renamed(@, old, new)]
           ELSE d.edges[l]
  BY DEF RenameNode
<1> HIDE DEF r, old
<1>3. ASSUME NEW s \in Tables PROVE r.nodes[s].label \in Own(s)
  <2>1. d.nodes \in [Tables -> [label : Names, include : BOOLEAN]] /\ d.nodes[s].label \in Own(s)
    BY DraftParts DEF OwnNames
  <2>2. r.nodes[s].label = IF s = t THEN new ELSE d.nodes[s].label
    BY <1>2, <2>1
  <2> QED BY <2>1, <2>2 DEF Own
<1>4. ASSUME NEW l \in Links, r.edges[l] # NoEdge
      PROVE  OwnEnd(l, r.edges[l].src) /\ OwnEnd(l, r.edges[l].dst)
  <2>1. CASE Reaches(d, l)
    <3>1. d.edges[l] # NoEdge /\ d.edges[l] \in Edges
      BY <2>1, ReachedIsThere, DraftParts
    <3>2. PICK a, b, u, v : d.edges[l] = [type |-> a, include |-> b, src |-> u, dst |-> v]
      <4>1. PICK e : e = d.edges[l]
        OBVIOUS
      <4>2. e = [type |-> e.type, include |-> e.include, src |-> e.src, dst |-> e.dst]
        BY <3>1, <4>1, LinkParts
      <4> QED BY <4>1, <4>2
    <3>3. u \in Ends /\ v \in Ends /\ OwnEnd(l, u) /\ OwnEnd(l, v)
      <4>1. d.edges[l].src = u /\ d.edges[l].dst = v
        BY <3>2
      <4> QED BY <3>1, <4>1, LinkParts DEF OwnNames
    <3>4. r.edges[l] = [d.edges[l] EXCEPT !.src = Renamed(@, old, new),
                                          !.dst = Renamed(@, old, new)]
      BY <1>2, <2>1
    <3>5. r.edges[l].src = Renamed(u, old, new) /\ r.edges[l].dst = Renamed(v, old, new)
      BY <3>2, <3>4
    <3> QED BY <1>1, <3>3, <3>5, RenamedOwn
  <2>2. CASE ~Reaches(d, l)
    BY <1>2, <1>4, <2>2 DEF OwnNames
  <2> QED BY <2>1, <2>2
<1> QED BY <1>3, <1>4 DEF OwnNames, r

LEMMA IncludeNodeOwn ==
  ASSUME NEW d \in Drafts, OwnNames(d), NEW t \in Tables
  PROVE  OwnNames(IncludeNode(d, t))
<1>1. d = [nodes |-> d.nodes, edges |-> d.edges]
      /\ d.nodes \in [Tables -> [label : Names, include : BOOLEAN]]
  BY DraftParts
<1>2. IncludeNode(d, t).edges = d.edges
  BY <1>1 DEF IncludeNode
<1>3. \A s \in Tables : IncludeNode(d, t).nodes[s].label = d.nodes[s].label
  BY <1>1 DEF IncludeNode
<1> QED BY <1>2, <1>3 DEF OwnNames

\* A link with the ends of the table's columns, or none, in the place of l.
LEMMA PutLinkOwn ==
  ASSUME NEW d \in Drafts, OwnNames(d), NEW l \in Links, NEW e \in Edges,
         e # NoEdge => OwnEnd(l, e.src) /\ OwnEnd(l, e.dst)
  PROVE  OwnNames([d EXCEPT !.edges[l] = e])
<1>1. PICK r : r = [d EXCEPT !.edges[l] = e]
  OBVIOUS
<1>2. r = [nodes |-> d.nodes, edges |-> [d.edges EXCEPT ![l] = e]]
  BY <1>1, DraftParts
<1>3. r.nodes = d.nodes /\ \A k \in Links : r.edges[k] = IF k = l THEN e ELSE d.edges[k]
  BY <1>2, DraftParts
<1>4. OwnNames(r)
  BY <1>3 DEF OwnNames
<1> QED BY <1>1, <1>4

LEMMA EditedDraftOwn ==
  ASSUME NEW d \in Drafts, OwnNames(d), NEW l \in Links, d.edges[l] # NoEdge, NEW x \in Names
  PROVE  OwnNames(RenameEdge(d, l, x)) /\ OwnNames(IncludeEdge(d, l))
<1> DEFINE e == d.edges[l]
<1>1. e \in Edges /\ e # NoEdge /\ OwnEnd(l, e.src) /\ OwnEnd(l, e.dst)
  BY DraftParts DEF OwnNames
<1>2. /\ [e EXCEPT !.type = x] \in Edges /\ [e EXCEPT !.include = ~@] \in Edges
  BY <1>1, EditedLinkType
<1>3. /\ RenameEdge(d, l, x) = [d EXCEPT !.edges[l] = [e EXCEPT !.type = x]]
      /\ IncludeEdge(d, l) = [d EXCEPT !.edges[l] = [e EXCEPT !.include = ~@]]
  BY DraftParts DEF RenameEdge, IncludeEdge
<1> HIDE DEF e
<1>4. PICK a, b, u, v : e = [type |-> a, include |-> b, src |-> u, dst |-> v]
  BY <1>1, LinkParts
<1>5. /\ [e EXCEPT !.type = x].src = e.src /\ [e EXCEPT !.type = x].dst = e.dst
      /\ [e EXCEPT !.include = ~@].src = e.src /\ [e EXCEPT !.include = ~@].dst = e.dst
  BY <1>4
<1>6. OwnNames([d EXCEPT !.edges[l] = [e EXCEPT !.type = x]])
  BY <1>1, <1>2, <1>5, PutLinkOwn
<1>7. OwnNames([d EXCEPT !.edges[l] = [e EXCEPT !.include = ~@]])
  BY <1>1, <1>2, <1>5, PutLinkOwn
<1> QED BY <1>3, <1>6, <1>7

LEMMA FlippedOwn ==
  ASSUME NEW l \in Links, NEW e \in Edges, e # NoEdge, OwnEnd(l, e.src), OwnEnd(l, e.dst)
  PROVE  OwnEnd(l, Flipped(e).src) /\ OwnEnd(l, Flipped(e).dst)
<1>1. Flipped(e).src = e.dst /\ Flipped(e).dst = e.src
  BY FlippedParts
<1> QED BY <1>1

\* A name of an end that is resolved to the label of a record that is written
\* is resolved to the label of its own.
LEMMA ResolvedOwn ==
  ASSUME NamesApart, NEW d \in Drafts, OwnNames(d), NEW t \in Tables, NEW n \in Own(t),
         Resolve(d, n) \in Labels(d)
  PROVE  t \in Included(d) /\ Resolve(d, n) = d.nodes[t].label
<1>1. CASE n \in Included(d)
  <2>1. n \in Tables /\ n \in Own(n)
    BY <1>1 DEF Included, Own
  <2>2. n = t
    BY <2>1 DEF NamesApart
  <2> QED BY <1>1, <2>2 DEF Resolve
<1>2. CASE n \notin Included(d)
  <2>1. PICK s \in Included(d) : n = d.nodes[s].label
    BY <1>2 DEF Resolve, Labels
  <2>2. s \in Tables /\ n \in Own(s)
    BY <2>1 DEF Included, OwnNames
  <2>3. s = t
    BY <2>2 DEF NamesApart
  <2> QED BY <1>2, <2>1, <2>3 DEF Resolve
<1> QED BY <1>1, <1>2

LEMMA MappingJoins ==
  ASSUME NamesApart, NEW d \in Drafts, OwnNames(d), HasMapping(d)
  PROVE  JoinsItsTables(ToMapping(d))
<1> DEFINE m == ToMapping(d)
           ts == TablesOf(d)
           ls == LinksOf(d)
<1>1. /\ Range(ts) = Included(d) /\ DOMAIN ts = 1..Len(ts) /\ Len(ts) \in Nat
      /\ Range(ls) = {l \in Links : Written(d, l)} /\ DOMAIN ls = 1..Len(ls) /\ Len(ls) \in Nat
  BY ListsOf, InList
<1>2. /\ m \in Mappings
      /\ Len(m.nodes) = Len(ts)
      /\ \A i \in 1..Len(ts) : m.nodes[i] = [label |-> d.nodes[ts[i]].label, table |-> ts[i]]
      /\ Len(m.edges) = Len(ls)
      /\ \A i \in 1..Len(ls) : m.edges[i] = MappedEdge(d, ls[i])
  BY MappingParts
<1> HIDE DEF m, ts, ls
<1>3. DOMAIN m.nodes = 1..Len(ts) /\ DOMAIN m.edges = 1..Len(ls)
  <2>1. /\ m.nodes \in Seq([label : Names, table : Tables])
        /\ m.edges \in Seq([type : Names, table : Links, src : Ends, dst : Ends])
    BY <1>2 DEF Mappings
  <2> QED BY <1>2, <2>1, InList
<1>4. ASSUME NEW t \in Included(d)
      PROVE  [label |-> d.nodes[t].label, table |-> t] \in Range(m.nodes)
  <2>1. PICK i \in 1..Len(ts) : ts[i] = t
    BY <1>1 DEF Range
  <2>2. m.nodes[i] = [label |-> d.nodes[t].label, table |-> t] /\ i \in DOMAIN m.nodes
    BY <1>2, <1>3, <2>1
  <2> QED BY <2>2 DEF Range
<1>5. ASSUME NEW l \in Links, NEW end \in Ends, OwnEnd(l, end),
             Resolve(d, end.label) \in Labels(d)
      PROVE  [label |-> Resolve(d, end.label), table |-> Joins[l][end.column]] \in Range(m.nodes)
  <2>1. Joins[l][end.column] \in Tables
    BY DraftAssumption DEF DraftAssumption, Ends
  <2>2. /\ Joins[l][end.column] \in Included(d)
        /\ Resolve(d, end.label) = d.nodes[Joins[l][end.column]].label
    BY <1>5, <2>1, ResolvedOwn DEF OwnEnd
  <2> QED BY <1>4, <2>2
<1>6. ASSUME NEW e \in Range(m.edges), NEW end \in {e.src, e.dst}
      PROVE  [label |-> end.label, table |-> Joins[e.table][end.column]] \in Range(m.nodes)
  <2>1. PICK i \in 1..Len(ls) : e = MappedEdge(d, ls[i])
    BY <1>2, <1>3, <1>6 DEF Range
  <2>2. ls[i] \in Links /\ Written(d, ls[i])
    <3>1. ls[i] \in Range(ls)
      BY <1>1 DEF Range
    <3> QED BY <1>1, <3>1
  <2>3. PICK l \in Links : l = ls[i] /\ Written(d, l) /\ e = MappedEdge(d, l)
    BY <2>1, <2>2
  <2>4. d.edges[l] # NoEdge /\ d.edges[l] \in Edges
    BY DraftParts DEF HasMapping
  <2>5. PICK u, v : u = d.edges[l].src /\ v = d.edges[l].dst
    OBVIOUS
  <2>6. u \in Ends /\ v \in Ends /\ OwnEnd(l, u) /\ OwnEnd(l, v)
    BY <2>4, <2>5, LinkParts DEF OwnNames
  <2>7. Resolve(d, u.label) \in Labels(d) /\ Resolve(d, v.label) \in Labels(d)
    BY <2>3, <2>5 DEF Written
  <2>8. e = [type |-> d.edges[l].type, table |-> l,
             src |-> [label |-> Resolve(d, u.label), column |-> u.column],
             dst |-> [label |-> Resolve(d, v.label), column |-> v.column]]
    BY <2>3, <2>4, <2>5, MappedEdgeParts
  <2>9. /\ e.table = l
        /\ e.src = [label |-> Resolve(d, u.label), column |-> u.column]
        /\ e.dst = [label |-> Resolve(d, v.label), column |-> v.column]
    BY <2>8
  <2>10. CASE end = e.src
    <3>1. end.label = Resolve(d, u.label) /\ end.column = u.column
      BY <2>9, <2>10
    <3> QED BY <1>5, <2>6, <2>7, <2>9, <3>1
  <2>11. CASE end = e.dst
    <3>1. end.label = Resolve(d, v.label) /\ end.column = v.column
      BY <2>9, <2>11
    <3> QED BY <1>5, <2>6, <2>7, <2>9, <3>1
  <2> QED BY <1>6, <2>10, <2>11
<1>7. JoinsItsTables(m)
  BY <1>6 DEF JoinsItsTables
<1> QED BY <1>7 DEF m

-----------------------------------------------------------------------------
(* Every step keeps the names apart.                                       *)

\* Steps that put a draft into one page at most, and save nothing.
LEMMA PutJoins ==
  ASSUME JoinsInv, TypeInv', UNCHANGED <<save, whole>>,
         draft' # NoDraft => OwnNames(draft'),
         NEW p \in Tabs, NEW x, x # NoDraft => OwnNames(x),
         page' = page \/ page' = [page EXCEPT ![p] = x]
  PROVE  JoinsInv'
<1>1. ASSUME NEW q \in Tabs, page'[q] # NoDraft PROVE OwnNames(page'[q])
  <2>1. page \in [Tabs -> Drafts \cup {NoDraft}]
    BY DEF JoinsInv, TypeInv, TypeOK
  <2>2. page'[q] \in {x, page[q]}
    BY <2>1
  <2> QED BY <1>1, <2>2 DEF JoinsInv
<1>2. /\ save' # NoSave => JoinsItsTables(save'.mapping)
      /\ JoinsItsTables(whole')
  BY DEF JoinsInv
<1> QED BY <1>1, <1>2 DEF JoinsInv

LEMMA EditJoins ==
  ASSUME JoinsInv, NEW p \in Tabs, NEW d \in Drafts, OwnNames(d), Edit(p, d)
  PROVE  JoinsInv'
<1>1. TypeInv'
  BY EditType DEF JoinsInv
<1>2. page' = [page EXCEPT ![p] = d] /\ UNCHANGED <<save, whole, draft>>
  BY DEF Edit, files
<1>3. draft' # NoDraft => OwnNames(draft')
  BY <1>2 DEF JoinsInv
<1> QED BY <1>1, <1>2, <1>3, PutJoins

LEMMA PageEditJoins ==
  ASSUME NamesApart, JoinsInv, NEW p \in Tabs, page[p] # NoDraft, EditNode(p) \/ EditEdge(p)
  PROVE  JoinsInv'
<1>1. page[p] \in Drafts /\ OwnNames(page[p])
  BY DEF JoinsInv, TypeInv, TypeOK
<1>2. CASE EditNode(p)
  <2>1. PICK t \in Tables :
          \/ \E x \in NodeNames[t] \ {page[p].nodes[t].label} :
               Edit(p, RenameNode(page[p], t, x))
          \/ Edit(p, IncludeNode(page[p], t))
    BY <1>2 DEF EditNode
  <2>2. \A x \in NodeNames[t] : x \in Names
    BY StudioAssumption DEF StudioAssumption
  <2>3. CASE Edit(p, IncludeNode(page[p], t))
    BY <1>1, <2>3, EditJoins, IncludeNodeType, IncludeNodeOwn
  <2>4. CASE \E x \in NodeNames[t] : Edit(p, RenameNode(page[p], t, x))
    BY <1>1, <2>2, <2>4, EditJoins, RenameNodeType, RenameNodeOwn
  <2> QED BY <2>1, <2>3, <2>4
<1>3. CASE EditEdge(p)
  <2>1. PICK l \in Links :
          /\ page[p].edges[l] # NoEdge
          /\ \/ \E x \in LinkNames[l] \ {page[p].edges[l].type} :
                  Edit(p, RenameEdge(page[p], l, x))
             \/ Edit(p, IncludeEdge(page[p], l))
    BY <1>3 DEF EditEdge
  <2>2. \A x \in LinkNames[l] : x \in Names
    BY StudioAssumption DEF StudioAssumption
  <2>3. CASE Edit(p, IncludeEdge(page[p], l))
    <3>1. \E x : x \in Names
      BY DraftAssumption DEF DraftAssumption
    <3> QED BY <1>1, <2>1, <2>3, <3>1, EditJoins, EditedDraftType, EditedDraftOwn
  <2>4. CASE \E x \in LinkNames[l] : Edit(p, RenameEdge(page[p], l, x))
    BY <1>1, <2>1, <2>2, <2>4, EditJoins, EditedDraftType, EditedDraftOwn
  <2> QED BY <2>1, <2>3, <2>4
<1> QED BY <1>2, <1>3

LEMMA DraftRouteJoins ==
  ASSUME JoinsInv, NEW p \in Tabs, Boot(p) \/ Discover(p) \/ SendDraft(p) \/ SaveRefused(p)
  PROVE  JoinsInv'
<1>1. TypeInv'
  BY DraftRouteType DEF JoinsInv
<1>2. UNCHANGED <<save, whole>>
  BY DEF Boot, Discover, SendDraft, SaveRefused, files
<1>3. (draft # NoDraft => OwnNames(draft)) /\ (page[p] # NoDraft => OwnNames(page[p]))
  BY DEF JoinsInv
<1>4. CASE Boot(p)
  BY <1>1, <1>2, <1>3, <1>4, PutJoins DEF Boot
<1>5. CASE Discover(p)
  BY <1>1, <1>2, <1>5, PutJoins, DiscoveredOwn DEF Discover
<1>6. CASE SendDraft(p) \/ SaveRefused(p)
  <2>1. page' = page /\ draft' \in {page[p], draft}
    BY <1>6 DEF SendDraft, SaveRefused, Sent
  <2>2. draft' # NoDraft => OwnNames(draft')
    BY <1>3, <2>1
  <2> QED BY <1>1, <1>2, <1>3, <2>1, <2>2, PutJoins
<1> QED BY <1>4, <1>5, <1>6

LEMMA FlipJoins ==
  ASSUME JoinsInv, NEW p \in Tabs, page[p] # NoDraft, NEW l \in Links, Flip(p, l) \/ FlipFails(p, l)
  PROVE  JoinsInv'
<1>1. TypeInv'
  BY FlipType DEF JoinsInv
<1>2. UNCHANGED <<save, whole>>
  BY DEF Flip, FlipFails, files
<1>3. page[p] \in Drafts /\ OwnNames(page[p])
  BY DEF JoinsInv, TypeInv, TypeOK
<1>4. CASE Flip(p, l)
  <2>1. /\ draft # NoDraft /\ Reaches(draft, l)
        /\ page' = [page EXCEPT ![p].edges[l] = Flipped(draft.edges[l])]
        /\ draft' = page'[p]
    BY <1>4 DEF Flip
  <2>2. draft \in Drafts /\ OwnNames(draft)
    BY <2>1 DEF JoinsInv, TypeInv, TypeOK
  <2>3. draft.edges[l] \in Edges /\ draft.edges[l] # NoEdge
    BY <2>1, <2>2, DraftParts, ReachedIsThere
  <2>4. PICK e : e = Flipped(draft.edges[l])
    OBVIOUS
  <2>5. e \in Edges
    <3>1. \E x : x \in Names
      BY DraftAssumption DEF DraftAssumption
    <3> QED BY <2>3, <2>4, <3>1, EditedLinkType
  <2>6. OwnEnd(l, e.src) /\ OwnEnd(l, e.dst)
    BY <2>2, <2>3, <2>4, FlippedOwn DEF OwnNames
  <2>7. OwnNames([page[p] EXCEPT !.edges[l] = e])
    BY <1>3, <2>5, <2>6, PutLinkOwn
  <2>8. /\ page' = [page EXCEPT ![p] = [page[p] EXCEPT !.edges[l] = e]]
        /\ draft' = [page[p] EXCEPT !.edges[l] = e]
    BY <2>1, <2>4, <2>5, PutLinkInPage DEF JoinsInv
  <2> QED BY <1>1, <1>2, <2>7, <2>8, PutJoins
<1>5. CASE FlipFails(p, l)
  <2>1. page' = [page EXCEPT ![p].edges[l] = NoEdge] /\ draft' = draft
    BY <1>5 DEF FlipFails
  <2>2. PICK e : e = NoEdge
    OBVIOUS
  <2>3. e \in Edges
    BY <2>2 DEF Edges
  <2>4. OwnNames([page[p] EXCEPT !.edges[l] = e])
    BY <1>3, <2>2, <2>3, PutLinkOwn
  <2>5. page' = [page EXCEPT ![p] = [page[p] EXCEPT !.edges[l] = e]]
    BY <2>1, <2>2, <2>3, PutLinkInPage DEF JoinsInv
  <2>6. draft' # NoDraft => OwnNames(draft')
    BY <2>1 DEF JoinsInv
  <2> QED BY <1>1, <1>2, <2>4, <2>5, <2>6, PutJoins
<1> QED BY <1>4, <1>5

LEMMA SaveJoins ==
  ASSUME NamesApart, JoinsInv,
         (\E p \in Tabs : StartSave(p)) \/ WriteBackup \/ WriteFile \/ WriteFails
  PROVE  JoinsInv'
<1>1. TypeInv'
  BY SaveType DEF JoinsInv
<1>2. ASSUME NEW p \in Tabs, StartSave(p) PROVE JoinsInv'
  <2>1. /\ draft' = Sent(p) /\ draft' # NoDraft /\ HasMapping(draft')
        /\ save' = [mapping |-> ToMapping(draft'), step |-> "backup"]
        /\ UNCHANGED <<page, whole>>
    BY <1>2 DEF StartSave
  <2>2. draft' \in Drafts /\ OwnNames(draft')
    BY <2>1 DEF JoinsInv, TypeInv, TypeOK, Sent
  <2>3. JoinsItsTables(save'.mapping)
    <3>1. save'.mapping = ToMapping(draft')
      BY <2>1
    <3> QED BY <2>1, <2>2, <3>1, MappingJoins
  <2> QED BY <1>1, <2>1, <2>2, <2>3 DEF JoinsInv
<1>3. CASE WriteBackup
  <2>1. /\ save.step = "backup" /\ save' = [save EXCEPT !.step = "file"]
        /\ UNCHANGED <<page, draft, whole>>
    BY <1>3 DEF WriteBackup
  <2>2. save # NoSave /\ save'.mapping = save.mapping
    BY <2>1 DEF JoinsInv, TypeInv, TypeOK, NoSave
  <2> QED BY <1>1, <2>1, <2>2 DEF JoinsInv
<1>4. CASE WriteFile
  <2>1. /\ save.step = "file" /\ whole' = save.mapping /\ save' = NoSave
        /\ UNCHANGED <<page, draft>>
    BY <1>4 DEF WriteFile
  <2>2. save # NoSave
    BY <2>1 DEF NoSave
  <2> QED BY <1>1, <2>1, <2>2 DEF JoinsInv
<1>5. CASE WriteFails
  <2>1. save' = NoSave /\ UNCHANGED <<page, draft, whole>>
    BY <1>5 DEF WriteFails
  <2> QED BY <1>1, <2>1 DEF JoinsInv
<1> QED BY <1>2, <1>3, <1>4, <1>5

LEMMA BridgeJoins ==
  ASSUME JoinsInv, Reload \/ Switch \/ SwitchFails \/ Crash \/ Start \/ Restore
  PROVE  JoinsInv'
<1>1. TypeInv'
  BY BridgeType DEF JoinsInv
<1>2. /\ UNCHANGED <<page, whole>>
      /\ draft' = draft \/ draft' = NoDraft
      /\ save' = save \/ save' = NoSave
  BY DEF Reload, Switch, SwitchFails, Crash, Start, Restore, files
<1> QED BY <1>1, <1>2 DEF JoinsInv

LEMMA StepJoinsInv ==
  ASSUME NamesApart, JoinsInv, [Next]_vars
  PROVE  JoinsInv'
<1>1. CASE UNCHANGED vars
  <2>1. UNCHANGED <<page, draft, save, whole>>
    BY <1>1 DEF vars, files
  <2>2. TypeInv'
    BY <1>1, StepTypeInv DEF JoinsInv
  <2> QED BY <2>1, <2>2 DEF JoinsInv
<1>2. CASE Next
  BY <1>2, PageEditJoins, DraftRouteJoins, FlipJoins, SaveJoins, BridgeJoins DEF Next
<1> QED BY <1>1, <1>2

(***************************************************************************)
(* A link that is written joins the records its columns refer to           *)
(* (studio.py, flip and draft_to_mapping_dict), after any number of edits  *)
(* on any number of pages, as long as no name is typed for a table that is *)
(* another table's name or may be typed for it; the run studio_rename      *)
(* shows what happens when one is.                                         *)
(***************************************************************************)
THEOREM LinksJoinTheirOwnTables ==
  ASSUME NamesApart, JoinsItsTables(FirstMapping)
  PROVE  Spec => []LinksJoinTheirTables
<1>1. Init => JoinsInv
  <2> SUFFICES ASSUME Init PROVE JoinsInv
    OBVIOUS
  <2>1. /\ \A p \in Tabs : page[p] = NoDraft
        /\ draft = NoDraft /\ save = NoSave /\ whole = FirstMapping
    BY DEF Init
  <2> QED BY <2>1, InitTypeInv DEF JoinsInv
<1>2. JoinsInv /\ [Next]_vars => JoinsInv'
  BY StepJoinsInv
<1>3. JoinsInv => LinksJoinTheirTables
  BY DEF JoinsInv, LinksJoinTheirTables
<1> QED BY <1>1, <1>2, <1>3, PTL DEF Spec
=============================================================================

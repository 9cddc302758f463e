# A verification project for the iBase to Kineviz bridge

The bridge serves a SQL Server database (an i2 iBase one, typically) to Kineviz as a graph: it
turns Cypher into T-SQL, runs it, and gives every row it shows a node id of two numbers. This
directory holds TLA+ models of its stateful parts, TLC configurations that check them on small
instances, and TLAPS proofs of what holds for every instance. Paths such as `connection.py:131`
are below `src/ibase_bridge/`, unless they say otherwise.

## 1. The system

| Component | State it keeps | Operations | Hard to get right |
| --- | --- | --- | --- |
| `BridgeState`, query handler (`ibase_server.py`) | mapping, codec, backend, processor, connection, draft, audit | start, reload, answer a query | reload swaps parts one by one; an answer may not precede its record |
| Node ids (`node_id.py`) | table numbers, a strategy per label, remembered offsets, a state file | register, encode, decode, save, load | ids outlive the process that made them |
| Connection pool (`connection.py`) | idle queue, count of slots, lock | acquire, release, close | threads, failures between two looks at the state, waiting |
| Audit log (`audit.py`, `audited` in `studio.py`) | SQLite file, last hash in memory, lock | record, verify | failed inserts, crashes, edits of the file |
| Schema editor (`studio.py`: routes and page) | a draft in the bridge, a draft per tab, mapping file and `.bak` | discover, rename, include, flip, preview, save, reload, use-connection | copies of one draft that differ, half-written files |
| Mapping file (`mapping.py`) | none | load, validate, number the labels | what is refused, what moves ids |
| Discovery (`discovery.py`), link preview (`studio.py`) | none that outlives a request | classify tables, ask `_LinkEnd` for links and their ends, propose a draft, run a link both ways round | questions that fail one by one; verdicts taken before the piles change |
| Query processor (`query_processor.py`, `cypher_translator.py`) | last SQL | dispatch, merge branches, expand | errors that become empty answers, limits across branches |
| Compiler and backend (`mssql_backend.py`, `tsql.py`) | last SQL | plans to SQL, parameters, paging, branch limits, counts | ids of the wrong label, caps, the order of parameters |
| WHERE engine (`predicate.py`, `tsql.py`, `translate`) | none | parse, hint at labels, compile | hand-written precedence, NULL logic, escapes, long lists |
| Conversion, proxy shapes, logs, mock backend | none that matters | formatting | - |

How they interact: a query request goes handler -> processor -> backend -> pool -> SQL Server, the
backend asks the codec for ids, the handler records the answer and sends it. The studio writes the
mapping file, and reload builds mapping, codec, backend and processor from it. Handlers are
`async def` functions that await nothing but their request's body, so on one event loop each runs
to its end; the pool and the audit log nevertheless promise to serve threads, and that promise is
what their models check.

What makes each correct: an id stands for one row, always the same (node ids); no slot, connection
or caller is lost (pool); nothing unrecorded is sent and no edit goes unseen (audit); no decision
of a person is lost on its way from the page to what is served (studio); a query's answer is
complete or an error, never silently smaller (processor, compiler).

## 2. Plan

1. `NodeIds`, `ConnectionPool` (with the abstract `BoundedPool`), `AuditLog`: done, with proofs.
2. `Drafts` and `Studio`: done for everything but the preview, every invariant proved.
3. `Patterns` and `Queries`: done for patterns, graphs, tables of one column, counts and samples; the
   resolution of patterns and every property of the runs are proved. Both projects sort or filter lists with
   `Lists`, whose facts are `ListsProofs`.
4. `Where` and `Statements`: done, every invariant proved (section 5; of the parser, for the texts that `Written` writes). What is recursive over trees and
   tokens is written as functions over `Trees` and over places in a text, about which the prover can reason.
5. `Discovery`, with the preview of a link: done, every invariant proved.
6. Left, in this order: groups, sums and DISTINCT of an aggregate (`mssql_backend.py:503`), properties and
   ORDER BY in `Queries`; the joins of `_LinkEnd` as rows, not only as parameters; composite keys
   (`mapping.py:215`); two tabs with requests in flight in `Studio`.
7. Proofs: of `ParsedAsWritten`, the texts that are no filter and the other ways to write one (section 5).

## 3. Modules

### NodeIds (`node_id.py`, `BridgeState.reload`)

A key is what the codec can tell of it: an integer, a prefix with digits of some width, anything
else. `order` is the table numbering, and `scheme`, `toOffset`, `toKey`, `next` are the fields of each
`LabelCodec`; `saved` is the state file and `held` some ids that Kineviz kept from earlier codecs.
`Start` is a reload or a restart, with any of the mapping files; `Encode` and `EncodeLate` are
`encode` for registered and unregistered names; `Save` is `save`. Computed ids take no state, so all
of them count as issued.

Runs: `node_ids` checks the class as it may be used (samples, a caller of `save`): ids decode to
their rows, never change under one codec, and survive restarts if computed or saved. The
instance has two labels and a link type, `JS_SAFE_INT` 19 (the registry begins at 9) and keys on both
sides of every test: 0, 8 and -1; two widths; keys that are neither. `MaxHeld` is 1, enough because the
properties speak of one held id. `node_ids_prefixed` is the class as the bridge uses it, and shows a
statement of the documentation that does not hold (section 6).

### ConnectionPool, BoundedPool (`connection.py`)

One action per piece of code that no other thread can interrupt: a queue operation, a lock block,
a call of the driver. `drained` counts connections `close()` took, which `_made` still counts.
`BoundedPool` is what callers see: they ask, are granted a connection or an error, and at most
`PoolSize` of them use one. `KeepsPromise` says that the pool implements it, with
`Seen(pc[t])` as the mapping: connecting and waiting is asking, running is using, discarding is out.

Run `pool`: three threads and two slots, so that one can always wait; five connection names, as
many as can be open at once. Fairness: every call that has begun goes on, because each wait is
bounded in the code (30 s in the queue, login and query timeouts); nobody must call or close.
Under it, `EveryCallReturns`: without the timeout a waiter could starve, since a broken connection
frees its slot without waking anyone.

### AuditLog (`audit.py`, the handler of `ibase_server.py`, `audited` of `studio.py`)

A hash is the sequence of rows that went into it: SHA-256 without collisions. A request is executed,
hashed under the lock, inserted, and answered, each a step, so that crashes and failures fall
between them. `Change`, `Remove` and `Swap` are edits made by hand with the triggers dropped, at most
one in a behaviour, and `Note` is somebody writing down the hash `verify` printed.

Run `audit`: three requests, the fewest with a row before and one after a damaged one; one
bridge at a time. Fairness: a handler that has begun runs on. Two bridges on one file break the chain,
because each remembers the last hash it wrote (`audit.py:131`); no document promises otherwise,
`MayShare` admits it, and `SentWasRecorded` holds even then
(proved). `Forms` admits queries that are JSON numbers; the run keeps to texts (section 6).

### Drafts, Studio (`studio.py`, `mapping.py`)

`Drafts` holds what is computed: a draft, the edits a page makes, flipping, `draft_to_mapping_dict`, what
`from_dict` accepts, and what a file may hold when writing stopped. Links join records by columns
1 and 2, and `Joins` says what the columns refer to, which is what makes a wrong label visible.
What is included is filtered out of the list of tables with `Kept` (`Lists`).
`Studio` has the pages, the bridge's own draft, the files, the saves in progress, and the connections.
A save is three steps (backup opened, file opened, file written), because it may be cut short at
each; every other route is one, and waits while a save runs. `Flip` includes the preview the page sends
after it. `Restore` is a person copying the backup over a file that does not load.

Run `studio`: two record types, one link, one tab, two edits, one failure, three pools. One page and the
bridge already hold two different drafts; two edits make the clash of a record's name with a link's; three
pools allow a failed switch and a successful one after it. Names cannot meet in this run
except as such a clash (`NamesApart`, the premise of the proof, holds). `studio_rename` lets records take each other's names (section 6). No fairness is assumed
and nothing is live.

Whether ids that Kineviz holds outlive a reload is a matter of which table a number stands for (`Numbered`), and the
bridge compares names (`Moved`). `HeldIdsStand` says that a reload that reports no move leaves every number to its table,
whatever was left out, put back, renamed and saved in between. Like `LinksJoinTheirTables` it needs names that do not
meet: once a name passes from one table to another it is false (section 6). Changing the database reloads
the file too, and compares nothing; the property is about `Reload` only.

### Lists, Patterns, Queries (`query_processor.py`, `mssql_backend.py`, `predicate.py`, `tsql.py`, `result_converter.py`)

`Patterns` holds what is computed. A pattern is a chain of hops whose labels, types and directions may
be open; `Branches` is `_expand_branches`, `ConcretePlans` is `concrete_plans` with its candidates and
pruning, `Rows` the joins and the id list of one statement. Beside them stands what the pattern means
in the graph that the mapping describes (`Matches`), which knows nothing of branches, orientations or
swapped columns. `Queries` is `execute`: a query is expanded, each branch is refused or runs its
statements one by one, each statement may fail, and the merged answer goes out; the caller then pages on.
A page is the rows in the order of all projected keys, cut by `TOP` or `OFFSET` and `FETCH`, and `Trimmed`
is the end of the backend's `execute`. `Lists` says what sorting and filtering give: `Sorted` puts each element
where the number of those ahead of it puts it, `Precedes` compares keys one by one. The order of branches and plans, which the mapping fixes, is a `CHOOSE`.
Counts and the sample of a label-less vertex are answered at once (`Count`, `Sample`), and an exception of
theirs reaches the caller. A count whose text fits a regular expression is read off whole tables (`Bare`,
`TableRows`), any other counts the rows of all concrete plans (`UnionRows`); `NothingMissed` says that both
are the number of matches, for what `Countable` describes.

Run `queries`: two labels, a type with two pairs and one whose columns are the other way round, so that
every wrong column or label shows; three records and every database of three of five links, among them a
parallel link and one to its own start; patterns without hops and with one and two, the fewest where
hops must agree and a link could be used twice. `MaxBranches` is 7, so that one two-hop pattern is refused and
the others are not. A LIMIT of 1 or 3 cuts, 99 stands for `MAX_QUERY_RESULTS`, which does not. One statement
may fail. Answers do not outlive a query, so a behaviour is one query and its pages; it ends when the
caller stops asking, hence `CHECK_DEADLOCK FALSE`. The selections here have one label or keys of their own
(`Plain`); what happens otherwise is `queries_selection`, and a failed statement is `queries_failure`.

### Where, Statements (`predicate.py`, `tsql.py`, `cypher_translator.py`, `mssql_backend.py`)

`Where` holds the WHERE engine as operators. A text is a sequence of tokens, and an operator of the parser
gives a tree and the place to go on (`TestAt`, `NotAt`, `JoinedAt` are `_predicate`, `_not`, `_and` and `_or`).
`Params`, `Pattern`, `ListParams` and `Sent` are what `to_sql`, `like_pattern` and `id_list_sql` make of a
tree, and `SqlLeaf` with `Connected` what SQL Server answers, in degrees of truth: false, null, true.
`Like` goes through a pattern from its end and keeps the places of the text whose rest it matches.
Beside them stand `Written`, which writes a tree with no more brackets than it needs, and `CypherLeaf`,
which knows nothing of SQL. `Trees` are the trees of up to `Depth` operators above a test, of any size at its
leaves; what is recursive over them is a function on that set. `Statements` takes one query from its text to its rows: translated or refused, compiled hop
by hop, bound, run or failed. `TextOrder` is the order of the question marks in the statement,
`CompileOrder` that of the parameters.

Run `statements`: tests of every kind on a number, a text and a bit, each of which may be null; all of them
alone and under NOT, chosen ones in trees of two and three, other ways to write a tree, and every text of up to five
words over a property, `=`, AND, OR, NOT and brackets, and of up to four over operands, IS, NOT, IN, null and lists. What a
text means (`meant`) is not read off the parser: `Meant` is a second reading of the grammar at the head of `predicate.py`, by every
way to split a text, with at most one tree for each. `ParsedAsWritten` speaks of texts whose keywords stand where
keywords may (`KeywordsInPlace`) and whose brackets hold whole tests (`BracketsHoldTests`); of others it is false (section 6),
and TLC finds `IN`, a text of one word that is accepted, and `(n.x) = n.x`, which is refused, if either premise is dropped.
`Depth` is 4, more than any filter of the run needs. `InlineMax` is 2
for 200, with lists of none, one, two and three; `MaxParams` is 12 for 2100, which only the united
statement of a grouped query with a long filter exceeds. Routes have every kind of hop, and a grouped query unites two.
Both server generations occur. `KeepsWhatCypherKeeps` leaves out what section 6 lists (`Straight`), and
`JoinsFirst` the routes of `statements_bound`, which runs all of up to three hops. A query ends, hence
`CHECK_DEADLOCK FALSE`.

### Discovery (`discovery.py`, `preview_edge` of `studio.py`)

`Pile` is `classify`; `NameLinks`, `AskEnds` and `Locate` are the questions to `_LinkEnd` and to the tables,
each of which may fail by itself and is then skipped, as in the code; `Propose` moves tables
between the piles and drafts the pairs; `Flip` and `Preview` are the routes of the same names. A pair names
the tables and the columns of a link's two ends, and a database gives ids to tables and to the ends
of links, so that a pair is right or wrong in the data and not by its name.

Run `discovery`: four tables and a system table with every arrangement of foreign keys that `classify`
tells apart, keys of no, one and two columns, `_LinkEnd` absent, with other columns or naming one or two
tables, ends in either order and ends of records that are gone. One question may fail, which is enough to tell each failure's
effect alone. `Apart` (in `WarningsAreRight`) keeps `_LinkEnd` to tables that no foreign key points to;
what happens otherwise is in section 6. A person may stop at any time: `CHECK_DEADLOCK FALSE`.

## 4. What the checks show

| Run | Property | Meaning |
| --- | --- | --- |
| `node_ids` | `DecodesToItsRow` | an issued id decodes to its row only |
| | `IdNeverChanges` | a row shown keeps its id while the codec serves |
| | `ComputedIdsSurvive`, `SavedIdsSurvive` | ... and after restarts, if computed or saved |
| `pool` | `SlotsAddUp`, `NeverWedged` | no failure loses a slot |
| | `OnePlace` | a connection is used by one thread, or idle, and never leaked |
| | `EveryCallReturns`, `KeepsPromise` | every caller is answered; the pool is a `BoundedPool` |
| `audit` | `SentWasRecorded` | what was sent is in the file, once |
| | `UndamagedIsIntact`, `DamageIsNamed` | `verify` blames exactly the edited row |
| | `NotedHashVouches` | a hash written down vouches for the rows before it |
| | `EveryRequestEnds` | a failed insert blocks nobody |
| `studio` | `NothingLost`, `SavedLoads` | the last saved mapping is in file or backup, and loads |
| | `LeavingOutIsSafe` | leaving things out never makes a draft unsavable |
| | `LinksJoinTheirTables` | saved links join the tables their columns refer to |
| | `PoolsInUseAreOpen` | switching databases never closes a pool in use |
| | `HeldIdsStand` | a reload that reports no move leaves every number of an id to its table, if no name passes to another |
| `queries` | `NothingInvented`, `NothingMissed` | an answer is what the pattern matches, a count its number; only a failure or LIMIT makes it less |
| | `NoLooseEnds` | a cut graph has its links' ends and no other nodes |
| | `RefusalsAreTold`, `EmptyTablesAreTrue` | a refusal never becomes a graph, nor an error an empty table |
| | `PagesCover` | the pages of one statement show every link once |
| `statements` | `ParsedAsWritten` | what the grammar reads in a text is what the parser reads, and nonsense is refused; if keywords and brackets are in place |
| | `KeepsWhatCypherKeeps` | SQL Server keeps the rows Cypher keeps, nulls, wildcards and long lists included |
| | `HintsAreSound` | ids taken as hints are true of every row kept |
| | `BoundInOrder` | every question mark gets its own parameter, and long lists take one |
| `discovery` | `TypeOK` | every table is on one pile, before and after `_LinkEnd` moves some |
| | `WarningsAreRight` | a proposed link warns exactly if its ends are not both records |
| | `EndsAreTrue` | pairs proposed fit a link, and without failures every link fits a pair |
| | `VerdictIsTrue` | a preview says what is so, also after flips and failures |

Every one of them is violated by a mutant of a definition it depends on; the mutants stand beside
the definitions, marked `Faulty`. The other five runs (`node_ids_prefixed`, `studio_rename`, `queries_selection`,
`queries_failure`, `statements_bound`) each show a disagreement of section 6.

## 5. What is proved

All theorems hold for every value of the constants that satisfies the modules' assumptions.

- `NodeIdsProofs`. The invariant says of each codec that its two dictionaries are inverse, its
  counter above every offset it remembers and all of those at least `Half` (`CodecsWellFormed`), which
  saved states share, so that loading them keeps it. From it `IdsDecode` proves `DecodesToItsRow`, under two
  premises: keys lie below the registry (the code does not ensure that for integer keys of 2^52 and
  more, although a comment says so), and no unmapped name is registered over a state file. `IdsStay` follows
  from it under the second premise: no step but `Start` takes a remembered key back. For `SavedIdsLast` (the
  second premise) and `ComputedIdsLast` (both) the invariant also looks back (`PastInv`): a mapped name has the
  strategy its keys call for, an id that was computed holds its key's number, and the codec in use has all the
  file has.
- `ConnectionPoolProofs`. `SlotsAddUp` with `TypeOK` is inductive, and the sum bounds `_made` from below and the
  running threads from above: `NoSlotLost`, `PoolNeverWedged`, `PoolKeepsPromise`; with the places of
  connections, `ConnectionsInOnePlace`.
- `AuditLogProofs`. `NothingSentUnrecorded`: no row of a request exists before it is hashed, one after it is
  inserted. `ChainStaysIntact`: a running bridge's `_prev` is the file's last hash, and whoever holds the
  lock is to link to it; for textual queries and one bridge at a time. On it rests `DamageIsFound`: the file was
  intact until it was damaged, and whether a row matches depends only on it and the row before it. `NotesVouch`
  needs no premise: in an intact file a row's hash spells the rows up to it (`IntactSpells`, by the least row
  that would not).
- `ListsProofs` (lemmas only). What filtering, sorting, cutting and joining lists keep. Induction over numbers
  is done in first-order logic: `Climb` says that what holds of 0 and passes on holds up to n, by the least number
  of which it would not, and the fold behind `FlattenSeq` is built with it.
- `StudioProofs`. Until the first failure the last saved mapping is in the file, or in the backup once the
  file is open (`FilesInv`): `OnlyLoadableIsSaved` for any number of failures, `SavedMappingIsKept` for at most one
  (a second one can lose it, section 6). `NoPoolClosedInUse`. `DraftsStayDrafts`: a page only touches links
  it has come to before any that is undefined (`ReachedIsThere`), so drafts with holes stay drafts, and what has
  a mapping becomes one (`MappingParts`). On it rests `LeavingOutNeverBlocksSaving`: the labels and types
  written are those left in, in the order of the tables. `LinksJoinTheirOwnTables` needs that no name of a table, its
  own or one typed for it, is another table's (`NamesApart`), and that the first mapping joins its tables. Then every
  end of every draft goes by a name of the table its column refers to (`OwnNames`), which renaming, flipping a
  stale copy and sending it keep, and such a name resolves to the label of that table only (`ResolvedOwn`).
- `QueriesProofs`. `ResolutionIsExact` (about `Patterns`): for any number of labels, types, pairs and hops, the statements
  find exactly `Matches`. One hop is `FollowedIsJoined`: a link is followed iff some pair, walked one way or
  the other, joins it; from it a row is a match (`RowsMatch`), and a match chooses its branch and concrete
  plan (`MatchesAreRows`). The premises are a pattern as the translator builds it, and `Plain`.
  On it rest all properties of the run `queries`, for any mapping, database, pattern and number of pages.
  `NoRefusalIsSwallowed`: a graph being put together has refused no branch that is not still to run; a sample has
  no hops, so none of its branches can be refused (`SamplesAreSmall`). `TypesHold`, `AnswersAreFound`,
  `GraphsHoldTogether`: what is put together is always `Good`, that is, lists of what is found (`Sound`), each link with
  its ends (`Tight`); a page of sorted rows keeps it (`PageHolds`), and so do `Extended` and `Trimmed`.
  `NoRowsMeansNoMatch` (`BlankInv`): a statement that found nothing is one no match belongs to. `AnswersAreWhole`
  (`WholeInv`): what has run covers its matches, and what is collected is never longer than what the statements found,
  so that a LIMIT which does not cut a branch does not cut here; a count is exact because rows, and the pairs of
  table rows and ways to read them, correspond one to one to matches (`CountIsExact`). `PagesShowAll`: the
  pages so far show the rows up to where the next begins, each once, for a caller that begins with the first page
  (`FirstPagesFirst`, true of `queries`).
- `DiscoveryProofs`. All four invariants of the run, for any tables, ids and databases: `Typing`, `Warnings`,
  `ProposedEnds`, `VerdictsAreTrue`. The invariant has six parts: types; the piles are
  what the catalog makes of them until `Propose` moves `linkTables` (`PilesInv`); what was found is in the data
  (`FoundInv`); what is in the data was found, if nothing failed (`CompleteInv`); nothing is asked before links
  are named (`EarlyInv`); and the last verdict is of the draft it was given (`VerdictInv`). `FoundInv` and
  `CompleteInv` cannot be dropped: the pairs are proposed from what was found, after the finding.

- `StatementsProofs`. The five invariants of the run `statements`, for any filters, columns, rows, routes and limits.
  The invariant (`IInv`) says of each stage what the parts are made of: after parsing `where` is a tree,
  after compiling `holes` and `params` are what `TextOrder` and `CompileOrder` make of it, after running `kept` is
  what `Keeps` says of the rows. `TypesHold` and `ParametersAreInOrder` compare the orders of the parts, route by
  route (`FlattenPairs`, `FlattenWeighed` of `ListsProofs`), and bound a test's parameters by a short list's.
  `HintsNeverLie`: a true tree makes each of its hints' tests true. `CypherRowsKept`: degrees of
  truth are those of the tests (`SameConnected`), so that it is enough that each test agrees (`SameTest`). The hard case
  is LIKE: `LikeFinds` says that a pattern of escaped characters, with or without a sign before and after, finds exactly
  the texts that contain, begin with or end with them. Recursion over trees and places is unfolded with
  `TreeRecursion` and `PlaceRecursion`: a rule that refers to smaller trees or later places has exactly one function, built
  with `Climb`. `FiltersAreReadAsMeant`: the parser undoes `Written` (`ParseUndoesWritten`). Its rules go forward
  (`Forth`), so that there is a function that follows them for any text (`ParseRules`); then, by induction over the
  tree, each rule reads a tree that stands anywhere in a text, as far as its own end, if what follows is a
  connective, a closing bracket or the end (`TreesRead`): AND does not stop before an AND, but OR is left to the
  rule above. The theorem holds for trees that a text can name (`Sayable`): no operand is the variable that a
  keyword out of place becomes, `id(n) IN` is always a list of ids, and a lone operand is a column. Every tree that
  the run writes is one.

The proofs corrected what the runs had let pass, because no instance had the case: `EmptyTablesAreTrue` now
leaves out LIMIT 0; counts are exact only if every link is read by one pair, one way (`Countable`); the
links a pattern may show are those followed in one of its directions (`RelsFound`); and LIMIT leaves an answer whole only
if it is no less than the most rows any branch can find, times their nodes (`Uncut`); and a pattern means the same to
SQL Server only if every backslash in it is written twice (`Straight`).

Only model-checked: liveness (`EveryCallReturns`, `EveryRequestEnds`); `HeldIdsStand` of `Studio`; and of `ParsedAsWritten`, that texts that are no filter are refused and that
the other ways to write one (UNNEST, a list in brackets, more brackets than needed) are read alike.

## 6. Where the code and its documents disagree

- `node_ids_prefixed`: "restarting the bridge does not break a saved Kineviz project" (README.md:366)
  fails for prefixed keys, because `BridgeState.reload` gives `register` no samples.
- `studio_rename`: renaming records to each other's names, or to that of one left out, writes
  links with the wrong ends. So does giving two records the same name for a moment and then renaming one of them, which
  takes the ends of both along: no table's name is involved, and `NamesApart` excludes that too.
- `queries_selection`: a selection of several labels is expanded as if all were of the first one's label
  (`mssql_backend.py:90`, `predicate.py:465`): links are missing, and with keys that recur in other tables some belong
  to records nobody selected. "A query that would give a wrong answer fails loudly" (README.md:396).
- `queries_failure`: a branch whose statement failed is skipped (`query_processor.py:188`), and if it was the
  only one, the answer is an empty graph and no error.
- `statements_bound`: a hop with id prefixes before one through `_LinkEnd` binds the prefix where the link
  table is asked for (`mssql_backend.py:222`), because prefixes belong to WHERE and joins do not. The
  rows are lost, or the statement fails and its branch is skipped. "Multi-hop" patterns work (README.md:387).

Seen while modelling, without a run of its own:

- Ids and files. A reload compares names (`studio.py:766`), not tables. Leave table A out, save and reload; discover again, leave
  B and the link out, name A as B was, save and reload: the names served are the same, `ids_moved` is false, and ids that
  Kineviz holds of rows of B name rows of A, although the page is to warn "if the set of record types changed"
  (README.md:291). "Appending a new label is safe" (`mapping.py:81`) is false as soon as there is a link
  type, since link types are numbered after the labels. Nothing calls `NodeIdCodec.save`, so `--id-state` names a file that
  is never written. `verify` reports an edit nobody made when a request's query was a JSON number: it is
  hashed as a number and stored as text (repository README.md:460; `Forms` with "number" shows it).
- Studio. Flipping works on the bridge's copy of the draft and brings back a name typed since that was sent
  (`studio.py:713`, README.md:259). A failed `use-connection` leaves the editor on one database and the queries on
  another; a failed save that is repeated copies the cut file over the backup. A preview whose mirrored query failed
  says "ok", as if the other direction had been found empty, and one whose count failed says "empty"
  (`studio.py:303`, `studio.py:321`, README.md:269).
- Pool. A connection returned after `close()` stays open.
- Discovery. A link whose foreign key points to a table that `_LinkEnd` then names keeps `resolvable` and gets no
  warning (`discovery.py:189`). A prefix found in no table is dropped, with its rows. The same note, that no endpoint
  rows were found, is given when the question failed. The key of a link table with a composite key is its first column only.
- Answers. `count(r)` of a labelled pattern counts the whole link table (`query_processor.py:243`), and without
  direction counts a link to its own start twice. A count over a pattern without concrete plans is a table without rows, not 0.
  A sample shows no more of a label than LIMIT divided by the number of labels (`mssql_backend.py:430`). A
  label the mapping does not know counts as none (`mssql_backend.py:125`); a variable that occurs twice in a pattern makes SQL
  Server refuse the statement, which becomes an empty graph; the cap on meanings is per type, so an
  untyped pattern over many types is not refused; a LIMIT trims links, not rows, so that a two-hop path may be
  shown without its second link; a table with rows keeps silent about the branches that failed. Any "limit" in
  the text suppresses the automatic one (`query_processor.py:267`).
- Filters. `(n.x) = 1` is a filter by the grammar (`predicate.py:13`) and in Cypher; a bracket that opens a test is
  always taken to hold all of it (`predicate.py:206`), so the query is refused, with a message. `n.x AND AND` is no filter and
  is accepted, since any name may be a variable (`predicate.py:328`), keywords included: the statement asks for a column
  `[None]`, fails, and the answer is an empty graph, which is what "don't silently drop it" (`cypher_translator.py:83`)
  is there to prevent. In a pattern, a backslash before anything but a quote or a backslash is taken for an escape
  (`like_pattern` leaves it alone). `CONTAINS other.prop` compares with the text of a Python object and `CONTAINS null` with "None"
  (`predicate.py:444`); a doubled backslash stays doubled in a comparison; ids are compared by key, without their
  label; null in a long list becomes the text "None" on servers without OPENJSON; `id(n) IN [5]` keeps nothing; a lone `true` or `false` is
  refused; STARTS and ENDS do without WITH.

## 7. Not modelled

Groups, sums, averages and DISTINCT of aggregates and tables, properties, and ORDER BY a property are planned
(section 2), as are `link_end` resolutions in `Queries`, where a link's ends are columns. Patterns in which a
variable occurs twice are not expressible in `Patterns`; a table is ordered by its first column only; a link in `Drafts` has one pair of ends. The tokenizer, case folding and the types that
parameters are bound as (`cast_text`, `ptypes`) are below what `Where` tells apart.

The in-memory backend, and `predicate.evaluate` that serves it alone, cannot be loaded: `mock_backend.py:26` imports
`.identity`, which the repository does not have. The conversion to JSON, the proxy adapter and the logs keep no
state that anything depends on. The CORS and private-network answers, setup, SQL fixtures, scripts and CI
are outside a state machine's reach or interest. Loss of power (nothing is fsynced but the audit log), several
tabs with requests in flight at the same time, and hash collisions are left out of the models above.

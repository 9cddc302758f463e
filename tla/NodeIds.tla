------------------------------- MODULE NodeIds -------------------------------
(***************************************************************************)
(* ibase_bridge/node_id.py: the ids "<table>:<offset>" the bridge gives to *)
(* the rows it shows, and how an id that comes back is turned into a row   *)
(* again.                                                                  *)
(*                                                                         *)
(* A NodeIdCodec is built when the process starts and again at every       *)
(* reload (BridgeState.reload).  It numbers the names of the mapping file  *)
(* and gives each a LabelCodec, whose offsets are either computed from the *)
(* key (direct, numeric_suffix) or remembered (registry).  Kineviz keeps   *)
(* ids on its canvas, and in saved projects, across all of that.           *)
(*                                                                         *)
(* A key is what the codec distinguishes of it: an integer, a string that  *)
(* is a prefix followed by digits, or anything else (NULL, a GUID, a key   *)
(* of several columns).                                                    *)
(***************************************************************************)
EXTENDS Integers, Sequences, FiniteSets, Functions

CONSTANTS
  Names,         \* node labels and relationship types
  Keys,          \* the keys rows may have
  RowKeys,       \* RowKeys[n]: the keys the rows of n have
  IntegerKeyed,  \* the names whose key column has an integer SQL type
  Samples,       \* Samples[n]: the sample keys `register` is given for n
  Mappings,      \* the mapping files, as [labels |-> seq, rels |-> seq]
  SafeInt,       \* JS_SAFE_INT, 2^53 - 1 in the code
  CallerSaves,   \* whether anything calls NodeIdCodec.save
  LateLabels,    \* names that may be encoded without being mapped
  LateOverFile,  \* whether that may happen when there is a state file
  MaxHeld        \* bound: ids of earlier codecs looked at together

IntKey(i) == [kind |-> "int", prefix |-> "", width |-> 0, num |-> i]
TextKey(p, w, i) == [kind |-> "text", prefix |-> p, width |-> w, num |-> i]

LabelOrder(m) == m.labels \o m.rels

ASSUME KeysAssumption ==
  /\ \A k \in Keys :
       /\ k \in [kind : {"int", "text", "other"}, prefix : STRING,
                 width : Nat, num : Int]
       /\ k.kind = "int" => k = IntKey(k.num)
       /\ k.kind = "text" => k.num >= 0 /\ k.num < 10 ^ k.width
  /\ RowKeys \in [Names -> SUBSET Keys]
  /\ IntegerKeyed \subseteq Names
  /\ \A n \in Names : \A k \in RowKeys[n] :
       IF n \in IntegerKeyed THEN k.kind # "text" ELSE k.kind # "int"
  /\ Samples \in [Names -> SUBSET Keys]
  /\ \A n \in Names : Samples[n] \subseteq RowKeys[n]

ASSUME ConstantsAssumption ==
  /\ \A m \in Mappings :
       /\ LabelOrder(m) \in Seq(Names)
       /\ IsInjective(LabelOrder(m))
  /\ SafeInt \in Nat
  /\ CallerSaves \in BOOLEAN
  /\ LateLabels \subseteq Names
  /\ LateOverFile \in BOOLEAN
  /\ MaxHeld \in Nat

VARIABLES
  order,     \* the names in table order; table id t is order[t + 1]
  scheme,    \* scheme[n]: strategy, prefix and width of n's LabelCodec
  toOffset,  \* toOffset[n]: n's _to_offset, keys to offsets
  toKey,     \* toKey[n]: n's _to_key, offsets to keys
  next,      \* next[n]: n's _next
  saved,     \* the state file: names to what LabelCodec.state returns
  held       \* ids of earlier codecs that Kineviz still holds

codecVars == <<order, scheme, toOffset, toKey, next>>
vars == <<order, scheme, toOffset, toKey, next, saved, held>>

Strategies == {"direct", "numeric_suffix", "registry"}
Schemes == [strategy : Strategies, prefix : {""} \cup {k.prefix : k \in Keys},
            width : Nat]

\* f is a function from part of A to B.
IsMap(f, A, B) == /\ f \in [DOMAIN f -> B]
                  /\ DOMAIN f \subseteq A
Ids == [label : Names, key : Keys, table : Nat, offset : Nat]

\* Python's d.update and d[x] = v.  (TLC's @@ and :> say the same, but the
\* prover does not expand them.)
Overlay(f, g) == [x \in DOMAIN f \cup DOMAIN g |->
                    IF x \in DOMAIN f THEN f[x] ELSE g[x]]
Put(f, x, v) == [y \in DOMAIN f \cup {x} |-> IF y = x THEN v ELSE f[y]]

NoFile == [n \in {} |-> 0]

-----------------------------------------------------------------------------
(* LabelCodec: choosing a strategy, and the arithmetic both ways.          *)

Registry == [strategy |-> "registry", prefix |-> "", width |-> 0]
Direct == [strategy |-> "direct", prefix |-> "", width |-> 0]
Suffix(k) == [strategy |-> "numeric_suffix", prefix |-> k.prefix,
              width |-> k.width]

\* Samples that all have one prefix, one width and a digit part small enough.
Uniform(S) == \A a, b \in S : /\ a.kind = "text"
                              /\ a.num <= SafeInt
                              /\ a.prefix = b.prefix
                              /\ a.width = b.width

Infer(n) ==
  IF n \in IntegerKeyed THEN Direct
  ELSE IF Samples[n] # {} /\ Uniform(Samples[n])
       THEN Suffix(CHOOSE k \in Samples[n] : TRUE)
       ELSE Registry

\* Faulty: forgets that an offset is neither negative nor unsafe in JavaScript.
ComputedAnyNumber(s, k) ==
  \/ s.strategy = "direct" /\ k.kind = "int"
  \/ /\ s.strategy = "numeric_suffix"
     /\ k.kind = "text"
     /\ k.prefix = s.prefix

\* The keys whose offset is their number, with nothing to remember.
Computed(s, k) ==
  /\ k.num \in 0..SafeInt
  /\ \/ s.strategy = "direct" /\ k.kind = "int"
     \/ /\ s.strategy = "numeric_suffix"
        /\ k.kind = "text"
        /\ k.prefix = s.prefix
        /\ k.width = s.width

\* Faulty: str(offset) without the zfill.
Unpadded(w, i) == IF i = 0 THEN 1
                  ELSE CHOOSE d \in 1..(w + i) : 10 ^ (d - 1) <= i /\ i < 10 ^ d

\* zfill never cuts: a number with more digits than the width keeps them all.
Padded(w, i) == IF i < 10 ^ w THEN w
                ELSE CHOOSE d \in w..(w + i) : 10 ^ (d - 1) <= i /\ i < 10 ^ d

Rebuilt(s, i) == IF s.strategy = "direct" THEN IntKey(i)
                 ELSE TextKey(s.prefix, Padded(s.width, i), i)

\* The first offset the registry may hand out.
Half == SafeInt \div 2
FreshOffsetFromZero(last) == last  \* Faulty: no floor.
FreshOffset(last) == IF last > Half THEN last ELSE Half

\* LabelCodec.key_for: the key of an offset, as a set of at most one key.
KeyFor(n, i) ==
  IF i \in DOMAIN toKey[n] THEN {toKey[n][i]}
  ELSE IF scheme[n].strategy = "registry" THEN {}
  ELSE {Rebuilt(scheme[n], i)}

\* NodeIdCodec.decode: the rows an id stands for, at most one.
Decode(t, i) ==
  IF t + 1 \in DOMAIN order
  THEN {[label |-> order[t + 1], key |-> k] : k \in KeyFor(order[t + 1], i)}
  ELSE {}

\* Faulty: the counter is not read back.
LoadedWithoutNext(n, st) ==
  IF n \in DOMAIN saved
  THEN [scheme |-> saved[n].scheme,
        toOffset |-> Overlay(saved[n].toOffset, st.toOffset),
        toKey |-> Overlay(AntiFunction(saved[n].toOffset), st.toKey),
        next |-> st.next]
  ELSE st

\* LabelCodec.load_state: what the file says wins over what is there.
Loaded(n, st) ==
  IF n \in DOMAIN saved
  THEN [scheme |-> saved[n].scheme,
        toOffset |-> Overlay(saved[n].toOffset, st.toOffset),
        toKey |-> Overlay(AntiFunction(saved[n].toOffset), st.toKey),
        next |-> saved[n].next]
  ELSE st

Fresh(s) == [scheme |-> s, toOffset |-> [k \in {} |-> 0],
             toKey |-> [i \in {} |-> IntKey(0)], next |-> 0]

Current(n) == [scheme |-> scheme[n], toOffset |-> toOffset[n],
               toKey |-> toKey[n], next |-> next[n]]

\* Faulty: does not look whether the key already has an offset.
RememberAgain(st, k) ==
  IF Computed(st.scheme, k) THEN st
  ELSE LET i == FreshOffset(st.next)
       IN [scheme |-> st.scheme,
           toOffset |-> Put(st.toOffset, k, i),
           toKey |-> Put(st.toKey, i, k),
           next |-> i + 1]

\* LabelCodec.offset_for, the part with an effect: a key that is not computed
\* and not known yet is given the next offset.
Remember(st, k) ==
  IF Computed(st.scheme, k) \/ k \in DOMAIN st.toOffset THEN st
  ELSE LET i == FreshOffset(st.next)
       IN [scheme |-> st.scheme,
           toOffset |-> Put(st.toOffset, k, i),
           toKey |-> Put(st.toKey, i, k),
           next |-> i + 1]

SetCodecs(st) ==
  /\ scheme' = [n \in Names |-> st[n].scheme]
  /\ toOffset' = [n \in Names |-> st[n].toOffset]
  /\ toKey' = [n \in Names |-> st[n].toKey]
  /\ next' = [n \in Names |-> st[n].next]

-----------------------------------------------------------------------------
(* The ids the live codec has handed out.  A computed id takes no state,   *)
(* so it counts as handed out from the start.                              *)

HasId(n, k) == /\ n \in Range(order)
               /\ Computed(scheme[n], k) \/ k \in DOMAIN toOffset[n]

TableOf(n) == (CHOOSE i \in DOMAIN order : order[i] = n) - 1

IdOf(n, k) == [label |-> n, key |-> k, table |-> TableOf(n),
               offset |-> IF Computed(scheme[n], k) THEN k.num
                          ELSE toOffset[n][k]]

Issued == {IdOf(r[1], r[2]) :
             r \in {q \in Names \X Keys : q[2] \in RowKeys[q[1]]
                                          /\ HasId(q[1], q[2])}}

-----------------------------------------------------------------------------
Init ==
  /\ saved = NoFile
  /\ held = {}
  /\ \E m \in Mappings :
       /\ order = LabelOrder(m)
       /\ scheme = [n \in Names |-> IF n \in Range(order) THEN Infer(n)
                                    ELSE Registry]
  /\ toOffset = [n \in Names |-> [k \in {} |-> 0]]
  /\ toKey = [n \in Names |-> [i \in {} |-> IntKey(0)]]
  /\ next = [n \in Names |-> 0]

\* BridgeState.reload, at a restart of the process or from the studio: a new
\* codec registers the whole mapping, then reads the state file.  Kineviz
\* keeps some of the ids it was given before.
Start(m) ==
  /\ order' = LabelOrder(m)
  /\ SetCodecs([n \in Names |-> IF n \in Range(LabelOrder(m))
                                THEN Loaded(n, Fresh(Infer(n)))
                                ELSE Fresh(Registry)])
  /\ \E H \in SUBSET (held \cup Issued) :
       /\ Cardinality(H) <= MaxHeld
       /\ held' = H
  /\ UNCHANGED saved

\* NodeIdCodec.encode of a row of a mapped name.
Encode(n, k) ==
  /\ n \in Range(order)
  /\ SetCodecs([x \in Names |-> IF x = n THEN Remember(Current(n), k)
                                ELSE Current(x)])
  /\ UNCHANGED <<order, saved, held>>

\* NodeIdCodec.encode of a row of a name nobody registered: it is registered
\* on the spot, with no key type, and registering reads the state file again
\* over every codec that is in use.  The bridge encodes mapped names only, so
\* this is open to other callers of the class; a file makes it unsafe.
EncodeLate(n, k) ==
  /\ n \in LateLabels \ Range(order)
  /\ saved = NoFile \/ LateOverFile
  /\ order' = Append(order, n)
  /\ SetCodecs([x \in Names |->
       IF x = n THEN Remember(Loaded(n, Fresh(Registry)), k)
       ELSE IF x \in Range(order) THEN Loaded(x, Current(x))
       ELSE Current(x)])
  /\ UNCHANGED <<saved, held>>

IsStateless == \A n \in Range(order) : scheme[n].strategy # "registry"

\* NodeIdCodec.save: nothing is written when every name uses arithmetic.
\* The file is replaced in one step (os.replace), so a crash leaves the old
\* or the new one.
Save ==
  /\ CallerSaves
  /\ ~IsStateless
  /\ saved' = [n \in Range(order) |-> [scheme |-> scheme[n],
                                       toOffset |-> toOffset[n],
                                       next |-> next[n]]]
  /\ UNCHANGED <<order, scheme, toOffset, toKey, next, held>>

Next ==
  \/ \E m \in Mappings : Start(m)
  \/ \E n \in Names : \E k \in RowKeys[n] : Encode(n, k)
  \/ \E n \in Names : \E k \in RowKeys[n] : EncodeLate(n, k)
  \/ Save

Spec == Init /\ [][Next]_vars

-----------------------------------------------------------------------------
(* Properties.                                                             *)

TypeOK ==
  /\ order \in Seq(Names)
  /\ IsInjective(order)
  /\ scheme \in [Names -> Schemes]
  /\ IsMap(toOffset, Names, {toOffset[n] : n \in Names})
  /\ IsMap(toKey, Names, {toKey[n] : n \in Names})
  /\ DOMAIN toOffset = Names /\ DOMAIN toKey = Names
  /\ \A n \in Names : IsMap(toOffset[n], Keys, Nat) /\ IsMap(toKey[n], Nat, Keys)
  /\ next \in [Names -> Nat]
  /\ DOMAIN saved \subseteq Names
  /\ \A n \in DOMAIN saved : /\ saved[n].scheme \in Schemes
                            /\ IsMap(saved[n].toOffset, Keys, Nat)
                            /\ saved[n].next \in Nat
  /\ held \subseteq Ids

(***************************************************************************)
(* Whatever id the live codec has given a row, it decodes to that row and  *)
(* to no other: LabelCodec.offset_for and key_for are inverse, computed    *)
(* and remembered offsets of one label never meet, and two labels never    *)
(* share a table number.                                                   *)
(***************************************************************************)
DecodesToItsRow ==
  \A n \in Names : \A k \in RowKeys[n] :
    HasId(n, k) => Decode(TableOf(n), IdOf(n, k).offset)
                     = {[label |-> n, key |-> k]}

(***************************************************************************)
(* While one codec serves, a row that has been shown keeps its id, however *)
(* many other rows are shown and names registered after it (the canvas is  *)
(* built from many queries, and Kineviz merges them by id).                *)
(***************************************************************************)
IdNeverChanges ==
  [][(\A m \in Mappings : ~Start(m)) => Issued \subseteq Issued']_vars

\* The codec in use gives the held id's table to the label it was made for.
InPlace(h) == h.table + 1 \in DOMAIN order /\ order[h.table + 1] = h.label

(***************************************************************************)
(* An id that was computed from the key stands for the same row after any  *)
(* number of restarts and reloads, state file or none, as long as its      *)
(* label keeps its place in the mapping.                                   *)
(***************************************************************************)
ComputedIdsSurvive ==
  \A h \in held :
    InPlace(h) /\ h.label \notin LateLabels /\ Computed(Infer(h.label), h.key)
      => Decode(h.table, h.offset) = {[label |-> h.label, key |-> h.key]}

(***************************************************************************)
(* An id the state file remembers stands for the same row whenever its     *)
(* label is in its place: saving, restarting, showing more rows and saving *)
(* again never hands its offset to another row (save, load, load_state).   *)
(***************************************************************************)
InFile(h) == /\ h.label \in DOMAIN saved
             /\ h.key \in DOMAIN saved[h.label].toOffset
             /\ saved[h.label].toOffset[h.key] = h.offset

SavedIdsSurvive ==
  \A h \in held :
    InPlace(h) /\ InFile(h) => Decode(h.table, h.offset)
                                 = {[label |-> h.label, key |-> h.key]}

-----------------------------------------------------------------------------
(* What the documentation says and the code does not keep.                 *)

(***************************************************************************)
(* README.md:366 and tests/test_pipeline.py:86: a key that is a prefix and *)
(* digits needs no memory, and a restart does not break a saved project.   *)
(***************************************************************************)
PrefixedIdsSurvive ==
  \A h \in held :
    InPlace(h) /\ h.key.kind = "text"
      => Decode(h.table, h.offset) = {[label |-> h.label, key |-> h.key]}
=============================================================================

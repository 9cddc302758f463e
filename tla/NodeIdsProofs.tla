---------------------------- MODULE NodeIdsProofs ----------------------------
(***************************************************************************)
(* Proofs about NodeIds, for every set of names and keys and every mapping *)
(* file.  Two conditions are hypotheses, since the code does not ensure    *)
(* them: that the keys used as they are stay below the registry's offsets, *)
(* and that no name is registered late over a state file.                  *)
(***************************************************************************)
EXTENDS NodeIds, TLAPS

ComputedBelowRegistry ==
  \A n \in Names : \A k \in RowKeys[n] : k.num \in 0..SafeInt => k.num < Half

\* One LabelCodec is well formed: both of its maps are maps, each undoes the
\* other, and every offset they know lies between Half and `next`.
Paired(to, tk, nx) ==
  /\ \A k \in DOMAIN to : /\ Half <= to[k] /\ to[k] < nx
                          /\ to[k] \in DOMAIN tk
                          /\ tk[to[k]] = k
  /\ \A i \in DOMAIN tk : Half <= i

CodecOK(st) ==
  /\ st.scheme \in Schemes
  /\ IsMap(st.toOffset, Keys, Nat)
  /\ IsMap(st.toKey, Nat, Keys)
  /\ st.next \in Nat
  /\ Paired(st.toOffset, st.toKey, st.next)

\* What the state file says of one label could be loaded into a codec.
EntryOK(e) ==
  /\ e.scheme \in Schemes
  /\ IsMap(e.toOffset, Keys, Nat)
  /\ e.next \in Nat
  /\ \A k \in DOMAIN e.toOffset : Half <= e.toOffset[k] /\ e.toOffset[k] < e.next
  /\ IsInjective(e.toOffset)

FunctionsOnNames ==
  /\ scheme = [n \in Names |-> scheme[n]]
  /\ toOffset = [n \in Names |-> toOffset[n]]
  /\ toKey = [n \in Names |-> toKey[n]]
  /\ next = [n \in Names |-> next[n]]

IInv ==
  /\ order \in Seq(Names)
  /\ IsInjective(order)
  /\ FunctionsOnNames
  /\ \A n \in Names : CodecOK(Current(n))
  /\ DOMAIN saved \subseteq Names
  /\ \A n \in DOMAIN saved : EntryOK(saved[n])
  /\ held \subseteq Ids

-----------------------------------------------------------------------------
(* The arithmetic.                                                         *)

LEMMA HalfIsNat == Half \in Nat
  BY ConstantsAssumption DEF Half, ConstantsAssumption

LEMMA FreshOffsetBound ==
  ASSUME NEW last \in Nat
  PROVE  /\ FreshOffset(last) \in Nat
         /\ FreshOffset(last) >= last
         /\ FreshOffset(last) >= Half
  BY HalfIsNat DEF FreshOffset

\* The key a computed offset is rebuilt into is the key it was computed from.
LEMMA RebuiltIsKey ==
  ASSUME NEW s \in Schemes, NEW k \in Keys, Computed(s, k)
  PROVE  Rebuilt(s, k.num) = k /\ s.strategy # "registry"
  <1>1. /\ k \in [kind : {"int", "text", "other"}, prefix : STRING,
                  width : Nat, num : Int]
        /\ k.kind = "int" => k = IntKey(k.num)
        /\ k.kind = "text" => k.num >= 0 /\ k.num < 10 ^ k.width
    BY KeysAssumption DEF KeysAssumption
  <1>2. CASE s.strategy = "direct" /\ k.kind = "int"
    BY <1>1, <1>2 DEF Rebuilt
  <1>3. CASE /\ s.strategy = "numeric_suffix" /\ k.kind = "text"
             /\ k.prefix = s.prefix /\ k.width = s.width
    <2>1. Padded(s.width, k.num) = k.width
      BY <1>1, <1>3 DEF Padded
    <2>2. Rebuilt(s, k.num) = TextKey(k.prefix, k.width, k.num)
      BY <1>3, <2>1 DEF Rebuilt
    <2>3. TextKey(k.prefix, k.width, k.num) = k
      BY <1>1, <1>3 DEF TextKey
    <2>4. QED BY <1>3, <2>2, <2>3
  <1>4. QED BY <1>2, <1>3 DEF Computed

-----------------------------------------------------------------------------
(* The operations on one LabelCodec keep it well formed.                   *)

LEMMA FreshOK ==
  ASSUME NEW s \in Schemes
  PROVE  CodecOK(Fresh(s))
  BY DEF CodecOK, Fresh, IsMap, Paired

LEMMA InferOK ==
  ASSUME NEW n \in Names
  PROVE  Infer(n) \in Schemes
  <1>1. Direct \in Schemes /\ Registry \in Schemes
    BY DEF Direct, Registry, Schemes, Strategies
  <1>2. ASSUME Samples[n] # {}
        PROVE  Suffix(CHOOSE k \in Samples[n] : TRUE) \in Schemes
    <2>1. PICK k \in Samples[n] : k = CHOOSE x \in Samples[n] : TRUE
      BY <1>2
    <2>2. k \in Keys
      BY <2>1, KeysAssumption DEF KeysAssumption
    <2>3. k.width \in Nat
      BY <2>2, KeysAssumption DEF KeysAssumption
    <2>4. QED BY <2>1, <2>2, <2>3 DEF Suffix, Schemes, Strategies
  <1>3. QED BY <1>1, <1>2 DEF Infer

\* Remembering a key keeps every pair there was and adds at most one.
LEMMA RememberOK ==
  ASSUME NEW st, CodecOK(st), NEW k \in Keys
  PROVE  /\ CodecOK(Remember(st, k))
         /\ Remember(st, k).scheme = st.scheme
         /\ \A x \in DOMAIN st.toOffset :
              /\ x \in DOMAIN Remember(st, k).toOffset
              /\ Remember(st, k).toOffset[x] = st.toOffset[x]
  <1>1. CASE Computed(st.scheme, k) \/ k \in DOMAIN st.toOffset
    BY <1>1 DEF Remember
  <1>2. CASE ~(Computed(st.scheme, k) \/ k \in DOMAIN st.toOffset)
    <2> DEFINE i == FreshOffset(st.next)
               to == Put(st.toOffset, k, i)
               tk == Put(st.toKey, i, k)
    <2>1. i \in Nat /\ i >= st.next /\ i >= Half
      BY FreshOffsetBound DEF CodecOK
    <2>2. Remember(st, k) = [scheme |-> st.scheme, toOffset |-> to,
                             toKey |-> tk, next |-> i + 1]
      BY <1>2 DEF Remember
    <2>3. /\ DOMAIN to = DOMAIN st.toOffset \cup {k}
          /\ to[k] = i
          /\ \A x \in DOMAIN st.toOffset : to[x] = st.toOffset[x]
      BY <1>2 DEF Put
    <2>4. /\ DOMAIN tk = DOMAIN st.toKey \cup {i}
          /\ tk[i] = k
          /\ \A x \in DOMAIN st.toKey : x # i => tk[x] = st.toKey[x]
      BY DEF Put
    <2>5. IsMap(to, Keys, Nat)
      <3>1. to = [x \in DOMAIN to |-> to[x]]
        BY DEF Put
      <3>2. \A x \in DOMAIN to : x \in Keys /\ to[x] \in Nat
        BY <2>1, <2>3 DEF CodecOK, IsMap
      <3>3. QED BY ONLY <3>1, <3>2 DEF IsMap
    <2>6. IsMap(tk, Nat, Keys)
      <3>1. tk = [x \in DOMAIN tk |-> tk[x]]
        BY DEF Put
      <3>2. \A x \in DOMAIN tk : x \in Nat /\ tk[x] \in Keys
        BY <2>1, <2>4 DEF CodecOK, IsMap
      <3>3. QED BY ONLY <3>1, <3>2 DEF IsMap
    <2>7. Paired(to, tk, i + 1)
      <3>1. ASSUME NEW x \in DOMAIN st.toOffset
            PROVE  /\ Half <= to[x] /\ to[x] < i + 1
                   /\ to[x] \in DOMAIN tk /\ tk[to[x]] = x
        <4>1. /\ Half <= st.toOffset[x] /\ st.toOffset[x] < st.next
              /\ st.toOffset[x] \in DOMAIN st.toKey
              /\ st.toKey[st.toOffset[x]] = x
              /\ st.toOffset[x] \in Nat /\ st.next \in Nat
          BY <3>1 DEF CodecOK, Paired, IsMap
        <4>2. st.toOffset[x] # i
          BY <4>1, <2>1
        <4>3. QED BY <4>1, <4>2, <2>1, <2>3, <2>4
      <3>2. Half <= to[k] /\ to[k] < i + 1 /\ to[k] \in DOMAIN tk /\ tk[to[k]] = k
        BY <2>1, <2>3, <2>4, HalfIsNat
      <3>3. \A x \in DOMAIN tk : Half <= x
        BY <2>1, <2>4, HalfIsNat DEF CodecOK, Paired
      <3>4. QED BY <2>3, <3>1, <3>2, <3>3 DEF Paired
    <2>8. CodecOK(Remember(st, k))
      BY <2>1, <2>2, <2>5, <2>6, <2>7 DEF CodecOK
    <2>9. QED BY <2>2, <2>3, <2>8
  <1>3. QED BY <1>1, <1>2

\* A codec loaded from the file is well formed when it was empty before.
LEMMA LoadedOK ==
  ASSUME NEW n \in Names, NEW s \in Schemes,
         \A x \in DOMAIN saved : EntryOK(saved[x])
  PROVE  CodecOK(Loaded(n, Fresh(s)))
  <1>1. CASE n \notin DOMAIN saved
    BY <1>1, FreshOK DEF Loaded
  <1>2. CASE n \in DOMAIN saved
    <2> DEFINE e == saved[n]
               to == Overlay(e.toOffset, Fresh(s).toOffset)
               tk == Overlay(AntiFunction(e.toOffset), Fresh(s).toKey)
    <2>1. EntryOK(e)
      BY <1>2
    <2>2. Loaded(n, Fresh(s)) = [scheme |-> e.scheme, toOffset |-> to,
                                 toKey |-> tk, next |-> e.next]
      BY <1>2 DEF Loaded
    <2>3. DOMAIN Fresh(s).toOffset = {} /\ DOMAIN Fresh(s).toKey = {}
      BY DEF Fresh
    <2>4. DOMAIN to = DOMAIN e.toOffset /\ \A x \in DOMAIN to : to[x] = e.toOffset[x]
      BY <2>3 DEF Overlay
    <2>5. /\ DOMAIN tk = {e.toOffset[x] : x \in DOMAIN e.toOffset}
          /\ \A i \in DOMAIN tk : tk[i] = AntiFunction(e.toOffset)[i]
      BY <2>3 DEF Overlay, AntiFunction, Inverse, Range
    <2>6. \A x \in DOMAIN to : to[x] \in DOMAIN tk /\ tk[to[x]] = x
      <3> SUFFICES ASSUME NEW x \in DOMAIN e.toOffset
                   PROVE  AntiFunction(e.toOffset)[e.toOffset[x]] = x
        BY <2>4, <2>5
      <3>1. AntiFunction(e.toOffset)[e.toOffset[x]]
              = CHOOSE y \in DOMAIN e.toOffset :
                  e.toOffset[x] \in Range(e.toOffset) => e.toOffset[y] = e.toOffset[x]
        BY DEF AntiFunction, Inverse, Range
      <3>2. e.toOffset[x] \in Range(e.toOffset)
        BY DEF Range
      <3>3. \A y \in DOMAIN e.toOffset : e.toOffset[y] = e.toOffset[x] => y = x
        BY <2>1 DEF EntryOK, IsInjective
      <3>4. QED BY <3>1, <3>2, <3>3
    <2>7. \A i \in DOMAIN tk : \E x \in DOMAIN to : i = to[x]
      BY <2>4, <2>5
    <2>8. IsMap(to, Keys, Nat)
      <3>1. to = [x \in DOMAIN to |-> to[x]]
        BY DEF Overlay
      <3>2. \A x \in DOMAIN to : x \in Keys /\ to[x] \in Nat
        BY <2>1, <2>4 DEF EntryOK, IsMap
      <3>3. QED BY ONLY <3>1, <3>2 DEF IsMap
    <2>9. IsMap(tk, Nat, Keys)
      <3>1. tk = [x \in DOMAIN tk |-> tk[x]]
        BY DEF Overlay
      <3>2. \A i \in DOMAIN tk : i \in Nat /\ tk[i] \in Keys
        BY <2>6, <2>7, <2>8 DEF IsMap
      <3>3. QED BY ONLY <3>1, <3>2 DEF IsMap
    <2>10. Paired(to, tk, e.next)
      BY <2>1, <2>4, <2>6, <2>7 DEF Paired, EntryOK
    <2>11. QED BY <2>1, <2>2, <2>8, <2>9, <2>10 DEF CodecOK, EntryOK
  <1>3. QED BY <1>1, <1>2

\* What a well-formed codec writes to the file can be read back.
LEMMA EntryOfCodec ==
  ASSUME NEW st, CodecOK(st)
  PROVE  EntryOK([scheme |-> st.scheme, toOffset |-> st.toOffset,
                  next |-> st.next])
  BY DEF CodecOK, Paired, EntryOK, IsInjective

LEMMA SetCodecsOK ==
  ASSUME NEW st, \A n \in Names : CodecOK(st[n]), SetCodecs(st)
  PROVE  FunctionsOnNames' /\ \A n \in Names : CodecOK(Current(n)')
  <1>1. FunctionsOnNames'
    BY DEF SetCodecs, FunctionsOnNames
  <1>2. ASSUME NEW n \in Names PROVE CodecOK(Current(n)')
    <2>1. Current(n)' = [scheme |-> st[n].scheme, toOffset |-> st[n].toOffset,
                         toKey |-> st[n].toKey, next |-> st[n].next]
      BY <1>2 DEF SetCodecs, Current
    <2>2. CodecOK(st[n])
      BY <1>2
    <2>3. QED BY <2>1, <2>2 DEF CodecOK
  <1>3. QED BY <1>1, <1>2

-----------------------------------------------------------------------------
(* The ids handed out are ids.                                             *)

LEMMA TableOfMapped ==
  ASSUME order \in Seq(Names), NEW n \in Range(order)
  PROVE  /\ TableOf(n) \in Nat
         /\ TableOf(n) + 1 \in DOMAIN order
         /\ order[TableOf(n) + 1] = n
  <1> DEFINE i == CHOOSE j \in DOMAIN order : order[j] = n
  <1>1. i \in DOMAIN order /\ order[i] = n
    BY DEF Range
  <1>2. i \in Nat /\ i >= 1
    BY <1>1
  <1>3. TableOf(n) = i - 1
    BY DEF TableOf
  <1>4. QED BY <1>1, <1>2, <1>3

LEMMA IssuedAreIds ==
  ASSUME IInv
  PROVE  Issued \subseteq Ids
  <1> SUFFICES ASSUME NEW n \in Names, NEW k \in Keys,
                      k \in RowKeys[n], HasId(n, k)
               PROVE  IdOf(n, k) \in Ids
    BY DEF Issued
  <1>1. TableOf(n) \in Nat
    BY TableOfMapped DEF IInv, HasId
  <1>2. CASE Computed(scheme[n], k)
    <2>1. k.num \in Nat
      BY <1>2, ConstantsAssumption DEF Computed, ConstantsAssumption
    <2>2. QED BY <1>1, <1>2, <2>1 DEF IdOf, Ids
  <1>3. CASE ~Computed(scheme[n], k)
    <2>1. toOffset[n][k] \in Nat
      BY <1>3 DEF IInv, CodecOK, Current, IsMap, HasId
    <2>2. QED BY <1>1, <1>3, <2>1 DEF IdOf, Ids
  <1>4. QED BY <1>2, <1>3

-----------------------------------------------------------------------------
(* The invariant, one step per action.                                     *)

LEMMA InitIInv == Init => IInv
  <1> SUFFICES ASSUME Init PROVE IInv
    OBVIOUS
  <1>1. PICK m \in Mappings :
          /\ order = LabelOrder(m)
          /\ scheme = [n \in Names |-> IF n \in Range(order) THEN Infer(n)
                                       ELSE Registry]
    BY DEF Init
  <1>2. order \in Seq(Names) /\ IsInjective(order)
    BY <1>1, ConstantsAssumption DEF ConstantsAssumption
  <1>3. FunctionsOnNames
    BY <1>1 DEF Init, FunctionsOnNames
  <1>4. ASSUME NEW n \in Names PROVE CodecOK(Current(n))
    <2>1. scheme[n] \in Schemes
      BY <1>1, InferOK DEF Registry, Schemes, Strategies
    <2>2. Current(n) = Fresh(scheme[n])
      BY DEF Init, Current, Fresh
    <2>3. QED BY <2>1, <2>2, FreshOK
  <1>5. DOMAIN saved = {} /\ held = {}
    BY DEF Init, NoFile
  <1>6. QED BY <1>2, <1>3, <1>4, <1>5 DEF IInv

LEMMA StartIInv ==
  ASSUME IInv, NEW m \in Mappings, Start(m)
  PROVE  IInv'
  <1> DEFINE st == [n \in Names |-> IF n \in Range(LabelOrder(m))
                                   THEN Loaded(n, Fresh(Infer(n)))
                                   ELSE Fresh(Registry)]
  <1>1. order' \in Seq(Names) /\ IsInjective(order')
    BY ConstantsAssumption DEF Start, ConstantsAssumption
  <1>2. ASSUME NEW n \in Names PROVE CodecOK(st[n])
    <2>1. CodecOK(Loaded(n, Fresh(Infer(n))))
      BY InferOK, LoadedOK DEF IInv
    <2>2. CodecOK(Fresh(Registry))
      BY FreshOK DEF Registry, Schemes, Strategies
    <2>3. QED BY <2>1, <2>2
  <1>3. SetCodecs(st)
    BY DEF Start
  <1>4. FunctionsOnNames' /\ \A n \in Names : CodecOK(Current(n)')
    BY <1>2, <1>3, SetCodecsOK
  <1>5. held' \subseteq Ids
    BY IssuedAreIds DEF Start, IInv
  <1>6. saved' = saved
    BY DEF Start
  <1>7. QED BY <1>1, <1>4, <1>5, <1>6 DEF IInv, CodecOK, Current

LEMMA EncodeIInv ==
  ASSUME IInv, NEW n \in Names, NEW k \in RowKeys[n], Encode(n, k)
  PROVE  IInv'
  <1> DEFINE st == [x \in Names |-> IF x = n THEN Remember(Current(n), k)
                                   ELSE Current(x)]
  <1>1. k \in Keys
    BY KeysAssumption DEF KeysAssumption
  <1>2. ASSUME NEW x \in Names PROVE CodecOK(st[x])
    <2>1. CodecOK(Current(x)) /\ CodecOK(Current(n))
      BY DEF IInv
    <2>2. CodecOK(Remember(Current(n), k))
      BY <1>1, <2>1, RememberOK
    <2>3. QED BY <2>1, <2>2
  <1>3. SetCodecs(st)
    BY DEF Encode
  <1>4. FunctionsOnNames' /\ \A x \in Names : CodecOK(Current(x)')
    BY <1>2, <1>3, SetCodecsOK
  <1>5. UNCHANGED <<order, saved, held>>
    BY DEF Encode
  <1>6. QED BY <1>4, <1>5 DEF IInv, CodecOK, Current

\* With no state file, registering a name late loads nothing over the others.
LEMMA EncodeLateIInv ==
  ASSUME IInv, ~LateOverFile,
         NEW n \in Names, NEW k \in RowKeys[n], EncodeLate(n, k)
  PROVE  IInv'
  <1> DEFINE st == [x \in Names |->
                     IF x = n THEN Remember(Loaded(n, Fresh(Registry)), k)
                     ELSE IF x \in Range(order) THEN Loaded(x, Current(x))
                     ELSE Current(x)]
  <1>1. k \in Keys
    BY KeysAssumption DEF KeysAssumption
  <1>2. saved = NoFile /\ n \notin Range(order) /\ order' = Append(order, n)
    BY DEF EncodeLate
  <1>3. \A x, s : Loaded(x, s) = s
    BY <1>2 DEF Loaded, NoFile
  <1>4. ASSUME NEW x \in Names PROVE CodecOK(st[x])
    <2>1. CodecOK(Current(x))
      BY DEF IInv
    <2>2. CodecOK(Fresh(Registry))
      BY FreshOK DEF Registry, Schemes, Strategies
    <2>3. CodecOK(Remember(Loaded(n, Fresh(Registry)), k))
      BY <1>1, <1>3, <2>2, RememberOK
    <2>4. CASE x = n
      BY <2>3, <2>4
    <2>5. CASE x # n
      BY <1>3, <2>1, <2>5
    <2>6. QED BY <2>4, <2>5
  <1>5. SetCodecs(st)
    BY DEF EncodeLate
  <1>6. FunctionsOnNames' /\ \A x \in Names : CodecOK(Current(x)')
    BY <1>4, <1>5, SetCodecsOK
  <1>7. order' \in Seq(Names) /\ IsInjective(order')
    <2>1. order \in Seq(Names) /\ IsInjective(order)
      BY DEF IInv
    <2>2. order' \in Seq(Names)
      BY <1>2, <2>1
    <2>3. \A i \in DOMAIN order : order[i] # n
      BY <1>2 DEF Range
    <2>4. /\ DOMAIN order' = DOMAIN order \cup {Len(order) + 1}
          /\ order'[Len(order) + 1] = n
          /\ \A i \in DOMAIN order : order'[i] = order[i]
      BY <1>2, <2>1
    <2>5. QED BY <2>1, <2>2, <2>3, <2>4 DEF IsInjective
  <1>8. UNCHANGED <<saved, held>>
    BY DEF EncodeLate
  <1>9. QED BY <1>6, <1>7, <1>8 DEF IInv, CodecOK, Current

LEMMA SaveIInv ==
  ASSUME IInv, Save
  PROVE  IInv'
  <1>1. \A n \in Range(order) : n \in Names
    BY DEF IInv, Range
  <1>2. DOMAIN saved' = Range(order)
    BY DEF Save
  <1>3. ASSUME NEW n \in Range(order) PROVE EntryOK(saved'[n])
    <2>1. CodecOK(Current(n))
      BY <1>1 DEF IInv
    <2>2. EntryOK([scheme |-> Current(n).scheme, toOffset |-> Current(n).toOffset,
                   next |-> Current(n).next])
      BY <2>1, EntryOfCodec
    <2>3. saved'[n] = [scheme |-> Current(n).scheme,
                       toOffset |-> Current(n).toOffset,
                       next |-> Current(n).next]
      BY DEF Save, Current
    <2>4. QED BY <2>2, <2>3
  <1>4. UNCHANGED <<order, scheme, toOffset, toKey, next, held>>
    BY DEF Save
  <1>5. QED BY <1>1, <1>2, <1>3, <1>4 DEF IInv, FunctionsOnNames, CodecOK, Current

LEMMA NextIInv ==
  ASSUME IInv, ~LateOverFile, [Next]_vars
  PROVE  IInv'
  <1>1. ASSUME NEW m \in Mappings, Start(m) PROVE IInv'
    BY <1>1, StartIInv
  <1>2. ASSUME NEW n \in Names, NEW k \in RowKeys[n], Encode(n, k) PROVE IInv'
    BY <1>2, EncodeIInv
  <1>3. ASSUME NEW n \in Names, NEW k \in RowKeys[n], EncodeLate(n, k) PROVE IInv'
    BY <1>3, EncodeLateIInv
  <1>4. CASE Save
    BY <1>4, SaveIInv
  <1>5. CASE UNCHANGED vars
    BY <1>5 DEF vars, IInv, FunctionsOnNames, CodecOK, Current
  <1>6. QED BY <1>1, <1>2, <1>3, <1>4, <1>5 DEF Next

\* The codecs stay well formed: node_id.py's two dictionaries undo each other.
THEOREM CodecsWellFormed == ASSUME ~LateOverFile PROVE Spec => []IInv
  <1>1. Init => IInv
    BY InitIInv
  <1>2. IInv /\ [Next]_vars => IInv'
    BY NextIInv
  <1>3. QED BY <1>1, <1>2, PTL DEF Spec

-----------------------------------------------------------------------------
(* What follows from it.                                                   *)

LEMMA IInvTypeOK == IInv => TypeOK
  <1> SUFFICES ASSUME IInv PROVE TypeOK
    OBVIOUS
  <1>1. ASSUME NEW n \in Names
        PROVE  /\ scheme[n] \in Schemes /\ next[n] \in Nat
               /\ IsMap(toOffset[n], Keys, Nat) /\ IsMap(toKey[n], Nat, Keys)
    BY DEF IInv, CodecOK, Current
  <1>2. /\ scheme \in [Names -> Schemes]
        /\ next \in [Names -> Nat]
        /\ DOMAIN toOffset = Names /\ DOMAIN toKey = Names
    BY <1>1 DEF IInv, FunctionsOnNames
  <1>3. /\ IsMap(toOffset, Names, {toOffset[n] : n \in Names})
        /\ IsMap(toKey, Names, {toKey[n] : n \in Names})
    <2>1. toOffset = [n \in Names |-> toOffset[n]]
      BY DEF IInv, FunctionsOnNames
    <2>2. toKey = [n \in Names |-> toKey[n]]
      BY DEF IInv, FunctionsOnNames
    <2>3. toOffset \in [Names -> {toOffset[n] : n \in Names}]
      BY ONLY <2>1
    <2>4. toKey \in [Names -> {toKey[n] : n \in Names}]
      BY ONLY <2>2
    <2>5. QED BY <1>2, <2>3, <2>4 DEF IsMap
  <1>4. \A n \in DOMAIN saved : /\ saved[n].scheme \in Schemes
                                /\ IsMap(saved[n].toOffset, Keys, Nat)
                                /\ saved[n].next \in Nat
    BY DEF IInv, EntryOK
  <1>5. QED BY <1>1, <1>2, <1>3, <1>4 DEF IInv, TypeOK

\* NodeIds' type invariant, for every mapping and every set of keys.
THEOREM TypeCorrect == ASSUME ~LateOverFile PROVE Spec => []TypeOK
  BY CodecsWellFormed, IInvTypeOK, PTL

LEMMA IInvDecodes ==
  ASSUME ComputedBelowRegistry, IInv
  PROVE  DecodesToItsRow
  <1> SUFFICES ASSUME NEW n \in Names, NEW k \in RowKeys[n], HasId(n, k)
               PROVE  Decode(TableOf(n), IdOf(n, k).offset)
                        = {[label |-> n, key |-> k]}
    BY DEF DecodesToItsRow
  <1> DEFINE i == IdOf(n, k).offset
  <1>1. k \in Keys
    BY KeysAssumption DEF KeysAssumption
  <1>2. TableOf(n) + 1 \in DOMAIN order /\ order[TableOf(n) + 1] = n
    BY TableOfMapped DEF IInv, HasId
  <1>3. CodecOK(Current(n))
    BY DEF IInv
  <1>4. KeyFor(n, i) = {k}
    <2>1. CASE Computed(scheme[n], k)
      <3>1. i = k.num /\ k.num \in 0..SafeInt
        BY <2>1 DEF IdOf, Computed
      <3>2. k.num < Half
        BY <3>1 DEF ComputedBelowRegistry
      <3>3. i \notin DOMAIN toKey[n]
        BY <1>3, <3>1, <3>2, HalfIsNat, ConstantsAssumption
           DEF CodecOK, Current, Paired, ConstantsAssumption
      <3>4. scheme[n] \in Schemes
        BY <1>3 DEF CodecOK, Current
      <3>5. Rebuilt(scheme[n], k.num) = k /\ scheme[n].strategy # "registry"
        BY <1>1, <2>1, <3>4, RebuiltIsKey
      <3>6. QED BY <3>1, <3>3, <3>5 DEF KeyFor
    <2>2. CASE ~Computed(scheme[n], k)
      <3>1. i = toOffset[n][k] /\ k \in DOMAIN toOffset[n]
        BY <2>2 DEF IdOf, HasId
      <3>2. i \in DOMAIN toKey[n] /\ toKey[n][i] = k
        BY <1>3, <3>1 DEF CodecOK, Current, Paired
      <3>3. QED BY <3>2 DEF KeyFor
    <2>3. QED BY <2>1, <2>2
  <1>5. QED BY <1>2, <1>4 DEF Decode

\* Every id the live codec has given decodes to the row it was given for.
THEOREM IdsDecode ==
  ASSUME ComputedBelowRegistry, ~LateOverFile
  PROVE  Spec => []DecodesToItsRow
  <1>1. IInv => DecodesToItsRow
    BY IInvDecodes
  <1>2. QED BY <1>1, CodecsWellFormed, PTL

-----------------------------------------------------------------------------
(* Ids across queries, restarts and reloads.                               *)

\* What one codec remembers of a name, another goes on remembering.
Keeps(n) ==
  /\ n \in Range(order)'
  /\ TableOf(n)' = TableOf(n)
  /\ scheme'[n] = scheme[n]
  /\ \A k \in DOMAIN toOffset[n] : /\ k \in DOMAIN toOffset'[n]
                                   /\ toOffset'[n][k] = toOffset[n][k]

LEMMA NamesInOrder ==
  ASSUME IInv, NEW n \in Range(order)
  PROVE  n \in Names
  BY DEF IInv, Range

\* What a name's codec is before and after a step that sets all of them.
LEMMA SetCodec ==
  ASSUME NEW st, SetCodecs(st), NEW n \in Names
  PROVE  scheme'[n] = st[n].scheme /\ toOffset'[n] = st[n].toOffset
  BY DEF SetCodecs

LEMMA EncodeKeeps ==
  ASSUME IInv, NEW n \in Names, NEW k \in RowKeys[n], Encode(n, k), NEW x \in Range(order)
  PROVE  Keeps(x)
  <1> DEFINE st == [y \in Names |-> IF y = n THEN Remember(Current(n), k)
                                   ELSE Current(y)]
  <1>1. x \in Names /\ k \in Keys
    BY NamesInOrder, KeysAssumption DEF KeysAssumption
  <1>2. SetCodecs(st) /\ order' = order
    BY DEF Encode
  <1>3. scheme'[x] = st[x].scheme /\ toOffset'[x] = st[x].toOffset
    BY <1>1, <1>2, SetCodec
  <1>4. CodecOK(Current(x))
    BY <1>1 DEF IInv
  <1>5. Current(x).scheme = scheme[x] /\ Current(x).toOffset = toOffset[x]
    BY DEF Current
  <1>6. CASE x = n
    <2>1. st[x] = Remember(Current(x), k)
      BY <1>1, <1>6
    <2> HIDE DEF st
    <2> QED BY <2>1, <1>1, <1>2, <1>3, <1>4, <1>5, RememberOK DEF Keeps, TableOf
  <1>7. CASE x # n
    <2>1. st[x] = Current(x)
      BY <1>1, <1>7
    <2> HIDE DEF st
    <2> QED BY <2>1, <1>2, <1>3, <1>5 DEF Keeps, TableOf
  <1> QED BY <1>6, <1>7

LEMMA EncodeLateKeeps ==
  ASSUME IInv, ~LateOverFile, NEW n \in Names, NEW k \in RowKeys[n], EncodeLate(n, k),
         NEW x \in Range(order)
  PROVE  Keeps(x)
  <1> DEFINE st == [y \in Names |->
                     IF y = n THEN Remember(Loaded(n, Fresh(Registry)), k)
                     ELSE IF y \in Range(order) THEN Loaded(y, Current(y))
                     ELSE Current(y)]
  <1>1. x \in Names /\ x # n /\ n \notin Range(order)
    BY NamesInOrder DEF EncodeLate
  <1>2. SetCodecs(st) /\ order' = Append(order, n) /\ saved = NoFile
    BY DEF EncodeLate
  <1>3. scheme'[x] = st[x].scheme /\ toOffset'[x] = st[x].toOffset
    BY <1>1, <1>2, SetCodec
  <1>4. st[x] = Current(x)
    BY <1>1, <1>2 DEF Loaded, NoFile
  <1>5. scheme'[x] = scheme[x] /\ toOffset'[x] = toOffset[x]
    BY <1>3, <1>4 DEF Current
  <1>6. order \in Seq(Names) /\ IsInjective(order)
    BY DEF IInv
  <1>7. /\ DOMAIN order' = DOMAIN order \cup {Len(order) + 1}
        /\ order'[Len(order) + 1] = n
        /\ \A i \in DOMAIN order : order'[i] = order[i]
    BY <1>2, <1>6
  <1>8. PICK i \in DOMAIN order : order[i] = x
    BY DEF Range
  <1>9. \A j \in DOMAIN order : order[j] = x => j = i
    BY <1>6, <1>8 DEF IsInjective
  <1>10. \A j \in DOMAIN order' : order'[j] = x => j = i
    BY <1>1, <1>7, <1>9
  <1>11. (CHOOSE j \in DOMAIN order : order[j] = x) = i
    BY <1>8, <1>9
  <1>12. (CHOOSE j \in DOMAIN order' : order'[j] = x) = i
    BY <1>7, <1>8, <1>10
  <1>13. TableOf(x)' = TableOf(x)
    BY <1>11, <1>12 DEF TableOf
  <1>14. x \in Range(order)'
    BY <1>7, <1>8 DEF Range
  <1> QED BY <1>5, <1>13, <1>14 DEF Keeps

\* Ids of names that keep what they have stay issued.
LEMMA KeepingIsEnough ==
  ASSUME \A x \in Range(order) : Keeps(x)
  PROVE  Issued \subseteq Issued'
  <1> SUFFICES ASSUME NEW n \in Names, NEW k \in Keys, k \in RowKeys[n], HasId(n, k)
               PROVE  IdOf(n, k) \in Issued'
    BY DEF Issued
  <1>1. Keeps(n)
    BY DEF HasId
  <1>2. HasId(n, k)'
    BY <1>1 DEF Keeps, HasId
  <1>3. IdOf(n, k)' = IdOf(n, k)
    BY <1>1 DEF Keeps, HasId, IdOf
  <1>4. \E r \in Names \X Keys : r = <<n, k>>
    OBVIOUS
  <1>5. IdOf(n, k)' \in Issued'
    <2>1. PICK r \in Names \X Keys : r = <<n, k>>
      BY <1>4
    <2>2. r[1] = n /\ r[2] = k
      BY <2>1
    <2>3. HasId(r[1], r[2])' /\ r[2] \in RowKeys[r[1]]
      BY <1>2, <2>2
    <2>4. IdOf(r[1], r[2])' \in Issued'
      BY <2>3 DEF Issued
    <2> QED BY <2>2, <2>4
  <1> QED BY <1>3, <1>5

(***************************************************************************)
(* A row that has been shown keeps its id as long as its codec serves.     *)
(***************************************************************************)
THEOREM IdsStay == ASSUME ~LateOverFile PROVE Spec => IdNeverChanges
<1>1. ASSUME IInv, Next, \A m \in Mappings : ~Start(m)
      PROVE  Issued \subseteq Issued'
  <2>1. ASSUME NEW n \in Names, NEW k \in RowKeys[n], Encode(n, k)
        PROVE  Issued \subseteq Issued'
    BY <1>1, <2>1, EncodeKeeps, KeepingIsEnough
  <2>2. ASSUME NEW n \in Names, NEW k \in RowKeys[n], EncodeLate(n, k)
        PROVE  Issued \subseteq Issued'
    BY <1>1, <2>2, EncodeLateKeeps, KeepingIsEnough
  <2>3. CASE Save
    <3>1. UNCHANGED <<order, scheme, toOffset>>
      BY <2>3 DEF Save
    <3>2. \A x \in Range(order) : Keeps(x)
      BY <3>1 DEF Keeps, TableOf
    <3> QED BY <3>2, KeepingIsEnough
  <2> QED BY <1>1, <2>1, <2>2, <2>3 DEF Next
<1>2. IInv /\ [Next]_vars => [(\A m \in Mappings : ~Start(m)) => Issued \subseteq Issued']_vars
  BY <1>1
<1> QED BY <1>2, CodecsWellFormed, PTL DEF Spec, IdNeverChanges

(***************************************************************************)
(* What earlier codecs leave behind: a mapped name has the strategy that   *)
(* its key type and samples call for, in the codec and in the file; an id  *)
(* that was computed holds its key's number; and the codec in use has all  *)
(* that the file has.  Names that are registered late are left out.        *)
(***************************************************************************)
SchemesInv ==
  /\ \A n \in Range(order) \ LateLabels : scheme[n] = Infer(n)
  /\ \A n \in DOMAIN saved \ LateLabels : saved[n].scheme = Infer(n)

HeldInv ==
  \A h \in held : h.label \notin LateLabels /\ Computed(Infer(h.label), h.key) =>
    h.offset = h.key.num /\ h.key \in RowKeys[h.label]

FileInv ==
  \A n \in DOMAIN saved \cap Range(order) : \A k \in DOMAIN saved[n].toOffset :
    k \in DOMAIN toOffset[n] /\ toOffset[n][k] = saved[n].toOffset[k]

PastInv == SchemesInv /\ HeldInv /\ FileInv

LEMMA InitPast == Init => PastInv
  <1> SUFFICES ASSUME Init PROVE PastInv
    OBVIOUS
  <1>1. \A n \in Range(order) : n \in Names
    <2>1. order \in Seq(Names)
      BY InitIInv DEF IInv
    <2> QED BY <2>1 DEF Range
  <1> QED BY <1>1 DEF Init, NoFile, PastInv, SchemesInv, HeldInv, FileInv

LEMMA IssuedComputed ==
  ASSUME IInv, SchemesInv, NEW h \in Issued,
         h.label \notin LateLabels, Computed(Infer(h.label), h.key)
  PROVE  h.offset = h.key.num /\ h.key \in RowKeys[h.label]
  <1>1. PICK n \in Names, k \in Keys : k \in RowKeys[n] /\ HasId(n, k) /\ h = IdOf(n, k)
    BY DEF Issued
  <1>2. h.label = n /\ h.key = k /\ n \in Range(order)
    BY <1>1 DEF IdOf, HasId
  <1>3. scheme[n] = Infer(n)
    BY <1>2 DEF SchemesInv
  <1> QED BY <1>1, <1>2, <1>3 DEF IdOf

LEMMA StartPast ==
  ASSUME IInv, PastInv, NEW m \in Mappings, Start(m)
  PROVE  PastInv'
  <1> DEFINE st == [n \in Names |-> IF n \in Range(LabelOrder(m))
                                   THEN Loaded(n, Fresh(Infer(n)))
                                   ELSE Fresh(Registry)]
  <1>1. SetCodecs(st) /\ order' = LabelOrder(m) /\ saved' = saved
    BY DEF Start
  <1>2. ASSUME NEW n \in Range(order)'
        PROVE  /\ n \in Names
               /\ scheme'[n] = Loaded(n, Fresh(Infer(n))).scheme
               /\ toOffset'[n] = Loaded(n, Fresh(Infer(n))).toOffset
    <2>1. n \in Names /\ n \in Range(LabelOrder(m))
      BY <1>1, <1>2, ConstantsAssumption DEF ConstantsAssumption, Range
    <2>2. st[n] = Loaded(n, Fresh(Infer(n)))
      BY <2>1
    <2> HIDE DEF st
    <2> QED BY <2>1, <2>2, <1>1, SetCodec
  <1>3. SchemesInv'
    BY <1>1, <1>2 DEF PastInv, SchemesInv, Loaded, Fresh, Infer
  <1>4. HeldInv'
    BY IssuedComputed DEF Start, PastInv, HeldInv
  <1>5. ASSUME NEW n \in DOMAIN saved \cap Range(order)', NEW k \in DOMAIN saved[n].toOffset
        PROVE  k \in DOMAIN toOffset'[n] /\ toOffset'[n][k] = saved[n].toOffset[k]
    <2>1. toOffset'[n] = Overlay(saved[n].toOffset, Fresh(Infer(n)).toOffset)
      BY <1>2, <1>5 DEF Loaded
    <2> QED BY <2>1, <1>5 DEF Overlay
  <1>6. FileInv'
    BY <1>1, <1>5 DEF FileInv
  <1> QED BY <1>3, <1>4, <1>6 DEF PastInv

LEMMA EncodePast ==
  ASSUME IInv, PastInv, NEW n \in Names, NEW k \in RowKeys[n], Encode(n, k)
  PROVE  PastInv'
  <1>1. UNCHANGED <<order, saved, held>>
    BY DEF Encode
  <1>2. \A x \in Range(order) : Keeps(x)
    BY EncodeKeeps
  <1> QED BY <1>1, <1>2 DEF PastInv, SchemesInv, HeldInv, FileInv, Keeps, Infer

LEMMA EncodeLatePast ==
  ASSUME IInv, PastInv, ~LateOverFile, NEW n \in Names, NEW k \in RowKeys[n], EncodeLate(n, k)
  PROVE  PastInv'
  <1>1. /\ n \in LateLabels /\ saved = NoFile /\ saved' = saved /\ held' = held
        /\ order' = Append(order, n)
    BY DEF EncodeLate
  <1>2. \A x \in Range(order) : Keeps(x)
    BY EncodeLateKeeps
  <1>3. \A x \in Range(order)' : x \in Range(order) \/ x = n
    <2>1. order \in Seq(Names)
      BY DEF IInv
    <2>2. /\ DOMAIN order' = DOMAIN order \cup {Len(order) + 1}
          /\ order'[Len(order) + 1] = n
          /\ \A i \in DOMAIN order : order'[i] = order[i]
      BY <1>1, <2>1
    <2> QED BY <2>2 DEF Range
  <1>4. DOMAIN saved' = {}
    BY <1>1 DEF NoFile
  <1>5. SchemesInv'
    BY <1>1, <1>2, <1>3, <1>4 DEF PastInv, SchemesInv, Keeps
  <1> QED BY <1>1, <1>4, <1>5 DEF PastInv, HeldInv, FileInv

LEMMA SavePast ==
  ASSUME IInv, PastInv, Save
  PROVE  PastInv'
  <1>1. /\ saved' = [n \in Range(order) |-> [scheme |-> scheme[n],
                                           toOffset |-> toOffset[n],
                                           next |-> next[n]]]
        /\ UNCHANGED <<order, scheme, toOffset, toKey, next, held>>
    BY DEF Save
  <1> QED BY <1>1 DEF PastInv, SchemesInv, HeldInv, FileInv

LEMMA PastIsKept ==
  ASSUME ~LateOverFile
  PROVE  Spec => [](IInv /\ PastInv)
  <1>1. Init => IInv /\ PastInv
    BY InitIInv, InitPast
  <1>2. ASSUME IInv, PastInv, [Next]_vars PROVE IInv' /\ PastInv'
    <2>1. IInv'
      BY <1>2, NextIInv
    <2>2. ASSUME NEW m \in Mappings, Start(m) PROVE PastInv'
      BY <1>2, <2>2, StartPast
    <2>3. ASSUME NEW n \in Names, NEW k \in RowKeys[n], Encode(n, k) PROVE PastInv'
      BY <1>2, <2>3, EncodePast
    <2>4. ASSUME NEW n \in Names, NEW k \in RowKeys[n], EncodeLate(n, k) PROVE PastInv'
      BY <1>2, <2>4, EncodeLatePast
    <2>5. CASE Save
      BY <1>2, <2>1, <2>5, SavePast
    <2>6. CASE UNCHANGED vars
      BY <1>2, <2>1, <2>6 DEF vars, PastInv, SchemesInv, HeldInv, FileInv
    <2> QED BY <1>2, <2>1, <2>2, <2>3, <2>4, <2>5, <2>6 DEF Next
  <1> QED BY <1>1, <1>2, PTL DEF Spec

LEMMA PastSaves ==
  ASSUME IInv, PastInv
  PROVE  SavedIdsSurvive
  <1> SUFFICES ASSUME NEW h \in held, InPlace(h), InFile(h)
               PROVE  Decode(h.table, h.offset) = {[label |-> h.label, key |-> h.key]}
    BY DEF SavedIdsSurvive
  <1>1. h.label \in Range(order) /\ h.label \in Names
    BY DEF InPlace, Range, IInv
  <1>2. h.key \in DOMAIN toOffset[h.label] /\ toOffset[h.label][h.key] = h.offset
    BY <1>1 DEF InFile, PastInv, FileInv
  <1>3. CodecOK(Current(h.label))
    BY <1>1 DEF IInv
  <1>4. h.offset \in DOMAIN toKey[h.label] /\ toKey[h.label][h.offset] = h.key
    BY <1>2, <1>3 DEF CodecOK, Current, Paired
  <1> QED BY <1>4 DEF InPlace, Decode, KeyFor

LEMMA PastComputes ==
  ASSUME ComputedBelowRegistry, IInv, PastInv
  PROVE  ComputedIdsSurvive
  <1> SUFFICES ASSUME NEW h \in held, InPlace(h), h.label \notin LateLabels,
                      Computed(Infer(h.label), h.key)
               PROVE  Decode(h.table, h.offset) = {[label |-> h.label, key |-> h.key]}
    BY DEF ComputedIdsSurvive
  <1>1. h.label \in Range(order) /\ h.label \in Names
    BY DEF InPlace, Range, IInv
  <1>2. h.offset = h.key.num /\ h.key \in RowKeys[h.label]
    BY DEF PastInv, HeldInv
  <1>3. h.key \in Keys
    BY <1>1, <1>2, KeysAssumption DEF KeysAssumption
  <1>4. h.key.num \in 0..SafeInt
    BY DEF Computed
  <1>5. h.key.num < Half
    BY <1>1, <1>2, <1>4 DEF ComputedBelowRegistry
  <1>6. h.offset \notin DOMAIN toKey[h.label]
    <2>1. CodecOK(Current(h.label))
      BY <1>1 DEF IInv
    <2> QED BY <2>1, <1>2, <1>4, <1>5, HalfIsNat, ConstantsAssumption
            DEF CodecOK, Current, Paired, ConstantsAssumption
  <1>7. scheme[h.label] = Infer(h.label)
    BY <1>1 DEF PastInv, SchemesInv
  <1>8. Rebuilt(Infer(h.label), h.key.num) = h.key /\ Infer(h.label).strategy # "registry"
    BY <1>1, <1>3, InferOK, RebuiltIsKey
  <1> QED BY <1>2, <1>6, <1>7, <1>8 DEF InPlace, Decode, KeyFor

(***************************************************************************)
(* An id that the state file remembers stands for its row after any number *)
(* of restarts, with other mapping files in between.                       *)
(***************************************************************************)
THEOREM SavedIdsLast == ASSUME ~LateOverFile PROVE Spec => []SavedIdsSurvive
<1>1. IInv /\ PastInv => SavedIdsSurvive
  BY PastSaves
<1> QED BY <1>1, PastIsKept, PTL

(***************************************************************************)
(* An id that is computed from its key does so without a state file.       *)
(***************************************************************************)
THEOREM ComputedIdsLast ==
  ASSUME ComputedBelowRegistry, ~LateOverFile
  PROVE  Spec => []ComputedIdsSurvive
<1>1. IInv /\ PastInv => ComputedIdsSurvive
  BY PastComputes
<1> QED BY <1>1, PastIsKept, PTL
=============================================================================

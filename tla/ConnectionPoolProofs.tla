------------------------ MODULE ConnectionPoolProofs ------------------------
(***************************************************************************)
(* What holds of ConnectionPool for any number of threads and slots.  The  *)
(* inductive invariant is the type invariant with the sum of the slots:    *)
(* the sum bounds `made` and `drained` from both sides, and it bounds the  *)
(* number of threads that run by PoolSize.                                 *)
(***************************************************************************)
EXTENDS ConnectionPool, FiniteSetTheorems, SequenceTheorems, TLAPS

\* Who runs a statement, or discards its connection, has one.
Holding == \A t \in Threads : pc[t] \in {"running", "discarding"} => conn[t] # NoConn

IInv ==
  /\ TypeOK
  /\ SlotsAddUp
  /\ Holding
  /\ closer = "no" => drained = 0

-----------------------------------------------------------------------------
(* How a thread's step changes the number of counted threads.              *)

LEMMA CountedFinite ==
  /\ IsFiniteSet(Counted)
  /\ Cardinality(Counted) \in Nat
  <1>1. Counted \subseteq Threads
    BY DEF Counted
  <1>2. IsFiniteSet(Counted)
    BY <1>1, PoolAssumption, FS_Subset DEF PoolAssumption
  <1>3. QED BY <1>2, FS_CardinalityType

LEMMA EnterCounted ==
  ASSUME TypeOK, NEW t \in Threads, NEW place \in {"connecting", "running"},
         pc[t] \notin {"connecting", "running"}, Go(t, place)
  PROVE  Cardinality(Counted') = Cardinality(Counted) + 1
  <1>1. Counted' = Counted \cup {t} /\ t \notin Counted
    BY DEF TypeOK, Go, Counted
  <1>2. QED BY <1>1, CountedFinite, FS_AddElement

LEMMA LeaveCounted ==
  ASSUME TypeOK, NEW t \in Threads, NEW place \in {"out", "discarding"},
         pc[t] \in {"connecting", "running"}, Go(t, place)
  PROVE  /\ Cardinality(Counted') = Cardinality(Counted) - 1
         /\ Cardinality(Counted) > 0
  <1>1. Counted' = Counted \ {t} /\ t \in Counted
    BY DEF TypeOK, Go, Counted
  <1>2. Cardinality(Counted') = Cardinality(Counted) - 1
    BY <1>1, CountedFinite, FS_RemoveElement
  <1>3. Cardinality(Counted) # 0
    BY <1>1, CountedFinite, FS_EmptySet
  <1>4. QED BY <1>2, <1>3, CountedFinite

LEMMA StayCounted ==
  ASSUME TypeOK, NEW t \in Threads, NEW place \in Places,
         pc[t] \in {"connecting", "running"} <=> place \in {"connecting", "running"},
         Go(t, place)
  PROVE  Counted' = Counted
  BY DEF TypeOK, Go, Counted

-----------------------------------------------------------------------------
LEMMA InitIInv == Init => IInv
  <1> SUFFICES ASSUME Init PROVE IInv
    OBVIOUS
  <1>1. TypeOK
    BY PoolAssumption DEF Init, TypeOK, Places, PoolAssumption, Range
  <1>2. SlotsAddUp
    <2>1. Counted = {}
      BY DEF Init, Counted
    <2>2. Cardinality(Counted) = 0
      BY <2>1, FS_EmptySet
    <2>3. QED BY <2>2 DEF Init, SlotsAddUp
  <1>3. QED BY <1>1, <1>2 DEF Init, IInv, Holding

\* Taking an idle connection, from CallIdle or WaitServed.
LEMMA TakeIdleStep ==
  ASSUME IInv, NEW t \in Threads, pc[t] \in {"out", "waiting"}, TakeIdle(t)
  PROVE  IInv'
  <1> USE DEF TakeIdle
  <1>1. /\ Head(pool) \in Connections /\ Tail(pool) \in Seq(Connections)
        /\ Len(Tail(pool)) = Len(pool) - 1
    BY HeadTailProperties DEF IInv, TypeOK
  <1>2. TypeOK'
    BY <1>1 DEF IInv, TypeOK, Go, Places
  <1>3. Cardinality(Counted') = Cardinality(Counted) + 1
    BY EnterCounted DEF IInv
  <1>4. Len(pool) \in Nat
    BY LenProperties DEF IInv, TypeOK
  <1>5. SlotsAddUp'
    BY <1>1, <1>3, <1>4, CountedFinite DEF IInv, TypeOK, SlotsAddUp
  <1>6. Head(pool) # NoConn
    BY <1>1, PoolAssumption DEF PoolAssumption
  <1>7. Holding'
    BY <1>6 DEF IInv, TypeOK, Holding, Go
  <1>8. QED BY <1>2, <1>5, <1>7 DEF IInv

LEMMA AcquireStep ==
  ASSUME IInv, NEW t \in Threads, Acquire(t)
  PROVE  IInv'
  <1> USE PoolAssumption DEF IInv, TypeOK, Places, PoolAssumption, Holding
  <1>0. Len(pool) \in Nat /\ Cardinality(Counted) \in Nat
    BY LenProperties, CountedFinite
  <1>1. CASE CallEmpty(t)
    BY <1>1, StayCounted DEF CallEmpty, SlotsAddUp, Go
  <1>2. CASE Reserve(t)
    <2>1. Cardinality(Counted') = Cardinality(Counted) + 1
      BY <1>2, EnterCounted DEF Reserve
    <2>2. TypeOK'
      BY <1>2 DEF Reserve, Go
    <2>3. SlotsAddUp'
      BY <1>0, <1>2, <2>1 DEF Reserve, SlotsAddUp
    <2>4. QED BY <1>2, <2>2, <2>3 DEF Reserve, Go
  <1>3. CASE MustWait(t)
    BY <1>3, StayCounted DEF MustWait, SlotsAddUp, Go
  <1>4. CASE Connect(t)
    <2>1. Unopened \in Connections
      BY <1>4 DEF Connect, Unopened
    <2>2. Counted' = Counted
      BY <1>4, StayCounted DEF Connect
    <2>3. TypeOK'
      BY <1>4, <2>1 DEF Connect, Go
    <2>4. QED BY <1>4, <2>1, <2>2, <2>3 DEF Connect, SlotsAddUp, Go
  <1>5. CASE ConnectFails(t)
    <2>1. /\ Cardinality(Counted') = Cardinality(Counted) - 1
          /\ Cardinality(Counted) > 0
      BY <1>5, LeaveCounted DEF ConnectFails
    <2>2. made' \in 0..PoolSize
      BY <1>0, <1>5, <2>1 DEF ConnectFails, SlotsAddUp
    <2>3. TypeOK'
      BY <1>5, <2>2 DEF ConnectFails, Go
    <2>4. SlotsAddUp'
      BY <1>0, <1>5, <2>1 DEF ConnectFails, SlotsAddUp
    <2>5. QED BY <1>5, <2>3, <2>4 DEF ConnectFails, Go
  <1>6. CASE WaitServed(t)
    BY <1>6, TakeIdleStep DEF WaitServed
  <1>7. CASE WaitTimesOut(t)
    BY <1>7, StayCounted DEF WaitTimesOut, SlotsAddUp, Go
  <1>8. QED BY <1>1, <1>2, <1>3, <1>4, <1>5, <1>6, <1>7 DEF Acquire

LEMMA GiveBackStep ==
  ASSUME IInv, NEW t \in Threads, GiveBack(t)
  PROVE  IInv'
  <1> USE PoolAssumption DEF IInv, TypeOK, Places, PoolAssumption, Holding
  <1>0. Len(pool) \in Nat /\ Cardinality(Counted) \in Nat
    BY LenProperties, CountedFinite
  <1>1. CASE Release(t)
    <2>1. /\ Append(pool, conn[t]) \in Seq(Connections)
          /\ Len(Append(pool, conn[t])) = Len(pool) + 1
      BY <1>1, AppendProperties DEF Release
    <2>2. Cardinality(Counted') = Cardinality(Counted) - 1
      BY <1>1, LeaveCounted DEF Release
    <2>3. TypeOK'
      BY <1>1, <2>1 DEF Release, Go
    <2>4. SlotsAddUp'
      BY <1>0, <1>1, <2>1, <2>2 DEF Release, SlotsAddUp
    <2>5. QED BY <1>1, <2>3, <2>4 DEF Release, Go
  <1>2. CASE ReleaseBroken(t)
    <2>1. /\ Cardinality(Counted') = Cardinality(Counted) - 1
          /\ Cardinality(Counted) > 0
      BY <1>2, LeaveCounted DEF ReleaseBroken
    <2>2. made' \in 0..PoolSize
      BY <1>0, <1>2, <2>1 DEF ReleaseBroken, SlotsAddUp
    <2>3. TypeOK'
      BY <1>2, <2>2 DEF ReleaseBroken, Go
    <2>4. SlotsAddUp'
      BY <1>0, <1>2, <2>1 DEF ReleaseBroken, SlotsAddUp
    <2>5. QED BY <1>2, <2>3, <2>4 DEF ReleaseBroken, Go
  <1>3. CASE CloseBroken(t)
    BY <1>3, StayCounted DEF CloseBroken, SlotsAddUp, Go
  <1>4. QED BY <1>1, <1>2, <1>3 DEF GiveBack

LEMMA CloseStep ==
  ASSUME IInv, StartClose \/ CloseIdle \/ EndClose
  PROVE  IInv'
  <1> USE PoolAssumption DEF IInv, TypeOK, PoolAssumption, Holding
  <1>1. CASE StartClose
    BY <1>1 DEF StartClose, SlotsAddUp, Counted
  <1>2. CASE CloseIdle
    <2>1. /\ Tail(pool) \in Seq(Connections)
          /\ Len(Tail(pool)) = Len(pool) - 1
          /\ Len(pool) \in Nat
      BY <1>2, HeadTailProperties, LenProperties DEF CloseIdle
    <2>2. Counted' = Counted
      BY <1>2 DEF CloseIdle, Counted
    <2>3. drained' \in 0..PoolSize
      BY <1>2, <2>1, CountedFinite, HeadTailProperties DEF CloseIdle, SlotsAddUp
    <2>4. SlotsAddUp'
      BY <1>2, <2>1, <2>2, CountedFinite DEF CloseIdle, SlotsAddUp
    <2>5. QED BY <1>2, <2>1, <2>3, <2>4 DEF CloseIdle
  <1>3. CASE EndClose
    BY <1>3 DEF EndClose, SlotsAddUp, Counted
  <1>4. QED BY <1>1, <1>2, <1>3

LEMMA NextIInv == IInv /\ [Next]_vars => IInv'
  <1> SUFFICES ASSUME IInv, [Next]_vars PROVE IInv'
    OBVIOUS
  <1>1. CASE \E t \in Threads : CallIdle(t)
    BY <1>1, TakeIdleStep DEF CallIdle
  <1>2. CASE \E t \in Threads : Acquire(t)
    BY <1>2, AcquireStep
  <1>3. CASE \E t \in Threads : GiveBack(t)
    BY <1>3, GiveBackStep
  <1>4. CASE StartClose \/ CloseIdle \/ EndClose
    BY <1>4, CloseStep
  <1>5. CASE UNCHANGED vars
    BY <1>5 DEF vars, IInv, TypeOK, SlotsAddUp, Holding, Counted
  <1>6. QED BY <1>1, <1>2, <1>3, <1>4, <1>5 DEF Next

LEMMA Invariance == Spec => []IInv
  BY InitIInv, NextIInv, PTL DEF Spec

\* ConnectionPool's type invariant.
THEOREM TypeCorrect == Spec => []TypeOK
  <1>1. IInv => TypeOK
    BY DEF IInv
  <1>2. QED BY <1>1, Invariance, PTL

\* No history of failures, broken statements and waits loses or gains a slot.
THEOREM NoSlotLost == Spec => []SlotsAddUp
  <1>1. IInv => SlotsAddUp
    BY DEF IInv
  <1>2. QED BY <1>1, Invariance, PTL

\* A pool that nobody uses can always serve the next call.
THEOREM PoolNeverWedged == Spec => []NeverWedged
  <1>1. ASSUME IInv PROVE NeverWedged
    <2> SUFFICES ASSUME closer = "no", \A t \in Threads : pc[t] = "out",
                        pool = <<>>
                 PROVE  made < PoolSize
      BY DEF NeverWedged
    <2>1. Counted = {}
      BY DEF Counted
    <2>2. Cardinality(Counted) = 0 /\ Len(pool) = 0
      BY <2>1, FS_EmptySet
    <2>3. made = 0
      BY <1>1, <2>2 DEF IInv, SlotsAddUp
    <2>4. QED BY <2>3, PoolAssumption DEF PoolAssumption
  <1>2. QED BY <1>1, Invariance, PTL

-----------------------------------------------------------------------------
(* The pool implements BoundedPool.                                        *)

Running == {t \in Threads : pc[t] = "running"}

LEMMA UsingIsRunning == Promise!Cardinality(Promise!Using) = Cardinality(Running)
  <1>1. Promise!Using = Running
    BY DEF Promise!Using, Running, Seen
  <1>2. Promise!Cardinality(Running) = Cardinality(Running)
    BY DEF Promise!Cardinality, Cardinality
  <1>3. QED BY <1>1, <1>2

\* A thread that comes to run found an idle connection, or was counted as
\* connecting: either way fewer than PoolSize ran.
LEMMA RoomToRun ==
  ASSUME IInv, NEW t \in Threads, pool # <<>> \/ pc[t] = "connecting"
  PROVE  Cardinality(Running) < PoolSize
  <1> USE PoolAssumption DEF IInv, TypeOK, PoolAssumption
  <1>1. Running \subseteq Counted
    BY DEF Running, Counted
  <1>2. /\ Cardinality(Running) \in Nat
        /\ Cardinality(Running) <= Cardinality(Counted)
        /\ Cardinality(Running) = Cardinality(Counted) => Running = Counted
    BY <1>1, CountedFinite, FS_Subset, FS_CardinalityType
  <1>3. Cardinality(Counted) + Len(pool) <= made
    BY CountedFinite, LenProperties DEF SlotsAddUp
  <1>4. CASE pool # <<>>
    BY <1>2, <1>3, <1>4, CountedFinite, EmptySeq
  <1>5. CASE pc[t] = "connecting"
    <2>1. t \in Counted \ Running
      BY <1>5 DEF Counted, Running
    <2>2. QED BY <1>2, <1>3, <2>1, CountedFinite, LenProperties
  <1>6. QED BY <1>4, <1>5

LEMMA StepKeepsPromise ==
  IInv /\ [Next]_vars => [Promise!Next]_[t \in Threads |-> Seen(pc[t])]
  <1> DEFINE state == [t \in Threads |-> Seen(pc[t])]
             Moves(t, place) == state' = [state EXCEPT ![t] = place]
  <1> SUFFICES ASSUME IInv, [Next]_vars, state' # state
               PROVE  Promise!Next
    OBVIOUS
  <1>1. ASSUME NEW t \in Threads, NEW place \in Places, Go(t, place)
        PROVE  Moves(t, Seen(place))
    BY <1>1 DEF IInv, TypeOK, Go
  <1>2. ASSUME NEW t \in Threads, TakeIdle(t), pc[t] \in {"out", "waiting"}
        PROVE  Promise!Grant(t)
    <2>1. Moves(t, "using")
      BY <1>1, <1>2 DEF TakeIdle, Places, Seen
    <2>2. Promise!Cardinality(Promise!Using) < PoolSize
      BY <1>2, RoomToRun, UsingIsRunning DEF TakeIdle
    <2>3. state[t] \in {"out", "asking"}
      BY <1>2 DEF Seen
    <2>4. QED BY <2>1, <2>2, <2>3 DEF Promise!Grant
  <1>3. ASSUME NEW t \in Threads, CallEmpty(t)
        PROVE  Promise!Ask(t)
    BY <1>1, <1>3 DEF CallEmpty, Promise!Ask, Seen, Places
  <1>4. ASSUME NEW t \in Threads, Connect(t)
        PROVE  Promise!Grant(t)
    <2>1. Moves(t, "using")
      BY <1>1, <1>4 DEF Connect, Places, Seen
    <2>2. Promise!Cardinality(Promise!Using) < PoolSize
      BY <1>4, RoomToRun, UsingIsRunning DEF Connect
    <2>3. state[t] \in {"out", "asking"}
      BY <1>4 DEF Seen, Connect
    <2>4. QED BY <2>1, <2>2, <2>3 DEF Promise!Grant
  <1>5. ASSUME NEW t \in Threads, ConnectFails(t) \/ WaitTimesOut(t)
        PROVE  Promise!Deny(t)
    BY <1>1, <1>5 DEF ConnectFails, WaitTimesOut, Promise!Deny, Seen, Places
  <1>6. ASSUME NEW t \in Threads, Release(t) \/ ReleaseBroken(t)
        PROVE  Promise!Return(t)
    BY <1>1, <1>6 DEF Release, ReleaseBroken, Promise!Return, Seen, Places
  <1>7. ASSUME NEW t \in Threads, Reserve(t) \/ MustWait(t) \/ CloseBroken(t)
        PROVE  FALSE
    BY <1>7 DEF IInv, TypeOK, Reserve, MustWait, CloseBroken, Go, Seen, Places
  <1>8. CASE StartClose \/ CloseIdle \/ EndClose \/ UNCHANGED vars
    BY <1>8 DEF StartClose, CloseIdle, EndClose, vars
  <1>9. QED
    BY <1>2, <1>3, <1>4, <1>5, <1>6, <1>7, <1>8
    DEF Next, CallIdle, Acquire, WaitServed, GiveBack, Promise!Next

\* At most PoolSize statements run at a time: the pool is a BoundedPool.
THEOREM PoolKeepsPromise == Spec => KeepsPromise
  <1>1. Init => Promise!Init
    BY DEF Init, Promise!Init, Seen
  <1>2. QED BY <1>1, StepKeepsPromise, Invariance, PTL
            DEF Spec, KeepsPromise, Promise!Spec

-----------------------------------------------------------------------------
(* A connection is in one place only.                                      *)

InHand == {conn[t] : t \in Threads} \ {NoConn}

Apart == \A t, u \in Threads : t # u /\ conn[t] # NoConn => conn[t] # conn[u]
Has(t) == conn[t] # NoConn <=> pc[t] \in {"running", "discarding"}

LEMMA TailRange ==
  ASSUME NEW s \in Seq(Connections), s # <<>>, IsInjective(s)
  PROVE  /\ IsInjective(Tail(s))
         /\ Range(s) = Range(Tail(s)) \cup {Head(s)}
         /\ Head(s) \notin Range(Tail(s))
  <1>1. /\ Tail(s) \in Seq(Connections)
        /\ Len(Tail(s)) = Len(s) - 1
        /\ \A i \in 1..Len(Tail(s)) : Tail(s)[i] = s[i + 1]
    BY HeadTailProperties
  <1>2. Len(s) \in Nat /\ Len(s) > 0 /\ DOMAIN s = 1..Len(s) /\ Head(s) = s[1]
    BY LenProperties, EmptySeq
  <1>3. DOMAIN Tail(s) = 1..(Len(s) - 1)
    BY <1>1, LenProperties
  <1>4. IsInjective(Tail(s))
    BY <1>1, <1>2, <1>3 DEF IsInjective
  <1>5. Range(s) = Range(Tail(s)) \cup {Head(s)}
    <2>1. ASSUME NEW i \in DOMAIN s PROVE s[i] \in Range(Tail(s)) \cup {Head(s)}
      <3>1. CASE i = 1
        BY <1>2, <3>1
      <3>2. CASE i # 1
        <4>1. i - 1 \in DOMAIN Tail(s) /\ Tail(s)[i - 1] = s[i]
          BY <1>1, <1>2, <1>3, <2>1, <3>2
        <4>2. QED BY <4>1 DEF Range
      <3>3. QED BY <3>1, <3>2
    <2>2. Range(Tail(s)) \cup {Head(s)} \subseteq Range(s)
      BY <1>1, <1>2, <1>3 DEF Range
    <2>3. QED BY <2>1, <2>2 DEF Range
  <1>6. Head(s) \notin Range(Tail(s))
    BY <1>1, <1>2, <1>3 DEF Range, IsInjective
  <1>7. QED BY <1>4, <1>5, <1>6

LEMMA AppendRange ==
  ASSUME NEW s \in Seq(Connections), NEW c \in Connections, IsInjective(s),
         c \notin Range(s)
  PROVE  /\ IsInjective(Append(s, c))
         /\ Range(Append(s, c)) = Range(s) \cup {c}
  <1>1. /\ Append(s, c) \in Seq(Connections)
        /\ Len(Append(s, c)) = Len(s) + 1
        /\ \A i \in 1..Len(s) : Append(s, c)[i] = s[i]
        /\ Append(s, c)[Len(s) + 1] = c
    BY AppendProperties
  <1>2. /\ Len(s) \in Nat /\ DOMAIN s = 1..Len(s)
        /\ DOMAIN Append(s, c) = 1..(Len(s) + 1)
    BY <1>1, LenProperties
  <1>3. QED BY <1>1, <1>2 DEF Range, IsInjective

\* A thread that had none gets a connection that nobody has.
LEMMA HandTakes ==
  ASSUME TypeOK, Apart, NEW t \in Threads, NEW c \in Connections,
         conn[t] = NoConn, conn' = [conn EXCEPT ![t] = c], c \notin InHand
  PROVE  /\ InHand' = InHand \cup {c}
         /\ Apart'
  BY PoolAssumption DEF TypeOK, Apart, InHand, PoolAssumption

\* A thread gives up the connection it has.
LEMMA HandGives ==
  ASSUME TypeOK, Apart, NEW t \in Threads,
         conn[t] # NoConn, conn' = [conn EXCEPT ![t] = NoConn]
  PROVE  /\ InHand' = InHand \ {conn[t]}
         /\ Apart'
  BY DEF TypeOK, Apart, InHand

\* OnePlace, with the connections in hand as one set.
Placed ==
  /\ IsInjective(pool)
  /\ \A t \in Threads : Has(t)
  /\ Apart
  /\ InHand \cap Range(pool) = {}
  /\ open = Range(pool) \cup InHand

LEMMA PlacedIsOnePlace == TypeOK => (OnePlace <=> Placed)
  <1> SUFFICES ASSUME TypeOK PROVE OnePlace <=> Placed
    OBVIOUS
  <1>1. NoConn \notin Range(pool)
    BY PoolAssumption, LenProperties DEF TypeOK, Range, PoolAssumption
  <1>2. QED BY <1>1 DEF OnePlace, InHand, Placed, Apart, Has

LEMMA OnePlaceStep ==
  ASSUME TypeOK, TypeOK', Placed, [Next]_vars
  PROVE  Placed'
  <1>0. /\ IsInjective(pool)
        /\ \A t \in Threads : Has(t)
        /\ Apart
        /\ InHand \cap Range(pool) = {}
        /\ open = Range(pool) \cup InHand
    BY DEF Placed
  <1>2. ASSUME NEW t \in Threads, TakeIdle(t), pc[t] \in {"out", "waiting"}
        PROVE  Placed'
    <2>1. /\ IsInjective(pool')
          /\ Range(pool) = Range(pool') \cup {Head(pool)}
          /\ Head(pool) \notin Range(pool')
          /\ Head(pool) \in Connections
      BY <1>0, <1>2, TailRange, HeadTailProperties DEF TakeIdle, TypeOK
    <2>2. conn[t] = NoConn /\ Head(pool) \notin InHand
      BY <1>0, <1>2, <2>1 DEF Has
    <2>3. InHand' = InHand \cup {Head(pool)} /\ Apart'
      BY <1>0, <1>2, <2>1, <2>2, HandTakes DEF TakeIdle
    <2>4. \A u \in Threads : Has(u)'
      BY <1>0, <1>2, <2>1, PoolAssumption DEF TakeIdle, Go, TypeOK, Has, PoolAssumption
    <2>5. open' = open
      BY <1>2 DEF TakeIdle
    <2>6. QED BY <1>0, <2>1, <2>3, <2>4, <2>5 DEF Placed
  <1>3. ASSUME NEW t \in Threads, Connect(t)
        PROVE  Placed'
    <2>1. Unopened \in Connections \ open
      BY <1>3 DEF Connect, Unopened
    <2>2. conn[t] = NoConn /\ Unopened \notin InHand
      BY <1>0, <1>3, <2>1 DEF Connect, Has
    <2>3. InHand' = InHand \cup {Unopened} /\ Apart'
      BY <1>0, <1>3, <2>1, <2>2, HandTakes DEF Connect
    <2>4. \A u \in Threads : Has(u)'
      BY <1>0, <1>3, <2>1, PoolAssumption DEF Connect, Go, TypeOK, Has, PoolAssumption
    <2>5. pool' = pool /\ open' = open \cup {Unopened}
      BY <1>3 DEF Connect
    <2>6. QED BY <1>0, <2>1, <2>3, <2>4, <2>5 DEF Placed
  <1>4. ASSUME NEW t \in Threads, Release(t) \/ CloseBroken(t)
        PROVE  Placed'
    <2>1. conn[t] \in Connections /\ conn[t] # NoConn
      BY <1>0, <1>4 DEF Release, CloseBroken, TypeOK, Has
    <2>2. conn[t] \in InHand /\ conn[t] \notin Range(pool)
      BY <1>0, <2>1 DEF InHand
    <2>3. InHand' = InHand \ {conn[t]} /\ Apart'
      BY <1>0, <1>4, <2>1, HandGives DEF Release, CloseBroken
    <2>4. \A u \in Threads : Has(u)'
      BY <1>0, <1>4, <2>1 DEF Release, CloseBroken, Go, TypeOK, Has
    <2>5. CASE Release(t)
      <3>1. IsInjective(pool') /\ Range(pool') = Range(pool) \cup {conn[t]}
        BY <1>0, <2>1, <2>2, <2>5, AppendRange DEF Release, TypeOK
      <3>2. QED BY <1>0, <2>2, <2>3, <2>4, <2>5, <3>1 DEF Release, Placed
    <2>6. CASE CloseBroken(t)
      BY <1>0, <2>2, <2>3, <2>4, <2>6 DEF CloseBroken, Placed
    <2>7. QED BY <1>4, <2>5, <2>6
  <1>5. ASSUME NEW t \in Threads,
               \/ CallEmpty(t) \/ Reserve(t) \/ MustWait(t) \/ ConnectFails(t)
               \/ WaitTimesOut(t) \/ ReleaseBroken(t)
        PROVE  Placed'
    <2>1. UNCHANGED <<pool, conn, open>>
      BY <1>5 DEF CallEmpty, Reserve, MustWait, ConnectFails, WaitTimesOut,
                  ReleaseBroken
    <2>2. \A u \in Threads : Has(u)'
      BY <1>0, <1>5 DEF CallEmpty, Reserve, MustWait, ConnectFails, WaitTimesOut,
                        ReleaseBroken, Go, TypeOK, Has
    <2>3. QED BY <1>0, <2>1, <2>2 DEF InHand, Apart, Has, Placed
  <1>6. CASE CloseIdle
    <2>1. /\ IsInjective(pool')
          /\ Range(pool) = Range(pool') \cup {Head(pool)}
          /\ Head(pool) \notin Range(pool')
      BY <1>0, <1>6, TailRange DEF CloseIdle, TypeOK
    <2>2. UNCHANGED <<conn, pc>> /\ open' = open \ {Head(pool)}
      BY <1>6 DEF CloseIdle
    <2>3. QED BY <1>0, <2>1, <2>2 DEF InHand, Apart, Has, Placed
  <1>7. CASE StartClose \/ EndClose \/ UNCHANGED vars
    BY <1>0, <1>7 DEF StartClose, EndClose, vars, InHand, Apart, Has, Placed
  <1>8. QED
    BY <1>2, <1>3, <1>4, <1>5, <1>6, <1>7
    DEF Next, CallIdle, Acquire, WaitServed, GiveBack

\* No connection is leaked, and none is used by two threads.
THEOREM ConnectionsInOnePlace == Spec => []OnePlace
  <1>1. Init => OnePlace
    BY PoolAssumption DEF Init, OnePlace, IsInjective, Range, PoolAssumption
  <1>2. TypeOK /\ TypeOK' /\ Placed /\ [Next]_vars => Placed'
    BY OnePlaceStep
  <1>3. QED BY <1>1, <1>2, PlacedIsOnePlace, TypeCorrect, PTL DEF Spec
=============================================================================

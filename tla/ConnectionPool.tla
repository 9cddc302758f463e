--------------------------- MODULE ConnectionPool ---------------------------
(***************************************************************************)
(* ibase_bridge/connection.py: SqlServerConnection, a pool of pyodbc       *)
(* connections shared by threads.  A call of `run` takes a connection      *)
(* (_acquire), uses it, and gives it back (_release), or throws it away    *)
(* when the statement raised.  `_made` counts the slots taken; it is       *)
(* changed under a lock, apart from the queue of idle connections.         *)
(*                                                                         *)
(* Each action is a piece of the code that no other thread can interrupt:  *)
(* an operation on the queue, a `with self._lock` block, or a call to the  *)
(* driver.  The database decides whether connecting and the statement      *)
(* succeed.  `run` refuses anything but SELECT and WITH before it touches  *)
(* the pool, so every call here is one that passed that guard.             *)
(***************************************************************************)
EXTENDS Naturals, Sequences, FiniteSets, Functions

CONSTANTS
  Threads,      \* threads that call run
  PoolSize,     \* pool_size
  Connections,  \* names for the driver's connections, enough of them
  NoConn        \* no connection

ASSUME PoolAssumption ==
  /\ IsFiniteSet(Threads)
  /\ PoolSize \in Nat \ {0}
  /\ Connections # {}
  /\ NoConn \notin Connections

VARIABLES
  pool,     \* _pool, the queue of idle connections
  made,     \* _made
  pc,       \* where each thread is
  conn,     \* the connection a thread has, if any
  open,     \* connections the driver has open
  drained,  \* how many connections close() took out of the pool
  closer    \* where close() is: "no", "draining" or "done"

vars == <<pool, made, pc, conn, open, drained, closer>>

\* Which name a new connection gets does not matter.
Unopened == CHOOSE c \in Connections \ open : TRUE

\* Threads whose slot is counted in made.
Counted == {t \in Threads : pc[t] \in {"connecting", "running"}}

Go(t, place) == pc' = [pc EXCEPT ![t] = place]

-----------------------------------------------------------------------------
\* The constructor opens one connection and puts it into the pool.
Init ==
  /\ pool = <<CHOOSE c \in Connections : TRUE>>
  /\ open = Range(pool)
  /\ made = 1
  /\ pc = [t \in Threads |-> "out"]
  /\ conn = [t \in Threads |-> NoConn]
  /\ drained = 0
  /\ closer = "no"

TakeIdle(t) ==
  /\ pool # <<>>
  /\ conn' = [conn EXCEPT ![t] = Head(pool)]
  /\ pool' = Tail(pool)
  /\ Go(t, "running")
  /\ UNCHANGED <<made, open, drained, closer>>

\* _acquire: get_nowait finds an idle connection ...
CallIdle(t) == pc[t] = "out" /\ TakeIdle(t)

\* ... or finds the queue empty.
CallEmpty(t) ==
  /\ pc[t] = "out"
  /\ pool = <<>>
  /\ Go(t, "counting")
  /\ UNCHANGED <<pool, made, conn, open, drained, closer>>

\* Faulty: _made is not compared with pool_size.
ReserveAlways(t) ==
  /\ pc[t] = "counting"
  /\ made' = made + 1
  /\ Go(t, "connecting")
  /\ UNCHANGED <<pool, conn, open, drained, closer>>

\* Under the lock: a free slot is taken, or the thread will have to wait.
Reserve(t) ==
  /\ pc[t] = "counting"
  /\ made < PoolSize
  /\ made' = made + 1
  /\ Go(t, "connecting")
  /\ UNCHANGED <<pool, conn, open, drained, closer>>

MustWait(t) ==
  /\ pc[t] = "counting"
  /\ made >= PoolSize
  /\ Go(t, "waiting")
  /\ UNCHANGED <<pool, made, conn, open, drained, closer>>

Connect(t) ==
  /\ pc[t] = "connecting"
  /\ Connections \ open # {}
  /\ conn' = [conn EXCEPT ![t] = Unopened]
  /\ open' = open \cup {Unopened}
  /\ Go(t, "running")
  /\ UNCHANGED <<pool, made, drained, closer>>

\* Faulty: a failed connection burns its slot.
ConnectFailsBurns(t) ==
  /\ pc[t] = "connecting"
  /\ Go(t, "out")
  /\ UNCHANGED <<pool, made, conn, open, drained, closer>>

\* The slot is given back and the exception goes to the caller.
ConnectFails(t) ==
  /\ pc[t] = "connecting"
  /\ made' = made - 1
  /\ Go(t, "out")
  /\ UNCHANGED <<pool, conn, open, drained, closer>>

\* The blocking get returns a connection, or gives up after 30 seconds with
\* the queue still empty.
WaitServed(t) == pc[t] = "waiting" /\ TakeIdle(t)

WaitForEver(t) == FALSE /\ UNCHANGED vars  \* Faulty: no timeout.
WaitTimesOut(t) ==
  /\ pc[t] = "waiting"
  /\ pool = <<>>
  /\ Go(t, "out")
  /\ UNCHANGED <<pool, made, conn, open, drained, closer>>

\* The statement came back: the connection is put into the queue.
Release(t) ==
  /\ pc[t] = "running"
  /\ pool' = Append(pool, conn[t])
  /\ conn' = [conn EXCEPT ![t] = NoConn]
  /\ Go(t, "out")
  /\ UNCHANGED <<made, open, drained, closer>>

\* Faulty: the slot of a broken connection is not given back.
ReleaseBrokenKeeps(t) ==
  /\ pc[t] = "running"
  /\ Go(t, "discarding")
  /\ UNCHANGED <<pool, made, conn, open, drained, closer>>

\* Faulty: no return, so that a broken connection goes into the queue too.
ReleaseBrokenPuts(t) ==
  /\ pc[t] = "running"
  /\ made' = made - 1
  /\ pool' = Append(pool, conn[t])
  /\ Go(t, "discarding")
  /\ UNCHANGED <<conn, open, drained, closer>>

\* The statement raised: first the slot is given back, then, outside the
\* lock, the connection is closed.
ReleaseBroken(t) ==
  /\ pc[t] = "running"
  /\ made' = made - 1
  /\ Go(t, "discarding")
  /\ UNCHANGED <<pool, conn, open, drained, closer>>

CloseBroken(t) ==
  /\ pc[t] = "discarding"
  /\ open' = open \ {conn[t]}
  /\ conn' = [conn EXCEPT ![t] = NoConn]
  /\ Go(t, "out")
  /\ UNCHANGED <<pool, made, drained, closer>>

\* close(), called once, when another database has been connected to.
StartClose ==
  /\ closer = "no"
  /\ closer' = "draining"
  /\ UNCHANGED <<pool, made, pc, conn, open, drained>>

CloseIdle ==
  /\ closer = "draining"
  /\ pool # <<>>
  /\ open' = open \ {Head(pool)}
  /\ pool' = Tail(pool)
  /\ drained' = drained + 1
  /\ UNCHANGED <<made, pc, conn, closer>>

EndClose ==
  /\ closer = "draining"
  /\ pool = <<>>
  /\ closer' = "done"
  /\ UNCHANGED <<pool, made, pc, conn, open, drained>>

Acquire(t) == \/ CallEmpty(t) \/ Reserve(t) \/ MustWait(t)
              \/ Connect(t) \/ ConnectFails(t)
              \/ WaitServed(t) \/ WaitTimesOut(t)

GiveBack(t) == Release(t) \/ ReleaseBroken(t) \/ CloseBroken(t)

Next == \/ \E t \in Threads : CallIdle(t) \/ Acquire(t) \/ GiveBack(t)
        \/ StartClose \/ CloseIdle \/ EndClose

\* The code bounds every wait of a call that has begun: 30 seconds in the
\* queue, the login timeout when connecting, the query timeout when running.
\* Nothing obliges a thread to call, or anyone to close.
Progress(t) == /\ pc[t] # "out"
               /\ Acquire(t) \/ GiveBack(t)
Fairness == \A t \in Threads : WF_vars(Progress(t))

Spec == Init /\ [][Next]_vars /\ Fairness

-----------------------------------------------------------------------------
(* Properties.                                                             *)

Places == {"out", "counting", "connecting", "waiting", "running", "discarding"}

TypeOK ==
  /\ pool \in Seq(Connections)
  /\ made \in 0..PoolSize
  /\ pc \in [Threads -> Places]
  /\ conn \in [Threads -> Connections \cup {NoConn}]
  /\ open \subseteq Connections
  /\ drained \in 0..PoolSize
  /\ closer \in {"no", "draining", "done"}

(***************************************************************************)
(* Every slot that is counted belongs to an idle connection, to a thread   *)
(* that is connecting or running, or to a connection that close() took.    *)
(* No failure, in whatever order it falls between other threads' steps,    *)
(* loses a slot or frees one twice (the leak of docs/design-notes.md).     *)
(***************************************************************************)
SlotsAddUp == made = Len(pool) + Cardinality(Counted) + drained

(***************************************************************************)
(* A connection is in one place only: no two threads run statements on it, *)
(* none that is in use or discarded lies in the queue, and every open      *)
(* connection is somewhere, so none is leaked.                             *)
(***************************************************************************)
OnePlace ==
  /\ IsInjective(pool)
  /\ \A t \in Threads : conn[t] # NoConn <=> pc[t] \in {"running", "discarding"}
  /\ \A t, u \in Threads : t # u /\ conn[t] # NoConn => conn[t] # conn[u]
  /\ \A t \in Threads : conn[t] \notin Range(pool)
  /\ open = Range(pool) \cup ({conn[t] : t \in Threads} \ {NoConn})

(***************************************************************************)
(* After any history of failed connections, broken statements and waits, a *)
(* pool that nobody is using and nobody closed can serve the next call: it *)
(* has an idle connection or a free slot.                                  *)
(***************************************************************************)
NeverWedged ==
  closer = "no" /\ (\A t \in Threads : pc[t] = "out")
    => pool # <<>> \/ made < PoolSize

(***************************************************************************)
(* Whoever calls run gets an answer, rows or an exception: no caller is    *)
(* blocked for ever, closed pool or not (connection.py:123).               *)
(***************************************************************************)
EveryCallReturns == \A t \in Threads : pc[t] # "out" ~> pc[t] = "out"

(***************************************************************************)
(* The pool as its callers see it is a BoundedPool: at most PoolSize       *)
(* statements run at a time.                                               *)
(***************************************************************************)
Seen(place) == CASE place \in {"out", "discarding"} -> "out"
                 [] place = "running" -> "using"
                 [] OTHER -> "asking"

Promise == INSTANCE BoundedPool WITH state <- [t \in Threads |-> Seen(pc[t])]
KeepsPromise == Promise!Spec
=============================================================================

------------------------------ MODULE ConnPool ------------------------------
(***************************************************************************)
(* The hub's connection pool (class Pool of db.py) under the threads of    *)
(* the HTTP server and the ticker: checkout, validation, check-in, and     *)
(* discard.  _size is changed under _lock, which _checkout also holds      *)
(* while it connects; _idle is a queue with its own lock.                  *)
(*                                                                         *)
(* _idle is a set here: no property depends on its LIFO order.             *)
(***************************************************************************)
EXTENDS Integers, FiniteSets

CONSTANTS
  Thread,
  Conn,       \* connection objects; one that was closed may be made again
  MaxSize,    \* max_size
  NoConn        \* no connection, no thread

ASSUME PoolAssumption ==
  /\ MaxSize \in Nat \ {0}
  /\ NoConn \notin Thread \cup Conn
  /\ IsFiniteSet(Thread) /\ IsFiniteSet(Conn)

VARIABLES
  size,      \* _size
  idle,      \* _idle
  broken,    \* connections the server has dropped
  lock,      \* who holds _lock
  pc,        \* where each thread is
  held,      \* the connection a thread has in hand
  leaked     \* history: connects that raised

poolVars == <<size, idle, broken, lock, pc, held, leaked>>

PoolTypeOK ==
  /\ size \in 0..MaxSize
  /\ idle \subseteq Conn
  /\ broken \subseteq Conn
  /\ lock \in Thread \cup {NoConn}
  /\ pc \in [Thread -> {"out", "checkout", "grow", "connect", "wait", "validate",
                        "use", "retry", "drop"}]
  /\ held \in [Thread -> Conn \cup {NoConn}]
  /\ leaked \in 0..MaxSize

PoolInit ==
  /\ size = 0
  /\ idle = {}
  /\ broken = {}
  /\ lock = NoConn
  /\ pc = [t \in Thread |-> "out"]
  /\ held = [t \in Thread |-> NoConn]
  /\ leaked = 0

Goes(t, s) == pc' = [pc EXCEPT ![t] = s]

\* Connections that exist: in the queue or in somebody's hand.
Open == idle \cup {held[t] : t \in {u \in Thread : held[u] # NoConn}}

\* A request, or the ticker, enters ctx.conn().
Enter(t) ==
  /\ pc[t] = "out"
  /\ Goes(t, "checkout")
  /\ UNCHANGED <<size, idle, broken, lock, held, leaked>>

Take(t) ==
  /\ \E c \in idle :
       /\ idle' = idle \ {c}
       /\ held' = [held EXCEPT ![t] = c]
  /\ Goes(t, "validate")
  /\ UNCHANGED <<size, broken, lock, leaked>>

\* get_nowait
TakeIdle(t) == pc[t] = "checkout" /\ Take(t)

FindEmpty(t) ==
  /\ pc[t] = "checkout"
  /\ idle = {}
  /\ Goes(t, "grow")
  /\ UNCHANGED <<size, idle, broken, lock, held, leaked>>

Grow(t) ==
  /\ pc[t] = "grow"
  /\ lock = NoConn
  /\ size < MaxSize
  /\ size' = size + 1
  /\ lock' = t
  /\ Goes(t, "connect")
  /\ UNCHANGED <<idle, broken, held, leaked>>

Full(t) ==
  /\ pc[t] = "grow"
  /\ lock = NoConn
  /\ size >= MaxSize
  /\ Goes(t, "wait")
  /\ UNCHANGED <<size, idle, broken, lock, held, leaked>>

Connect(t) ==
  /\ pc[t] = "connect"
  /\ \E c \in Conn \ Open :
       /\ held' = [held EXCEPT ![t] = c]
       /\ broken' = broken \ {c}
  /\ lock' = NoConn
  /\ Goes(t, "use")
  /\ UNCHANGED <<size, idle, leaked>>

\* The exception leaves _checkout with _size counted up.
ConnectFails(t) ==
  /\ pc[t] = "connect"
  /\ lock' = NoConn
  /\ leaked' = leaked + 1
  /\ Goes(t, "out")
  /\ UNCHANGED <<size, idle, broken, held>>

\* get, blocking
WaitOver(t) == pc[t] = "wait" /\ Take(t)

Valid(t) ==
  /\ pc[t] = "validate"
  /\ held[t] \notin broken
  /\ Goes(t, "use")
  /\ UNCHANGED <<size, idle, broken, lock, held, leaked>>

\* _drop: the connection is closed, then _size goes down under the lock.
Closes(t, then) ==
  /\ held' = [held EXCEPT ![t] = NoConn]
  /\ Goes(t, then)
  /\ UNCHANGED <<size, idle, broken, lock, leaked>>

Invalid(t) ==
  /\ pc[t] = "validate"
  /\ held[t] \in broken
  /\ Closes(t, "retry")

\* Mutant of CheckIn: the caller still has the connection.
CheckInKept(t) ==
  /\ pc[t] = "use"
  /\ idle' = idle \cup {held[t]}
  /\ Goes(t, "out")
  /\ UNCHANGED <<size, broken, lock, held, leaked>>

\* The body of the with statement ends, and the connection is not closed.
CheckIn(t) ==
  /\ pc[t] = "use"
  /\ idle' = idle \cup {held[t]}
  /\ held' = [held EXCEPT ![t] = NoConn]
  /\ Goes(t, "out")
  /\ UNCHANGED <<size, broken, lock, leaked>>

\* The body raises (any 404 or 409 does), or the connection is found closed.
Discard(t) == pc[t] = "use" /\ Closes(t, "drop")

\* Mutant of Counted: a discarded connection stays counted.
Uncounted == size

Counted == size - 1

CountDown(t) ==
  /\ pc[t] \in {"retry", "drop"}
  /\ lock = NoConn
  /\ size' = Counted
  /\ Goes(t, IF pc[t] = "retry" THEN "checkout" ELSE "out")
  /\ UNCHANGED <<idle, broken, lock, held, leaked>>

\* The server closes a connection.
Break(c) ==
  /\ c \in Open
  /\ broken' = broken \cup {c}
  /\ UNCHANGED <<size, idle, lock, pc, held, leaked>>

PoolNext ==
  \/ \E t \in Thread :
       \/ Enter(t) \/ TakeIdle(t) \/ FindEmpty(t) \/ Grow(t) \/ Full(t)
       \/ Connect(t) \/ ConnectFails(t) \/ WaitOver(t) \/ Valid(t) \/ Invalid(t)
       \/ CheckIn(t) \/ Discard(t) \/ CountDown(t)
  \/ \E c \in Conn : Break(c)

PoolSpec == PoolInit /\ [][PoolNext]_poolVars

-----------------------------------------------------------------------------
(* Properties *)

\* A connection is never in two hands, nor in a hand and in the queue: no two
\* requests share a transaction.
Exclusive ==
  /\ \A t, u \in Thread : held[t] = held[u] /\ held[t] # NoConn => t = u
  /\ \A t \in Thread : held[t] \notin idle

\* The hub never has more than max_size connections open, also while one is
\* being made and others are being dropped.
Bounded == Cardinality(Open) <= MaxSize

Owing == {t \in Thread : pc[t] \in {"connect", "retry", "drop"}}

\* _size counts the connections that are open, about to be, or not yet
\* counted down; what it counts above that was lost to connects that raised,
\* one each and for good.
Accounted == size = Cardinality(Open) + Cardinality(Owing) + leaked

\* "At capacity: block for a returned connection": whoever blocks on an empty
\* queue has a thread to wait for.
WaitersHaveAHolder ==
  (\E t \in Thread : pc[t] = "wait") /\ idle = {} =>
    \E u \in Thread : pc[u] \notin {"out", "wait"}
=============================================================================

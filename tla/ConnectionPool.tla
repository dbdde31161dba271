--------------------------- MODULE ConnectionPool ---------------------------
(***************************************************************************)
(* The MySQL connection pool (db/MySQLDB_1.cpp, MySQLConnectionPool and    *)
(* the RAII handle MySQLDatabase) and the device threads of main.cpp that  *)
(* borrow one connection for every round.  Each step is what runs under    *)
(* the pool's mutex without letting go of it: wait_for gives it up while   *)
(* the thread waits, and a thread that was notified still has to get it    *)
(* back, so another one may take the connection first.                     *)
(***************************************************************************)
EXTENDS Naturals, Sequences, FiniteSets

CONSTANTS
  Threads,   \* the device threads
  Conns,     \* the connections the constructor opens (maxSize of them)
  NoConn     \* held by a thread that has none

ASSUME PoolAssumption ==
  /\ IsFiniteSet(Threads) /\ IsFiniteSet(Conns)
  /\ NoConn \notin Conns

VARIABLES
  pc,         \* where each thread is
  held,       \* conn of the thread's MySQLDatabase
  available,  \* availableConnections, a FIFO queue
  dead,       \* the connections the server has dropped; nothing reopens them
  rest        \* history: loans of other connections since each one was returned

vars == <<pc, held, available, dead, rest>>

\* "new"      not started yet            "idle"   between two rounds
\* "waiting"  asleep in wait_for         "woken"  notified, without the mutex
\* "using"    in a round, with a connection
PC == {"new", "idle", "waiting", "woken", "using"}

At(where) == {t \in Threads : pc[t] = where}
Started == Threads \ At("new")

TypeOK ==
  /\ pc \in [Threads -> PC]
  /\ held \in [Threads -> Conns \cup {NoConn}]
  /\ \A t \in Threads : held[t] # NoConn <=> pc[t] = "using"
  /\ available \in Seq(Conns) /\ Len(available) <= Cardinality(Conns)
  /\ dead \subseteq Conns
  /\ rest \in [Conns -> 0 .. Cardinality(Conns)]

\* A constructor that cannot open every connection throws, and the process ends.
Init ==
  /\ pc = [t \in Threads |-> "new"]
  /\ held = [t \in Threads |-> NoConn]
  /\ available \in {q \in [1 .. Cardinality(Conns) -> Conns] :
                      \A c \in Conns : \E i \in DOMAIN q : q[i] = c}
  /\ dead = {}
  /\ rest = [c \in Conns |-> Cardinality(Conns)]

\* main starts the device threads one after the other.
Start(t) ==
  /\ pc[t] = "new"
  /\ pc' = [pc EXCEPT ![t] = "idle"]
  /\ UNCHANGED <<held, available, dead, rest>>

Take(t) ==
  /\ available # <<>>
  /\ pc' = [pc EXCEPT ![t] = "using"]
  /\ held' = [held EXCEPT ![t] = Head(available)]
  /\ available' = Tail(available)
  /\ rest' = [c \in Conns |-> IF rest[c] < Cardinality(Conns) THEN rest[c] + 1
                                                             ELSE rest[c]]
  /\ UNCHANGED dead

\* getConnection, up to the first test of the predicate.
GetConnection(t) ==
  /\ pc[t] = "idle"
  /\ \/ Take(t)
     \/ /\ available = <<>>
        /\ pc' = [pc EXCEPT ![t] = "waiting"]
        /\ UNCHANGED <<held, available, dead, rest>>

\* A thread in wait_for has the mutex again, notified, spuriously or because
\* its 30 s are over, and tests the predicate.
Recheck(t) ==
  /\ pc[t] \in {"waiting", "woken"}
  /\ \/ Take(t)
     \/ /\ available = <<>>
        /\ pc' = [pc EXCEPT ![t] = "waiting"]
        /\ UNCHANGED <<held, available, dead, rest>>

\* The 30 s are over and there is still nothing: getConnection throws and the
\* round is skipped.
TimedOut(t) ==
  /\ pc[t] \in {"waiting", "woken"}
  /\ available = <<>>
  /\ pc' = [pc EXCEPT ![t] = "idle"]
  /\ UNCHANGED <<held, available, dead, rest>>

\* The queue after connection c is pushed.
PushedAlive(c)  == IF c \in dead THEN available ELSE Append(available, c)
PushedFirst(c)  == <<c>> \o available
Pushed(c) == Append(available, c)

\* notify_one with the threads at p: one of the sleepers, if there is any.
NotifiedNone(p) == {p}
Notified(p) ==
  LET sleepers == {w \in Threads : p[w] = "waiting"}
  IN IF sleepers = {} THEN {p} ELSE {[p EXCEPT ![w] = "woken"] : w \in sleepers}

\* The round ends, in whatever way (a dead connection makes it throw), and the
\* destructor of MySQLDatabase calls releaseConnection.
ReleaseConnection(t) ==
  /\ pc[t] = "using"
  /\ available' = Pushed(held[t])
  /\ pc' \in Notified([pc EXCEPT ![t] = "idle"])
  /\ held' = [held EXCEPT ![t] = NoConn]
  /\ rest' = [rest EXCEPT ![held[t]] = 0]
  /\ UNCHANGED dead

\* The server drops a connection (wait_timeout, a restart of MySQL).
ConnectionDies(c) ==
  /\ c \notin dead
  /\ dead' = dead \cup {c}
  /\ UNCHANGED <<pc, held, available, rest>>

Next ==
  \/ \E t \in Threads : \/ Start(t) \/ GetConnection(t) \/ Recheck(t)
                        \/ TimedOut(t) \/ ReleaseConnection(t)
  \/ \E c \in Conns : ConnectionDies(c)

Spec == Init /\ [][Next]_vars

------------------------------------------------------------------------------

Queued(c) == \E i \in DOMAIN available : available[i] = c

\* Every connection is in the queue once or held by one thread, and nowhere
\* else: no round, timeout or exception loses one or lends it to two threads
\* (two threads on one MYSQL* would mix their queries and results).
Partition ==
  /\ \A i, j \in DOMAIN available : available[i] = available[j] => i = j
  /\ \A t \in Threads : held[t] # NoConn => ~Queued(held[t])
  /\ \A t, u \in Threads : held[t] = held[u] /\ held[t] # NoConn => t = u
  /\ \A c \in Conns : Queued(c) \/ \E t \in Threads : held[t] = c

\* No wake-up is lost: while a thread sleeps, every free connection has a
\* notified thread that is on its way to it, although others may overtake it.
NoLostWakeup ==
  At("waiting") # {} => Len(available) <= Cardinality(At("woken"))

\* With no more threads than connections (main: 7 threads, 15 connections)
\* nobody ever waits, and so no round is ever skipped by the 30 s timeout,
\* however many connections have died.
NobodyWaits ==
  Cardinality(Started) <= Cardinality(Conns)
    => At("waiting") = {} /\ At("woken") = {}

\* A connection that was returned is lent again only after as many others as
\* there are to spare: the queue is FIFO, so that a dead connection, which makes
\* every round on it fail, spoils no more than its share of the rounds and does
\* not stick to one thread.
RotatesConnections ==
  [][\A c \in Conns : Queued(c) /\ ~Queued(c)'
       => rest[c] + Cardinality(Started) >= Cardinality(Conns)]_vars
==============================================================================

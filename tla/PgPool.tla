------------------------------- MODULE PgPool -------------------------------
(***************************************************************************)
(* The connection pool that all tables of a process share (OneTruePool of  *)
(* src/forest/pghelp.py), and the queries that go through it               *)
(* (PGInterface.execute): the first query makes the pool; a query on a     *)
(* table that is not there makes the table, over a second connection.      *)
(* Every await is a step.  Left out: the statements, canned answers, the   *)
(* wrappers that run a loop of their own.                                  *)
(***************************************************************************)
EXTENDS Naturals, FiniteSets

CONSTANTS
  Interfaces,  \* PGInterfaces: the tables
  Queries,     \* tasks that query
  On,          \* the interface of each
  PoolSize     \* connections in the pool

PgAssumption ==
  /\ IsFiniteSet(Queries) /\ IsFiniteSet(Interfaces) /\ On \in [Queries -> Interfaces]
  /\ PoolSize \in Nat /\ PoolSize > Cardinality(Interfaces)

VARIABLES
  pool,        \* "none", "ready" or "closed"
  connecting,  \* the future of OneTruePool: "none", "pending" or "done"
  tables,      \* the interfaces whose table is there
  creating,    \* the interfaces with _autocreating_table set
  at           \* where each task is

pgVars == <<pool, connecting, tables, creating, at>>

Waits == {"connect", "waiting", "acquire", "query", "second", "create", "again"}
\* connections a task holds at each point
Held(stage) == CASE stage \in {"query", "second", "again"} -> 1
                 [] stage = "create" -> 2
                 [] OTHER -> 0
InUse == Cardinality({q \in Queries : Held(at[q]) >= 1}) + Cardinality({q \in Queries : Held(at[q]) = 2})
Free == InUse < PoolSize

TypeOK ==
  /\ pool \in {"none", "ready", "closed"} /\ connecting \in {"none", "pending", "done"}
  /\ tables \subseteq Interfaces /\ creating \subseteq Interfaces
  /\ at \in [Queries -> Waits \cup {"idle", "raised"}]
  /\ InUse <= PoolSize

Init ==
  /\ pool = "none" /\ connecting = "none"
  /\ tables \in SUBSET Interfaces /\ creating = {}
  /\ at = [q \in Queries |-> "idle"]

------------------------------------------------------------------------------
Move(q, stage) == at' = [at EXCEPT ![q] = stage]

\* execute, and OneTruePool.connect up to its first await
Execute(q) ==
  /\ at[q] \in {"idle", "raised"}
  /\ IF pool # "none" THEN Move(q, "acquire") /\ UNCHANGED connecting
     ELSE IF connecting = "none" THEN Move(q, "connect") /\ connecting' = "pending"
     ELSE Move(q, "waiting") /\ UNCHANGED connecting
  /\ UNCHANGED <<pool, tables, creating>>

\* asyncpg.create_pool answers, or raises; nothing resolves the future then
CreatePool(q) ==
  /\ at[q] = "connect"
  /\ \/ pool' = "ready" /\ connecting' = "done" /\ Move(q, "acquire")
     \/ Move(q, "raised") /\ UNCHANGED <<pool, connecting>>
  /\ UNCHANGED <<tables, creating>>

Connected(q) ==
  /\ at[q] = "waiting" /\ connecting = "done"
  /\ Move(q, "acquire")
  /\ UNCHANGED <<pool, connecting, tables, creating>>

\* bug: connections beyond the size of the pool
AcquireAny(q) ==
  /\ at[q] = "acquire"
  /\ \/ pool = "ready" /\ Move(q, "query")
     \/ pool = "closed" /\ Move(q, "raised")
  /\ UNCHANGED <<pool, connecting, tables, creating>>

\* pool.acquire: a connection when one is free, an error when the pool is closed
Acquire(q) ==
  /\ at[q] = "acquire"
  /\ \/ pool = "ready" /\ Free /\ Move(q, "query")
     \/ pool = "closed" /\ Move(q, "raised")
  /\ UNCHANGED <<pool, connecting, tables, creating>>

\* bug: everybody who misses the table creates it
QueryCreates(q) ==
  /\ at[q] = "query"
  /\ IF On[q] \in tables
     THEN (Move(q, "idle") \/ Move(q, "raised")) /\ UNCHANGED creating
     ELSE Move(q, "second") /\ creating' = creating \cup {On[q]}
  /\ UNCHANGED <<pool, connecting, tables>>

\* _execute; with the table missing, the first one creates it and the others raise
Query(q) ==
  /\ at[q] = "query"
  /\ IF On[q] \in tables
     THEN (Move(q, "idle") \/ Move(q, "raised")) /\ UNCHANGED creating
     ELSE IF On[q] \in creating THEN Move(q, "raised") /\ UNCHANGED creating
     ELSE Move(q, "second") /\ creating' = creating \cup {On[q]}
  /\ UNCHANGED <<pool, connecting, tables>>

\* create_table is a query of its own, with a connection of its own
Second(q) ==
  /\ at[q] = "second"
  /\ \/ pool = "ready" /\ Free /\ Move(q, "create")
     \/ pool = "closed" /\ Move(q, "raised")
  /\ UNCHANGED <<pool, connecting, tables, creating>>

\* the mark is taken back only if the table was created
CreateTable(q) ==
  /\ at[q] = "create"
  /\ \/ /\ tables' = tables \cup {On[q]} /\ creating' = creating \ {On[q]}
        /\ Move(q, "again")
     \/ Move(q, "raised") /\ UNCHANGED <<tables, creating>>
  /\ UNCHANGED <<pool, connecting>>

Again(q) ==
  /\ at[q] = "again"
  /\ Move(q, "idle") \/ Move(q, "raised")
  /\ UNCHANGED <<pool, connecting, tables, creating>>

\* OneTruePool.close: those that hold a connection finish first
Close ==
  /\ pool = "ready" /\ pool' = "closed"
  /\ UNCHANGED <<connecting, tables, creating, at>>

Steps(q) == \/ CreatePool(q) \/ Connected(q) \/ Query(q)
            \/ CreateTable(q) \/ Again(q)
Next == Close \/ \E q \in Queries : Execute(q) \/ Steps(q) \/ Acquire(q) \/ Second(q)

\* The server answers, and the pool serves those that wait for it in turn.
Fairness == \A q \in Queries : WF_pgVars(Steps(q)) /\ SF_pgVars(Acquire(q)) /\ SF_pgVars(Second(q))
Spec == Init /\ [][Next]_pgVars /\ Fairness

------------------------------------------------------------------------------
\* The pool was not made, and nobody is making it: when create_pool raises,
\* connect leaves its future unresolved.
DeadPool == connecting = "pending" /\ \A q \in Queries : at[q] # "connect"

\* While every connection is lent, some task holds one and waits for no other:
\* the creators of tables, who do wait, are at most one per table.
PoolMoves == Free \/ \E q \in Queries : at[q] \in {"query", "create", "again"}

\* With the pool made, every query ends, although the creator of a table holds
\* one connection while it waits for another.
QueriesEnd ==
  \A q \in Queries : at[q] \in Waits ~> at[q] \notin Waits \/ DeadPool
==============================================================================

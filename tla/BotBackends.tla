----------------------------- MODULE BotBackends -----------------------------
(***************************************************************************)
(* The services a bot depends on: payments through the wallet, queries     *)
(* through the Postgres pool (src/forest/pghelp.py), the backup of the     *)
(* keystate (src/forest/datastore.py).  They share no state.               *)
(***************************************************************************)
EXTENDS Payments

CONSTANTS
  Interfaces, Queries, On, PoolSize,  \* of PgPool
  MaxVersion                          \* of KeystateBackup

VARIABLES
  pool, connecting, tables, creating, at,
  file, newest, backend, keystate, up, shutting_down, task, acked, missed

Pg == INSTANCE PgPool
Keystate == INSTANCE KeystateBackup

ASSUME PgAssumption == Pg!PgAssumption
ASSUME VersionAssumption == MaxVersion \in Nat \ {0}

poolVars == <<pool, connecting, tables, creating, at>>
keystateVars == <<file, newest, backend, keystate, up, shutting_down, task, acked, missed>>
backendVars == <<vars, poolVars, keystateVars>>

BackendsInit == Init /\ Pg!Init /\ Keystate!Init

Paying == Next /\ UNCHANGED <<poolVars, keystateVars>>
Querying == Pg!Next /\ UNCHANGED <<vars, keystateVars>>
BackingUp == Keystate!Next /\ UNCHANGED <<vars, poolVars>>

BackendsNext == Paying \/ Querying \/ BackingUp
BackendsFairness == Fairness /\ Pg!Fairness /\ Keystate!Fairness
BackendsSpec == BackendsInit /\ [][BackendsNext]_backendVars /\ BackendsFairness

------------------------------------------------------------------------------
\* Every variable of every component has its type; no connection is lent twice.
Types == TypeOK /\ Pg!TypeOK /\ Keystate!TypeOK

\* The pool is never lent out to tasks that all wait for a second connection
\* (PGInterface.execute).
PoolMoves == Pg!PoolMoves
\* Every query ends, unless the pool could not be made (OneTruePool.connect).
QueriesEnd == Pg!QueriesEnd
\* An acknowledged keystate is never lost (SignalDatastore.async_startup).
AckedIsKept == Keystate!AckedIsKept
\* A change of the keystate is posted (SignalDatastore.periodic_backup).
BackedUp == Keystate!BackedUp
=============================================================================

------------------------------ MODULE PoolLife ------------------------------
(***************************************************************************)
(* The life of a pool: Schema and SqlPool together, on one database.       *)
(*                                                                         *)
(* Processes try to open the pool from the start, while it is created and  *)
(* after a creation that was given up.  Creator and sessions meet on the   *)
(* locks of SQLite: a statement that commits by itself needs everybody     *)
(* else's locks to be gone.                                                *)
(***************************************************************************)
EXTENDS SqlPool, Schema

lifeVars == <<vars, schemaVars>>

LifeInit == Init /\ SchemaInit

-----------------------------------------------------------------------------
(* The creator. *)

Unlocked == \A p \in Procs : lock[p] = "none"

\* A statement of the creator, which fails when it does not get its locks.
Statement(c) == Exec(c) \/ SetVersion(c) \/ SetUuid(c)

Create(c) ==
  /\ \/ MakeDir(c) \/ MakeBlobs(c) \/ BeginTx(c)
     \/ Unlocked /\ Statement(c)
     \/ (faults \/ (step[c] \in {"exec", "uuid"} /\ ~Unlocked)) /\ GiveUp(c)
  /\ UNCHANGED vars

-----------------------------------------------------------------------------
(* The sessions. *)

\* OpenPool: a pool that does not pass leaves the process without a session.
OpenPool(p) == Passes /\ OpenSqlPool(p)

\* Mutant: without a cache, the backup goes on with a warning.
StartDumpWarns(p) ==
  \/ "filesystems" \in tables /\ NewCache(p)
  \/ /\ "filesystems" \notin tables
     /\ pc[p] = "open"
     /\ Goto(p, "dump")
     /\ UNCHANGED <<rows, pending, lock, file, dirs, arg, panicked, faults>>

\* NewCache inserts into filesystems, which older pools do not have.
StartDump(p) ==
  \/ "filesystems" \in tables /\ NewCache(p)
  \/ /\ "filesystems" \notin tables
     /\ pc[p] = "open"
     /\ Goto(p, "failed")
     /\ UNCHANGED <<rows, pending, lock, file, dirs, arg, panicked, faults>>

Session(p) ==
  /\ OpenPool(p) \/ StartDump(p) \/ Work(p)
  /\ UNCHANGED schemaVars

LifeNext == (\E c \in Creators : Create(c)) \/ (\E p \in Procs : Session(p))

LifeSpec == LifeInit /\ [][LifeNext]_lifeVars

-----------------------------------------------------------------------------
(* Properties. *)

\* Whoever gets a session has all the tables of a pool of that version, at
\* whatever point the creation is or was given up.  No transaction sees to that:
\* the version is written last.
OpenedIsWhole ==
  \A p \in Procs : pc[p] # "closed" => TablesOf(version) \subseteq tables

\* Sessions begin on a pool that has a version.
OpenedHasVersion ==
  /\ pc \in [Procs -> Sessions \cup Insert_]
  /\ \A p \in Procs : pc[p] # "closed" => version \in {Version} \cup DOMAIN Lacks

\* Who has no session has no locks.
ClosedUnlocked ==
  /\ lock \in [Procs -> {"none", "shared", "reserved"}]
  /\ \A p \in Procs : pc[p] = "closed" => lock[p] = "none"

LifeInv == SchemaInv /\ OpenedHasVersion /\ ClosedUnlocked

\* A creation that reported success has made a pool that opens, of this version
\* and with an identity; and one creation has.
CreatedIsWhole ==
  created # {} =>
    /\ Passes /\ version = Version /\ uuid
    /\ TablesOf(Version) \subseteq tables
    /\ \A c, d \in created : c = d

\* A pool of an older version opens, but no backup is ever committed to it: that it
\* lacks the tables of the cache is found out by NewCache alone, since OpenSqlPool
\* drops what checkSchema says of it.
OldPoolsReadOnly == version # Version => rows = {} /\ \A p \in Procs : pending[p] = {}

\* A creation that no call fails is disturbed at its last statement at most, by
\* sessions that found the version there already: before it, nobody can be in its
\* way, since the pool does not open.
DisturbedLateOnly ==
  [][~faults => \A c \in Creators :
       step[c] \in {"blobs", "begin", "exec"} => step'[c] # "idle"]_lifeVars
=============================================================================

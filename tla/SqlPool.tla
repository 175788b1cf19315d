------------------------------- MODULE SqlPool -------------------------------
(***************************************************************************)
(* The SQLite storage pool (pool/sql-pool.go), as its clients use it.      *)
(*                                                                         *)
(* A chunk is a row of the table blobs.  The payload of a chunk whose      *)
(* stored size is above 100000 bytes is not in the row: Insert writes it   *)
(* to blobs/<first byte of the OID>/<rest>, creating the directory when    *)
(* the first attempt fails.  Rows are transactional, files and directories *)
(* are not: they are written at once and survive every rollback, and       *)
(* ioutil.WriteFile truncates before it writes.  The module interleaves    *)
(* the system calls of any number of processes that have the same pool     *)
(* open, and lets I/O errors and deaths of processes happen between them.  *)
(*                                                                         *)
(* Every client that inserts (dump.Run) first runs NewCache, whose INSERT  *)
(* takes SQLite's write lock; nothing in Insert itself would keep two      *)
(* processes off the same file.                                            *)
(*                                                                         *)
(* SQLite is external and modelled by what the code relies on in its       *)
(* default rollback-journal mode: a transaction holds a SHARED lock from   *)
(* its first read and the RESERVED lock from its first write, until it     *)
(* ends; one transaction at a time is RESERVED; a commit is atomic and     *)
(* needs every other SHARED lock to be gone; what cannot get its lock      *)
(* within the busy timeout fails.                                          *)
(***************************************************************************)
EXTENDS Naturals

CONSTANTS
  Procs,      \* processes that may open the pool
  Chunks,     \* chunks that may be inserted, named by their OID
  DirOf,      \* DirOf[c]: the directory of a chunk's file, oid[0]
  DataLen,    \* DataLen[c]: bytes of a chunk
  ZLen,       \* ZLen[c]: bytes zlib makes of them
  FileLimit   \* 100000 in the code: the largest payload kept in a row

Dirs == {DirOf[c] : c \in Chunks}

ASSUME SqlPoolAssumption ==
  /\ DataLen \in [Chunks -> Nat]
  /\ ZLen \in [Chunks -> Nat]
  /\ FileLimit \in Nat

VARIABLES
  faults,    \* may system calls and SQL statements fail in this behaviour?
  rows,      \* committed rows of table blobs
  pending,   \* pending[p]: rows inserted by the open transaction of p
  lock,      \* lock[p]: SQLite lock held by the transaction of p
  file,      \* file[c]: "none", "part" (shorter than the payload) or "full"
  dirs,      \* directories present under blobs/
  pc,        \* pc[p]: where the session of p stands
  arg,       \* arg[p]: the chunk p is inserting
  panicked   \* has Search panicked with "Incorrect size read for chunk"?

vars == <<faults, rows, pending, lock, file, dirs, pc, arg, panicked>>

(* File-system calls of the two attempts of Insert to write a file. *)
Opens  == {"open1", "open2"}
Fills  == {"fill1", "fill2"}
Insert_ == Opens \cup Fills \cup {"mkdir", "row"}

(* "open": nothing inserted yet.  "dump": NewCache has run, between two    *)
(* inserts.  "failed": a call returned an error, which every client hands  *)
(* up to main; the transaction stays open until the deferred Close.        *)
Sessions == {"closed", "open", "dump", "failed"}

TypeOK ==
  /\ faults \in BOOLEAN
  /\ rows \in SUBSET Chunks
  /\ pending \in [Procs -> SUBSET Chunks]
  /\ lock \in [Procs -> {"none", "shared", "reserved"}]
  /\ file \in [Chunks -> {"none", "part", "full"}]
  /\ dirs \in SUBSET Dirs
  /\ pc \in [Procs -> Sessions \cup Insert_]
  /\ arg \in [Procs -> Chunks]
  /\ panicked \in BOOLEAN

-----------------------------------------------------------------------------
(* Sizes: what Insert stores for a chunk. *)

\* Mutant: an equal length counts as a gain.
PackedOnEqual(c) == ZLen[c] <= DataLen[c]

\* chunk.ZData() is present only when zlib saved something.
Packed(c) == ZLen[c] < DataLen[c]

ZSize(c) == IF Packed(c) THEN ZLen[c] ELSE DataLen[c]

\* The payload goes to a file and the row's data is NULL.
External(c) == ZSize(c) > FileLimit

\* What Search takes the payload for, from the row alone.
ReadAsPacked(c) == DataLen[c] # 0 /\ DataLen[c] # ZSize(c)

View(p) == rows \cup pending[p]

-----------------------------------------------------------------------------
Init ==
  /\ faults \in BOOLEAN
  /\ rows = {}
  /\ pending = [p \in Procs |-> {}]
  /\ lock = [p \in Procs |-> "none"]
  /\ file = [c \in Chunks |-> "none"]
  /\ dirs = {}
  /\ pc = [p \in Procs |-> "closed"]
  /\ arg \in [Procs -> Chunks]
  /\ panicked = FALSE

Goto(p, l) == pc' = [pc EXCEPT ![p] = l]

\* The transaction of p is rolled back and its locks are released.
Rollback(p) ==
  /\ pending' = [pending EXCEPT ![p] = {}]
  /\ lock' = [lock EXCEPT ![p] = "none"]

\* OpenSqlPool: the schema is checked outside of the transaction it begins.
OpenSqlPool(p) ==
  /\ pc[p] = "closed"
  /\ Goto(p, "open")
  /\ UNCHANGED <<rows, pending, lock, file, dirs, arg, panicked, faults>>

\* dump.Run and regen reach NewCache, whose INSERT OR IGNORE takes the write
\* lock; the DELETE of RunExpire does the same.
WriteLockFree(p) == \A q \in Procs \ {p} : lock[q] # "reserved"

\* Mutant: nothing takes the write lock before the first row of a chunk.
NewCacheUnlocked(p) ==
  /\ pc[p] = "open"
  /\ Goto(p, "dump")
  /\ UNCHANGED <<rows, pending, lock, file, dirs, arg, panicked, faults>>

NewCache(p) ==
  /\ pc[p] = "open"
  /\ \/ /\ WriteLockFree(p)
        /\ lock' = [lock EXCEPT ![p] = "reserved"]
        /\ Goto(p, "dump")
     \/ /\ faults \/ ~WriteLockFree(p)
        /\ Goto(p, "failed")
        /\ UNCHANGED lock
  /\ UNCHANGED <<rows, pending, file, dirs, arg, panicked, faults>>

\* Mutant: Contains is not asked.
InsertUnasked(p, c) ==
  /\ pc[p] = "dump"
  /\ arg' = [arg EXCEPT ![p] = c]
  /\ Goto(p, IF External(c) THEN "open1" ELSE "row")
  /\ UNCHANGED <<rows, pending, lock, file, dirs, panicked, faults>>

\* Insert, up to the choice of where the payload goes.  A chunk that
\* Contains reports is left alone: the call returns with nothing changed.
Insert(p, c) ==
  /\ pc[p] = "dump"
  /\ c \notin View(p)
  /\ arg' = [arg EXCEPT ![p] = c]
  /\ Goto(p, IF External(c) THEN "open1" ELSE "row")
  /\ UNCHANGED <<rows, pending, lock, file, dirs, panicked, faults>>

\* WriteFile: open with O_CREATE|O_TRUNC.  The first failure, whatever its
\* cause, leads to Mkdir, the second one fails the insert.
NextAttempt(l) == IF l \in {"open1", "fill1"} THEN "mkdir" ELSE "failed"

OpenFile(p) ==
  LET c == arg[p] IN
  /\ pc[p] \in Opens
  /\ \/ /\ DirOf[c] \in dirs
        /\ file' = [file EXCEPT ![c] = "part"]
        /\ Goto(p, IF pc[p] = "open1" THEN "fill1" ELSE "fill2")
     \/ /\ faults \/ DirOf[c] \notin dirs
        /\ Goto(p, NextAttempt(pc[p]))
        /\ UNCHANGED file
  /\ UNCHANGED <<rows, pending, lock, dirs, arg, panicked, faults>>

\* Mutant: the error of the second WriteFile is not looked at.
FillFileUnchecked(p) ==
  /\ pc[p] \in Fills
  /\ \/ /\ file' = [file EXCEPT ![arg[p]] = "full"]
        /\ Goto(p, "row")
     \/ /\ faults
        /\ Goto(p, IF pc[p] = "fill1" THEN "mkdir" ELSE "row")
        /\ UNCHANGED file
  /\ UNCHANGED <<rows, pending, lock, dirs, arg, panicked, faults>>

\* WriteFile: write the payload.  A failed write leaves a short file.
FillFile(p) ==
  /\ pc[p] \in Fills
  /\ \/ /\ file' = [file EXCEPT ![arg[p]] = "full"]
        /\ Goto(p, "row")
     \/ /\ faults
        /\ Goto(p, NextAttempt(pc[p]))
        /\ UNCHANGED file
  /\ UNCHANGED <<rows, pending, lock, dirs, arg, panicked, faults>>

\* os.Mkdir fails when the directory is there already.
Mkdir(p) ==
  LET d == DirOf[arg[p]] IN
  /\ pc[p] = "mkdir"
  /\ \/ /\ d \notin dirs
        /\ dirs' = dirs \cup {d}
        /\ Goto(p, "open2")
     \/ /\ faults \/ d \in dirs
        /\ Goto(p, "failed")
        /\ UNCHANGED dirs
  /\ UNCHANGED <<rows, pending, lock, file, arg, panicked, faults>>

\* Mutant: the row is written through db.Exec, outside of the transaction.
InsertRowOutsideTx(p) ==
  /\ pc[p] = "row"
  /\ rows' = rows \cup {arg[p]}
  /\ Goto(p, "dump")
  /\ UNCHANGED <<pending, lock, file, dirs, arg, panicked, faults>>

\* INSERT OR FAIL INTO blobs, in a transaction that may still need the lock.
InsertRow(p) ==
  /\ pc[p] = "row"
  /\ \/ /\ WriteLockFree(p)
        /\ lock' = [lock EXCEPT ![p] = "reserved"]
        /\ pending' = [pending EXCEPT ![p] = @ \cup {arg[p]}]
        /\ Goto(p, "dump")
     \/ /\ faults \/ ~WriteLockFree(p)
        /\ Goto(p, "failed")
        /\ UNCHANGED <<lock, pending>>
  /\ UNCHANGED <<rows, file, dirs, arg, panicked, faults>>

\* Flush: commit, which no other SHARED lock may outlive, then begin anew.
\* When the commit succeeds and Begin fails, the caller gets an error and
\* the rows are durable all the same.
OthersGone(p) == \A q \in Procs \ {p} : lock[q] = "none"

Flush(p) ==
  /\ pc[p] = "dump"
  /\ \/ /\ OthersGone(p)
        /\ rows' = rows \cup pending[p]
        /\ Rollback(p)
        /\ \/ Goto(p, "open")
           \/ faults /\ Goto(p, "failed")
     \/ /\ faults \/ ~OthersGone(p)
        /\ Goto(p, "failed")
        /\ UNCHANGED <<rows, pending, lock>>
  /\ UNCHANGED <<file, dirs, arg, panicked, faults>>

\* Search, in a session of a reader (list, restore) or after its own inserts
\* (regen).  The file of a chunk whose row has no data is read, and a length
\* that is not the row's zsize panics, which ends the process.
TakeShared(p) ==
  lock' = [lock EXCEPT ![p] = IF @ = "reserved" THEN @ ELSE "shared"]

Search(p, c) ==
  /\ pc[p] \in {"open", "dump"}
  /\ \/ /\ c \in View(p)
        /\ External(c) => file[c] = "full"
        /\ TakeShared(p)
        /\ UNCHANGED <<pending, pc, panicked>>
     \/ /\ faults \/ c \notin View(p) \/ (External(c) /\ file[c] = "none")
        /\ TakeShared(p)
        /\ Goto(p, "failed")
        /\ UNCHANGED <<pending, panicked>>
     \/ /\ c \in View(p) /\ External(c) /\ file[c] = "part"
        /\ panicked' = TRUE
        /\ Rollback(p)
        /\ Goto(p, "closed")
  /\ UNCHANGED <<rows, file, dirs, arg, faults>>

\* Close (deferred by every command), or the death of the process at any
\* point: SQLite drops what was not committed, files stay as they are.
Close(p) ==
  /\ pc[p] # "closed"
  /\ Rollback(p)
  /\ Goto(p, "closed")
  /\ UNCHANGED <<rows, file, dirs, arg, panicked, faults>>

\* What a session does once it has begun.
Work(p) ==
  \/ \E c \in Chunks : Insert(p, c)
  \/ OpenFile(p)
  \/ FillFile(p)
  \/ Mkdir(p)
  \/ InsertRow(p)
  \/ Flush(p)
  \/ \E c \in Chunks : Search(p, c)
  \/ Close(p)

Step(p) == OpenSqlPool(p) \/ NewCache(p) \/ Work(p)

Next == \E p \in Procs : Step(p)

Spec == Init /\ [][Next]_vars

-----------------------------------------------------------------------------
(* Properties. *)

\* Every committed row can be read back: when its payload is in a file, the
\* file is complete (Insert writes it before the row, and no process, dead or
\* alive, truncates it afterwards).
DurableReadable == \A c \in rows : External(c) => file[c] = "full"

\* Search never trips over its own check of the length of a file
\* (sql-pool.go:163), not even for a row of the open transaction.
NoSizePanic == ~panicked

\* Search tells a compressed payload from a plain one by size # zsize alone,
\* so Insert must never store a compressed payload as long as its data.
StoredFormRecognised ==
  \A c \in rows : DataLen[c] # 0 => (ReadAsPacked(c) <=> Packed(c))

\* The file of a committed row is never touched again, whatever any process
\* does or however it dies: what one reader has seen, all of them will.
CommittedFilesStable == [][\A c \in rows : file'[c] = file[c]]_vars

\* When no call fails by itself, no interleaving of several processes makes
\* Insert fail: in particular its retry never finds the directory made by
\* somebody else between the first attempt and Mkdir.
InsertFailsOnlyOnFault ==
  [][~faults => \A p \in Procs : pc[p] \in Insert_ => pc'[p] # "failed"]_vars

\* Whatever was committed can be read back as it was inserted: its payload is
\* there, of the length the row says, and in the form the lengths say.
Retrievable == DurableReadable /\ NoSizePanic /\ StoredFormRecognised

(* What keeps the files sound: one process at a time inserts, it owns every  *)
(* file it opens, and whatever has a row has its file.                      *)
OneWriter ==
  \A p, q \in Procs : lock[p] = "reserved" /\ lock[q] = "reserved" => p = q

WritersLocked ==
  \A p \in Procs : pc[p] \in Insert_ \cup {"dump"} => lock[p] = "reserved"

PendingLocked == \A p \in Procs : pending[p] # {} => lock[p] = "reserved"

ArgIsNew == \A p \in Procs : pc[p] \in Insert_ => arg[p] \notin View(p)

RowFollowsFile ==
  \A p \in Procs : pc[p] = "row" /\ External(arg[p]) => file[arg[p]] = "full"

PendingReadable ==
  \A p \in Procs : \A c \in pending[p] : External(c) => file[c] = "full"

\* Without faults, the retry of Insert makes the directory and then finds it.
RetryMakesDir ==
  ~faults => \A p \in Procs :
               /\ pc[p] = "mkdir" => DirOf[arg[p]] \notin dirs
               /\ pc[p] = "open2" => DirOf[arg[p]] \in dirs

\* The inductive invariant: while a process inserts, no other one can change
\* the files, the directories or the rows its next system call relies on.
IInv ==
  /\ TypeOK
  /\ OneWriter /\ WritersLocked /\ PendingLocked
  /\ ArgIsNew /\ RowFollowsFile
  /\ PendingReadable /\ DurableReadable /\ NoSizePanic
  /\ RetryMakesDir

\* The pool implements Pool: a chunk is durable from the commit of its row
\* on, and only whole transactions become durable.
P == INSTANCE Pool WITH
       durable <- {c \in rows : External(c) => file[c] = "full"}

Implements == P!PoolSpec
=============================================================================

--------------------------- MODULE PoolLife_proofs ---------------------------
(***************************************************************************)
(* What SqlPool guarantees for any number of processes, any set of chunks  *)
(* and any sizes: IInv is inductive; the safety properties, the action     *)
(* properties and the refinement of Pool all follow from it.               *)
(*                                                                         *)
(* Then the creation of a pool, whatever the tables, the versions, the     *)
(* creators and the sessions, and wherever a creation ends; and the same   *)
(* theorems again for the two together.                                    *)
(***************************************************************************)
EXTENDS PoolLife, TLAPS, SequenceTheorems

-----------------------------------------------------------------------------
(* SqlPool by itself. *)

USE SqlPoolAssumption

(* The initial states satisfy the inductive invariant.                     *)
LEMMA InitIInv == Init => IInv
  BY DEF Init, IInv, TypeOK, OneWriter, WritersLocked, PendingLocked, ArgIsNew,
         RowFollowsFile, PendingReadable, DurableReadable, NoSizePanic,
         RetryMakesDir, Sessions, Insert_, Opens, Fills

(* A process that holds the write lock is the only one that inserts or has *)
(* rows of its own.                                                        *)
LEMMA Alone ==
  ASSUME IInv, NEW p \in Procs, lock[p] = "reserved", NEW q \in Procs, q # p
  PROVE  /\ lock[q] # "reserved"
         /\ pending[q] = {}
         /\ pc[q] \notin Insert_ \cup {"dump"}
  BY DEF IInv, OneWriter, WritersLocked, PendingLocked

(* Whether calls may fail is settled once for all.                         *)
LEMMA SameFaults == [Next]_vars => UNCHANGED faults
  BY DEF vars, Next, Step, Work, OpenSqlPool, NewCache, Insert, OpenFile, FillFile, Mkdir,
         InsertRow, Flush, Search, Close

(* Every step keeps the variables within their types.                      *)
LEMMA TypeStep == TypeOK /\ [Next]_vars => TypeOK'
<1> SUFFICES ASSUME TypeOK, [Next]_vars PROVE TypeOK'
  OBVIOUS
<1>0. UNCHANGED faults
  BY SameFaults
<1> USE <1>0 DEF TypeOK, Goto, Rollback, TakeShared, Sessions, Insert_, Opens, Fills
<1>1. ASSUME NEW p \in Procs, OpenSqlPool(p) PROVE TypeOK'
  BY <1>1 DEF OpenSqlPool
<1>2. ASSUME NEW p \in Procs, NewCache(p) PROVE TypeOK'
  BY <1>2 DEF NewCache
<1>3. ASSUME NEW p \in Procs, NEW c \in Chunks, Insert(p, c) PROVE TypeOK'
  BY <1>3 DEF Insert
<1>4. ASSUME NEW p \in Procs, OpenFile(p) PROVE TypeOK'
  BY <1>4 DEF OpenFile, NextAttempt
<1>5. ASSUME NEW p \in Procs, FillFile(p) PROVE TypeOK'
  BY <1>5 DEF FillFile, NextAttempt
<1>6. ASSUME NEW p \in Procs, Mkdir(p) PROVE TypeOK'
  BY <1>6 DEF Mkdir, Dirs
<1>7. ASSUME NEW p \in Procs, InsertRow(p) PROVE TypeOK'
  BY <1>7 DEF InsertRow
<1>8. ASSUME NEW p \in Procs, Flush(p) PROVE TypeOK'
  BY <1>8 DEF Flush
<1>9. ASSUME NEW p \in Procs, NEW c \in Chunks, Search(p, c) PROVE TypeOK'
  BY <1>9 DEF Search
<1>10. ASSUME NEW p \in Procs, Close(p) PROVE TypeOK'
  BY <1>10 DEF Close
<1>11. CASE UNCHANGED vars
  BY <1>11 DEF vars
<1>12. QED
  BY <1>1, <1>2, <1>3, <1>4, <1>5, <1>6, <1>7, <1>8, <1>9, <1>10, <1>11 DEF Next, Step, Work

(* The system calls of an insert keep the invariant: their process is alone *)
(* with its file, its directory and its rows.                               *)
LEMMA InsertStep ==
  ASSUME IInv, TypeOK', UNCHANGED faults, NEW p \in Procs, NEW c \in Chunks, Insert(p, c)
  PROVE  IInv'
<1> USE DEF Goto, View
<1>1. lock[p] = "reserved"
  BY DEF IInv, WritersLocked, Insert
<1>2. OneWriter' /\ WritersLocked' /\ PendingLocked'
  BY <1>1 DEF IInv, TypeOK, Insert, OneWriter, WritersLocked, PendingLocked
<1>3. ArgIsNew'
  BY DEF IInv, TypeOK, Insert, ArgIsNew
<1>4. RowFollowsFile'
  BY DEF IInv, TypeOK, Insert, RowFollowsFile
<1>5. PendingReadable' /\ DurableReadable' /\ NoSizePanic'
  BY DEF IInv, Insert, PendingReadable, DurableReadable, NoSizePanic
<1>6. RetryMakesDir'
  BY DEF IInv, TypeOK, Insert, RetryMakesDir
<1>7. QED
  BY <1>2, <1>3, <1>4, <1>5, <1>6 DEF IInv

LEMMA OpenFileStep ==
  ASSUME IInv, TypeOK', UNCHANGED faults, NEW p \in Procs, OpenFile(p)
  PROVE  IInv'
<1> USE DEF Goto, View, Opens, Fills, Insert_, NextAttempt
<1>1. lock[p] = "reserved" /\ arg[p] \notin rows /\ arg[p] \notin pending[p]
  BY DEF IInv, WritersLocked, ArgIsNew, OpenFile
<1>2. \A q \in Procs \ {p} : pending[q] = {} /\ pc[q] \notin Insert_
  BY <1>1, Alone
<1>3. OneWriter' /\ WritersLocked' /\ PendingLocked' /\ ArgIsNew'
  BY <1>1 DEF IInv, TypeOK, OpenFile, OneWriter, WritersLocked, PendingLocked, ArgIsNew
<1>4. RowFollowsFile'
  BY <1>2 DEF IInv, TypeOK, OpenFile, RowFollowsFile
<1>5. PendingReadable'
  BY <1>1, <1>2 DEF IInv, TypeOK, OpenFile, PendingReadable
<1>6. DurableReadable' /\ NoSizePanic'
  BY <1>1 DEF IInv, TypeOK, OpenFile, DurableReadable, NoSizePanic
<1>7. RetryMakesDir'
  BY <1>2 DEF IInv, TypeOK, OpenFile, RetryMakesDir
<1>8. QED
  BY <1>3, <1>4, <1>5, <1>6, <1>7 DEF IInv

LEMMA FillFileStep ==
  ASSUME IInv, TypeOK', UNCHANGED faults, NEW p \in Procs, FillFile(p)
  PROVE  IInv'
<1> USE DEF Goto, View, Opens, Fills, Insert_, NextAttempt
<1>1. lock[p] = "reserved" /\ arg[p] \notin rows
  BY DEF IInv, WritersLocked, ArgIsNew, FillFile
<1>2. \A q \in Procs \ {p} : pc[q] \notin Insert_
  BY <1>1, Alone
<1>3. OneWriter' /\ WritersLocked' /\ PendingLocked' /\ ArgIsNew'
  BY <1>1 DEF IInv, TypeOK, FillFile, OneWriter, WritersLocked, PendingLocked, ArgIsNew
<1>4. RowFollowsFile'
  BY <1>2 DEF IInv, TypeOK, FillFile, RowFollowsFile
<1>5. PendingReadable' /\ DurableReadable' /\ NoSizePanic'
  BY DEF IInv, TypeOK, FillFile, PendingReadable, DurableReadable, NoSizePanic
<1>6. RetryMakesDir'
  BY <1>2 DEF IInv, TypeOK, FillFile, RetryMakesDir
<1>7. QED
  BY <1>3, <1>4, <1>5, <1>6 DEF IInv

LEMMA MkdirStep ==
  ASSUME IInv, TypeOK', UNCHANGED faults, NEW p \in Procs, Mkdir(p)
  PROVE  IInv'
<1> USE DEF Goto, View, Opens, Fills, Insert_
<1>1. lock[p] = "reserved"
  BY DEF IInv, WritersLocked, Mkdir
<1>2. \A q \in Procs \ {p} : pc[q] \notin Insert_
  BY <1>1, Alone
<1>3. OneWriter' /\ WritersLocked' /\ PendingLocked' /\ ArgIsNew'
  BY <1>1 DEF IInv, TypeOK, Mkdir, OneWriter, WritersLocked, PendingLocked, ArgIsNew
<1>4. RowFollowsFile' /\ PendingReadable' /\ DurableReadable' /\ NoSizePanic'
  BY DEF IInv, TypeOK, Mkdir, RowFollowsFile, PendingReadable, DurableReadable, NoSizePanic
<1>5. RetryMakesDir'
  BY <1>2 DEF IInv, TypeOK, Mkdir, RetryMakesDir
<1>6. QED
  BY <1>3, <1>4, <1>5 DEF IInv

LEMMA InsertRowStep ==
  ASSUME IInv, TypeOK', UNCHANGED faults, NEW p \in Procs, InsertRow(p)
  PROVE  IInv'
<1> USE DEF Goto, View, Opens, Fills, Insert_
<1>1. lock[p] = "reserved"
  BY DEF IInv, WritersLocked, InsertRow
<1>2. External(arg[p]) => file[arg[p]] = "full"
  BY DEF IInv, RowFollowsFile, InsertRow
<1>3. OneWriter' /\ WritersLocked' /\ PendingLocked'
  BY <1>1 DEF IInv, TypeOK, InsertRow, OneWriter, WritersLocked, PendingLocked
<1>4. ArgIsNew' /\ RowFollowsFile'
  BY DEF IInv, TypeOK, InsertRow, ArgIsNew, RowFollowsFile
<1>5. PendingReadable' /\ DurableReadable' /\ NoSizePanic'
  BY <1>2 DEF IInv, TypeOK, InsertRow, PendingReadable, DurableReadable, NoSizePanic
<1>6. RetryMakesDir'
  BY DEF IInv, TypeOK, InsertRow, RetryMakesDir
<1>7. QED
  BY <1>3, <1>4, <1>5, <1>6 DEF IInv

(* The steps of a session between its inserts.                             *)
LEMMA NewCacheStep ==
  ASSUME IInv, TypeOK', UNCHANGED faults, NEW p \in Procs, NewCache(p)
  PROVE  IInv'
<1> USE DEF Goto, View, Opens, Fills, Insert_
<1>1. OneWriter'
  BY DEF IInv, TypeOK, NewCache, WriteLockFree, OneWriter
<1>2. WritersLocked' /\ PendingLocked' /\ ArgIsNew'
  BY DEF IInv, TypeOK, NewCache, WritersLocked, PendingLocked, ArgIsNew
<1>3. RowFollowsFile' /\ PendingReadable' /\ DurableReadable' /\ NoSizePanic'
  BY DEF IInv, TypeOK, NewCache, RowFollowsFile, PendingReadable, DurableReadable, NoSizePanic
<1>4. RetryMakesDir'
  BY DEF IInv, TypeOK, NewCache, RetryMakesDir
<1>5. QED
  BY <1>1, <1>2, <1>3, <1>4 DEF IInv

LEMMA FlushStep ==
  ASSUME IInv, TypeOK', UNCHANGED faults, NEW p \in Procs, Flush(p)
  PROVE  IInv'
<1> USE DEF Goto, Rollback, View, Opens, Fills, Insert_
<1>1. lock[p] = "reserved"
  BY DEF IInv, WritersLocked, Flush
<1>2. \A q \in Procs \ {p} : pending[q] = {} /\ pc[q] \notin Insert_
  BY <1>1, Alone
<1>3. OneWriter' /\ WritersLocked' /\ PendingLocked'
  BY DEF IInv, TypeOK, Flush, OneWriter, WritersLocked, PendingLocked
<1>4. ArgIsNew'
  BY <1>2 DEF IInv, TypeOK, Flush, ArgIsNew
<1>5. RowFollowsFile' /\ PendingReadable' /\ NoSizePanic'
  BY DEF IInv, TypeOK, Flush, RowFollowsFile, PendingReadable, NoSizePanic
<1>6. DurableReadable'
  BY DEF IInv, TypeOK, Flush, DurableReadable, PendingReadable
<1>7. RetryMakesDir'
  BY DEF IInv, TypeOK, Flush, RetryMakesDir
<1>8. QED
  BY <1>3, <1>4, <1>5, <1>6, <1>7 DEF IInv

LEMMA SearchStep ==
  ASSUME IInv, TypeOK', UNCHANGED faults, NEW p \in Procs, NEW c \in Chunks, Search(p, c)
  PROVE  IInv'
<1> USE DEF Goto, Rollback, TakeShared, View, Opens, Fills, Insert_
<1>1. panicked' = panicked
  BY DEF IInv, PendingReadable, DurableReadable, Search
<1>2. OneWriter' /\ WritersLocked' /\ PendingLocked'
  BY DEF IInv, TypeOK, Search, OneWriter, WritersLocked, PendingLocked
<1>3. ArgIsNew' /\ RowFollowsFile'
  BY DEF IInv, TypeOK, Search, ArgIsNew, RowFollowsFile
<1>4. PendingReadable' /\ DurableReadable' /\ NoSizePanic'
  BY <1>1 DEF IInv, TypeOK, Search, PendingReadable, DurableReadable, NoSizePanic
<1>5. RetryMakesDir'
  BY DEF IInv, TypeOK, Search, RetryMakesDir
<1>6. QED
  BY <1>2, <1>3, <1>4, <1>5 DEF IInv

LEMMA OpenCloseStep ==
  ASSUME IInv, TypeOK', UNCHANGED faults, NEW p \in Procs, OpenSqlPool(p) \/ Close(p)
  PROVE  IInv'
<1> USE DEF Goto, Rollback, View, Opens, Fills, Insert_, OpenSqlPool, Close
<1>1. OneWriter' /\ WritersLocked' /\ PendingLocked'
  BY DEF IInv, TypeOK, OneWriter, WritersLocked, PendingLocked
<1>2. ArgIsNew' /\ RowFollowsFile'
  BY DEF IInv, TypeOK, ArgIsNew, RowFollowsFile
<1>3. PendingReadable' /\ DurableReadable' /\ NoSizePanic'
  BY DEF IInv, TypeOK, PendingReadable, DurableReadable, NoSizePanic
<1>4. RetryMakesDir'
  BY DEF IInv, TypeOK, RetryMakesDir
<1>5. QED
  BY <1>1, <1>2, <1>3, <1>4 DEF IInv

LEMMA NextIInv == IInv /\ [Next]_vars => IInv'
<1> SUFFICES ASSUME IInv, [Next]_vars PROVE IInv'
  OBVIOUS
<1>1. TypeOK'
  BY TypeStep DEF IInv
<1>2. CASE UNCHANGED vars
  BY <1>1, <1>2 DEF IInv, vars, OneWriter, WritersLocked, PendingLocked, ArgIsNew,
       RowFollowsFile, PendingReadable, DurableReadable, NoSizePanic, RetryMakesDir, View
<1>3. CASE Next
  <2>1. UNCHANGED faults
    BY SameFaults
  <2>2. QED
    BY <1>1, <1>3, <2>1, InsertStep, OpenFileStep, FillFileStep, MkdirStep, InsertRowStep,
       NewCacheStep, FlushStep, SearchStep, OpenCloseStep DEF Next, Step, Work
<1>4. QED
  BY <1>2, <1>3

(* In every reachable state, whoever inserts is alone and whatever has a   *)
(* row has its file.                                                       *)
THEOREM Invariant == Spec => []IInv
  BY InitIInv, NextIInv, PTL DEF Spec

(* Lengths alone tell a compressed payload from a plain one.               *)
LEMMA FormByLengths == TypeOK => StoredFormRecognised
  BY DEF TypeOK, StoredFormRecognised, ReadAsPacked, Packed, ZSize

(* Every committed chunk can be read back, in its own form, and Search     *)
(* never panics on the length of a file, whatever crashes, I/O errors and  *)
(* interleavings Insert went through.                                      *)
THEOREM Readable == Spec => []Retrievable
<1>1. IInv => Retrievable
  BY FormByLengths DEF IInv, Retrievable
<1>2. QED
  BY <1>1, Invariant, PTL

(* No step touches the file of a committed row: the only one that changes  *)
(* files is the insert of a chunk that no row has.                         *)
LEMMA FilesStep == IInv /\ [Next]_vars => [\A c \in rows : file'[c] = file[c]]_vars
<1> SUFFICES ASSUME IInv, Next PROVE \A c \in rows : file'[c] = file[c]
  OBVIOUS
<1>1. ASSUME NEW p \in Procs, OpenFile(p) \/ FillFile(p)
      PROVE  \A c \in rows : file'[c] = file[c]
  <2>1. arg[p] \notin rows
    BY <1>1 DEF IInv, ArgIsNew, View, Insert_, Opens, Fills, OpenFile, FillFile
  <2>2. QED
    BY <1>1, <2>1 DEF OpenFile, FillFile, IInv, TypeOK
<1>2. ASSUME NEW p \in Procs, Step(p), ~OpenFile(p), ~FillFile(p)
      PROVE  file' = file
  BY <1>2 DEF Step, Work, OpenSqlPool, NewCache, Insert, Mkdir, InsertRow, Flush, Search, Close
<1>3. QED
  BY <1>1, <1>2 DEF Next

(* The files of committed rows are stable.                                 *)
THEOREM FilesStable == Spec => CommittedFilesStable
  BY FilesStep, Invariant, PTL DEF Spec, CommittedFilesStable

(* Without faults of the system, Insert never fails: its retry finds the   *)
(* directory it has made, and the write lock is its own.                   *)
LEMMA InsertSucceedsStep ==
  IInv /\ [Next]_vars =>
    [~faults => \A p \in Procs : pc[p] \in Insert_ => pc'[p] # "failed"]_vars
<1> SUFFICES ASSUME IInv, Next, ~faults, NEW p \in Procs, pc[p] \in Insert_
             PROVE  pc'[p] # "failed"
  OBVIOUS
<1> USE DEF Goto, Insert_, Opens, Fills
<1>1. lock[p] = "reserved"
  BY DEF IInv, WritersLocked
<1>2. PICK q \in Procs : Step(q)
  BY DEF Next
<1>3. CASE q # p
  BY <1>2, <1>3 DEF IInv, TypeOK, Step, Work, OpenSqlPool, NewCache, Insert, OpenFile,
       FillFile, Mkdir, InsertRow, Flush, Search, Close
<1>4. CASE q = p
  <2>1. WriteLockFree(p)
    BY <1>1 DEF IInv, OneWriter, WriteLockFree
  <2>2. CASE OpenFile(p)
    BY <2>2 DEF OpenFile, NextAttempt, IInv, TypeOK, RetryMakesDir
  <2>3. CASE FillFile(p) \/ Mkdir(p) \/ InsertRow(p)
    BY <2>1, <2>3 DEF FillFile, Mkdir, InsertRow, IInv, TypeOK, RetryMakesDir
  <2>4. CASE Close(p)
    BY <2>4 DEF Close, IInv, TypeOK
  <2>5. QED
    BY <1>2, <1>4, <2>2, <2>3, <2>4 DEF Step, Work, OpenSqlPool, NewCache, Insert, Flush, Search
<1>5. QED
  BY <1>3, <1>4

(* Without faults, no interleaving makes Insert fail.                      *)
THEOREM InsertSucceeds == Spec => InsertFailsOnlyOnFault
  BY InsertSucceedsStep, Invariant, PTL DEF Spec, InsertFailsOnlyOnFault

(* The durable chunks of the abstract pool are, in a reachable state, all  *)
(* the committed rows.                                                     *)
LEMMA AllRowsDurable ==
  ASSUME IInv
  PROVE  {c \in rows : External(c) => file[c] = "full"} = rows
  BY DEF IInv, DurableReadable

LEMMA InitMaps == Init => P!PoolInit
  BY DEF Init, P!PoolInit

(* A row becomes an abstract insert, a commit an abstract flush, the end   *)
(* of a session (and a panic of Search) an abstract abandon; every other   *)
(* step leaves the abstract pool as it is.                                 *)
LEMMA StepMaps ==
  ASSUME IInv, IInv', [Next]_vars
  PROVE  [P!PoolNext]_(P!poolVars)
<1>1. {c \in rows : External(c) => file[c] = "full"} = rows
  BY AllRowsDurable
<1>2. {c \in rows' : External(c) => file'[c] = "full"} = rows'
  BY DEF IInv, DurableReadable
<1> USE <1>1, <1>2 DEF P!poolVars, Rollback
<1>3. CASE UNCHANGED vars
  BY <1>3 DEF vars
<1>4. ASSUME NEW p \in Procs, InsertRow(p)
      PROVE  [P!PoolNext]_(P!poolVars)
  <2>1. CASE UNCHANGED pending
    BY <1>4, <2>1 DEF InsertRow
  <2>2. CASE pending' = [pending EXCEPT ![p] = @ \cup {arg[p]}]
    <3>1. arg[p] \in Chunks /\ arg[p] \notin rows \cup pending[p]
      BY <1>4 DEF IInv, TypeOK, ArgIsNew, View, Insert_, InsertRow
    <3>2. P!PoolInsert(p, arg[p])
      BY <1>4, <2>2, <3>1 DEF P!PoolInsert, P!Visible, InsertRow
    <3>3. QED
      BY <3>1, <3>2 DEF P!PoolNext
  <2>3. QED
    BY <1>4, <2>1, <2>2 DEF InsertRow
<1>5. ASSUME NEW p \in Procs, Flush(p)
      PROVE  [P!PoolNext]_(P!poolVars)
  <2>1. CASE UNCHANGED <<rows, pending>>
    BY <1>5, <2>1 DEF Flush
  <2>2. CASE rows' = rows \cup pending[p] /\ Rollback(p)
    BY <1>5, <2>2 DEF P!PoolFlush, P!PoolNext
  <2>3. QED
    BY <1>5, <2>1, <2>2 DEF Flush
<1>6. ASSUME NEW p \in Procs, Close(p) \/ \E c \in Chunks : Search(p, c)
      PROVE  [P!PoolNext]_(P!poolVars)
  <2>1. CASE UNCHANGED <<rows, pending>>
    BY <2>1
  <2>2. CASE Rollback(p) /\ rows' = rows
    BY <2>2 DEF P!PoolAbandon, P!PoolNext
  <2>3. QED
    BY <1>6, <2>1, <2>2 DEF Close, Search
<1>7. ASSUME NEW p \in Procs, Step(p), ~InsertRow(p), ~Flush(p), ~Close(p),
             \A c \in Chunks : ~Search(p, c)
      PROVE  UNCHANGED <<rows, pending>>
  BY <1>7 DEF Step, Work, OpenSqlPool, NewCache, Insert, OpenFile, FillFile, Mkdir
<1>8. QED
  BY <1>3, <1>4, <1>5, <1>6, <1>7 DEF Next

(* SqlPool implements Pool: chunks become durable a whole transaction at a *)
(* time and stay so; sessions that end otherwise leave nothing durable.    *)
THEOREM Refinement == Spec => Implements
<1>1. IInv /\ IInv' /\ [Next]_vars => [P!PoolNext]_(P!poolVars)
  BY StepMaps
<1>2. QED
  BY InitMaps, <1>1, Invariant, PTL DEF Spec, Implements, P!PoolSpec

-----------------------------------------------------------------------------
(* The creation of a pool. *)

\* The statements are a sequence of tables, the last one the table of the version.
LEMMA StatementsFacts ==
  /\ Statements \in Seq(Tables) /\ Len(Statements) \in Nat
  /\ DOMAIN Statements = 1 .. Len(Statements)
  /\ "schema_version" \in TablesOf(Version)
<1>1. Lines \in Seq(Tables)
  BY SchemaAssumption
<1>2. /\ Statements \in Seq(Tables) /\ Len(Statements) = Len(Lines) + 1
      /\ DOMAIN Statements = 1 .. Len(Statements)
      /\ Statements[Len(Lines) + 1] = "schema_version" /\ Len(Lines) \in Nat
  BY <1>1, SchemaAssumption, AppendProperties DEF Statements
<1> QED
  BY <1>2 DEF TablesOf

\* A session begins on a pool that passes, and nothing else gives one.
LEMMA SessionStep ==
  ASSUME NEW p \in Procs, Session(p), OpenedHasVersion, SchemaInv
  PROVE  OpenedHasVersion'
<1>1. pc' \in [Procs -> Sessions \cup Insert_]
  BY DEF OpenedHasVersion, Session, OpenPool, StartDump, OpenSqlPool, NewCache, Work,
     Insert, OpenFile, FillFile, Mkdir, InsertRow, Flush, Search, Close, Goto, NextAttempt,
     Sessions, Insert_, Opens, Fills
<1>2. \A q \in Procs : pc'[q] # "closed" => pc[q] # "closed" \/ Passes
  BY DEF OpenedHasVersion, Session, OpenPool, StartDump, OpenSqlPool, NewCache, Work,
     Insert, OpenFile, FillFile, Mkdir, InsertRow, Flush, Search, Close, Goto, Opens, Fills
<1> QED
  BY <1>1, <1>2 DEF OpenedHasVersion, Passes, Session, schemaVars

\* A session that ends gives up its locks.
LEMMA SessionUnlocks ==
  ASSUME NEW p \in Procs, Session(p), OpenedHasVersion, ClosedUnlocked
  PROVE  ClosedUnlocked'
<1>1. lock' \in [Procs -> {"none", "shared", "reserved"}]
  BY DEF ClosedUnlocked, Session, OpenPool, StartDump, OpenSqlPool, NewCache, Work,
     Insert, OpenFile, FillFile, Mkdir, InsertRow, Flush, Search, Close, Rollback, TakeShared
<1>2. \A q \in Procs \ {p} : lock'[q] = lock[q] /\ pc'[q] = pc[q]
  BY DEF OpenedHasVersion, ClosedUnlocked, Session, OpenPool, StartDump, OpenSqlPool,
     NewCache, Work, Insert, OpenFile, FillFile, Mkdir, InsertRow, Flush, Search, Close,
     Goto, Rollback, TakeShared
<1>3. pc'[p] = "closed" => lock'[p] = "none"
  BY DEF OpenedHasVersion, ClosedUnlocked, Session, OpenPool, StartDump, OpenSqlPool,
     NewCache, Work, Insert, OpenFile, FillFile, Mkdir, InsertRow, Flush, Search, Close,
     Goto, NextAttempt, Rollback, Opens, Fills
<1> QED
  BY <1>1, <1>2, <1>3 DEF ClosedUnlocked

\* A statement lengthens the prefix.
LEMMA ExecStep ==
  ASSUME NEW c \in Creators, Exec(c), SchemaInv
  PROVE  SchemaInv'
<1> USE StatementsFacts
<1>1. /\ sent[c] \in Nat /\ sent[c] + 1 \in 1 .. Len(Statements)
      /\ Statements[sent[c] + 1] \in TablesOf(Version)
  BY DEF Exec, SchemaInv, SchemaTypeOK, TablesOf
<1>2. SchemaTypeOK'
  BY <1>1 DEF Exec, SchemaInv, SchemaTypeOK
<1>3. OneCreator' /\ OneCreated'
  BY DEF Exec, SchemaInv, OneCreator, OneCreated, At
<1>4. InOrder'
  <2>1. \A i \in 1 .. sent'[c] : Statements[i] \in tables'
    BY <1>1 DEF Exec, SchemaInv, SchemaTypeOK, InOrder, At
  <2>2. \A d \in Creators : At(d, "exec")' => d = c
    BY DEF Exec, SchemaInv, OneCreator, At
  <2> QED
    BY <2>1, <2>2 DEF Exec, SchemaInv, InOrder, At
<1> QED
  BY <1>2, <1>3, <1>4 DEF SchemaInv

\* The version comes when all statements have been sent.
LEMMA SetVersionStep ==
  ASSUME NEW c \in Creators, SetVersion(c), SchemaInv
  PROVE  SchemaInv'
<1> USE StatementsFacts
<1>1. TablesOf(Version) \subseteq tables
  BY DEF SetVersion, SchemaInv, InOrder, TablesOf, At
<1>2. SchemaTypeOK'
  BY DEF SetVersion, Then, SchemaInv, SchemaTypeOK
<1>3. OneCreator' /\ OneCreated'
  BY DEF SetVersion, Then, SchemaInv, SchemaTypeOK, OneCreator, OneCreated, InOrder, At
<1>4. InOrder'
  BY <1>1, SchemaAssumption
     DEF SetVersion, Then, SchemaInv, SchemaTypeOK, OneCreator, InOrder, At
<1> QED
  BY <1>2, <1>3, <1>4 DEF SchemaInv

\* The creator that gets this far is the only one, and the first.
LEMMA SetUuidStep ==
  ASSUME NEW c \in Creators, SetUuid(c), SchemaInv
  PROVE  SchemaInv'
<1>1. created = {} /\ version = Version /\ created' = {c}
  BY DEF SetUuid, SchemaInv, InOrder, At
<1>2. \A d \in Creators : At(d, "idle")'
  BY DEF SetUuid, Then, SchemaInv, SchemaTypeOK, OneCreator, At
<1>3. SchemaTypeOK'
  BY <1>1 DEF SetUuid, Then, SchemaInv, SchemaTypeOK
<1>4. OneCreator' /\ OneCreated' /\ InOrder'
  BY <1>1, <1>2 DEF SetUuid, SchemaInv, OneCreator, OneCreated, InOrder, At
<1> QED
  BY <1>3, <1>4 DEF SchemaInv

\* Calls that make no table, and the end of a creation at any of them.
LEMMA OtherCreatorStep ==
  ASSUME NEW c \in Creators, MakeDir(c) \/ MakeBlobs(c) \/ BeginTx(c) \/ GiveUp(c), SchemaInv
  PROVE  SchemaInv'
<1>1. CASE MakeDir(c)
  <2>1. version = "none" /\ created = {} /\ \A d \in Creators : At(d, "idle")
    BY <1>1, SchemaAssumption DEF MakeDir, SchemaInv, InOrder, OneCreated, At
  <2>2. \A d \in Creators : ~At(d, "idle")' => d = c
    BY <1>1, <2>1 DEF MakeDir, Then, SchemaInv, SchemaTypeOK, At
  <2>3. SchemaTypeOK'
    BY <1>1 DEF MakeDir, Then, SchemaInv, SchemaTypeOK
  <2>4. OneCreator' /\ OneCreated' /\ InOrder'
    BY <1>1, <2>1, <2>2, SchemaAssumption
       DEF MakeDir, Then, SchemaInv, SchemaTypeOK, OneCreator, OneCreated, InOrder, At
  <2> QED
    BY <2>3, <2>4 DEF SchemaInv
<1>2. CASE MakeBlobs(c)
  <2>1. SchemaTypeOK' /\ OneCreator' /\ OneCreated'
    BY <1>2 DEF MakeBlobs, Then, SchemaInv, SchemaTypeOK, OneCreator, OneCreated, At
  <2>2. InOrder'
    BY <1>2, SchemaAssumption DEF MakeBlobs, Then, SchemaInv,
       SchemaTypeOK, OneCreator, InOrder, At
  <2> QED
    BY <2>1, <2>2 DEF SchemaInv
<1>3. CASE BeginTx(c)
  <2>1. SchemaTypeOK' /\ OneCreator' /\ OneCreated'
    BY <1>3 DEF BeginTx, Then, SchemaInv, SchemaTypeOK, OneCreator, OneCreated, At
  <2>2. InOrder'
    BY <1>3 DEF BeginTx, Then, SchemaInv, SchemaTypeOK, InOrder, At
  <2> QED
    BY <2>1, <2>2 DEF SchemaInv
<1>4. CASE GiveUp(c)
  BY <1>4, StatementsFacts
     DEF GiveUp, Then, SchemaInv, SchemaTypeOK, OneCreator, OneCreated, InOrder, At
<1> QED
  BY <1>1, <1>2, <1>3, <1>4

\* Whatever a creator does; what a session has been told stays true.
LEMMA CreateStep ==
  ASSUME NEW c \in Creators, Create(c), LifeInv
  PROVE  LifeInv'
<1>1. SchemaInv'
  BY ExecStep, SetVersionStep, SetUuidStep, OtherCreatorStep
     DEF Create, Statement, LifeInv
<1>2. version' \in {version, Version} \/ ~(version \in {Version} \cup DOMAIN Lacks)
  BY DEF Create, Statement, MakeDir, MakeBlobs, BeginTx, Exec, SetVersion, SetUuid, GiveUp
<1> QED
  BY <1>1, <1>2 DEF LifeInv, OpenedHasVersion, ClosedUnlocked, Create, vars

\* Free places and pools of older programs satisfy the invariant.
LEMMA LifeInitial == LifeInit => LifeInv
<1> SUFFICES ASSUME LifeInit PROVE LifeInv
  OBVIOUS
<1>1. OpenedHasVersion /\ ClosedUnlocked
  BY DEF LifeInit, Init, OpenedHasVersion, ClosedUnlocked, Sessions
<1>2. SchemaTypeOK
  <2>1. tables \subseteq TablesOf(Version)
    BY StatementsFacts DEF LifeInit, SchemaInit, TablesOf
  <2>2. sent \in [Creators -> 0 .. Len(Statements)]
    BY StatementsFacts DEF LifeInit, SchemaInit
  <2> QED
    BY <2>1, <2>2 DEF LifeInit, SchemaInit, SchemaTypeOK
<1>3. OneCreator /\ OneCreated /\ InOrder
  BY SchemaAssumption DEF LifeInit, SchemaInit, OneCreator, OneCreated, InOrder, At
<1> QED
  BY <1>1, <1>2, <1>3 DEF LifeInv, SchemaInv

\* Every step keeps it.
LEMMA LifeInductive == LifeInv /\ [LifeNext]_lifeVars => LifeInv'
<1> SUFFICES ASSUME LifeInv, [LifeNext]_lifeVars PROVE LifeInv'
  OBVIOUS
<1>1. ASSUME NEW c \in Creators, Create(c) PROVE LifeInv'
  BY <1>1, CreateStep
<1>2. ASSUME NEW p \in Procs, Session(p) PROVE LifeInv'
  <2>1. OpenedHasVersion' /\ ClosedUnlocked'
    BY <1>2, SessionStep, SessionUnlocks DEF LifeInv
  <2>2. SchemaInv'
    BY <1>2 DEF Session, schemaVars, LifeInv, SchemaInv, SchemaTypeOK, OneCreator,
       OneCreated, InOrder, At
  <2> QED
    BY <2>1, <2>2 DEF LifeInv
<1>3. CASE UNCHANGED lifeVars
  BY <1>3 DEF lifeVars, vars, schemaVars, LifeInv, OpenedHasVersion, ClosedUnlocked, SchemaInv,
     SchemaTypeOK, OneCreator, OneCreated, InOrder, At
<1> QED
  BY <1>1, <1>2, <1>3 DEF LifeNext

\* The creators exclude each other, what a creation has made is a prefix of its
\* statements, and a session begins only once a version is there.
THEOREM LifeInvariant == LifeSpec => []LifeInv
  BY LifeInitial, LifeInductive, PTL DEF LifeSpec

\* A pool that opens has all the tables of its version: the order of the
\* statements of setSchema does what its transaction does not.
THEOREM OpensWhole == LifeSpec => []OpenedIsWhole
<1>1. LifeInv => OpenedIsWhole
  BY DEF LifeInv, OpenedHasVersion, SchemaInv, InOrder, OpenedIsWhole
<1> QED
  BY <1>1, LifeInvariant, PTL

\* A creation that reported success, and at most one does, has made a pool that
\* opens, with all its tables and its uuid.
THEOREM CreatesWhole == LifeSpec => []CreatedIsWhole
<1>1. LifeInv => CreatedIsWhole
  <2> SUFFICES ASSUME LifeInv, created # {} PROVE CreatedIsWhole
    BY DEF CreatedIsWhole
  <2>1. /\ version = Version /\ uuid /\ place = "db"
        /\ TablesOf(Version) \subseteq tables
    BY SchemaAssumption DEF LifeInv, SchemaInv, OneCreated, InOrder
  <2> QED
    BY <2>1, StatementsFacts DEF CreatedIsWhole, Passes, LifeInv, SchemaInv, OneCreated
<1> QED
  BY <1>1, LifeInvariant, PTL

\* When no call fails by itself, a creation gets as far as its version: no session
\* can begin, and hold a lock, before.
THEOREM DisturbedLate == LifeSpec => DisturbedLateOnly
<1>1. ASSUME LifeInv, [LifeNext]_lifeVars, ~faults, NEW c \in Creators,
             step[c] \in {"blobs", "begin", "exec"}, step'[c] = "idle"
      PROVE  FALSE
  <2>1. Unlocked
    BY <1>1, SchemaAssumption
       DEF LifeInv, SchemaInv, InOrder, OpenedHasVersion, ClosedUnlocked, Unlocked
  <2>2. PICK d \in Creators : Create(d)
    BY <1>1 DEF LifeNext, lifeVars, Session, schemaVars
  <2>3. ~GiveUp(d)
    <3> SUFFICES ASSUME GiveUp(d) PROVE FALSE
      OBVIOUS
    <3>1. d = c
      BY <1>1 DEF GiveUp, At, LifeInv, SchemaInv, OneCreator
    <3> QED
      BY <1>1, <2>1, <2>2, <3>1 DEF Create, Statement, MakeDir, MakeBlobs, BeginTx, Exec,
         SetVersion, SetUuid, At, Then, LifeInv, SchemaInv, SchemaTypeOK
  <2> QED
    BY <1>1, <2>2, <2>3 DEF Create, Statement, MakeDir, MakeBlobs, BeginTx, Exec, SetVersion,
       SetUuid, At, Then, LifeInv, SchemaInv, SchemaTypeOK
<1>2. LifeInv /\ [LifeNext]_lifeVars =>
        [~faults => \A c \in Creators :
           step[c] \in {"blobs", "begin", "exec"} => step'[c] # "idle"]_lifeVars
  BY <1>1
<1> QED
  BY <1>2, LifeInvariant, PTL DEF LifeSpec, DisturbedLateOnly

-----------------------------------------------------------------------------
(* The pool during its life: what SqlPool guarantees to sessions that find a *)
(* pool from the start, they are guaranteed on one that is being created, or *)
(* is old, too.                                                              *)

\* A session that an old pool has refused NewCache.
Refused(p) ==
  /\ pc[p] = "open" /\ Goto(p, "failed")
  /\ UNCHANGED <<rows, pending, lock, file, dirs, arg, panicked, faults>>

\* A step of the life is one of the pool, or the refusal of an old one.
LEMMA LifeStepCases ==
  ASSUME [LifeNext]_lifeVars
  PROVE  [Next]_vars \/ \E p \in Procs : Refused(p)
<1>1. ASSUME NEW c \in Creators, Create(c) PROVE UNCHANGED vars
  BY <1>1 DEF Create
<1>2. ASSUME NEW p \in Procs, Session(p) PROVE Step(p) \/ Refused(p)
  BY <1>2 DEF Session, OpenPool, StartDump, Refused, Step
<1>3. UNCHANGED lifeVars => UNCHANGED vars
  BY DEF lifeVars
<1> QED
  BY <1>1, <1>2, <1>3 DEF LifeNext, Next

\* The refusal of an old pool disturbs no other session.
LEMMA RefusedStep ==
  ASSUME IInv, NEW p \in Procs, Refused(p)
  PROVE  IInv'
<1> USE DEF Goto, View, Insert_, Opens, Fills
<1>1. TypeOK'
  BY DEF IInv, TypeOK, Refused, Sessions
<1>2. OneWriter' /\ WritersLocked' /\ PendingLocked'
  BY DEF IInv, TypeOK, Refused, OneWriter, WritersLocked, PendingLocked
<1>3. ArgIsNew' /\ RowFollowsFile' /\ RetryMakesDir'
  BY DEF IInv, TypeOK, Refused, ArgIsNew, RowFollowsFile, RetryMakesDir
<1>4. PendingReadable' /\ DurableReadable' /\ NoSizePanic'
  BY DEF IInv, Refused, PendingReadable, DurableReadable, NoSizePanic
<1> QED
  BY <1>1, <1>2, <1>3, <1>4 DEF IInv

\* The inductive invariant of the pool survives everything creators do.
THEOREM LifeIInv == LifeSpec => []IInv
<1>1. IInv /\ [LifeNext]_lifeVars => IInv'
  BY LifeStepCases, RefusedStep, NextIInv
<1>2. LifeInit => IInv
  BY InitIInv DEF LifeInit
<1> QED
  BY <1>1, <1>2, PTL DEF LifeSpec

\* Sessions on a pool that is being created, or that an older program made, keep
\* every committed row readable.
THEOREM LifeReadable == LifeSpec => []Retrievable
<1>1. IInv => Retrievable
  BY FormByLengths DEF IInv, Retrievable
<1> QED
  BY <1>1, LifeIInv, PTL

\* With its creation, too, the SQLite pool implements Pool: no step of a creator,
\* and no refusal of an old pool, shows in what is durable.
THEOREM LifeRefinement == LifeSpec => Implements
<1>1. ASSUME IInv, IInv', [LifeNext]_lifeVars PROVE [P!PoolNext]_(P!poolVars)
  <2>1. ASSUME NEW p \in Procs, Refused(p) PROVE UNCHANGED P!poolVars
    BY <2>1 DEF Refused, P!poolVars
  <2> QED
    BY <1>1, <2>1, LifeStepCases, StepMaps
<1>2. LifeInit => P!PoolInit
  BY InitMaps DEF LifeInit
<1> QED
  BY <1>1, <1>2, LifeIInv, PTL DEF LifeSpec, Implements, P!PoolSpec

\* Nor do they change the files of committed rows.
THEOREM LifeFilesStable == LifeSpec => CommittedFilesStable
<1>1. IInv /\ [LifeNext]_lifeVars => [\A c \in rows : file'[c] = file[c]]_vars
  BY LifeStepCases, FilesStep DEF Refused
<1> QED
  BY <1>1, LifeIInv, PTL DEF LifeSpec, CommittedFilesStable

\* And Insert, which an old pool never sees, fails for no reason of theirs.
THEOREM LifeInsertSucceeds == LifeSpec => InsertFailsOnlyOnFault
<1> DEFINE Succeeds == ~faults => \A p \in Procs : pc[p] \in Insert_ => pc'[p] # "failed"
<1>1. ASSUME IInv, NEW p \in Procs, Refused(p) PROVE Succeeds
  BY <1>1 DEF Refused, Goto, IInv, TypeOK, Insert_, Opens, Fills
<1>2. IInv /\ [LifeNext]_lifeVars => [Succeeds]_vars
  BY <1>1, LifeStepCases, InsertSucceedsStep
<1> QED
  BY <1>2, LifeIInv, PTL DEF LifeSpec, InsertFailsOnlyOnFault

-----------------------------------------------------------------------------
(* Pools of older programs. *)

\* Why no backup gets into one: it lacks the table that NewCache writes to, no
\* creator is left to make it, and so no session comes as far as an insert.
OldInv ==
  version # Version =>
    /\ rows = {}
    /\ \A p \in Procs : pending[p] = {} /\ pc[p] \notin Insert_ \cup {"dump"}
    /\ version \in DOMAIN Lacks => "filesystems" \notin tables

\* No creator touches an old pool.
LEMMA OldCreateStep ==
  ASSUME LifeInv, OldInv, NEW c \in Creators, Create(c)
  PROVE  OldInv'
<1>1. version \in DOMAIN Lacks => UNCHANGED <<version, tables>>
  BY SchemaAssumption DEF Create, Statement, LifeInv, SchemaInv, SchemaTypeOK, InOrder,
     MakeDir, MakeBlobs, BeginTx, Exec, SetVersion, SetUuid, GiveUp, At
<1>2. version' \in {version, Version}
  BY DEF Create, Statement, MakeDir, MakeBlobs, BeginTx, Exec, SetVersion, SetUuid, GiveUp
<1> QED
  BY <1>1, <1>2 DEF OldInv, Create, vars

\* And no session gets past NewCache there.
LEMMA OldSessionStep ==
  ASSUME IInv, LifeInv, OldInv, NEW p \in Procs, Session(p)
  PROVE  OldInv'
<1> SUFFICES ASSUME version # Version
             PROVE  rows' = {} /\ \A q \in Procs :
                      pending'[q] = {} /\ pc'[q] \notin Insert_ \cup {"dump"}
  BY DEF OldInv, Session, schemaVars
<1>1. ~NewCache(p) \/ "filesystems" \notin tables
  BY DEF OldInv, LifeInv, OpenedHasVersion, NewCache
<1>2. rows' = {}
  BY DEF OldInv, LifeInv, OpenedHasVersion, Session, OpenPool, StartDump, OpenSqlPool, NewCache, Work,
     Insert, OpenFile, FillFile, Mkdir, InsertRow, Flush, Search, Close, Insert_, Opens, Fills
<1>3. \A q \in Procs : pending'[q] = {}
  BY DEF IInv, TypeOK, OldInv, LifeInv, OpenedHasVersion, Session, OpenPool, StartDump, OpenSqlPool, NewCache, Work,
     Insert, OpenFile, FillFile, Mkdir, InsertRow, Flush, Search, Close, Rollback,
     Insert_, Opens, Fills
<1>4. \A q \in Procs : pc'[q] \notin Insert_ \cup {"dump"}
  BY <1>1 DEF OldInv, LifeInv, OpenedHasVersion, Session, OpenPool, StartDump, OpenSqlPool,
     Work, Insert, OpenFile, FillFile, Mkdir, InsertRow, Flush, Search, Close, Goto,
     Insert_, Opens, Fills
<1> QED
  BY <1>2, <1>3, <1>4

\* No backup is ever committed to a pool of an older version.
THEOREM OldReadOnly == LifeSpec => []OldPoolsReadOnly
<1>1. LifeInit => OldInv
  BY SchemaAssumption DEF LifeInit, Init, SchemaInit, OldInv, TablesOf, Insert_, Opens, Fills
<1>2. IInv /\ LifeInv /\ OldInv /\ [LifeNext]_lifeVars => OldInv'
  <2>1. UNCHANGED lifeVars /\ OldInv => OldInv'
    BY DEF lifeVars, vars, schemaVars, OldInv
  <2> QED
    BY <2>1, OldCreateStep, OldSessionStep DEF LifeNext
<1>3. OldInv => OldPoolsReadOnly
  BY DEF OldInv, OldPoolsReadOnly
<1> QED
  BY <1>1, <1>2, <1>3, LifeIInv, LifeInvariant, PTL DEF LifeSpec
=============================================================================

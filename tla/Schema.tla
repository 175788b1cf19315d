------------------------------- MODULE Schema -------------------------------
(***************************************************************************)
(* The creation of a pool (CreateSqlPool and setSchema) and the check that *)
(* every opening makes (OpenPool, checkSchema).                            *)
(*                                                                         *)
(* setSchema begins a transaction, but sends its statements through db and *)
(* not through tx: they run on another connection, each of them commits by *)
(* itself, and a rollback undoes none.  A creation that ends early leaves  *)
(* a directory that nobody can create a pool in any more; whether it can   *)
(* be opened depends on the order of the statements alone.                 *)
(***************************************************************************)
EXTENDS Naturals, Sequences

CONSTANTS
  Creators,   \* processes that create the pool
  Tables,     \* tables of a pool
  Lines,      \* the ones that the lines of poolSchema make, in their order
  Version,    \* poolSchema.version
  Lacks       \* poolSchema.compats: Lacks[v] is what pools of version v lack

\* What setSchema makes, in its order.
Statements == Append(Lines, "schema_version")

\* Tables of a pool of version v.
TablesOf(v) ==
  {Statements[i] : i \in DOMAIN Statements} \ (IF v = Version THEN {} ELSE Lacks[v])

ASSUME SchemaAssumption ==
  /\ Lines \in Seq(Tables) /\ "schema_version" \in Tables
  /\ {"none", "unknown"} \cap ({Version} \cup DOMAIN Lacks) = {}
  /\ Version \notin DOMAIN Lacks
  /\ \A v \in DOMAIN Lacks : "schema_version" \notin Lacks[v] /\ "filesystems" \in Lacks[v]

VARIABLES
  place,     \* "none", a directory "dir", with "blobs" in it, with the file "db"
  tables,    \* tables in the database
  version,   \* the row of schema_version, "none" without it
  uuid,      \* is there a uuid in props?
  step,      \* step[c]: the next call of creator c
  sent,      \* sent[c]: how many statements the setSchema of c has sent
  created    \* creators that reported success

schemaVars == <<place, tables, version, uuid, step, sent, created>>

\* The place is free, or holds a pool of an older program, or of an unknown one.
SchemaInit ==
  /\ \/ /\ place = "none" /\ tables = {} /\ version = "none" /\ uuid = FALSE
     \/ /\ place = "db" /\ uuid = TRUE
        /\ \/ \E v \in DOMAIN Lacks : version = v /\ tables = TablesOf(v)
           \/ version = "unknown" /\ tables = {"schema_version"}
  /\ step = [c \in Creators |-> "idle"]
  /\ sent = [c \in Creators |-> 0]
  /\ created = {}

At(c, s) == step[c] = s

Then(c, s) == step' = [step EXCEPT ![c] = s]

\* Mutant: os.MkdirAll.
MakeDirAll(c) ==
  /\ At(c, "idle")
  /\ place' = IF place = "none" THEN "dir" ELSE place
  /\ Then(c, "blobs")
  /\ UNCHANGED <<tables, version, uuid, sent, created>>

\* os.Mkdir of the pool, then of blobs: what exists ends the creation.
MakeDir(c) ==
  /\ At(c, "idle")
  /\ place = "none"
  /\ place' = "dir"
  /\ Then(c, "blobs")
  /\ UNCHANGED <<tables, version, uuid, sent, created>>

MakeBlobs(c) ==
  /\ At(c, "blobs")
  /\ place' = "blobs"
  /\ Then(c, "begin")
  /\ UNCHANGED <<tables, version, uuid, sent, created>>

\* db.Begin opens the first connection, and with it the file.
BeginTx(c) ==
  /\ At(c, "begin")
  /\ place' = "db"
  /\ Then(c, "exec")
  /\ UNCHANGED <<tables, version, uuid, sent, created>>

\* Mutant: the error of a statement is not looked at.
ExecUnchecked(c) ==
  /\ At(c, "exec") /\ sent[c] < Len(Statements)
  /\ \/ tables' = tables \cup {Statements[sent[c] + 1]}
     \/ UNCHANGED tables
  /\ sent' = [sent EXCEPT ![c] = @ + 1]
  /\ UNCHANGED <<place, version, uuid, step, created>>

\* db.Exec of a CREATE TABLE.
Exec(c) ==
  /\ At(c, "exec") /\ sent[c] < Len(Statements)
  /\ tables' = tables \cup {Statements[sent[c] + 1]}
  /\ sent' = [sent EXCEPT ![c] = @ + 1]
  /\ UNCHANGED <<place, version, uuid, step, created>>

\* Mutant: the version is written as soon as there is a table for it.
SetVersionEarly(c) ==
  /\ At(c, "exec") /\ version = "none"
  /\ version' = Version
  /\ tables' = tables \cup {"schema_version"}
  /\ Then(c, IF sent[c] = Len(Statements) THEN "uuid" ELSE "exec")
  /\ UNCHANGED <<place, uuid, sent, created>>

\* db.Exec of the INSERT INTO schema_version; tx.Commit has nothing to commit.
SetVersion(c) ==
  /\ At(c, "exec") /\ sent[c] = Len(Statements)
  /\ version' = Version
  /\ sent' = [sent EXCEPT ![c] = 0]
  /\ Then(c, "uuid")
  /\ UNCHANGED <<place, tables, uuid, created>>

SetUuid(c) ==
  /\ At(c, "uuid")
  /\ uuid' = TRUE
  /\ created' = created \cup {c}
  /\ Then(c, "idle")
  /\ UNCHANGED <<place, tables, version, sent>>

\* A call fails, or the creator dies: the rollback has nothing to undo.
GiveUp(c) ==
  /\ ~At(c, "idle")
  /\ sent' = [sent EXCEPT ![c] = 0]
  /\ Then(c, "idle")
  /\ UNCHANGED <<place, tables, version, uuid, created>>

\* OpenPool: the file is there, and its version is this one or a compatible one.
\* What a pool of an older version lacks is found out and not looked at.
Passes ==
  /\ place = "db"
  /\ "schema_version" \in tables
  /\ version \in {Version} \cup DOMAIN Lacks

-----------------------------------------------------------------------------
SchemaTypeOK ==
  /\ place \in {"none", "dir", "blobs", "db"}
  /\ tables \subseteq TablesOf(Version)
  /\ version \in {"none", "unknown", Version} \cup DOMAIN Lacks
  /\ uuid \in BOOLEAN
  /\ step \in [Creators -> {"idle", "blobs", "begin", "exec", "uuid"}]
  /\ sent \in [Creators -> 0 .. Len(Statements)]
  /\ created \subseteq Creators

\* The exclusive Mkdir keeps creators apart.
OneCreator == \A c, d \in Creators : ~At(c, "idle") /\ ~At(d, "idle") => c = d

\* What is there is a prefix of the statements, and the version comes last.
InOrder ==
  /\ \A c \in Creators :
       /\ step[c] \in {"blobs", "begin", "exec"} => version = "none"
       /\ At(c, "exec") => place = "db" /\ \A i \in 1 .. sent[c] : Statements[i] \in tables
       /\ ~At(c, "exec") => sent[c] = 0
       /\ At(c, "uuid") => version = Version
       /\ ~At(c, "idle") => place # "none" /\ created = {}
  /\ version # "none" => place = "db"
  /\ version \in {Version} \cup DOMAIN Lacks => TablesOf(version) \subseteq tables

\* One creation succeeds.
OneCreated ==
  /\ created # {} => version = Version /\ uuid
  /\ \A c, d \in created : c = d

\* The inductive invariant of the creation.
SchemaInv == SchemaTypeOK /\ OneCreator /\ InOrder /\ OneCreated
=============================================================================

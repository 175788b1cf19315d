# A formal model of godump

godump is a backup program: it stores directory trees as content-addressed
chunks in a pool, remembers in a cache which files it need not read again, and
can run the backups of a whole host from LVM snapshots.  This directory holds
TLA+ models of its parts, configurations with which TLC checks them, and proofs
for TLAPS.  Paths below are relative to the repository's `src/`.

## The system

| component | state | operations | what makes it correct |
|---|---|---|---|
| storage pool (`pool/sql-pool.go`, `pool/pool.go`) | SQLite table `blobs`; files `blobs/xx/...` for payloads above 100000 bytes; one open transaction | create, open, Insert, Contains, Search, Backups, Flush, Close | a committed row can be read back for ever; a session that does not flush leaves nothing behind; nobody's death or failure harms what is committed |
| schema (`pool/sql-schema.go`) | the tables and the row of `schema_version` | setSchema, checkSchema | a pool that opens is whole; a pool of an older program opens and takes no backup |
| chunks (`pool/chunk.go`, `oid.go`, `kind.go`) | bytes, lazily the compressed bytes; a file of chunks | Data, ZData, OID, ChunkRead, ChunkWrite | a file of chunks reads back as written, up to a torn write |
| pool index (`pool/index-file.go`; `index.go` and `index-ram.go` are one comment each) | RamIndex, the index file and its temporary | WriteIndex, GetKeys, Lookup | an index is whole or missing, and known to be stale; used by no command |
| properties and times (`store/props.go`, `time.go`) | none | Encode, decodeProp, GetInt, DecodeTimestamp | the same properties have the same bytes, and those read back |
| indirect blocks and directory chunks (`store/indirect.go`, `dir.go`, `file.go`) | a list of OIDs for each level, the unfinished directory chunk | Add, Finalize, WriteFile | the root returned leads to everything added, in order |
| walker (`store/decode.go`, `visitor.go`) | the path | Walk, with callbacks Back, Enter, Leave, Open, Close, Node, Blob | visits what was written, in its order |
| dump (`godump/dump`) | the directories being walked | Run | a backup shows the tree, as far as nobody changed it meanwhile |
| directory reading (`godump/dump/dir.go`, `linuxdir`) | the open directory | Readdir | complete and sorted, whoever comes and goes |
| ctime cache (`cache`) | tables `filesystems`, `ctime_dirs`, `ctime_cache` | NewCache, GetDir, UpdateDir, SetExpire, RunExpire | never vouches for data that is not there or not current |
| cache commands (`godump/cachecmd`) | the directories being walked | regen, expire | rebuild the cache a dump left; drop what is too old |
| managed backups (`godump/manager`) | steps performed; snapshots and mounts of the machine | Setup and Teardown of seven steps | dumps the right thing, undoes what it did and nothing else |
| progress meter (`meter`) | terminal, last meter, three channels | Setup, Shutdown, Sync, Write, Run | no message lost, no deadlock |
| restore (`godump/restore`) | the open file, the path | visitor callbacks | the restored tree is the one of the backup; nothing in the way is touched; a stopped restore gives nothing away |
| listing (`godump/listing`) | none | visitor callbacks | read only |
| the rest (`godump.go`, `config`, `fsid`, `meter/humanize.go`, `manager/log.go`, `pdump`, `tutil`) | none to speak of | parsing, formatting | |

How they interact.  `dump.Run` opens no pool of its own: it gets one from `main`
or from the manager, takes the transaction of the pool (`pool.GetSql`) and gives
it to the cache, so that chunks and cache rows are committed by one Flush at the
very end.  Nothing is shared between processes but the database, the files under
`blobs/`, and, for the manager, the machine's snapshots and mounts.  Inside a
process there are two goroutines, the program and the meter, which meet on
unbuffered channels.

What is hard: several processes on one pool, of which one writes files that no
transaction covers; any of them dying between two calls, while the pool is created
too, where a transaction is begun and not used; files that change while
they are read; a cache that is trusted without asking; the table of that cache
being rewritten by dumps, aborted dumps, expiry and regeneration in any order;
snapshots left behind by runs that died; a rendezvous at shutdown.
`PROJECT.json` lists these hazards one by one, each at its line, with the
properties that are about it.

## Modules

| module | models | depends on |
|---|---|---|
| `Pool` | what a pool promises | |
| `SqlPool` | `pool/sql-pool.go`, call by call, with any number of processes | implements `Pool` |
| `Schema` | creation of a pool, `setSchema`, `checkSchema` | |
| `PoolLife` | creators, and sessions that open the pool meanwhile or later | composes `SqlPool` and `Schema` |
| `PoolLife_proofs` | theorems about `SqlPool` and `PoolLife` | `PoolLife` |
| `PoolFile` | `pool/chunk.go`, `pool/index-file.go` | |
| `PoolFile_proofs` | theorems about `PoolFile` | `PoolFile`, `Selection_proofs` |
| `Backup` | `godump/dump`, `cache`, `godump/cachecmd` over a live file system | instance of `Pool` |
| `Backup_proofs` | theorems about `Backup`: what is stored, what rows rest on, what a backup shows, what a regeneration rebuilds | `Backup`, `Selection_proofs` |
| `Readdir` | `linuxdir`, `godump/dump/dir.go` | |
| `Readdir_proofs` | theorems about `Readdir` | `Readdir`, `Selection_proofs` |
| `Selection`, `Selection_proofs` | the loops that keep some elements of a list, and what is true of them | |
| `Store` | `store/indirect.go`, `dir.go`, `file.go` and the reading side of `decode.go` | |
| `Nodes` | `store/props.go`, `store/time.go`, `encodeProps` of `godump/dump` | |
| `Manager` | `godump/manager` | |
| `Manager_proofs` | theorems about `Manager` | `Manager` |
| `Restore` | `godump/restore` under the walker of `store/decode.go` | |
| `Restore_proofs` | theorems about `Restore` | `Restore` |
| `Meter` | `meter` | |
| `Meter_proofs` | theorems about `Meter` | `Meter` |

`MCSqlPool`, `MCPoolFile`, `MCBackup`, `MCReaddir`, `MCStore`, `MCManager` and
`MCRestore` give the constants their values for TLC; `Meter` needs none.  `MCStore`
checks `Store` and `Nodes` in one run, of which a behaviour is about one.  An operator whose comment starts
with "Mutant" is a plausible mistake in the definition that follows it; it is
part of no specification, and each property is known to fail when the mistake
its entry in `PROJECT.json` names is made.

### Pool and SqlPool

`Pool` has two variables: `durable`, the chunks every session can read back, and
`pending[p]`, those of the open transaction of p.

`SqlPool` has the committed rows, the rows of each transaction and its SQLite
lock, the state of each payload file (absent, shorter than the payload, whole),
the directories, and where each session stands.  `Insert` in the code is `Insert`
(ask Contains, choose between row and file), `OpenFile` and `FillFile` (the two
halves of `ioutil.WriteFile`, the first of which truncates), `Mkdir`, `OpenFile`
and `FillFile` again, `InsertRow`.  `NewCache` is the first write of every
session that inserts.  `Close` is both the deferred `Close` and the death of the
process, at any point: in either case SQLite drops the transaction, and files
stay as they are.  `faults`, which never changes, says whether calls may fail by
themselves.

SQLite is external.  What the model takes from it: SHARED from the first read,
RESERVED from the first write until the end of the transaction, one RESERVED at
a time, a commit that is atomic and needs all other SHARED locks to be gone, and
failure after the busy timeout.

The mapping to `Pool` takes a row for durable when its payload can be read.
`Implements` is therefore more than bookkeeping: a commit of rows whose files are
short would not be a step of `Pool`, nor would a truncation later on.

### Schema and PoolLife

`Schema` is `CreateSqlPool` call by call: the two `Mkdir`, the transaction of
`setSchema`, its statements, the version, the uuid.  The statements are sent
through `db`, not through `tx`, so each commits by itself (`Exec`), and `GiveUp`,
which is a failed call with its rollback as well as the death of the creator,
undoes none.  `Passes` is `checkSchema`: the version must be this one or one of
`compats`; what a pool of the latter lacks is computed and dropped.  The place may
be free at first, or hold a pool of an older program or of one unknown to this.

`PoolLife` puts sessions of `SqlPool` on that pool.  `OpenPool` needs a pool that
passes, at any moment of a creation; `StartDump` is `NewCache` on the tables there
are; a statement of the creator needs the locks of all sessions to be gone.

### PoolFile

The file is a sequence of units.  `WriteHeader`, `WritePayload`, `WritePad` are the
three writes of `ChunkWrite`, each whole or cut short; `Readable` and `ChunkRead`
are `ChunkRead`, `After` is where the padding it returns leads, `Scan` a reader of
the whole file.  `Sections` is what `WriteIndex` writes, with `Top` the table of first
bytes; `BeginIndex`, `WriteSection` and `RenameIndex` are its steps, any of which may
fail: the function returns no error of the rename.  `Lookup` is the binary search
over that layout, which the source keeps in a comment; no live code reads an index.
The writer that appends chunks and the one that starts over after a death
(`Rescan`) are external: the repository has the functions and their tests, no command.

### Backup

One session over the pool of `Pool`: since `SqlPool` implements it and the write
lock admits one writer at a time, a second writer shows nothing new.  Users change
files between any two steps.  `stack` holds a frame for each directory being
walked: what `Readdir` returned, the rows `GetDir` returned (`old`), the rows for
`UpdateDir` (`new`), the entries added so far.  `ReuseFile` is the branch of
`regularFile` that trusts the cache; `OpenFile`, `ReadBlock`, `FinishFile` the
one that reads.  `LeaveDir` is the end of `directory`, `WriteBack` and `Commit`
the end of `Backup`.  `Abort` is every error and every death: nothing is
committed, the transaction's view of the cache (`ctx`) becomes the committed one
again.  `PlainNode` is `plainNode` for links, whose target is read after the stat.
`Vanished` is the panic over a file that cannot be opened, and the error of a link.
`Readdir` is one step here; that names and stats are taken one after the other
is the subject of the module `Readdir`.  The regeneration walks a backup with
`RegenEnter`, `RegenOpen`, `RegenLeave` and `RegenSkip` for a link, the calls of `regenState`.

Chunks are values that contain the chunks they refer to.  Two chunks have one
OID exactly when they are equal, so SHA-1 is taken to have no collisions.

The history variables `changed`, `seen`, `racy`, `last` and `readings` appear in no
guard.  `readings` has what dumps have really read, and when: it grows where
`regularFile` reads a file to its end, and nowhere else, so neither a row that is used
again nor a regeneration adds to it.

`BoundedTrust` measures the expiry of each row against it.  Dumps alone leave a row no
longer than the longest age after its data was read.  A regeneration counts from the
date of its backup, though that backup may have taken the data from the cache, at the
very end of the row's life; it can add one more age, and dumps and regenerations in
turn can keep a row for ever.  The property therefore grants one age for every
regeneration so far.  The run reaches that bound: with one age alone it fails, at a
dump that reads, one that uses the row again, and a regeneration from the second.

### Readdir

`listed`, `todo` and `found` are the results of `readdir_r`, what is left for
`lstat`, and what it returned; `err` is the function's named result, assigned by
each call of `lstat`.  Entries of one inode number may be visited in any order,
as `sort.Sort` is not stable.

### Store

`Room`, `Push`, `Purge` are `room`, `push` and the loop of `Finalize`; a writer is
a record of its tree and of what it has inserted.  `Walk` is what a visitor sees of
a stored chunk.  The module has recursive operators and is for TLC only.

### Nodes

A node is bytes: `SetProp` and `SetTime` are the assignments of `encodeProps` and its
callers, `Encode` is `Encode` for whatever order the map hands out its keys in.
`Decode` is `decodeProp` with its three readers, `Format` the format of a time and
`DecodeTimestamp` its reader.  Characters are small numbers: digits, the point, the
minus, and others; the byte has eight values, the digit three, the nanoseconds three
digits, so that texts of both bytes of a length, and every fraction, are few.

### Manager

`Plan` has the steps of a run, each the number of its stage in `sequence` and that
of its file system; `Before` is the order in which the two nested loops reach them,
`at` where the loops are.
`snap` and `mnt` are the machine: they outlive processes, and each snapshot and
mount remembers the run that made it.  Commands succeed only when the machine
allows it, and may fail at any time (`EndSetup`, the second half of `Undo`).
`Panic` is a dump that panics, `Kill` the death of the process, `CleanUp` the
administrator, who works only while nothing runs.

### Restore

`tree` is the backup, `fs` the place it is restored to, both by path; `path` is the
visitor's path, `todo` what each `dirHandler` on it has left, `pc` the next system
call.  `After` is the order of the calls of `restoreReg`, which `Close` and `Leave`
share.  `fs` behaves as Linux does: a new entry touches its directory, chown clears
the set-user-id bit, and without being root one needs permission to search and
write; an entry that the restore made and has not given its mode yet has the mode
"own" (0600, 0700).  Files of other processes may appear in any place and at any
time (`Others`); nobody removes what the restore made.  `Stop` is the death of
the process, or a chunk that cannot be read.  Directories, files, links and one
kind that is not restored are modelled; user and group numbers are one number.

### Meter

The program logs, offers meters, prints directly and finally shuts down; `Run`
is the goroutine, whose drawing is not atomic.  A message becomes part of
`written` when Run receives it.

## Runs

| run | question | instance | distinct states |
|---|---|---|---|
| `pool` | is what is committed safe, can Insert fail for no reason, is a pool that opens whole, is the pool a `Pool`? | two processes and two creators; a free place, an old pool, an unknown one; four chunks: in a row, on the boundary of compression, two files of one directory; with and without failures; states that differ only in which process or creator is which are taken as one (nothing tells them apart, and the run checks no liveness) | 302178 |
| `backup` | are backups faithful, the pool closed, the cache sound, a regenerated one too? | two files and a link in three directories, one of them of another device with the inode numbers of the one it is in; two dumps, one regeneration, two edits, clock up to 2 | 404799 |
| `readdir` | is a directory read completely? | four names, two of them links; three edits | 329454 |
| `store` | does what was written come back? | blocks of two OIDs, up to eleven blobs or entries; nodes of up to three properties, one key a prefix of another, every time of five seconds | 59956 |
| `pool_file` | does a torn file read back, is an index whole? | four chunks of payloads on both sides of the alignment and of compression, two indexes, a byte of four values of which one has no key and one has two | 156556 |
| `manager` | does a run dump the right thing and clean up after itself alone? | two processes, two runs, one plain and two LVM file systems, mirror and gosure; states that differ only in which process is which are taken as one | 890727 |
| `restore` | is the tree restored, is a partial one private, can the restore hinder itself? | a directory with a file of two blobs, a link, a subdirectory with a file, and a pipe; all modes of both directories, a user number beyond GetInt, two files of others | 11844 |
| `meter` | are messages kept, is the screen coordinated, does the program end? | five operations, meters of one to three lines, direct output | 39892 |

Why these bounds are enough for the cases that matter: two processes make every
pairwise race of file, directory and lock, and nothing in the code counts to
three; `big1` and `big2` share a directory so that the retry of one meets the
directory of the other.  Two dumps are the least at which a cache written by one
is used by the next, with an edit before, between and during; the regeneration may
come before, between or after them, from either backup.  Two creators are
the least that can meet, and a session may open the pool after each statement.  Two
indexes make a new one replace an old one, with chunks in between.  Blocks of two
OIDs with eleven items make four levels, so that Finalize adds levels while it
purges, and directories of more than eight chunks go beyond what the walker
knows.  Two runs are the least for leftovers and for concurrency.  Meters of one
to three lines replace higher and lower ones.  The restored tree has two levels, so
that the walker comes back to a directory after another, and every kind in it.

Deadlock is not checked.  Every system here stops by design: a pool whose creation
was given up opens for nobody, and the others stop at their bounds or when the
program is over.

### Disagreements between the code and its comments

Four runs end in a counterexample, each about a sentence in the repository:

- `manager_panic`: `manager/run.go:106` promises that performed steps are undone
  "when we're finished".  A dump panics over any file it cannot open, since
  `directory` does not look at the error of `regularFile`, and the undo loop is
  not deferred: snapshots and mounts stay.
- `backup_expired`: `cache/cache.go:26` says that entries expiring before the
  creation of the cache are discarded.  The field is never read; regeneration
  from an old backup writes rows that have expired.
- `readdir_last`: `dump/dir.go:30` "Skip the entry, and warn."  The error sticks
  to the result when the entry was the last one, and the whole backup fails.
- `readdir_eof`: `linuxdir/linuxdir.go:38` says io.EOF is the end.  It is also
  what an error of readdir_r becomes, and the backup lacks files silently.

### Fairness

Only `Meter` has a liveness property.  `WF(Run)`: the Go scheduler runs a
goroutine that can proceed.  `WF(Shutdown)`: the program, when it is not in a
send, does not idle for ever; `Shutdown` is deferred by `main`.  Nothing is
assumed of the ticker or of what the program does before.

## Proofs

`PoolLife_proofs` proves of the pool, for any set of processes and chunks, any sizes and any
limit, from `SqlPoolAssumption` (sizes and the limit are natural numbers) and
nothing else:

- `Invariant`: `Spec => []IInv`
- `Readable`: `Spec => []Retrievable`, that is `DurableReadable`, `NoSizePanic` and
  `StoredFormRecognised`
- `FilesStable`: `Spec => CommittedFilesStable`
- `InsertSucceeds`: `Spec => InsertFailsOnlyOnFault`
- `Refinement`: `Spec => Implements`

and of the composition with creators, for any creators, tables, statements and
versions, from `SchemaAssumption` besides (the names of versions differ, an old pool
has `schema_version` and lacks `filesystems`, as `compats` says):

- `LifeInvariant`: `LifeSpec => []LifeInv`
- `OpensWhole`: `LifeSpec => []OpenedIsWhole`
- `CreatesWhole`: `LifeSpec => []CreatedIsWhole`
- `DisturbedLate`: `LifeSpec => DisturbedLateOnly`
- `OldReadOnly`: `LifeSpec => []OldPoolsReadOnly`
- `LifeIInv`, `LifeReadable`, `LifeFilesStable`, `LifeInsertSucceeds`,
  `LifeRefinement`: the five theorems about the pool again, for `LifeSpec`

`DurableReadable` alone is not inductive: nothing in it says why the file that a
process is about to truncate has no row.  `IInv` says why.  A process that inserts
holds RESERVED (`WritersLocked`), at most one does (`OneWriter`), so no one else
has pending rows (`PendingLocked`) or inserts; its chunk has no row (`ArgIsNew`)
since Contains was asked and nothing was committed since; and it reaches the row
only with a whole file (`RowFollowsFile`).  Hence it truncates no file that has a
row, and commits none without its file.  `RetryMakesDir` is the same argument for
directories, and gives `InsertSucceeds`.  There is one lemma for each action.

`OpenedIsWhole` is not inductive either: it does not say what a creator has still to
do.  `LifeInv` does.  One creator is at work, since `Mkdir` of the pool excludes the
others (`OneCreator`); while it sends statements there is no version, and what is
there is a prefix of the statements (`InOrder`); so the version, with which the pool
begins to pass, comes when all of them are there.  Locks belong to sessions, and
sessions need a version (`OpenedHasVersion`, `ClosedUnlocked`): hence a creation is
undisturbed up to it.  `OldInv` adds that an old pool lacks `filesystems`, that no
creator is left to make it, and that no session gets past `NewCache`.  A step of the
life is a step of the pool or the refusal of an old one (`LifeStepCases`), which is
how the theorems about the pool carry over.

The refinement needs the invariant for two steps: a flush makes durable exactly
the pending chunks because their files are whole (`PendingReadable`), and opening a
file makes nothing undurable because its chunk has no row.

`Backup_proofs` proves, for any tree of files, links and directories, any ages and
any bounds, from `BackupAssumption` (the kinds of names differ, directories have
children, contents are sequences, and one of the ages is the longest):

- `BackupInvariant`: `Spec => []IInv`
- `NothingDangles`: `Spec => []Closed`
- `RowsVouched`: `Spec => []Vouched`
- `LeaseInvariant`: `Spec => []Leased`
- `TrustEnds`: `Spec => []BoundedTrust`

`Closed` is not inductive: a session holds chunks in its hands (blocks of the open
file, the nodes done in each frame, the rows it read from the cache), and inserts
what refers to them later.  `GoodWalk` says that all it holds is in the pool or
pending (`View`).  Data that the cache names is never asked for; it is there because
`GoodTables` has each row of a table, committed or not, repeat a node of a stored
directory of that inode (`VouchedFor`).  For `LeaveDir`, which writes the rows, that
needs each new row to repeat a node of the same frame (`DumpFrame`), and for a
regeneration, each row to repeat a child of the directory being walked
(`RegenFrameOf`).  `Abort` forgets what is pending, and is harmless since the
committed rows rest on committed chunks alone.

`BoundedTrust` needs to know of backups what it says of rows, as a regeneration makes
the ones of the others.  `Leased` has both.  Call the longest age, once and once more
for each regeneration so far, a lease.  Each row has been read no earlier than a lease
before its expiry (`TablesRead`, and for the rows in a frame, `RowsRead`); each file
in the tree of a backup no earlier than a lease before the date of the backup
(`BackupsRead`).  A dump takes a row only if the row expires at its base time or later,
so what was read in time for the expiry was read in time for the backup, whose date
the base time becomes (`DumpRead`).  A regeneration makes the lease one age longer,
and that is the age its rows get beyond the date (`RegenRead`).  Since the tree of a backup
may be of any depth, `AllRead` asks for a set of nodes that holds the root and is
closed under what is in its directories, which takes the place of an induction.

and from `TreeAssumption` besides (a name is in one directory,
`Path` says the way to it, and no two files of the device have one inode):

- `FaithInvariant`: `Spec => []FaithInv`
- `ShownAsIs`: `Spec => []Faithful`

`FaithInv` is `IInv` with the four reasons why a dump is faithful.  `NodesRight`: a
ctime stands for a content.  Each node the session sees, and with `VouchedFor` each row,
names the data of its file if the file still has the ctime of the node; a ctime that
may come again, since it is the present tick, belongs to a file in `seen`, which a
further change makes `racy`.  It holds for the node of a file read block by block
because `ReadRight` says the same of the blocks: had the file been changed between
the stat and the last block, its ctime would differ, or it would be racy.
`WalkRight`: in each frame every name that Readdir found, and no other, is to do or
done, once (`NamesComplete`); what is to do has the ctime it has on disk, unless it
was changed (`StatRight`); and each node that is done shows the files below it
(`Shows`).  `HeadRight` says of the root what `Faithful` says of the backup.
`Shows` is about paths of any length: `ShownDir` goes one name down, by `BelowOne` and
`BelowNone`, for which two descents that agree once agree to the end (`SameDescent`,
an induction over the length with the least of a set of numbers).  The tree is needed
where a finished directory becomes an entry of the one above it: whatever path leads
through its name comes through the directory whose frame it is (`OneParent`).

and of a regeneration, from the same assumptions:

- `RebuildInvariant`: `Spec => [](FaithInv /\ Tells)`
- `Rebuilt`: `Spec => []RegenRebuilds`

`RegenRebuilds` compares what two sessions wrote, of which the first may have ended
long ago; `Tells` says what both of them do.  A walk is given by the nodes it has left
behind in each of the directories it is in (`Walk`), a node by the sequence of its
indexes in the directories above it, and `Left` by the positions that come `Before`
the present one, children first.  A dump leaves the directories of its backup in that
order (`DumpTells`), though at the time the nodes above do not exist: their positions do.
A regeneration leaves them in that order too (`SourceTells`), with the backup at hand.
Inode numbers repeat, so two directories may write to one row of the table; the one
that comes last has it (`LastOf`).  In a directory, likewise, the last file of an inode
has the row (`LastRows`): the dump makes its rows while it goes through the entries,
the regeneration from the chunk that holds them, and both say what the nodes say
(`Facts`).  `Sums` puts the two together: the table says of each inode what its last
directory says.  Two walks of one backup that are over agree (`SumsAgree`), and
directories that no dump ever walks have no rows (`OnlyWalked`).  `UpdateDir` drops
rows that expire before the base time of its session, but no session hands it such
rows.  `LastTells` carries what the dump left
past its commit, since backups never change and what they refer to is in the pool.

`Readdir_proofs` proves, for any names, any inode numbers, shared ones too, and any
number of edits, from `ReaddirAssumption` (both are numbers):

- `ReaddirInvariant`: `Spec => []IInv`
- `ReadsComplete`: `Spec => []Complete`

A name that stayed is listed, to do, or found with the file it names now (`NoneLost`);
each name is looked at once (`FoundOnce`), and sorting neither loses nor repeats any
(`SortedEntries`, by `CanSort`: a finite set can be sorted by any key).

`PoolFile_proofs` proves, for any chunks, kinds, lengths, header and alignment, any
values of a byte and any number of indexes, from `PoolFileAssumption`:

- `FileInvariant`: `Spec => []FileInv`
- `FileReadsBack`: `Spec => []ScansWhole`
- `IndexInvariant`: `Spec => []IndexInv`
- `IndexLeads`: `Spec => []IndexCovers`

`ScansWhole` says nothing of the units between two chunks.  `FileInv` does: there are
places, each one the span of a chunk with its padding after the one before it
(`Places`), and the file has the units of the chunks from there on, as far as it goes
(`Laid`); between chunks it ends at the last place, in one where its header or payload
ends (`Stands`).  Each write, also one that is cut off, is a number of units more
(`Writes`), and the units that were there stay (`LaidGrows`, `LaidBegins`).  From that,
`ScanLaid`: at each place there is a chunk to be read, the padding leads to the next,
and the last place, or a chunk cut off there, is unreadable.  It needs that `Scan`
has a value, which its recursion does not say: `ScanReads` builds the function from
the end of the file backwards.

`IndexCovers` compares an index with a file that has grown since.  `IndexInv` says that
an index is the `Sections` of some map which is right of the file, now and for as long as
the file only grows (`RightKept`), and which had all chunks when the file had the size
it records (`IsIndex`); the map that is kept in memory leaves out the chunk being
written (`RamInv`), and `path.tmp` is a beginning of the index at hand (`TmpInv`).
`IndexFinds` is about the layout alone: the keys are in order (`AscendingSorts`), the
entry of a byte is the number of keys up to it (`TopCuts`), so what the search is given
holds every key of that byte, and the search finds it if it is there (`LookupHits`, by
induction over the length of the range).

`Selection_proofs` has what `Select` keeps: the elements of the list that are in the
set, all of them and no others, and each once if it is once in the list.

`Manager_proofs` proves, for any number of processes, file systems and runs, from
`ManagerAssumption` (the styles are the two in the code):

- `SetupInvariant`: `Spec => []SetupInv`
- `FrozenTogether`: `Spec => []AllFrozen`
- `ManagerInvariant`: `Spec => []IInv`

and, if `OwnMountPoints` and `PlainHasNoVg` besides:

- `DumpsOwnSnapshot`: `Spec => []RightSource`
- `UndoneOnReturn`: `Spec => []LeavesNothing`
- `UndoesOnlyOwn`: `Spec => OnlyOwn`

`SetupInv` needs nothing of the configuration.  What was performed is what comes up to
`at` in the order of the plan (`InOrder`, `Reached`), hence at the first dump all
snapshots have been made; and each is still there (`HoldsSnaps`), since nobody else
can have made it and only its own run removes it.  `MachineInv` is about what is
mounted where, and does: two volumes of one name in two groups share a mount point,
and a plain file system with a group is looked for under it; nothing in the code
refuses either, and neither is in its example of a configuration.  `Mounts` says that
a mount point has one mount at most, of a snapshot that is there and by its run;
`HoldsMounts` that a run has each mount it made; `Accounted` that a run of which no
command failed has nothing that its undo will not come to.  `IInv` is `SetupInv`, and
`MachineInv` for those configurations; the one of the run `manager` is among them.

`Restore_proofs` proves, for any backup, of whatever depth and size, from
`RestoreAssumption` (a backup is a tree: every entry but the root is named by its
directory, and once):

- `RestoreInvariant`: `Spec => []IInv`
- `RestoredAsBackedUp`: `Spec => []Matches`
- `PrivateAllTheWay`: `Spec => []PrivateUntilComplete`
- `OthersKept`: `Spec => NoClobber`
- `OnlyHindrancesEndIt`: `Spec => []FailsOnlyWhenHindered`

The path cuts the tree.  To its left everything is complete (`Visited`), on it there
are directories with the mode of the restore (`OnPath`), to its right nothing is there
yet (`ToVisit`), and what is at its end has come as far as `pc` says (`Current`).
`Kept` says that what has the mode of the backup is complete with its children;
`PrivateUntilComplete` and `Matches` carry that down and up the tree, by induction
over the length of a path, for which the least of a set of numbers is enough
(`NatInduction` takes an operator).  What fails is what cannot fail by this
invariant: a name is taken by others alone, and a directory of the restore's own is
writable.

`Meter_proofs` proves, for meters of any heights and any number of operations, from
`MeterAssumption`:

- `MeterInvariant`: `Spec => []IInv`
- `MessagesKept`: `Spec => []LogsKept`
- `ScreenCoordinated`: `Spec => []Coordinated`
- `ShutdownFlushes`: when `Shutdown` has returned, all messages are on the terminal

`LogsKept` alone does not exclude that a message is among the lines the next Clear
takes away; `NoLogInMeter` does, also when others print there.  `AsDrawn` says for
every moment of a drawing what `Coordinated` says between two, and `Agreed` who waits
for whom.

Model-checked only:

- Liveness (`Terminates`) and everything about `Store` (recursive definitions) are out
  of the prover's reach.  The recursive functions of `Nodes` are only checked on the
  nodes and times of the run; those of `PoolFile` (`Scan`, `Top`, `Lookup`) are proved
  about.

## Limits

- A machine that loses unsynced writes is not modelled; the code never syncs
  (`sql-pool.go:124`), and nothing promises anything there.
- One file system and one cache key; node properties other than inode, ctime and
  data or target have no part in `Backup`; devices, pipes and sockets, which differ
  from links in having no target.
- Directories do not move, and the clock does not go back.
- A file has one name: `Backup` has no hard links.
- Two writers of one index would share one `.tmp`; nothing in the repository writes
  an index concurrently.
- zlib and SHA-1 are external: a compressed payload expands to its data, and no two
  chunks have one OID.
- `Manager` is checked with volumes of distinct names.  The configuration may name
  two alike, in two groups; they share a mount point, and then `RightSource` does
  not hold.
- A write that returned no error is in the file.  `WriteIndex` drops the error of
  `Close` (`index-file.go:48`) and renames the file all the same; where a file system
  reports a failed write only then, `IndexCovers` says nothing.
- `Implements` says what a session leaves in the pool, not what it is told: a commit
  that fails because of a reader (`sql-pool.go:93`), and an error returned after a commit
  that succeeded (`sql-pool.go:97`), are steps of `SqlPool` and allowed by `Pool`.
- `OldPoolsReadOnly` is about writing.  That an old pool can be read is what
  `checkSchema` is for; no run reads one.
- No command writes or scans a file of chunks, so `ScansWhole` is about `ChunkWrite`
  and `ChunkRead` under a caller the repository does not have.
- `Backup` assumes that a directory is read completely or not at all; the run
  `readdir_eof` shows when it is not.

## Not modelled

- Object names and kinds: conversions of hashes and four letters, without state.
- Listing, which prints; the managed logs, which open a file and print a banner; the
  formatting of the meter.
- The parsing of `blkid`: the program's output is external, and its failure is an
  abort of `Backup`.
- Command line and configuration: parsing.  That each command closes its pool is in
  `SqlPool`, that an error ends it in `Backup`.
- Hex dump and the helpers of the unit tests.
- Pruning of the walker by visitors that do not want the data.

## Plan

Done, in this order: `Pool`, `SqlPool` and its proofs, `Backup`, `Manager`, `Meter`,
`Store`, `Readdir`, `Restore`, `Schema` and `PoolLife` and their proofs, `PoolFile`,
`Nodes`, the proofs of `Meter`, `Backup`, `Manager` and `Restore`, that a dump is
faithful, what a regeneration rebuilds, the proofs of `Readdir`, and last those of
`PoolFile`.

Next:

1. A composition of `Manager` and `SqlPool`: one pool, several dumps of one session,
   each with its own commit.
2. Hard links in `Backup`, whose files have one name each.

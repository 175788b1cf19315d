------------------------------- MODULE Backup -------------------------------
(***************************************************************************)
(* One backup session at a time over a live file system: dump.Run          *)
(* (godump/dump), the ctime cache (cache), and the two commands that       *)
(* rewrite the cache (godump/cachecmd).                                    *)
(*                                                                         *)
(* A dump walks the tree depth first.  Of each directory it takes the      *)
(* names and the stat information first; later, for each regular file,     *)
(* either the cache entry of the same inode has the same ctime and the     *)
(* data OID is taken from it, unread and unchecked, or the file is opened  *)
(* and read block by block.  Users go on editing, removing and creating    *)
(* files between any two of these steps.  Chunks and cache rows go to one  *)
(* transaction, which Flush commits at the very end.                       *)
(*                                                                         *)
(* Chunks are values that hold the chunks they refer to: an OID is the     *)
(* hash of the content, so equal OIDs and equal chunks are the same thing. *)
(* The pool is Pool (what SqlPool implements), with one session: SQLite's  *)
(* write lock keeps a second writer out.  Directories neither move nor     *)
(* vanish, and the clock never goes back.                                  *)
(***************************************************************************)
EXTENDS Naturals, Sequences, SequencesExt, Selection

CONSTANTS
  Me,         \* the session, as the pool knows it
  Root,       \* directory that is backed up
  Dirs,       \* directories, Root included
  Files,      \* names of regular files
  Links,      \* names of symbolic links
  Children,   \* Children[d]: names in directory d, sorted
  Path,       \* Path[f]: names that lead from Root to file or link f
  Foreign,    \* directories where another file system is mounted
  Ino,        \* Ino[n]: inode of whatever has name n
  Contents,   \* contents of a file, targets of a link: sequences of blocks
  Start,      \* content of each of them at the start
  Ages,       \* life times of a cache entry, 2 to 6 weeks in the code
  MaxClock,   \* bound on the clock
  MaxEdits,   \* bound on the changes users make
  MaxDumps,   \* bound on the backups started
  MaxRegens   \* bound on the cache regenerations started

ASSUME BackupAssumption ==
  /\ Root \in Dirs /\ Foreign \subseteq Dirs \ {Root}
  /\ Files \cap Links = {} /\ Dirs \cap (Files \cup Links) = {}
  /\ Children \in [Dirs -> Seq(Dirs \cup Files \cup Links)]
  /\ Start \in Contents /\ \A c \in Contents : c \in Seq(Range(c))
  /\ \E a \in Ages : Ages \subseteq 0..a
  /\ MaxClock \in Nat /\ MaxEdits \in Nat /\ MaxDumps \in Nat /\ MaxRegens \in Nat

Leaves == Files \cup Links

\* Is the file on the device that is backed up?
SameDevice(f) == \A k \in DOMAIN Path[f] : Path[f][k] \notin Foreign

\* The directory in which the path of f has its k-th name.
Parent(f, k) == IF k = 1 THEN Root ELSE Path[f][k - 1]

(* The names are a tree, and Path says the way through it.  A name stands for *)
(* a file with content and ctime of its own: none has two.                    *)
ASSUME TreeAssumption ==
  /\ \A d \in Dirs :
       /\ IsInjective(Children[d]) /\ Root \notin Range(Children[d])
       /\ \A e \in Dirs \ {d} : Range(Children[d]) \cap Range(Children[e]) = {}
  /\ Path \in [Leaves -> Seq(Dirs \cup Leaves) \ {<<>>}]
  /\ \A f \in Leaves :
       /\ Last(Path[f]) = f
       /\ Range(Front(Path[f])) \subseteq Dirs
       /\ \A k \in DOMAIN Path[f] : Path[f][k] \in Range(Children[Parent(f, k)])
  /\ \A f, g \in Files : SameDevice(f) /\ SameDevice(g) /\ Ino[f] = Ino[g] => f = g

VARIABLES
  clock,    \* time, as ctimes, expiry times and dates of backups see it
  live,     \* live[f]: is the file or link there, its content and ctime
  edits,    \* changes made by users
  durable,  \* chunks in the pool
  pending,  \* chunks of the open transaction
  cache,    \* cache[i]: committed rows of ctime_cache for directory inode i
  ctx,      \* the same table as the open transaction sees it
  pc,       \* what the session is doing
  base,     \* Cache.BaseTime
  now,      \* Cache.now
  stack,    \* the directories being walked, innermost last
  blocks,   \* blobs read so far of the file being read
  head,     \* OID of the root directory, once the walk is over
  source,   \* the backup a regeneration walks
  dumps, regens,  \* sessions started
  (* History, for the properties only. *)
  changed,  \* files changed since the session of now started
  seen,     \* files stat'ed by a dump in this clock tick, which is their ctime
  racy,     \* files whose content changed after that, under the same ctime
  last,     \* the last committed dump: its chunk and the cache it left
  readings  \* what dumps have read: data of an inode, under which ctime, and when

userVars == <<clock, live, edits>>
poolVars == <<durable, pending>>
vars == <<userVars, poolVars, cache, ctx, pc, base, now, stack, blocks, head, source,
          dumps, regens, changed, seen, racy, last, readings>>

P == INSTANCE Pool WITH Procs <- {Me}, Chunks <- {}

-----------------------------------------------------------------------------
(* Chunks. *)

Null          == [kind |-> "null"]
Blob(b)       == [kind |-> "blob", bytes |-> b]
Ind(bs)       == [kind |-> "ind", blobs |-> bs]
Reg(f, t, d)  == [kind |-> "REG", ino |-> Ino[f], ctime |-> t, data |-> d]
Lnk(f, t, c)  == [kind |-> "LNK", ino |-> Ino[f], ctime |-> t, target |-> c]
Listing(es)   == [kind |-> "dir", entries |-> es]
DirNode(i, l) == [kind |-> "DIR", ino |-> i, children |-> l]
Back(t, root) == [kind |-> "back", date |-> t, hash |-> root]

\* IndirectWriter.Finalize, over blobs: a single OID stands for itself.
FileData(bs) ==
  IF bs = <<>> THEN Null ELSE IF Len(bs) = 1 THEN bs[1] ELSE Ind(bs)

\* DirWriter.Finalize
DirData(es) == IF es = <<>> THEN Null ELSE Listing(es)

Entries(l) == IF l = Null THEN <<>> ELSE l.entries

Refs(c) ==
  CASE c.kind \in {"null", "blob", "LNK"} -> {}
    [] c.kind = "ind"  -> {c.blobs[i] : i \in DOMAIN c.blobs}
    [] c.kind = "REG"  -> {c.data}
    [] c.kind = "dir"  -> {c.entries[i][2] : i \in DOMAIN c.entries}
    [] c.kind = "DIR"  -> {c.children}
    [] c.kind = "back" -> {c.hash}

\* Insert, of each of the chunks: those the pool has are not stored again.
InsertAll(cs) ==
  /\ pending' = [pending EXCEPT ![Me] = @ \cup (cs \ durable)]
  /\ UNCHANGED durable

DirInos == {Ino[d] : d \in Dirs}

-----------------------------------------------------------------------------
Init ==
  /\ clock = 0
  /\ live = [f \in Leaves |-> [here |-> TRUE, data |-> Start, ctime |-> 0]]
  /\ edits = 0
  /\ P!PoolInit
  /\ cache = [i \in DirInos |-> {}]
  /\ ctx = cache
  /\ pc = "idle"
  /\ base = 0 /\ now = 0
  /\ stack = <<>> /\ blocks = <<>> /\ head = Null /\ source = Null
  /\ dumps = 0 /\ regens = 0
  /\ changed = {} /\ seen = {} /\ racy = {}
  /\ last = [back |-> Null, cache |-> cache]
  /\ readings = {}

(* Users of the file system. *)

Tick ==
  /\ clock < MaxClock
  /\ clock' = clock + 1
  /\ seen' = {}
  /\ UNCHANGED <<live, edits, poolVars, cache, ctx, pc, base, now, stack, blocks,
                 head, source, dumps, regens, changed, racy, last, readings>>

\* Every change sets the ctime.  A new file may get the inode of the one that
\* was removed, unless that is still open.
Touch(f, st) ==
  /\ edits < MaxEdits
  /\ edits' = edits + 1
  /\ live' = [live EXCEPT ![f] = st]
  /\ changed' = IF pc = "idle" THEN changed ELSE changed \cup {f}
  /\ racy' = IF f \in seen THEN racy \cup {f}
             ELSE IF clock > live[f].ctime THEN racy \ {f} ELSE racy
  /\ UNCHANGED <<clock, poolVars, cache, ctx, pc, base, now, stack, blocks, head, source,
                 dumps, regens, seen, last, readings>>

\* A link, of one step to its reader, is never open.
Reading(f) == pc = "read" /\ Head(Last(stack).todo).name = f

Modify(f, c) ==
  /\ live[f].here /\ c # live[f].data
  /\ Touch(f, [here |-> TRUE, data |-> c, ctime |-> clock])

Unlink(f) ==
  /\ live[f].here
  /\ Touch(f, [live[f] EXCEPT !.here = FALSE])

Create(f, c) ==
  /\ ~live[f].here /\ ~Reading(f)
  /\ Touch(f, [here |-> TRUE, data |-> c, ctime |-> clock])

-----------------------------------------------------------------------------
(* The cache. *)

\* GetDir: rows of the directory that have not expired.
GetDir(i, t) == {e \in ctx[i] : e.expire >= t}

\* UpdateDir: replaces the rows of the directory.
UpdateDir(i, es) == ctx' = [ctx EXCEPT ![i] = {e \in es : e.expire >= base}]

\* SetExpire picks the expiry of a new row.
NewRow(i, t, d, age) ==
  [ino |-> i, ctime |-> t, oid |-> d, expire |-> base + age]

\* RunExpire, in a transaction of its own.
RunExpire ==
  /\ pc = "idle"
  /\ cache' = [i \in DirInos |-> {e \in cache[i] : e.expire >= clock}]
  /\ ctx' = cache'
  /\ UNCHANGED <<userVars, poolVars, pc, base, now, stack, blocks, head, source, dumps,
                 regens, changed, seen, racy, last, readings>>

-----------------------------------------------------------------------------
(* The dump. *)

\* Readdir: the names that are there, each with its ctime.  Nothing is read
\* from a directory of another device.
Readdir(d) ==
  LET names   == Select(Children[d], Dirs \cup {n \in Leaves : live[n].here})
      Stat(n) == [name |-> n, ctime |-> IF n \in Dirs THEN 0 ELSE live[n].ctime]
  IN IF d \in Foreign THEN <<>> ELSE [k \in DOMAIN names |-> Stat(names[k])]

\* Files of a directory that may change again without a change of their ctime.
Fresh(d) ==
  {f \in Leaves : live[f].ctime = clock /\ \E k \in DOMAIN Readdir(d) : Readdir(d)[k].name = f}

\* Entering a directory: its names, then its rows.
Frame(d, t) ==
  [name |-> d, ino |-> Ino[d], todo |-> Readdir(d), old |-> GetDir(Ino[d], t),
   new |-> {}, done |-> <<>>]

Top  == Last(stack)
Item == Head(Top.todo)

SetTop(frame) == stack' = [stack EXCEPT ![Len(stack)] = frame]

Backup ==
  /\ pc = "idle" /\ dumps < MaxDumps
  /\ dumps' = dumps + 1
  /\ pc' = "dump"
  /\ base' = clock /\ now' = clock
  /\ stack' = <<Frame(Root, clock)>>
  /\ seen' = seen \cup Fresh(Root)
  /\ changed' = {}
  /\ UNCHANGED <<userVars, poolVars, cache, ctx, blocks, head, source, regens, racy, last, readings>>

EnterDir ==
  /\ pc = "dump" /\ Top.todo # <<>> /\ Item.name \in Dirs
  /\ stack' = Append(stack, Frame(Item.name, base))
  /\ seen' = seen \cup Fresh(Item.name)
  /\ UNCHANGED <<userVars, poolVars, cache, ctx, pc, base, now, blocks, head, source,
                 dumps, regens, changed, racy, last, readings>>

\* One child is done: its row in the new cache, its name and node in the listing.
ChildDone(frame, rows, node) ==
  [frame EXCEPT !.todo = Tail(@),
                !.new = {e \in @ : \A r \in rows : e.ino # r.ino} \cup rows,
                !.done = Append(@, <<Head(frame.todo).name, node>>)]

Cached == {e \in Top.old : e.ino = Ino[Item.name] /\ e.ctime = Item.ctime}

\* Mutant: a row that is used again gets a new expiry.
ReuseFileRenews ==
  /\ pc = "dump" /\ Top.todo # <<>> /\ Item.name \in Files
  /\ \E e \in Cached, age \in Ages :
       LET node == Reg(Item.name, Item.ctime, e.oid) IN
       /\ InsertAll({node})
       /\ SetTop(ChildDone(Top, {[e EXCEPT !.expire = base + age]}, node))
  /\ UNCHANGED <<userVars, cache, ctx, pc, base, now, blocks, head, source, dumps, regens,
                 changed, seen, racy, last, readings>>

\* regularFile, with a row of the right ctime.
ReuseFile ==
  /\ pc = "dump" /\ Top.todo # <<>> /\ Item.name \in Files
  /\ \E e \in Cached :
       LET node == Reg(Item.name, Item.ctime, e.oid) IN
       /\ InsertAll({node})
       /\ SetTop(ChildDone(Top, {e}, node))
  /\ UNCHANGED <<userVars, cache, ctx, pc, base, now, blocks, head, source, dumps, regens,
                 changed, seen, racy, last, readings>>

\* regularFile, without: store.WriteFile opens the file and reads it.
OpenFile ==
  /\ pc = "dump" /\ Top.todo # <<>> /\ Item.name \in Files
  /\ Cached = {}
  /\ live[Item.name].here
  /\ pc' = "read"
  /\ blocks' = <<>>
  /\ UNCHANGED <<userVars, poolVars, cache, ctx, base, now, stack, head, source, dumps,
                 regens, changed, seen, racy, last, readings>>

ReadBlock ==
  LET data == live[Item.name].data
      k == Len(blocks) + 1
  IN
  /\ pc = "read"
  /\ k <= Len(data)
  /\ blocks' = Append(blocks, Blob(data[k]))
  /\ InsertAll({Blob(data[k])})
  /\ UNCHANGED <<userVars, cache, ctx, pc, base, now, stack, head, source, dumps, regens,
                 changed, seen, racy, last, readings>>

\* A dump has read this data of inode i, and holds it to be that of ctime t.
HasRead(i, t, d) ==
  readings' = readings \cup {[ino |-> i, ctime |-> t, oid |-> d, at |-> clock]}

\* Mutant: the ctime is taken when the file has been read.
FinishFileLateStat ==
  LET data == FileData(blocks)
      node == Reg(Item.name, live[Item.name].ctime, data)
      row(age) == NewRow(Ino[Item.name], live[Item.name].ctime, data, age)
  IN
  /\ pc = "read"
  /\ Len(blocks) >= Len(live[Item.name].data)
  /\ InsertAll({data, node})
  /\ \E age \in Ages : SetTop(ChildDone(Top, {row(age)}, node))
  /\ HasRead(Ino[Item.name], live[Item.name].ctime, data)
  /\ pc' = "dump" /\ blocks' = <<>>
  /\ UNCHANGED <<userVars, cache, ctx, base, now, head, source, dumps, regens,
                 changed, seen, racy, last>>

\* End of file: the row and the node carry the ctime of the earlier stat.
FinishFile ==
  LET data == FileData(blocks)
      node == Reg(Item.name, Item.ctime, data)
  IN
  /\ pc = "read"
  /\ Len(blocks) >= Len(live[Item.name].data)
  /\ InsertAll({data, node})
  /\ \E age \in Ages :
       SetTop(ChildDone(Top, {NewRow(Ino[Item.name], Item.ctime, data, age)}, node))
  /\ HasRead(Ino[Item.name], Item.ctime, data)
  /\ pc' = "dump" /\ blocks' = <<>>
  /\ UNCHANGED <<userVars, cache, ctx, base, now, head, source, dumps, regens,
                 changed, seen, racy, last>>

\* plainNode, of a link: what Readlink finds, under the stat of the earlier look.
PlainNode ==
  /\ pc = "dump" /\ Top.todo # <<>> /\ Item.name \in Links
  /\ live[Item.name].here
  /\ LET node == Lnk(Item.name, Item.ctime, live[Item.name].data) IN
     /\ InsertAll({node})
     /\ SetTop(ChildDone(Top, {}, node))
  /\ UNCHANGED <<userVars, cache, ctx, pc, base, now, blocks, head, source, dumps, regens,
                 changed, seen, racy, last, readings>>

\* The end of a directory: listing, node, and the rows of its files.
LeaveDir ==
  LET list == DirData(Top.done)
      node == DirNode(Top.ino, list)
      rest == Front(stack)
  IN
  /\ pc = "dump" /\ Top.todo = <<>>
  /\ InsertAll({list, node})
  /\ UpdateDir(Top.ino, Top.new)
  /\ IF rest = <<>>
       THEN pc' = "back" /\ head' = node /\ stack' = <<>>
       ELSE /\ stack' = [rest EXCEPT ![Len(rest)] = ChildDone(@, {}, node)]
            /\ UNCHANGED <<pc, head>>
  /\ UNCHANGED <<userVars, cache, base, now, blocks, source, dumps, regens,
                 changed, seen, racy, last, readings>>

WriteBack ==
  /\ pc = "back"
  /\ InsertAll({Back(base, head)})
  /\ pc' = "commit"
  /\ UNCHANGED <<userVars, cache, ctx, base, now, stack, blocks, head, source, dumps,
                 regens, changed, seen, racy, last, readings>>

\* What a table of rows says, expiry apart.
Said(table) == [i \in DirInos |-> {<<e.ino, e.ctime, e.oid>> : e \in table[i]}]

\* The process ends, and what it had in memory with it.
EndSession ==
  /\ pc' = "idle"
  /\ base' = 0 /\ now' = 0
  /\ stack' = <<>> /\ blocks' = <<>> /\ head' = Null /\ source' = Null
  /\ changed' = {}

\* Flush, of a dump or a regeneration.
Commit ==
  /\ pc = "commit"
  /\ P!PoolFlush(Me)
  /\ cache' = ctx
  /\ EndSession
  /\ last' = IF head = Null THEN last
                            ELSE [back |-> Back(base, head), cache |-> Said(ctx)]
  /\ UNCHANGED <<userVars, ctx, dumps, regens, seen, racy, readings>>

\* Mutant: the rows of the cache are written outside of the transaction.
RollbackKeepsRows ==
  /\ P!PoolAbandon(Me)
  /\ cache' = ctx
  /\ EndSession
  /\ UNCHANGED <<userVars, ctx, dumps, regens, seen, racy, last, readings>>

\* The session ends before its commit.
Rollback ==
  /\ P!PoolAbandon(Me)
  /\ ctx' = cache
  /\ EndSession
  /\ UNCHANGED <<userVars, cache, dumps, regens, seen, racy, last, readings>>

\* An error of any call, or the death of the process.
Abort == pc # "idle" /\ Rollback

\* A file that is gone when it is opened: directory hands the nil OID of the
\* failed regularFile to writer.Add, which panics.  A link that is gone is an
\* error, which ends the backup as well.
Vanished ==
  /\ pc = "dump" /\ Top.todo # <<>> /\ Item.name \notin Dirs
  /\ Item.name \in Links \/ Cached = {}
  /\ ~live[Item.name].here
  /\ Rollback

-----------------------------------------------------------------------------
(* Regeneration of the cache from a backup: store.Walk with regenState. *)

RegenFrame(node) ==
  [name |-> Root, ino |-> node.ino, todo |-> Entries(node.children), old |-> {},
   new |-> {}, done |-> <<>>]

RegenBack(b) ==
  /\ pc = "idle" /\ regens < MaxRegens
  /\ b.kind = "back"
  /\ regens' = regens + 1
  /\ source' = b
  /\ pc' = "regen"
  /\ base' = b.date /\ now' = clock
  /\ stack' = <<RegenFrame(b.hash)>>
  /\ changed' = {}
  /\ UNCHANGED <<userVars, poolVars, cache, ctx, blocks, head, dumps, seen, racy, last, readings>>

Node == Item[2]

RegenEnter ==
  /\ pc = "regen" /\ Top.todo # <<>> /\ Node.kind = "DIR"
  /\ stack' = Append([stack EXCEPT ![Len(stack)].todo = Tail(@)], RegenFrame(Node))
  /\ UNCHANGED <<userVars, poolVars, cache, ctx, pc, base, now, blocks, head, source, dumps,
                 regens, changed, seen, racy, last, readings>>

RegenOpen ==
  /\ pc = "regen" /\ Top.todo # <<>> /\ Node.kind = "REG"
  /\ \E age \in Ages :
       LET row == NewRow(Node.ino, Node.ctime, Node.data, age) IN
       SetTop([Top EXCEPT !.todo = Tail(@),
                          !.new = {e \in @ : e.ino # row.ino} \cup {row}])
  /\ UNCHANGED <<userVars, poolVars, cache, ctx, pc, base, now, blocks, head, source, dumps,
                 regens, changed, seen, racy, last, readings>>

\* Whatever else the walker meets.
RegenSkip ==
  /\ pc = "regen" /\ Top.todo # <<>> /\ Node.kind = "LNK"
  /\ SetTop([Top EXCEPT !.todo = Tail(@)])
  /\ UNCHANGED <<userVars, poolVars, cache, ctx, pc, base, now, blocks, head, source, dumps,
                 regens, changed, seen, racy, last, readings>>

\* Mutant: cwd is taken after it has been set to the parent.
RegenLeaveLate ==
  LET info == IF Len(stack) = 1 THEN Top ELSE Last(Front(stack)) IN
  /\ pc = "regen" /\ Top.todo = <<>>
  /\ UpdateDir(info.ino, info.new)
  /\ stack' = Front(stack)
  /\ pc' = IF Len(stack) = 1 THEN "commit" ELSE pc
  /\ UNCHANGED <<userVars, poolVars, cache, base, now, blocks, head, source, dumps,
                 regens, changed, seen, racy, last, readings>>

RegenLeave ==
  /\ pc = "regen" /\ Top.todo = <<>>
  /\ UpdateDir(Top.ino, Top.new)
  /\ stack' = Front(stack)
  /\ pc' = IF Len(stack) = 1 THEN "commit" ELSE pc
  /\ UNCHANGED <<userVars, poolVars, cache, base, now, blocks, head, source, dumps, regens,
                 changed, seen, racy, last, readings>>

-----------------------------------------------------------------------------
\* What happens on another device is left out: a dump looks at none of it.
User ==
  \/ Tick
  \/ \E f \in {f \in Leaves : SameDevice(f)} :
       \/ \E c \in Contents : Modify(f, c) \/ Create(f, c)
       \/ Unlink(f)

Dump ==
  \/ Backup \/ EnterDir \/ ReuseFile \/ OpenFile \/ ReadBlock \/ FinishFile
  \/ PlainNode \/ LeaveDir \/ WriteBack \/ Vanished

Regen ==
  (\E b \in durable : RegenBack(b)) \/ RegenEnter \/ RegenOpen \/ RegenSkip \/ RegenLeave

Next == User \/ Dump \/ Regen \/ RunExpire \/ Commit \/ Abort

Spec == Init /\ [][Next]_vars

-----------------------------------------------------------------------------
(* Properties. *)

Pcs == {"idle", "dump", "read", "back", "regen", "commit"}

TypeOK ==
  /\ clock \in 0..MaxClock
  /\ live \in [Leaves -> [here : BOOLEAN, data : Contents, ctime : 0..clock]]
  /\ pc \in Pcs
  /\ stack \in Seq(Range(stack))
  /\ pc \in {"dump", "read", "regen"} <=> stack # <<>>
  /\ DOMAIN cache = DirInos /\ DOMAIN ctx = DirInos
  /\ changed \subseteq Leaves /\ racy \subseteq Leaves /\ seen \subseteq Leaves

\* A chunk is never durable before all it refers to: whatever was listed once
\* can be restored.  The data OIDs that come from the cache are not asked for.
Closed == \A c \in durable : Refs(c) \subseteq durable

\* What the entries of that name in a directory of a backup are.
Named(n, name) == {e[2] : e \in {x \in Range(Entries(n.children)) : x[1] = name}}

Down(nodes, name) == UNION {Named(n, name) : n \in nodes}

\* The nodes to which the names of path p after the j-th lead, from node n.
Below(n, p, j) ==
  LET at[k \in j..Len(p)] == IF k = j THEN {n} ELSE Down(at[k - 1], p[k])
  IN at[Len(p)]

\* The nodes a backup shows under the path of f.
NodesAt(f) == Below(head, Path[f], 0)

\* File or link f as it is on disk: its data, its node.
Content(f) == FileData([k \in DOMAIN live[f].data |-> Blob(live[f].data[k])])
AsIs(f) == IF f \in Links THEN Lnk(f, live[f].ctime, live[f].data)
                          ELSE Reg(f, live[f].ctime, Content(f))

\* A dump that is about to commit shows every file and link that nobody changed
\* since it started exactly as it is (or is not) on disk, and none of another
\* device, whatever the cache, earlier backups, failed backups and regenerations
\* left behind.  The exception is a file rewritten within the clock tick in which
\* a dump had already looked at it, which its ctime does not betray.
Faithful ==
  pc = "commit" /\ head # Null =>
    \A f \in Leaves \ (changed \cup racy) :
      NodesAt(f) = IF live[f].here /\ SameDevice(f) THEN {AsIs(f)} ELSE {}

\* Does the file node n say what the row e says?
Repeats(e, n) ==
  n.kind = "REG" /\ n.ino = e.ino /\ n.ctime = e.ctime /\ n.data = e.oid

\* The rows of the directory with inode i are good for a pool of these chunks.
VouchedFor(i, es, chunks) ==
  \A e \in es :
    /\ e.oid \in chunks
    /\ \E d \in chunks :
         d.kind = "DIR" /\ d.ino = i /\ \E n \in Refs(d.children) : Repeats(e, n)

\* Every row of the cache repeats what a backup in the pool says of a file of
\* that directory, and that backup holds the data: neither an aborted dump nor
\* a regeneration leaves rows that nothing durable vouches for.
Vouched == \A i \in DirInos : VouchedFor(i, cache[i], durable)

Longest == CHOOSE a \in Ages : \A b \in Ages : b <= a

\* How long k regenerations and the dumps between them can trust what was read once.
Lease(k) == (k + 1) * Longest

\* Did a dump read this data of inode i under ctime c, a lease before t or later?
ReadFor(i, c, d, t, lease) ==
  \E r \in readings : r.ino = i /\ r.ctime = c /\ r.oid = d /\ t <= r.at + lease

\* A row expires at most the longest age after a dump has really read its data, under
\* its ctime, however many dumps use it again: none gives it a new expiry.  Every
\* regeneration may add one more age, since it counts from the date of the backup it
\* walks, and that backup may have taken the data from the cache.
BoundedTrust ==
  \A i \in DirInos : \A e \in cache[i] :
    ReadFor(e.ino, e.ctime, e.oid, e.expire, Lease(regens))

\* Regenerating from the last dump rebuilds the rows that dump left, expiry
\* apart, whatever happened to the cache in between.
RegenRebuilds ==
  pc = "commit" /\ head = Null /\ source = last.back => Said(ctx) = last.cache

(***************************************************************************)
(* Why: chunks are inserted after all they refer to, a row is kept with    *)
(* the node that repeats it, in the frame of one directory, and reaches    *)
(* the table with the node of that directory; the session sees what it     *)
(* inserted, and loses rows and chunks together.                           *)
(***************************************************************************)

\* The chunks the session sees.
View == durable \cup pending[Me]

Names == Dirs \cup Leaves

\* A chunk that can be stored where these chunks are.
WellMade(c, chunks) ==
  /\ c.kind \in {"null", "blob", "ind", "REG", "LNK", "dir", "DIR", "back"}
  /\ Refs(c) \subseteq chunks
  /\ c.kind = "dir" => /\ c.entries \in Seq(Names \X chunks)
                       /\ \A n \in Refs(c) : n.kind \in {"REG", "LNK", "DIR"}
  /\ c.kind = "DIR" => c.children = Null \/ c.children.kind = "dir"
  /\ c.kind = "back" => c.hash.kind = "DIR" /\ c.date \in Nat

GoodPool == LET chunks == View IN \A c \in chunks : WellMade(c, chunks)

GoodRow(e, chunks) ==
  e.oid \in chunks /\ e.expire \in Nat

GoodRows(es, chunks) == \A e \in es : GoodRow(e, chunks)

GoodTables ==
  LET chunks == View IN
  \A i \in DirInos :
    /\ GoodRows(cache[i], durable) /\ VouchedFor(i, cache[i], durable)
    /\ GoodRows(ctx[i], chunks) /\ VouchedFor(i, ctx[i], chunks)

\* A directory that is being dumped, with the rows and nodes it has so far.
DumpFrame(f, chunks) ==
  /\ DOMAIN f = {"name", "ino", "todo", "old", "new", "done"}
  /\ f.name \in Dirs /\ f.ino = Ino[f.name]
  /\ f.todo \in Seq([name : Names, ctime : Nat])
  /\ GoodRows(f.old, chunks) /\ GoodRows(f.new, chunks)
  /\ f.done \in Seq(Names \X chunks)
  /\ \A k \in DOMAIN f.done : f.done[k][2].kind \in {"REG", "LNK", "DIR"}
  /\ \A e \in f.new : \E k \in DOMAIN f.done : Repeats(e, f.done[k][2])

\* A directory of a backup that a regeneration walks.
RegenFrameOf(f, d) ==
  /\ d.kind = "DIR" /\ d.ino = f.ino
  /\ \A k \in DOMAIN f.todo : f.todo[k][2] \in Refs(d.children)
  /\ \A e \in f.new : \E n \in Refs(d.children) : Repeats(e, n)

RegenFrameOK(f) ==
  /\ DOMAIN f = {"name", "ino", "todo", "old", "new", "done"}
  /\ f.todo \in Seq(Names \X durable)
  /\ GoodRows(f.new, durable)
  /\ \E d \in durable : RegenFrameOf(f, d)

GoodWalk ==
  /\ pc \in {"dump", "read"} =>
       /\ \A f \in Range(stack) : DumpFrame(f, View)
       /\ \A k \in 1..(Len(stack) - 1) : stack[k].todo # <<>>
  /\ pc = "regen" => \A f \in Range(stack) : RegenFrameOK(f)
  /\ pc = "read" => Top.todo # <<>> /\ Item.name \in Files /\ blocks \in Seq(View)
  /\ pc = "back" => head \in View /\ head.kind = "DIR"

GoodClock ==
  /\ base \in Nat
  /\ pc \in {"dump", "read", "back"} => base <= clock
  /\ pc = "regen" => source \in durable /\ source.kind = "back" /\ base = source.date

BetweenSessions == pc = "idle" => ctx = cache /\ pending[Me] = {}

IInv ==
  /\ TypeOK /\ DOMAIN pending = {Me}
  /\ Closed /\ GoodPool /\ GoodTables /\ GoodWalk /\ GoodClock /\ BetweenSessions

(***************************************************************************)
(* Why a dump is faithful: a ctime stands for a content unless the file is *)
(* racy, in every row and node, and every directory on the way holds what  *)
(* Readdir found, each name once, still to do or done; all this for a tree *)
(* of names, in which a file has one name.                                 *)
(***************************************************************************)

Kept == Leaves \ (changed \cup racy)

\* A row or node of inode i, ctime t and data d is right about the file, or it is
\* known by the ctime that it is not.
Right(i, t, d) ==
  \A f \in Files : SameDevice(f) /\ Ino[f] = i =>
    /\ t \in 0..clock /\ (t = clock => f \in seen)
    /\ live[f].here /\ live[f].ctime = t /\ f \notin racy => d = Content(f)

NodesRight == \A n \in View : n.kind = "REG" => Right(n.ino, n.ctime, n.data)

\* What leads from node n, the j-th on the path of f, is f as it is.
Shows(n, f, j) ==
  Below(n, Path[f], j) =
    IF live[f].here /\ \A k \in DOMAIN Path[f] : k >= j => Path[f][k] \notin Foreign
      THEN {AsIs(f)} ELSE {}

\* No directory above d, nor d, is of another device.
SameDeviceDir(d) ==
  \A f \in Leaves : \A j \in DOMAIN Path[f] :
    Path[f][j] = d => \A k \in 1..j : Path[f][k] \notin Foreign

TodoNames(fr) == {fr.todo[k].name : k \in DOMAIN fr.todo}
DoneNames(fr) == {fr.done[k][1] : k \in DOMAIN fr.done}

\* The names of the directory, each of them to do or done, and only once.
NamesComplete(fr) ==
  /\ \A j, k \in DOMAIN fr.todo : fr.todo[j].name = fr.todo[k].name => j = k
  /\ \A j, k \in DOMAIN fr.done : fr.done[j][1] = fr.done[k][1] => j = k
  /\ TodoNames(fr) \cap DoneNames(fr) = {}
  /\ TodoNames(fr) \cup DoneNames(fr) \subseteq
       {x \in Range(Children[fr.name]) :
          fr.name \notin Foreign /\ (x \in Dirs \cup changed \/ live[x].here)}
  /\ fr.name \notin Foreign =>
       {x \in Range(Children[fr.name]) : x \in Dirs \/ (x \notin changed /\ live[x].here)}
         \subseteq TodoNames(fr) \cup DoneNames(fr)

\* What Readdir said of a file that is still to do.
StatRight(x, t) ==
  x \in Leaves =>
    /\ t \in 0..clock /\ (t = clock => x \in seen)
    /\ x \notin changed => t = live[x].ctime

FrameRight(fr) ==
  /\ \A e \in fr.old : Right(e.ino, e.ctime, e.oid)
  /\ NamesComplete(fr)
  /\ \A k \in DOMAIN fr.todo : StatRight(fr.todo[k].name, fr.todo[k].ctime)
  /\ fr.todo # <<>> => SameDeviceDir(fr.name)
  /\ \A k \in DOMAIN fr.done : \A f \in Kept : \A j \in DOMAIN Path[f] :
       Path[f][j] = fr.done[k][1] => Shows(fr.done[k][2], f, j)

WalkRight ==
  pc \in {"dump", "read"} =>
    /\ stack[1].name = Root
    /\ \A k \in DOMAIN stack :
         /\ FrameRight(stack[k])
         /\ k < Len(stack) => Head(stack[k].todo).name = stack[k + 1].name

ReadRight ==
  pc = "read" =>
    LET f == Item.name IN
    live[f].here /\ live[f].ctime = Item.ctime /\ f \notin racy =>
      /\ Len(blocks) <= Len(live[f].data)
      /\ \A k \in DOMAIN blocks : blocks[k] = Blob(live[f].data[k])

HeadRight ==
  head # Null => pc \in {"back", "commit"} /\ \A f \in Kept : Shows(head, f, 0)

AllRight == NodesRight /\ WalkRight /\ ReadRight /\ HeadRight

FaithInv == IInv /\ AllRight

\* cache.go:26: "The time we created the cache.  Entries that expire before
\* this time will be discarded."
ExpiredDiscarded ==
  pc = "commit" =>
    \A i \in DirInos : ctx[i] # cache[i] => \A e \in ctx[i] : e.expire >= now
=============================================================================

------------------------------ MODULE Restore ------------------------------
(***************************************************************************)
(* Restoring a backup: the walker (store/decode.go) and the visitor of     *)
(* godump/restore, system call by system call.                             *)
(*                                                                         *)
(* A directory is made with mode 0700 before its entries are visited, and  *)
(* gets its owner, mode and mtime after them; a file is created with mode  *)
(* 0600, written blob by blob, and then gets its own.  Nothing that exists *)
(* is opened, so anything in the way ends the restore.  The file system    *)
(* has its say: an entry made in a directory changes the directory's       *)
(* mtime, chown clears the set-user-id bit, and without being root one     *)
(* gets nowhere in a directory whose mode forbids it.                      *)
(***************************************************************************)
EXTENDS Integers, Sequences, FiniteSets, TLC, SequencesExt

CONSTANTS
  Trees,     \* backups: functions from paths (sequences of names) to nodes
  User,      \* user number of whoever runs the restore without being root
  MaxInt,    \* largest user number GetInt accepts, 2^31 - 1 in the code
  Now,       \* an mtime that no node of a backup has
  MaxOthers  \* bound on the files other processes create

Kinds == {"DIR", "REG", "LNK", "FIFO"}
Modes == {"rw", "ro", "none"}

NamesIn(t) == UNION {Range(t[p].names) : p \in DOMAIN t}
BlobsIn(t) == UNION {Range(t[p].data) : p \in DOMAIN t}

\* A directory's names are those of its entries, each there once.
WellFormed(t) ==
  /\ <<>> \in DOMAIN t /\ t[<<>>].kind = "DIR"
  /\ \A p \in DOMAIN t :
       /\ p \in Seq(NamesIn(t)) /\ t[p].names \in Seq(NamesIn(t)) /\ t[p].data \in Seq(BlobsIn(t))
       /\ t[p].kind \in Kinds /\ t[p].mode \in Modes
       /\ t[p].suid \in BOOLEAN /\ t[p].uid \in Nat /\ t[p].mtime # Now
       /\ t[p].kind = "DIR" => t[p].data = <<>>
       /\ IsInjective(t[p].names)
       /\ \A n \in Range(t[p].names) : Append(p, n) \in DOMAIN t
       /\ p # <<>> => /\ Front(p) \in DOMAIN t /\ t[Front(p)].kind = "DIR"
                      /\ Last(p) \in Range(t[Front(p)].names)

ASSUME RestoreAssumption ==
  /\ \A t \in Trees : WellFormed(t)
  /\ User \in Nat /\ MaxInt \in Nat /\ MaxOthers \in Nat

VARIABLES
  tree,     \* the backup
  isRoot,   \* does root run the restore?
  faults,   \* may system calls fail by themselves in this behaviour?
  fs,       \* what is in the place the backup is restored to
  others,   \* paths of files that others created there
  pc,       \* what the walker does next
  path,     \* the visitor's path
  todo,     \* names still to visit, in each directory on the path
  blobs     \* blobs still to write to the open file

fixed == <<tree, isRoot, faults>>
vars == <<fixed, fs, others, pc, path, todo, blobs>>

node == tree[path]

Me == IF isRoot THEN 0 ELSE User

Fresh(kind) ==
  [kind |-> kind, data |-> <<>>, mode |-> "own", suid |-> FALSE, uid |-> Me, mtime |-> Now]

Ancestors(p) == {SubSeq(p, 1, k) : k \in 0..(Len(p) - 1)}

\* An entry at p, and what that does to its directory.
With(p, entry) ==
  [q \in DOMAIN fs \cup {p} |->
     IF q = p THEN entry
     ELSE IF p # <<>> /\ q = Front(p) THEN [fs[q] EXCEPT !.mtime = Now] ELSE fs[q]]

MayReach(p) ==
  \A q \in Ancestors(p) : q \in DOMAIN fs /\ (isRoot \/ fs[q].mode # "none")

MayCreate(p) ==
  /\ p \notin DOMAIN fs /\ MayReach(p)
  /\ p # <<>> => isRoot \/ fs[Front(p)].mode \in {"own", "rw"}

-----------------------------------------------------------------------------
\* The place may be taken.
Init ==
  /\ tree \in Trees
  /\ isRoot \in BOOLEAN /\ faults \in BOOLEAN
  /\ \/ fs = <<>> /\ others = {}
     \/ fs = [p \in {<<>>} |-> Fresh("DIR")] /\ others = {<<>>}
  /\ pc = "node"
  /\ path = <<>> /\ todo = <<>> /\ blobs = <<>>

Others(p) ==
  /\ Cardinality(others) < MaxOthers
  /\ p \notin DOMAIN fs
  /\ p # <<>> => Front(p) \in DOMAIN fs /\ Front(p) \notin others
  /\ fs' = With(p, Fresh("REG"))
  /\ others' = others \cup {p}
  /\ UNCHANGED <<fixed, pc, path, todo, blobs>>

\* A call that returns an error ends the walk, in all its levels.
Fail ==
  /\ pc' = "failed"
  /\ UNCHANGED <<fs, path, todo, blobs>>

\* Mutant: the directory is made with the mode of the backup.
EnterWithMode ==
  /\ pc = "node" /\ node.kind = "DIR"
  /\ \/ /\ MayCreate(path)
        /\ fs' = With(path, [Fresh("DIR") EXCEPT !.mode = node.mode])
        /\ todo' = Append(todo, node.names)
        /\ pc' = "next"
        /\ UNCHANGED <<path, blobs>>
     \/ (faults \/ ~MayCreate(path)) /\ Fail
  /\ UNCHANGED <<fixed, others>>

\* Enter: os.Mkdir.
Enter ==
  /\ pc = "node" /\ node.kind = "DIR"
  /\ \/ /\ MayCreate(path)
        /\ fs' = With(path, Fresh("DIR"))
        /\ todo' = Append(todo, node.names)
        /\ pc' = "next"
        /\ UNCHANGED <<path, blobs>>
     \/ (faults \/ ~MayCreate(path)) /\ Fail
  /\ UNCHANGED <<fixed, others>>

\* Mutant: the mode is set before the owner.
AfterModeFirst(call) ==
  CASE call = "close" -> "chmod" [] call = "chmod" -> "chown" [] call = "chown" -> "utimes"

\* restoreReg: the order of its calls, after the close of a file or the last entry.
After(call) ==
  CASE call = "close" -> "chown" [] call = "chown" -> "chmod" [] call = "chmod" -> "utimes"

\* dirHandler: the next entry of the directory, or Leave.
NextEntry ==
  /\ pc = "next"
  /\ IF Last(todo) # <<>>
       THEN /\ path' = Append(path, Head(Last(todo)))
            /\ todo' = [todo EXCEPT ![Len(todo)] = Tail(@)]
            /\ pc' = "node"
       ELSE pc' = After("close") /\ UNCHANGED <<path, todo>>
  /\ UNCHANGED <<fixed, fs, others, blobs>>

\* Mutant: an existing file is truncated.
OpenTruncates ==
  /\ pc = "node" /\ node.kind = "REG"
  /\ \/ /\ MayReach(path) /\ (path \in DOMAIN fs \/ MayCreate(path))
        /\ fs' = With(path, Fresh("REG"))
        /\ blobs' = node.data
        /\ pc' = "blob"
        /\ UNCHANGED <<path, todo>>
     \/ (faults \/ ~MayCreate(path)) /\ Fail
  /\ UNCHANGED <<fixed, others>>

\* Mutant: the file is created with the mode of the backup.
OpenWithMode ==
  /\ pc = "node" /\ node.kind = "REG"
  /\ \/ /\ MayCreate(path)
        /\ fs' = With(path, [Fresh("REG") EXCEPT !.mode = node.mode])
        /\ blobs' = node.data
        /\ pc' = "blob"
        /\ UNCHANGED <<path, todo>>
     \/ (faults \/ ~MayCreate(path)) /\ Fail
  /\ UNCHANGED <<fixed, others>>

\* Open: O_CREATE and O_EXCL.
Open ==
  /\ pc = "node" /\ node.kind = "REG"
  /\ \/ /\ MayCreate(path)
        /\ fs' = With(path, Fresh("REG"))
        /\ blobs' = node.data
        /\ pc' = "blob"
        /\ UNCHANGED <<path, todo>>
     \/ (faults \/ ~MayCreate(path)) /\ Fail
  /\ UNCHANGED <<fixed, others>>

\* Blob, or the close of the file after the last one.
Blob ==
  /\ pc = "blob"
  /\ \/ IF blobs # <<>>
          THEN /\ fs' = [fs EXCEPT ![path].data = Append(@, Head(blobs)),
                                   ![path].mtime = Now]
               /\ blobs' = Tail(blobs)
               /\ UNCHANGED <<pc, path, todo>>
          ELSE pc' = After("close") /\ UNCHANGED <<fs, path, todo, blobs>>
     \/ faults /\ Fail
  /\ UNCHANGED <<fixed, others>>

\* Mutant: the name of an entry stays on the path.
DoneKeepsName ==
  /\ todo' = IF node.kind = "DIR" THEN Front(todo) ELSE todo
  /\ pc' = IF path = <<>> THEN "done" ELSE "next"
  /\ UNCHANGED path

\* PopPath: back to the directory of the entry; the walk ends with the root.
Done ==
  /\ todo' = IF node.kind = "DIR" THEN Front(todo) ELSE todo
  /\ path' = IF path = <<>> THEN path ELSE Front(path)
  /\ pc' = IF path = <<>> THEN "done" ELSE "next"

\* Node: a symbolic link; other kinds are logged and left out.
Node ==
  /\ pc = "node" /\ node.kind \notin {"DIR", "REG"}
  /\ \/ /\ node.kind = "LNK" /\ MayCreate(path)
        /\ fs' = With(path, [Fresh("LNK") EXCEPT !.data = node.data])
        /\ pc' = "lchown"
        /\ UNCHANGED <<path, todo, blobs>>
     \/ node.kind = "LNK" /\ (faults \/ ~MayCreate(path)) /\ Fail
     \/ node.kind # "LNK" /\ Done /\ UNCHANGED <<fs, blobs>>
  /\ UNCHANGED <<fixed, others>>

\* propChown, only for root: GetInt, then chown or lchown.
Owned == [fs EXCEPT ![path].uid = node.uid, ![path].suid = @ /\ node.kind = "DIR"]

ChownFails == faults \/ node.uid > MaxInt

Lchown ==
  /\ pc = "lchown"
  /\ \/ ~isRoot /\ Done /\ UNCHANGED <<fs, blobs>>
     \/ isRoot /\ node.uid <= MaxInt /\ fs' = Owned /\ Done /\ UNCHANGED blobs
     \/ isRoot /\ ChownFails /\ Fail
  /\ UNCHANGED <<fixed, others>>

Chown ==
  /\ pc = "chown"
  /\ \/ ~isRoot /\ pc' = After(pc) /\ UNCHANGED <<fs, path, todo, blobs>>
     \/ /\ isRoot /\ node.uid <= MaxInt
        /\ fs' = Owned /\ pc' = After(pc)
        /\ UNCHANGED <<path, todo, blobs>>
     \/ isRoot /\ ChownFails /\ Fail
  /\ UNCHANGED <<fixed, others>>

Chmod ==
  /\ pc = "chmod"
  /\ \/ /\ MayReach(path)
        /\ fs' = [fs EXCEPT ![path].mode = node.mode, ![path].suid = node.suid]
        /\ pc' = After(pc)
        /\ UNCHANGED <<path, todo, blobs>>
     \/ (faults \/ ~MayReach(path)) /\ Fail
  /\ UNCHANGED <<fixed, others>>

Chtimes ==
  /\ pc = "utimes"
  /\ \/ /\ MayReach(path)
        /\ fs' = [fs EXCEPT ![path].mtime = node.mtime]
        /\ Done
        /\ UNCHANGED blobs
     \/ (faults \/ ~MayReach(path)) /\ Fail
  /\ UNCHANGED <<fixed, others>>

\* The process dies, or a chunk cannot be read.
Stop ==
  /\ faults /\ pc \notin {"done", "failed"}
  /\ Fail
  /\ UNCHANGED <<fixed, others>>

Walk ==
  \/ Enter \/ NextEntry \/ Open \/ Blob \/ Node \/ Lchown
  \/ Chown \/ Chmod \/ Chtimes \/ Stop

Next == Walk \/ \E p \in DOMAIN tree : Others(p)

Spec == Init /\ [][Next]_vars

-----------------------------------------------------------------------------
Entries ==
  [kind : Kinds, data : Seq(BlobsIn(tree)),
   mode : Modes \cup {"own"}, suid : BOOLEAN, uid : Nat,
   mtime : {Now} \cup {tree[p].mtime : p \in DOMAIN tree}]

(***************************************************************************)
(* Shape of the state: the stacks of the visitor (PathTrackerImpl) and of  *)
(* the walker's dirHandlers agree, whatever was visited and left out.      *)
(***************************************************************************)
TypeOK ==
  /\ tree \in Trees /\ isRoot \in BOOLEAN /\ faults \in BOOLEAN
  /\ path \in DOMAIN tree
  /\ todo \in Seq(Seq(NamesIn(tree))) /\ blobs \in Seq(BlobsIn(tree))
  /\ DOMAIN fs \subseteq DOMAIN tree /\ others \subseteq DOMAIN fs
  /\ \A p \in DOMAIN fs : fs[p] \in Entries
  /\ pc \in {"node", "next", "blob", "lchown", "chown", "chmod", "utimes", "done", "failed"}
  /\ pc \in {"node", "blob", "lchown"} => Len(todo) = Len(path)
  /\ pc = "next" => Len(todo) = Len(path) + 1
  /\ pc \in {"chown", "chmod", "utimes"} =>
       Len(todo) = Len(path) + (IF node.kind = "DIR" THEN 1 ELSE 0)
  /\ pc = "done" => todo = <<>> /\ path = <<>>

restored == {p \in DOMAIN tree : tree[p].kind # "FIFO"}

Owner(p) == IF isRoot THEN tree[p].uid ELSE Me

(***************************************************************************)
(* A restore that ends well, in a place nobody else writes to, leaves the  *)
(* files, directories and links of the backup and nothing else, with their *)
(* contents and attributes.  That takes the calls in this order: chown     *)
(* clears what chmod sets, and a new entry what utimes set in its          *)
(* directory.  A link keeps the time at which it was restored, and only    *)
(* root restores owners.                                                   *)
(***************************************************************************)
Matches ==
  pc = "done" /\ others = {} =>
    /\ DOMAIN fs = restored
    /\ \A p \in restored :
         /\ fs[p].kind = tree[p].kind
         /\ fs[p].data = tree[p].data
         /\ fs[p].uid = Owner(p)
         /\ tree[p].kind # "LNK" =>
              /\ fs[p].mode = tree[p].mode /\ fs[p].suid = tree[p].suid
              /\ fs[p].mtime = tree[p].mtime

Complete(p) ==
  p \in DOMAIN fs /\ fs[p].data = tree[p].data /\ fs[p].uid = Owner(p)

(***************************************************************************)
(* Whenever the restore is stopped, a file with the mode of the backup has *)
(* the contents and the owner of the backup, and a directory with the mode *)
(* of the backup has all its entries, complete and with their modes: Open  *)
(* and Enter make them with modes of their own until then.                 *)
(***************************************************************************)
PrivateUntilComplete ==
  \A p \in DOMAIN fs \ others :
    fs[p].mode # "own" =>
      \A q \in restored :
        IsPrefix(p, q) =>
          Complete(q) /\ (tree[q].kind # "LNK" => fs[q].mode # "own")

(***************************************************************************)
(* What others have in the place, before the restore or since, is neither  *)
(* written to nor changed by it (O_EXCL in Open, os.Mkdir in Enter,        *)
(* os.Symlink in restoreLink).                                             *)
(***************************************************************************)
NoClobber == [][\A p \in others : p \in DOMAIN fs' /\ fs'[p] = fs[p]]_vars

(***************************************************************************)
(* The restore does not stop itself: without a failing call, without       *)
(* anything in its way, and as long as root meets no user number beyond    *)
(* GetInt, it does not fail, whatever modes the backup's directories have. *)
(***************************************************************************)
FailsOnlyWhenHindered ==
  pc = "failed" =>
    faults \/ others # {} \/ (isRoot /\ \E p \in restored : tree[p].uid > MaxInt)

(***************************************************************************)
(* Why: at any moment the tree is cut by the path.  What was visited is    *)
(* complete, what is on the path is there with a mode of its own, and of   *)
(* what is still to visit nothing is there.                                *)
(***************************************************************************)
Mine == DOMAIN fs \ others

\* The directory of the k-th level, whose names still to visit todo[k] has.
Dir(k) == SubSeq(path, 1, k - 1)

Restored(p) ==
  tree[p].kind # "FIFO" =>
    /\ p \in Mine
    /\ fs[p].kind = tree[p].kind /\ fs[p].data = tree[p].data /\ fs[p].uid = Owner(p)
    /\ tree[p].kind # "LNK" =>
         /\ fs[p].mode = tree[p].mode /\ fs[p].suid = tree[p].suid
         /\ others = {} => fs[p].mtime = tree[p].mtime

\* Made, without the attributes of the backup.
Made(p) ==
  /\ p \in Mine
  /\ fs[p].kind = tree[p].kind /\ fs[p].mode = "own" /\ fs[p].uid = Me

ToVisit ==
  pc # "failed" => \A k \in DOMAIN todo :
    /\ Dir(k) \in DOMAIN tree /\ tree[Dir(k)].kind = "DIR"
    /\ Range(todo[k]) \subseteq Range(tree[Dir(k)].names) /\ IsInjective(todo[k])
    /\ k <= Len(path) => path[k] \notin Range(todo[k])
    /\ \A n \in Range(todo[k]) : Append(Dir(k), n) \notin Mine

Visited ==
  pc # "failed" => \A k \in DOMAIN todo :
    \A n \in Range(tree[Dir(k)].names) \ Range(todo[k]) :
      k > Len(path) \/ n # path[k] => Restored(Append(Dir(k), n))

OnPath ==
  pc # "failed" =>
    \A k \in 1..Len(path) : Made(Dir(k)) /\ tree[Dir(k)].kind = "DIR" /\ fs[Dir(k)].data = <<>>

Current ==
  /\ pc = "node" => path \notin Mine
  /\ pc = "next" => Made(path) /\ node.kind = "DIR" /\ fs[path].data = <<>>
  /\ pc = "blob" => Made(path) /\ node.kind = "REG" /\ fs[path].data \o blobs = node.data
  /\ pc = "lchown" => Made(path) /\ node.kind = "LNK" /\ fs[path].data = node.data
  /\ pc \in {"chown", "chmod", "utimes"} =>
       /\ node.kind \in {"DIR", "REG"}
       /\ path \in Mine /\ fs[path].kind = node.kind /\ fs[path].data = node.data
       /\ node.kind = "DIR" => Last(todo) = <<>>
  /\ pc = "chown" => Made(path)
  /\ pc = "chmod" => fs[path].mode = "own" /\ fs[path].uid = Owner(path)
  /\ pc = "utimes" =>
       fs[path].mode = node.mode /\ fs[path].suid = node.suid /\ fs[path].uid = Owner(path)
  /\ pc = "done" => Restored(<<>>)

Kept ==
  \A p \in Mine :
    /\ tree[p].kind # "FIFO"
    /\ p # <<>> => Front(p) \in Mine
    /\ fs[p].mode # "own" => Complete(p) /\ \A n \in Range(tree[p].names) : Restored(Append(p, n))

IInv == TypeOK /\ ToVisit /\ Visited /\ OnPath /\ Current /\ Kept /\ FailsOnlyWhenHindered
=============================================================================

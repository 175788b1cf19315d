------------------------------ MODULE Readdir ------------------------------
(***************************************************************************)
(* Reading a directory for a backup: linuxdir.Readdir, which collects the  *)
(* names and inode numbers readdir_r gives out, and dump.Readdir, which    *)
(* then calls lstat on each of them, in the order of the inode numbers,    *)
(* and sorts what it got by name.                                          *)
(*                                                                         *)
(* Users create and remove files all the while.  readdir_r gives out every *)
(* name that is there from opendir on, once, and may or may not give out   *)
(* those that come or go.                                                  *)
(***************************************************************************)
EXTENDS Naturals, FiniteSets, Sequences, SequencesExt

CONSTANTS
  Names,     \* names, as their positions in the order of names
  Ino,       \* Ino[n]: inode number in the directory entry; links share one
  Faults,    \* may a system call fail by itself?
  MaxEdits   \* bound on the changes users make

ASSUME ReaddirAssumption ==
  /\ Names \subseteq Nat /\ Ino \in [Names -> Nat]
  /\ Faults \in BOOLEAN /\ MaxEdits \in Nat

VARIABLES
  there,    \* there[n]: the file of that name, 0 for none
  edits,    \* changes made by users
  pc,       \* "call", "list" (readdir_r), "stat" (lstat), "returned"
  listed,   \* names collected by linuxdir.Readdir
  todo,     \* names not yet passed to lstat
  found,    \* names with what lstat said of them
  entries,  \* what dump.Readdir returns,
  err,      \* ... and whether with an error
  (* History, for the properties only. *)
  stayed,   \* names there without a break since opendir
  gone,     \* names removed since opendir
  fault     \* did a call fail that could have succeeded?

dirVars == <<there, edits, stayed, gone>>
vars == <<dirVars, pc, listed, todo, found, entries, err, fault>>

Init ==
  /\ there \in [Names -> {0, 1}]
  /\ edits = 0
  /\ pc = "call"
  /\ listed = {} /\ todo = {} /\ found = {} /\ entries = <<>>
  /\ err = FALSE
  /\ stayed = {} /\ gone = {} /\ fault = FALSE

(* Users. *)

Link(n) ==
  /\ edits < MaxEdits /\ there[n] = 0
  /\ edits' = edits + 1
  /\ there' = [there EXCEPT ![n] = edits + 2]
  /\ UNCHANGED <<pc, listed, todo, found, entries, err, stayed, gone, fault>>

Unlink(n) ==
  /\ edits < MaxEdits /\ there[n] # 0
  /\ edits' = edits + 1
  /\ there' = [there EXCEPT ![n] = 0]
  /\ stayed' = stayed \ {n}
  /\ gone' = IF pc = "call" THEN gone ELSE gone \cup {n}
  /\ UNCHANGED <<pc, listed, todo, found, entries, err, fault>>

(* linuxdir.Readdir *)

Open ==
  /\ pc = "call"
  /\ \/ pc' = "list" /\ UNCHANGED <<err, fault>>
     \/ Faults /\ pc' = "returned" /\ err' = TRUE /\ fault' = TRUE
  /\ stayed' = {n \in Names : there[n] # 0}
  /\ UNCHANGED <<there, edits, listed, todo, found, entries, gone>>

ReadEntry ==
  /\ pc = "list"
  /\ \E n \in Names \ listed :
       /\ there[n] # 0 \/ n \in gone
       /\ listed' = listed \cup {n}
  /\ UNCHANGED <<dirVars, pc, todo, found, entries, err, fault>>

\* readdir_r sets no entry, at the end and for an error alike: both become
\* io.EOF, which becomes no error.
ReadEnd ==
  /\ pc = "list"
  /\ \/ stayed \subseteq listed /\ UNCHANGED fault
     \/ Faults /\ fault' = TRUE
  /\ pc' = "stat"
  /\ todo' = listed
  /\ UNCHANGED <<dirVars, listed, found, entries, err>>

(* dump.Readdir *)

First(n) == n \in todo /\ \A m \in todo : Ino[n] <= Ino[m]

\* Mutant: the loop is left, not continued.
LstatBreaks ==
  /\ pc = "stat"
  /\ \E n \in Names :
       /\ First(n)
       /\ \/ /\ there[n] # 0
             /\ found' = found \cup {[name |-> n, file |-> there[n]]}
             /\ todo' = todo \ {n}
             /\ UNCHANGED fault
          \/ /\ Faults \/ there[n] = 0
             /\ todo' = {}
             /\ fault' = (fault \/ there[n] # 0)
             /\ UNCHANGED found
  /\ UNCHANGED <<dirVars, pc, listed, entries, err>>

\* An entry lstat fails for is skipped.  err is the result of the function, and
\* keeps the error until the next call of lstat.
Lstat ==
  /\ pc = "stat"
  /\ \E n \in Names :
       /\ First(n)
       /\ todo' = todo \ {n}
       /\ \/ /\ there[n] # 0
             /\ found' = found \cup {[name |-> n, file |-> there[n]]}
             /\ err' = FALSE
             /\ UNCHANGED fault
          \/ /\ Faults \/ there[n] = 0
             /\ err' = TRUE
             /\ fault' = (fault \/ there[n] # 0)
             /\ UNCHANGED found
  /\ UNCHANGED <<dirVars, pc, listed, entries>>

\* sort.Sort: the entries in the order of their names by some key.
SortedBy(es, key) ==
  CHOOSE s \in SetToSeqs(es) :
    \A j, k \in DOMAIN s : j < k => key[s[j].name] <= key[s[k].name]

ByName == [n \in Names |-> n]

\* Mutant: the entries keep the order of the calls of lstat.
ReturnByInode ==
  /\ pc = "stat" /\ todo = {}
  /\ pc' = "returned"
  /\ entries' = SortedBy(found, Ino)
  /\ UNCHANGED <<dirVars, listed, todo, found, err, fault>>

Return ==
  /\ pc = "stat" /\ todo = {}
  /\ pc' = "returned"
  /\ entries' = SortedBy(found, ByName)
  /\ UNCHANGED <<dirVars, listed, todo, found, err, fault>>

Next ==
  \/ \E n \in Names : Link(n) \/ Unlink(n)
  \/ Open \/ ReadEntry \/ ReadEnd \/ Lstat \/ Return

Spec == Init /\ [][Next]_vars

-----------------------------------------------------------------------------
(* Properties. *)

TypeOK ==
  /\ edits \in 0..MaxEdits /\ there \in [Names -> 0..(MaxEdits + 1)]
  /\ pc \in {"call", "list", "stat", "returned"}
  /\ listed \subseteq Names
  /\ todo \subseteq listed /\ (todo # {} => pc = "stat")
  /\ stayed \subseteq {n \in Names : there[n] # 0}

\* A directory that is returned without an error, while no call failed by itself,
\* has each file that was there all the time exactly once, with its own status,
\* however many others come and go; and the entries are in the order of names.
Complete ==
  pc = "returned" /\ ~err /\ ~fault =>
    /\ \A n \in stayed :
         Cardinality({k \in DOMAIN entries : entries[k] = [name |-> n, file |-> there[n]]}) = 1
    /\ \A j, k \in DOMAIN entries : j < k => entries[j].name < entries[k].name

(***************************************************************************)
(* Why: no name is lost between the three loops.  It is listed, to do or   *)
(* found, with the file it names now, since that was there all the time.   *)
(***************************************************************************)

Entry(n) == [name |-> n, file |-> there[n]]

\* Each name looked at is there once, and only names looked at are.
FoundOnce ==
  /\ IsFiniteSet(found) /\ found \subseteq [name : listed \ todo, file : Nat]
  /\ \A a, b \in found : a.name = b.name => a = b
  /\ pc = "call" => listed = {}
  /\ pc \in {"call", "list"} => found = {}

NoneLost ==
  pc \in {"stat", "returned"} /\ ~fault => \A n \in stayed : n \in todo \/ Entry(n) \in found

\* What is returned is what was found, by name.
SortedEntries ==
  pc = "returned" /\ ~fault =>
    /\ entries \in SetToSeqs(found)
    /\ \A j, k \in DOMAIN entries : j < k => entries[j].name <= entries[k].name

IInv == TypeOK /\ FoundOnce /\ NoneLost /\ SortedEntries

\* dump/dir.go:30: "Skip the entry, and warn."  A file that vanishes before it is
\* looked at costs its own entry and no more.
SkipsVanished == pc = "returned" /\ ~fault => ~err

\* linuxdir.go:38: "err will be set to io.EOF at the end."
EofAtEnd == pc = "stat" => stayed \subseteq listed
=============================================================================

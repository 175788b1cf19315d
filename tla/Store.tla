------------------------------- MODULE Store -------------------------------
(***************************************************************************)
(* How a long list of chunks becomes one OID and comes back: the indirect  *)
(* blocks (store/indirect.go), the two writers that use them, for the      *)
(* blobs of a file (store/file.go) and for the entries of a directory      *)
(* (store/dir.go), and the walker that reads them (store/decode.go).       *)
(*                                                                         *)
(* A chunk is a value that holds the chunks it refers to.  Limits count    *)
(* OIDs, respectively the units of length of directory entries; the code   *)
(* has 13107 OIDs and 262144 bytes.                                        *)
(***************************************************************************)
EXTENDS Naturals, Sequences, FiniteSets, SequencesExt

CONSTANTS
  Limit,       \* OIDs that fit in an indirect block
  DirLimit,    \* length that fits in a directory chunk
  Lengths,     \* lengths of a directory entry
  Blocks,      \* what a read of a file may return
  MaxBlobs,    \* bound on the blobs of a file
  MaxEntries   \* bound on the entries of a directory

ASSUME StoreAssumption ==
  /\ Limit \in Nat \ {0, 1}
  /\ Lengths \subseteq 1..DirLimit
  /\ {MaxBlobs, MaxEntries} \subseteq Nat

VARIABLES
  prefix,   \* "ind" for a file, "dir" for a directory
  added,    \* what the caller has added
  current,  \* DirWriter: entries not yet shipped
  tree,     \* IndirectWriter: tree[l] is the list of OIDs at level l - 1
  stored,   \* chunks inserted into the pool
  root      \* what Finalize returned, Open before that

vars == <<prefix, added, current, tree, stored, root>>

Blob(b)       == [kind |-> "blob", bytes |-> b]
DirChunk(es)  == [kind |-> "dir ", entries |-> es]
Null          == [kind |-> "null"]
Open          == [kind |-> "open"]

\* kindName: the prefix and the level.
Indirect(l, oids) == [kind |-> prefix, level |-> l, oids |-> oids]

-----------------------------------------------------------------------------
(* IndirectWriter.  A writer is its tree and what it has inserted. *)

\* Mutant: a level is written out when it holds more than fits, not when full.
RoomLimitLoose(w, l, purge) ==
  IF ~purge THEN Limit + 1 ELSE IF l = Len(w.tree) THEN 2 ELSE 1

\* When purging, a single OID stays at the top and none anywhere else.
RoomLimit(w, l, purge) ==
  IF ~purge THEN Limit ELSE IF l = Len(w.tree) THEN 2 ELSE 1

RECURSIVE Push(_, _, _)

\* room: writes the level out to the next one when it is full, and empties it.
Room(w, l, purge) ==
  LET grown == IF l > Len(w.tree) THEN [w EXCEPT !.tree = Append(@, <<>>)] ELSE w
      ch    == Indirect(l - 1, grown.tree[l])
  IN IF Len(grown.tree[l]) >= RoomLimit(grown, l, purge)
       THEN [Push([grown EXCEPT !.stored = @ \cup {ch}], ch, l + 1) EXCEPT !.tree[l] = <<>>]
       ELSE grown

Push(w, oid, l) == LET r == Room(w, l, FALSE)
                   IN [r EXCEPT !.tree[l] = Append(@, oid)]

\* Finalize: purges the levels from the lowest up, the ones that appear
\* meanwhile too.
RECURSIVE Purge(_, _)
Purge(w, l) == IF l > Len(w.tree) THEN w ELSE Purge(Room(w, l, TRUE), l + 1)

Writer == [tree |-> tree, stored |-> stored]

Becomes(w) == tree' = w.tree /\ stored' = w.stored

\* Mutant: only the levels that are there to begin with are purged.
RECURSIVE PurgeTo(_, _, _)
PurgeTo(w, l, n) == IF l > n THEN w ELSE PurgeTo(Room(w, l, TRUE), l + 1, n)

FinishFixed(w) ==
  IF w.tree = <<>>
    THEN Becomes([w EXCEPT !.stored = @ \cup {Null}]) /\ root' = Null
    ELSE LET p == PurgeTo(w, 1, Len(w.tree))
         IN Becomes(p) /\ root' = Last(p.tree)[1]

Finish(w) ==
  IF w.tree = <<>>
    THEN Becomes([w EXCEPT !.stored = @ \cup {Null}]) /\ root' = Null
    ELSE LET p == Purge(w, 1) IN Becomes(p) /\ root' = Last(p.tree)[1]

-----------------------------------------------------------------------------
Init ==
  /\ prefix \in {"ind", "dir"}
  /\ added = <<>> /\ current = <<>>
  /\ tree = <<>> /\ stored = {}
  /\ root = Open

\* WriteFile: each read is a blob, inserted before it is added.
AddBlob(b) ==
  /\ prefix = "ind" /\ root = Open /\ Len(added) < MaxBlobs
  /\ added' = Append(added, Blob(b))
  /\ Becomes(Push([Writer EXCEPT !.stored = @ \cup {Blob(b)}], Blob(b), 1))
  /\ UNCHANGED <<prefix, current, root>>

Length(es) == FoldSeq(LAMBDA e, n : n + e.len, 0, es)

\* ship: the entries so far become a chunk.
Shipped ==
  LET ch == DirChunk(current)
  IN IF current = <<>> THEN Writer
     ELSE Push([Writer EXCEPT !.stored = @ \cup {ch}], ch, 1)

\* Mutant: the entry that no longer fits is shipped with the others.
AddEntryLate(len) ==
  LET e == [name |-> Len(added) + 1, len |-> len] IN
  /\ prefix = "dir" /\ root = Open /\ Len(added) < MaxEntries
  /\ added' = Append(added, e)
  /\ IF Length(current) >= DirLimit
       THEN Becomes(Shipped) /\ current' = <<e>>
       ELSE current' = Append(current, e) /\ UNCHANGED <<tree, stored>>
  /\ UNCHANGED <<prefix, root>>

\* DirWriter.Add
AddEntry(len) ==
  LET e == [name |-> Len(added) + 1, len |-> len] IN
  /\ prefix = "dir" /\ root = Open /\ Len(added) < MaxEntries
  /\ added' = Append(added, e)
  /\ IF Length(current) + len > DirLimit
       THEN Becomes(Shipped) /\ current' = <<e>>
       ELSE current' = Append(current, e) /\ UNCHANGED <<tree, stored>>
  /\ UNCHANGED <<prefix, root>>

Finalize ==
  /\ root = Open
  /\ Finish(IF prefix = "dir" THEN Shipped ELSE Writer)
  /\ current' = <<>>
  /\ UNCHANGED <<prefix, added>>

Next ==
  \/ \E b \in Blocks : AddBlob(b)
  \/ \E len \in Lengths : AddEntry(len)
  \/ Finalize

Spec == Init /\ [][Next]_vars

-----------------------------------------------------------------------------
(* The walker. *)

\* The handlers know ind0 to ind3 and dir0 to dir2.  A chunk of another kind is
\* logged, and skipped without an error.
Levels(kind) == IF kind = "ind" THEN 4 ELSE 3

Handled(c) ==
  c.kind \in {"blob", "dir ", "null"}
    \/ (c.kind \in {"ind", "dir"} /\ c.level < Levels(c.kind))

\* What the visitor gets to see, in its order: the blobs or the entries.
RECURSIVE Walk(_)
Walk(c) ==
  IF ~Handled(c) THEN <<>>
  ELSE CASE c.kind = "blob" -> <<c>>
         [] c.kind = "dir " -> c.entries
         [] c.kind = "null" -> <<>>
         [] OTHER -> FlattenSeq([i \in DOMAIN c.oids |-> Walk(c.oids[i])])

-----------------------------------------------------------------------------
(* Properties. *)

TypeOK ==
  /\ prefix \in {"ind", "dir"}
  /\ \A l \in DOMAIN tree : Len(tree[l]) \in 0..Limit
  /\ root = Open => \A l \in DOMAIN tree : tree[l] # <<>>
  /\ Length(current) <= DirLimit

\* Chunks the caller has made of what it added.
Leaves ==
  IF prefix = "ind" THEN Len(added) ELSE Cardinality({c \in stored : c.kind = "dir "})

Capacity == Limit ^ Levels(prefix)

RECURSIVE Below(_)
Below(c) ==
  {c} \cup IF "oids" \in DOMAIN c THEN UNION {Below(c.oids[i]) : i \in DOMAIN c.oids} ELSE {}

\* Finalize leaves the pool with the chunks of the tree and no others: nothing
\* the root leads to is missing, nothing was written in vain.  A walk of the root
\* yields what was added, each item once and in its order, as long as the number
\* of chunks stays within what the handlers of the walker know.
RoundTrip ==
  root # Open =>
    /\ stored = Below(root)
    /\ Leaves <= Capacity => Walk(root) = added

Level(c) == IF c.kind \in {"ind", "dir"} THEN c.level + 1 ELSE 0

\* Every indirect block leads one level down, to all its OIDs alike, and holds
\* at most Limit of them; a directory chunk is never longer than its buffer; the
\* tree is no higher than it has to be.
WellFormed ==
  /\ \A c \in stored :
       /\ c.kind \in {"ind", "dir"} =>
            /\ Len(c.oids) \in 1..Limit
            /\ \A i \in DOMAIN c.oids : Level(c.oids[i]) = c.level
       /\ c.kind = "dir " => Length(c.entries) \in 1..DirLimit
  /\ root # Open /\ Level(root) > 0 => Leaves > Limit ^ (Level(root) - 1)
=============================================================================

------------------------------ MODULE PoolFile ------------------------------
(***************************************************************************)
(* The file format of the older pools: chunks one after the other in a     *)
(* file (pool/chunk.go) and an index of it (pool/index-file.go).  No       *)
(* command writes these files any more; the functions are exported, and    *)
(* the tests and IndexMain use them.                                       *)
(*                                                                         *)
(* The caller, which is external, writes chunks at the end of the file,    *)
(* keeps where each begins in a RamIndex, and writes that out from time to *)
(* time.  Any write may stop short, and the process may die; whoever comes *)
(* next reads the file from its start.  A file is a sequence of units,     *)
(* bytes in the code; an OID is a number whose quotient by Rest is its     *)
(* first byte.                                                             *)
(***************************************************************************)
EXTENDS Naturals, Sequences, FiniteSets, SequencesExt, Functions

CONSTANTS
  Chunks,     \* chunks, named by their OID
  KindOf,     \* KindOf[c]: kind of a chunk, as a number in the order of kinds
  DataLen,    \* DataLen[c]: length of its data
  ZLen,       \* ZLen[c]: length of the data compressed
  HeaderLen,  \* 48
  Align,      \* 16
  NotPacked,  \* 0xFFFFFFFF, as the data length of a chunk that is stored plain
  Bytes,      \* 256, the values of a byte
  Rest,       \* 256^19, the OIDs of one first byte
  MaxIndexes  \* bound on the indexes written

Kinds == {KindOf[c] : c \in Chunks}

ASSUME PoolFileAssumption ==
  /\ {HeaderLen, Align, Bytes, Rest} \subseteq Nat \ {0} /\ MaxIndexes \in Nat
  /\ IsFiniteSet(Chunks) /\ Chunks \subseteq 0 .. Bytes * Rest - 1
  /\ HeaderLen % Align = 0
  /\ NotPacked \in Nat
  /\ \A c \in Chunks : /\ {KindOf[c], DataLen[c], ZLen[c]} \subseteq Nat
                      /\ DataLen[c] < NotPacked
  /\ Cardinality(Kinds) <= Bytes

VARIABLES
  file,     \* the pool file
  pc,       \* "idle", "payload", "pad", "index", "rename", "broken", "dead"
  chunk,    \* the chunk being written
  begun,    \* history: chunks of which something was written, in their order
  ri,       \* RamIndex: OID to offset and kind
  job,      \* what WriteIndex has to write
  tmp,      \* the file path.tmp, and what was written to it
  index,    \* the file path
  indexes   \* indexes begun

vars == <<file, pc, chunk, begun, ri, job, tmp, index, indexes>>

\* A file that is not there, and one with these sections.
None == [there |-> FALSE, parts |-> <<>>]

Holding(parts) == [there |-> TRUE, parts |-> parts]

-----------------------------------------------------------------------------
(* Chunks in the file. *)

Packed(c) == ZLen[c] < DataLen[c]

Header(c) ==
  [oid |-> c, kind |-> KindOf[c],
   payload |-> IF Packed(c) THEN ZLen[c] ELSE DataLen[c],
   data |-> IF Packed(c) THEN DataLen[c] ELSE NotPacked]

HeaderUnits(c) == [k \in 1 .. HeaderLen |-> <<"header", Header(c), k>>]

Payload(c) == [k \in 1 .. Header(c).payload |-> <<"payload", c, Packed(c), k>>]

\* 15 & -len: what is missing to the next boundary.
Pad(len) == (Align - (len % Align)) % Align

Padding(c) == [k \in 1 .. Pad(Header(c).payload) |-> <<"zero">>]

\* ChunkRead, at an offset: the magic must be there, then the payload.
HeaderAt(o) == file[o + 1][2]

Readable(o) ==
  /\ o + HeaderLen <= Len(file)
  /\ \A k \in 1 .. HeaderLen : Head(file[o + k]) = "header" /\ file[o + k][3] = k
  /\ o + HeaderLen + HeaderAt(o).payload <= Len(file)

ChunkRead(o) ==
  LET h == HeaderAt(o) IN
  [at |-> o, oid |-> h.oid, kind |-> h.kind,
   packed  |-> h.data # NotPacked,
   data    |-> IF h.data = NotPacked THEN h.payload ELSE h.data,
   payload |-> SubSeq(file, o + HeaderLen + 1, o + HeaderLen + h.payload)]

\* Mutant: the reader skips the distance to the boundary before.
AfterDown(o) == o + HeaderLen + HeaderAt(o).payload + (HeaderAt(o).payload % Align)

\* Where the padding that ChunkRead reports leads.
After(o) == o + HeaderLen + HeaderAt(o).payload + Pad(HeaderAt(o).payload)

\* The caller reads on until a chunk cannot be read: the end of the file is
\* reported like any other damage, as ChunkError.
Scan ==
  LET from[o \in 0 .. Len(file) + Align] ==
        IF Readable(o) THEN <<ChunkRead(o)>> \o from[After(o)] ELSE <<>>
  IN from[0]

-----------------------------------------------------------------------------
(* The index. *)

\* Mutant: the keys are left in no order.
KeysUnsorted(map) == SetToSortSeq(DOMAIN map, LAMBDA a, b : a > b)

\* sort.Sort and sort.Strings: the elements of a set in their order.
Ascending(S) ==
  CHOOSE s \in SetToSeqs(S) : \A j, k \in DOMAIN s : j < k => s[j] < s[k]

Keys(map) == Ascending(DOMAIN map)

\* writeTop: one pass over bytes and keys together.
Top(keys) ==
  LET top[b \in 0 .. Bytes - 1] ==
        LET from == IF b = 0 THEN 0 ELSE top[b - 1]
            Stop(o) == o = Len(keys) \/ keys[o + 1] \div Rest > b
        IN CHOOSE o \in from .. Len(keys) :
             Stop(o) /\ \A k \in from .. o - 1 : ~Stop(k)
  IN top

KindTable(map) == Ascending({map[k].kind : k \in DOMAIN map})

\* Each kind as a byte: its place in the table.
KindBytes(keys, map) ==
  [k \in DOMAIN keys |->
     (CHOOSE i \in DOMAIN KindTable(map) : KindTable(map)[i] = map[keys[k]].kind) - 1]

Sections(map, size) ==
  LET keys == Keys(map)
  IN <<size, Top(keys), keys, [k \in DOMAIN keys |-> map[keys[k]].offset],
       KindTable(map), KindBytes(keys, map)>>

Complete(f) == f.there /\ Len(f.parts) = 6

\* The reader of the format, which the source has in a comment: a binary search
\* between the entries of the first byte and of the one before it.  The result
\* is the set of what is found.
Lookup(f, c) ==
  LET low  == IF c \div Rest = 0 THEN 0 ELSE f[2][c \div Rest - 1]
      high == f[2][c \div Rest]
      Search[r \in (0 .. Len(f[3])) \X (0 .. Len(f[3]))] ==
        LET mid == r[1] + (r[2] - r[1]) \div 2 IN
        IF r[1] >= r[2] THEN {}
        ELSE IF f[3][mid + 1] > c THEN Search[<<r[1], mid>>]
        ELSE IF f[3][mid + 1] < c THEN Search[<<mid + 1, r[2]>>]
        ELSE {[offset |-> f[4][mid + 1], kind |-> f[5][f[6][mid + 1] + 1]]}
  IN Search[<<low, high>>]

-----------------------------------------------------------------------------
Init ==
  /\ file = <<>> /\ pc = "idle" /\ chunk \in Chunks /\ begun = <<>>
  /\ ri = <<>> /\ job = <<>>
  /\ tmp = None /\ index = None /\ indexes = 0

\* A write of the chunk's: all of it, or a part.
Write(units, next) ==
  \/ file' = file \o units /\ pc' = next
  \/ /\ \E n \in 0 .. Len(units) - 1 : file' = file \o SubSeq(units, 1, n)
     /\ pc' = "broken"

\* ChunkWrite: header, payload, padding.
WriteHeader(c) ==
  /\ pc = "idle" /\ c \notin DOMAIN ri
  /\ chunk' = c
  /\ Write(HeaderUnits(c), "payload")
  /\ begun' = IF file' = file THEN begun ELSE Append(begun, c)
  /\ UNCHANGED <<ri, job, tmp, index, indexes>>

WritePayload ==
  /\ pc = "payload"
  /\ Write(Payload(chunk), "pad")
  /\ UNCHANGED <<chunk, begun, ri, job, tmp, index, indexes>>

\* The end of ChunkWrite; the caller remembers where the chunk began.
WritePad ==
  LET start == Len(file) - HeaderLen - Header(chunk).payload IN
  /\ pc = "pad"
  /\ Write(Padding(chunk), "idle")
  /\ ri' = IF pc' = "idle"
             THEN [c \in DOMAIN ri \cup {chunk} |->
                     IF c = chunk THEN [offset |-> start, kind |-> KindOf[c]] ELSE ri[c]]
             ELSE ri
  /\ UNCHANGED <<chunk, begun, job, tmp, index, indexes>>

\* WriteIndex, up to os.Create.  Should that fail, path.tmp is removed, too.
BeginIndex ==
  /\ pc = "idle" /\ indexes < MaxIndexes
  /\ indexes' = indexes + 1
  /\ \/ /\ tmp' = Holding(<<>>)
        /\ job' = Sections(ri, Len(file))
        /\ pc' = "index"
     \/ /\ tmp' \in {tmp, None}
        /\ UNCHANGED <<job, pc>>
  /\ UNCHANGED <<file, chunk, begun, ri, index>>

\* One section after the other; a failure removes path.tmp, if that succeeds.
WriteSection ==
  /\ pc = "index"
  /\ \/ /\ tmp' = Holding(Append(tmp.parts, job[Len(tmp.parts) + 1]))
        /\ pc' = IF Len(tmp'.parts) = Len(job) THEN "rename" ELSE pc
     \/ /\ tmp' \in {tmp, None}
        /\ pc' = "idle"
  /\ UNCHANGED <<file, chunk, begun, ri, job, index, indexes>>

\* The deferred rename, whose error is not looked at.
RenameIndex ==
  /\ pc = "rename"
  /\ \/ index' = tmp /\ tmp' = None
     \/ UNCHANGED <<index, tmp>>
  /\ pc' = "idle"
  /\ UNCHANGED <<file, chunk, begun, ri, job, indexes>>

Die ==
  /\ pc # "dead"
  /\ pc' = "dead"
  /\ ri' = <<>>
  /\ UNCHANGED <<file, chunk, begun, job, tmp, index, indexes>>

\* The next process takes the index from the file itself.  It goes on only when
\* the last chunk and its padding end the file.
Rescan ==
  LET last == Last(Scan)
      end  == IF Scan = <<>> THEN 0 ELSE After(last.at)
  IN
  /\ pc = "dead" /\ end = Len(file)
  /\ pc' = "idle"
  /\ ri' = [c \in {s.oid : s \in Range(Scan)} |->
              LET s == CHOOSE s \in Range(Scan) : s.oid = c
              IN [offset |-> s.at, kind |-> s.kind]]
  /\ UNCHANGED <<file, chunk, begun, job, tmp, index, indexes>>

Next ==
  \/ \E c \in Chunks : WriteHeader(c)
  \/ WritePayload \/ WritePad
  \/ BeginIndex \/ WriteSection \/ RenameIndex
  \/ Die \/ Rescan

Spec == Init /\ [][Next]_vars

-----------------------------------------------------------------------------
(* Properties. *)

\* Reading the file from its start, at any moment and after any torn write,
\* yields each chunk that was written as it was written, and nothing else; of the
\* chunk that is, or was, cut off, all or nothing.
ScansWhole ==
  /\ Len(Scan) <= Len(begun) /\ Len(begun) <= Len(Scan) + 1
  /\ pc \in {"idle", "pad", "index", "rename"} => Len(Scan) = Len(begun)
  /\ \A k \in DOMAIN Scan :
       LET c == begun[k] IN
       Scan[k] = [at |-> Scan[k].at, oid |-> c, kind |-> KindOf[c], packed |-> Packed(c),
                  data |-> DataLen[c], payload |-> Payload(c)]

\* The file at path is missing or a complete index, whatever writes, renames and
\* processes failed.  index-file.go:40: "make sure that it completely covers a given
\* pool file": one that records the size of the file leads to every chunk and its
\* kind, and to no other; after a failed rename, or more chunks, the size gives the
\* stale index away, and what it leads to is right nevertheless.
IndexCovers ==
  index # None =>
    /\ Complete(index)
    /\ \A c \in Chunks :
         LET found == Lookup(index.parts, c) IN
         /\ index.parts[1] = Len(file) => (found # {} <=> \E s \in Range(Scan) : s.oid = c)
         /\ \A v \in found : /\ Readable(v.offset)
                             /\ ChunkRead(v.offset).oid = c
                             /\ v.kind = KindOf[c]
=============================================================================

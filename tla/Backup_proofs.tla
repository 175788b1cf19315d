---------------------------- MODULE Backup_proofs ----------------------------
(***************************************************************************)
(* What a backup session guarantees for any tree, any contents, any life   *)
(* times of rows and any number of edits, dumps and regenerations: the     *)
(* pool is closed, every row of the cache is vouched for by a backup in    *)
(* the pool, a dump is faithful, a regeneration rebuilds the rows of the   *)
(* dump before it, and no row outlives its reading for long.               *)
(***************************************************************************)
EXTENDS Backup, Selection_proofs

-----------------------------------------------------------------------------
(* Sequences that are used as stacks. *)

(* The last element replaced.                                              *)
LEMMA Replaced ==
  ASSUME NEW s, s \in Seq(Range(s)), s # <<>>, NEW f
  PROVE  LET t == [s EXCEPT ![Len(s)] = f] IN
         /\ t \in Seq(Range(t)) /\ t # <<>> /\ Last(t) = f /\ Len(t) = Len(s)
         /\ Range(t) \subseteq Range(s) \cup {f}
         /\ \A k \in 1..(Len(s) - 1) : t[k] = s[k]
         /\ Last(s) \in Range(s)
<1> DEFINE S == Range(s) \cup {f}
           t == [s EXCEPT ![Len(s)] = f]
<1>1. /\ s \in Seq(S) /\ Len(s) \in Nat \ {0} /\ DOMAIN s = 1..Len(s)
      /\ f \in S /\ Len(s) \in 1..Len(s)
  BY DEF Range
<1>2. t \in Seq(S) /\ Len(t) = Len(s)
  <2> HIDE DEF S
  <2>1. QED
    BY <1>1, ExceptSeq
<1>3. t[Len(s)] = f /\ \A k \in DOMAIN s : k # Len(s) => t[k] = s[k]
  BY <1>1
<1> HIDE DEF t
<1>4. t \in Seq(Range(t)) /\ Range(t) \subseteq S
  BY <1>2, SeqOfRange, RangeOfSeq
<1>5. t # <<>> /\ Last(t) = f /\ Last(s) \in Range(s)
  BY <1>1, <1>2, <1>3 DEF Range, Last
<1>6. \A k \in 1..(Len(s) - 1) : t[k] = s[k]
  <2> HIDE DEF S
  <2>1. \A n \in Nat : \A k \in 1..(n - 1) : k \in 1..n /\ k # n
    OBVIOUS
  <2>2. \A k \in 1..(Len(s) - 1) : k \in DOMAIN s /\ k # Len(s)
    BY <1>1, <2>1
  <2>3. QED
    BY <1>3, <2>2
<1> HIDE DEF S
<1>7. QED
  BY <1>2, <1>4, <1>5, <1>6 DEF S, t

(* An element added.                                                       *)
LEMMA Pushed ==
  ASSUME NEW s, s \in Seq(Range(s)), NEW f
  PROVE  LET t == Append(s, f) IN
         /\ t \in Seq(Range(t)) /\ t # <<>> /\ Last(t) = f /\ Len(t) = Len(s) + 1
         /\ Range(t) \subseteq Range(s) \cup {f}
         /\ \A k \in 1..Len(s) : t[k] = s[k]
         /\ Len(s) \in Nat
<1> DEFINE S == Range(s) \cup {f}
           t == Append(s, f)
<1>1. s \in Seq(S) /\ f \in S
  BY DEF Range
<1>2. /\ t \in Seq(S) /\ Len(t) = Len(s) + 1 /\ t # <<>> /\ t[Len(s) + 1] = f
      /\ \A k \in 1..Len(s) : t[k] = s[k]
  BY <1>1, AppendProperties
<1>3. t \in Seq(Range(t)) /\ Range(t) \subseteq S
  BY <1>2, SeqOfRange, RangeOfSeq
<1>4. Len(s) \in Nat /\ Last(t) = f
  BY <1>1, <1>2 DEF Last
<1> HIDE DEF S, t
<1>5. QED
  BY <1>2, <1>3, <1>4 DEF S, t

(* The last element removed.                                               *)
LEMMA Popped ==
  ASSUME NEW s, s \in Seq(Range(s)), s # <<>>
  PROVE  LET t == Front(s) IN
         /\ t \in Seq(Range(t)) /\ Range(t) \subseteq Range(s)
         /\ Len(s) \in Nat \ {0} /\ Len(t) = Len(s) - 1
         /\ t = <<>> <=> Len(s) = 1
         /\ \A k \in 1..Len(t) : t[k] = s[k]
         /\ Last(s) \in Range(s)
<1> DEFINE t == Front(s)
<1>1. Len(s) \in Nat \ {0} /\ DOMAIN s = 1..Len(s)
  OBVIOUS
<1>2. \A k \in 1..(Len(s) - 1) : s[k] \in Range(s)
  BY <1>1
<1>3. /\ t \in Seq(Range(s)) /\ Len(t) = Len(s) - 1
      /\ \A k \in 1..Len(t) : t[k] = s[k]
  BY <1>1, <1>2, SubSeqProperties DEF Front
<1> HIDE DEF t
<1>4. t \in Seq(Range(t)) /\ Range(t) \subseteq Range(s)
  BY <1>3, SeqOfRange, RangeOfSeq
<1>5. t = <<>> <=> Len(s) = 1
  BY <1>1, <1>3
<1>6. Last(s) \in Range(s)
  BY <1>1 DEF Range, Last
<1>7. QED
  BY <1>1, <1>3, <1>4, <1>5, <1>6 DEF t

(* A sequence whose elements are all in a set.                             *)
LEMMA Narrowed ==
  ASSUME NEW S, NEW T, NEW s \in Seq(S), \A k \in DOMAIN s : s[k] \in T
  PROVE  s \in Seq(T)
<1>1. s \in Seq(Range(s))
  BY SeqOfRange
<1>2. Range(s) \subseteq T
  BY DEF Range
<1>3. QED
  BY <1>1, <1>2

(* The first element of a sequence, and the others.                        *)
LEMMA FirstAndRest ==
  ASSUME NEW S, NEW s \in Seq(S), s # <<>>
  PROVE  /\ 1 \in DOMAIN s /\ Head(s) = s[1] /\ Head(s) \in S
         /\ Tail(s) \in Seq(S)
         /\ \A k \in DOMAIN Tail(s) : k + 1 \in DOMAIN s /\ Tail(s)[k] = s[k + 1]
<1> DEFINE t == Tail(s)
<1>1. /\ Head(s) \in S /\ t \in Seq(S) /\ Len(t) = Len(s) - 1
      /\ \A k \in 1..Len(t) : t[k] = s[k + 1]
  BY HeadTailProperties
<1>2. Len(s) \in Nat \ {0} /\ DOMAIN s = 1..Len(s) /\ Head(s) = s[1]
  OBVIOUS
<1>3. DOMAIN t = 1..(Len(s) - 1)
  BY <1>1
<1> HIDE DEF t
<1>4. \A k \in DOMAIN t : k + 1 \in DOMAIN s /\ t[k] = s[k + 1]
  BY <1>1, <1>2, <1>3
<1>5. 1 \in DOMAIN s
  BY <1>2
<1>6. QED
  BY <1>1, <1>2, <1>4, <1>5 DEF t

-----------------------------------------------------------------------------
(* Chunks. *)

(* A chunk that can be stored in a pool can be stored in a larger one.     *)
LEMMA WellMadeGrows ==
  ASSUME NEW c, NEW S, NEW T, S \subseteq T, WellMade(c, S)
  PROVE  WellMade(c, T)
<1>1. Seq(Names \X S) \subseteq Seq(Names \X T)
  OBVIOUS
<1>2. QED
  BY <1>1 DEF WellMade

(* What each kind of chunk refers to.                                      *)
LEMMA RefsOf ==
  /\ Refs(Null) = {}
  /\ \A b : Refs(Blob(b)) = {}
  /\ \A bs : Refs(Ind(bs)) = {bs[i] : i \in DOMAIN bs}
  /\ \A f, t, d : Refs(Reg(f, t, d)) = {d}
  /\ \A f, t, d : Refs(Lnk(f, t, d)) = {}
  /\ \A es : Refs(Listing(es)) = {es[i][2] : i \in DOMAIN es}
  /\ \A i, l : Refs(DirNode(i, l)) = {l}
  /\ \A t, r : Refs(Back(t, r)) = {r}
  BY DEF Refs, Null, Blob, Ind, Reg, Lnk, Listing, DirNode, Back

(* A session that inserts sees what it saw and what it inserted.           *)
LEMMA Inserted ==
  ASSUME DOMAIN pending = {Me}, NEW cs, InsertAll(cs)
  PROVE  /\ View' = View \cup cs /\ durable' = durable /\ DOMAIN pending' = {Me}
  BY DEF InsertAll, View

(* The pool stays good if each new chunk can be stored along with the      *)
(* others.                                                                 *)
LEMMA GoodInsert ==
  ASSUME GoodPool, Closed, DOMAIN pending = {Me}, NEW cs, InsertAll(cs),
         \A c \in cs : WellMade(c, View \cup cs)
  PROVE  GoodPool' /\ Closed'
<1>1. View' = View \cup cs /\ durable' = durable
  BY Inserted
<1>2. \A c \in View : WellMade(c, View \cup cs)
  BY WellMadeGrows DEF GoodPool
<1>3. QED
  BY <1>1, <1>2 DEF GoodPool, Closed

(* How the chunks of a backup can be stored.                               *)
LEMMA Constructors ==
  ASSUME NEW V
  PROVE  /\ WellMade(Null, V)
         /\ \A b : WellMade(Blob(b), V)
         /\ \A f, t, d : WellMade(Lnk(f, t, d), V)
         /\ \A bs : (\A i \in DOMAIN bs : bs[i] \in V) => WellMade(Ind(bs), V)
         /\ \A f, t : \A d \in V : WellMade(Reg(f, t, d), V)
         /\ \A i : \A l \in V : l = Null \/ l.kind = "dir" => WellMade(DirNode(i, l), V)
         /\ \A t \in Nat : \A r \in V : r.kind = "DIR" => WellMade(Back(t, r), V)
<1>1. /\ Null.kind = "null" /\ \A b : Blob(b).kind = "blob"
      /\ \A f, t, d : Lnk(f, t, d).kind = "LNK" /\ Reg(f, t, d).kind = "REG"
      /\ \A bs : Ind(bs).kind = "ind"
      /\ \A i, l : DirNode(i, l).kind = "DIR" /\ DirNode(i, l).children = l
      /\ \A t, r : Back(t, r).kind = "back" /\ Back(t, r).hash = r /\ Back(t, r).date = t
  BY DEF Null, Blob, Lnk, Reg, Ind, DirNode, Back
<1>2. WellMade(Null, V) /\ \A b : WellMade(Blob(b), V)
  BY <1>1, RefsOf DEF WellMade
<1>3. \A f, t, d : WellMade(Lnk(f, t, d), V)
  BY <1>1, RefsOf DEF WellMade
<1>4. ASSUME NEW bs, \A i \in DOMAIN bs : bs[i] \in V PROVE WellMade(Ind(bs), V)
  <2>1. Refs(Ind(bs)) \subseteq V
    BY <1>4, RefsOf
  <2>2. QED
    BY <1>1, <2>1 DEF WellMade
<1>5. ASSUME NEW f, NEW t, NEW d \in V PROVE WellMade(Reg(f, t, d), V)
  <2>1. Refs(Reg(f, t, d)) \subseteq V
    BY RefsOf
  <2>2. QED
    BY <1>1, <2>1 DEF WellMade
<1>6. ASSUME NEW i, NEW l \in V, l = Null \/ l.kind = "dir" PROVE WellMade(DirNode(i, l), V)
  <2>1. Refs(DirNode(i, l)) \subseteq V
    BY RefsOf
  <2>2. QED
    BY <1>1, <1>6, <2>1 DEF WellMade
<1>7. ASSUME NEW t \in Nat, NEW r \in V, r.kind = "DIR" PROVE WellMade(Back(t, r), V)
  <2>1. Refs(Back(t, r)) \subseteq V
    BY RefsOf
  <2>2. QED
    BY <1>1, <1>7, <2>1 DEF WellMade
<1>8. QED
  BY <1>2, <1>3, <1>4, <1>5, <1>6, <1>7

(* A listing of nodes that are there.                                      *)
LEMMA GoodListing ==
  ASSUME NEW V, NEW es \in Seq(Names \X V),
         \A k \in DOMAIN es : es[k][2].kind \in {"REG", "LNK", "DIR"}
  PROVE  WellMade(Listing(es), V)
<1>1. Refs(Listing(es)) = {es[i][2] : i \in DOMAIN es}
  BY RefsOf
<1>2. \A i \in DOMAIN es : es[i] \in Names \X V
  OBVIOUS
<1>3. Refs(Listing(es)) \subseteq V
  BY <1>1, <1>2
<1>4. Listing(es).kind = "dir" /\ Listing(es).entries = es
  BY DEF Listing
<1>5. QED
  BY <1>1, <1>3, <1>4 DEF WellMade

-----------------------------------------------------------------------------
(* Frames. *)

(* A frame that is good for a pool is good for a larger one.               *)
LEMMA DumpFrameGrows ==
  ASSUME NEW f, NEW S, NEW T, S \subseteq T, DumpFrame(f, S)
  PROVE  DumpFrame(f, T)
<1>1. Seq(Names \X S) \subseteq Seq(Names \X T)
  OBVIOUS
<1>2. QED
  BY <1>1 DEF DumpFrame, GoodRows, GoodRow

(* One more child, whose rows its node repeats.                            *)
LEMMA ChildDoneFrame ==
  ASSUME NEW f, NEW V, DumpFrame(f, V), f.todo # <<>>, NEW rows, NEW node,
         node \in V, node.kind \in {"REG", "LNK", "DIR"}, GoodRows(rows, V),
         \A e \in rows : Repeats(e, node)
  PROVE  DumpFrame(ChildDone(f, rows, node), V)
<1> DEFINE g == ChildDone(f, rows, node)
<1>1. /\ DOMAIN g = DOMAIN f /\ g.name = f.name /\ g.ino = f.ino /\ g.old = f.old
      /\ g.todo = Tail(f.todo)
      /\ g.new \subseteq f.new \cup rows
      /\ g.done = Append(f.done, <<Head(f.todo).name, node>>)
  BY DEF ChildDone, DumpFrame
<1>2. f.todo \in Seq([name : Names, ctime : Nat]) /\ f.done \in Seq(Names \X V)
  BY DEF DumpFrame
<1>3. Head(f.todo).name \in Names /\ g.todo \in Seq([name : Names, ctime : Nat])
  <2>1. Head(f.todo) \in [name : Names, ctime : Nat]
    BY <1>2, HeadTailProperties
  <2>2. QED
    BY <1>1, <1>2, <2>1, HeadTailProperties
<1>4. <<Head(f.todo).name, node>> \in Names \X V
  BY <1>3
<1>5. /\ g.done \in Seq(Names \X V) /\ Len(g.done) = Len(f.done) + 1
      /\ \A k \in 1..Len(f.done) : g.done[k] = f.done[k]
      /\ g.done[Len(f.done) + 1] = <<Head(f.todo).name, node>>
  BY <1>1, <1>2, <1>4, AppendProperties
<1>6. DOMAIN g.done = 1..(Len(f.done) + 1) /\ DOMAIN f.done = 1..Len(f.done) /\ Len(f.done) \in Nat
  BY <1>2, <1>5
<1>7. \A k \in DOMAIN g.done : g.done[k][2].kind \in {"REG", "LNK", "DIR"}
  <2>1. \A k \in DOMAIN f.done : f.done[k][2].kind \in {"REG", "LNK", "DIR"}
    BY DEF DumpFrame
  <2>2. g.done[Len(f.done) + 1][2] = node
    BY <1>5
  <2> HIDE DEF g
  <2>3. ASSUME NEW k \in DOMAIN g.done PROVE g.done[k][2].kind \in {"REG", "LNK", "DIR"}
    <3>1. CASE k \in 1..Len(f.done)
      BY <1>5, <1>6, <2>1, <3>1
    <3>2. CASE k = Len(f.done) + 1
      BY <2>2, <3>2
    <3>3. QED
      BY <1>6, <3>1, <3>2
  <2>4. QED
    BY <2>3
<1>8. \A e \in g.new : \E k \in DOMAIN g.done : Repeats(e, g.done[k][2])
  <2>1. ASSUME NEW e \in f.new
        PROVE  \E k \in DOMAIN g.done : Repeats(e, g.done[k][2])
    <3>1. PICK k \in DOMAIN f.done : Repeats(e, f.done[k][2])
      BY DEF DumpFrame
    <3>2. k \in DOMAIN g.done /\ g.done[k] = f.done[k]
      BY <1>5, <1>6
    <3>3. QED
      BY <3>1, <3>2
  <2>2. ASSUME NEW e \in rows
        PROVE  \E k \in DOMAIN g.done : Repeats(e, g.done[k][2])
    <3>1. Len(f.done) + 1 \in DOMAIN g.done /\ g.done[Len(f.done) + 1][2] = node
      BY <1>5, <1>6
    <3>2. QED
      BY <3>1
  <2>3. QED
    BY <1>1, <2>1, <2>2
<1>9. GoodRows(g.new, V) /\ GoodRows(g.old, V)
  BY <1>1 DEF GoodRows, DumpFrame
<1>10. /\ DOMAIN g = {"name", "ino", "todo", "old", "new", "done"}
       /\ g.name \in Dirs /\ g.ino = Ino[g.name]
  BY <1>1 DEF DumpFrame
<1> HIDE DEF g
<1>11. DumpFrame(g, V)
  BY <1>3, <1>5, <1>7, <1>8, <1>9, <1>10 DEF DumpFrame
<1>12. QED
  BY <1>11 DEF g

-----------------------------------------------------------------------------
(* The initial state. *)

LEMMA Initially == Init => IInv
<1> SUFFICES ASSUME Init PROVE IInv
  OBVIOUS
<1>1. /\ pending = [p \in {Me} |-> {}] /\ durable = {} /\ View = {}
  BY DEF Init, P!PoolInit, View
<1>2. \A i \in DirInos : cache[i] = {} /\ ctx[i] = {}
  BY DEF Init
<1>3. TypeOK
  <2>1. clock \in 0..MaxClock /\ clock = 0
    BY BackupAssumption DEF Init, BackupAssumption
  <2>2. live \in [Leaves -> [here : BOOLEAN, data : Contents, ctime : 0..clock]]
    BY <2>1, BackupAssumption DEF Init, BackupAssumption
  <2>3. stack \in Seq(Range(stack)) /\ stack = <<>>
    BY DEF Init
  <2>4. QED
    BY <2>1, <2>2, <2>3 DEF Init, TypeOK, Pcs
<1>4. Closed /\ GoodPool
  BY <1>1 DEF Closed, GoodPool
<1>5. GoodTables
  BY <1>1, <1>2 DEF GoodTables, GoodRows, VouchedFor
<1>6. GoodWalk /\ GoodClock /\ BetweenSessions
  BY <1>1 DEF Init, GoodWalk, GoodClock, BetweenSessions
<1>7. QED
  BY <1>1, <1>3, <1>4, <1>5, <1>6 DEF IInv

-----------------------------------------------------------------------------
(* What a step leaves as it was. *)

(* Nothing stored, no row changed.                                         *)
LEMMA Quiet ==
  ASSUME IInv, UNCHANGED <<poolVars, cache, ctx>>
  PROVE  View' = View /\ DOMAIN pending' = {Me} /\ Closed' /\ GoodPool' /\ GoodTables'
<1>1. View' = View /\ durable' = durable /\ cache' = cache /\ ctx' = ctx
  BY DEF View, poolVars
<1>2. DOMAIN pending' = {Me} /\ Closed'
  BY DEF IInv, Closed, poolVars
<1>3. GoodPool'
  BY <1>1 DEF IInv, GoodPool
<1>4. GoodTables'
  BY <1>1 DEF IInv, GoodTables
<1>5. QED
  BY <1>1, <1>2, <1>3, <1>4

(* Rows that are good for a pool are good for a larger one.                *)
LEMMA RowsGrow ==
  ASSUME NEW es, NEW i, NEW S, NEW T, S \subseteq T
  PROVE  /\ GoodRows(es, S) => GoodRows(es, T)
         /\ VouchedFor(i, es, S) => VouchedFor(i, es, T)
  BY DEF GoodRows, GoodRow, VouchedFor

(* Chunks stored, no row changed.                                          *)
LEMMA Filled ==
  ASSUME IInv, NEW cs, InsertAll(cs), \A c \in cs : WellMade(c, View \cup cs),
         UNCHANGED <<cache, ctx>>
  PROVE  /\ View' = View \cup cs /\ durable' = durable /\ DOMAIN pending' = {Me}
         /\ Closed' /\ GoodPool' /\ GoodTables'
<1>1. View' = View \cup cs /\ durable' = durable /\ DOMAIN pending' = {Me}
  BY Inserted DEF IInv
<1>2. Closed' /\ GoodPool'
  BY GoodInsert DEF IInv
<1>3. GoodTables'
  BY <1>1, RowsGrow DEF IInv, GoodTables
<1>4. QED
  BY <1>1, <1>2, <1>3

-----------------------------------------------------------------------------
(* The dump. *)

(* What Readdir finds, and the frame that is pushed.                       *)
LEMMA GoodFrame ==
  ASSUME IInv, NEW d \in Dirs, NEW t
  PROVE  DumpFrame(Frame(d, t), View) /\ Fresh(d) \subseteq Leaves
<1> DEFINE there == Dirs \cup {n \in Leaves : live[n].here}
           names == Select(Children[d], there)
           Stat(n) == [name |-> n, ctime |-> IF n \in Dirs THEN 0 ELSE live[n].ctime]
<1>1. names \in Seq(there)
  <2>1. Children[d] \in Seq(Names)
    BY BackupAssumption DEF BackupAssumption, Names, Leaves
  <2>2. names \in Seq(Names \cap there)
    BY <2>1, Selected
  <2>3. Names \cap there = there
    BY DEF Names, Leaves
  <2>4. QED
    BY <2>2, <2>3
<1>2. \A n \in there : Stat(n) \in [name : Names, ctime : Nat]
  BY BackupAssumption DEF BackupAssumption, IInv, TypeOK, Names
<1>3. Readdir(d) \in Seq([name : Names, ctime : Nat])
  <2>1. Readdir(d) = IF d \in Foreign THEN <<>> ELSE [k \in DOMAIN names |-> Stat(names[k])]
    BY DEF Readdir
  <2> HIDE DEF names, there, Stat
  <2>2. Len(names) \in Nat /\ DOMAIN names = 1..Len(names)
        /\ \A k \in 1..Len(names) : names[k] \in there
    BY <1>1
  <2>3. [k \in DOMAIN names |-> Stat(names[k])] \in Seq([name : Names, ctime : Nat])
    BY <1>2, <2>2, IsASeq
  <2>4. <<>> \in Seq([name : Names, ctime : Nat])
    OBVIOUS
  <2>5. QED
    BY <2>1, <2>3, <2>4
<1>4. GoodRows(GetDir(Ino[d], t), View)
  <2>1. Ino[d] \in DirInos
    BY DEF DirInos
  <2>2. QED
    BY <2>1 DEF IInv, GoodTables, GetDir, GoodRows
<1> HIDE DEF there, names, Stat
<1> DEFINE f == Frame(d, t)
<1>5. /\ DOMAIN f = {"name", "ino", "todo", "old", "new", "done"}
      /\ f.name = d /\ f.ino = Ino[d] /\ f.todo = Readdir(d) /\ f.old = GetDir(Ino[d], t)
      /\ f.new = {} /\ f.done = <<>>
  BY DEF Frame
<1> HIDE DEF f
<1>6. f.done \in Seq(Names \X View) /\ DOMAIN f.done = {}
  BY <1>5
<1>7. DumpFrame(f, View)
  BY <1>3, <1>4, <1>5, <1>6 DEF DumpFrame, GoodRows
<1>8. QED
  BY <1>7 DEF f, Fresh

LEMMA BackupStep == IInv /\ Backup => IInv'
<1> SUFFICES ASSUME IInv, Backup PROVE IInv'
  OBVIOUS
<1>1. /\ View' = View /\ DOMAIN pending' = {Me} /\ Closed' /\ GoodPool' /\ GoodTables'
  BY Quiet DEF Backup
<1>2. DumpFrame(Frame(Root, clock), View) /\ Fresh(Root) \subseteq Leaves
  BY GoodFrame, BackupAssumption DEF BackupAssumption
<1>3. /\ stack' \in Seq(Range(stack')) /\ stack' # <<>> /\ Len(stack') = 1
      /\ Range(stack') = {Frame(Root, clock)}
  <2>1. stack' = <<Frame(Root, clock)>>
    BY DEF Backup
  <2> DEFINE f == Frame(Root, clock)
  <2> HIDE DEF f
  <2>2. <<f>> \in Seq({f}) /\ <<f>> # <<>> /\ Len(<<f>>) = 1 /\ Range(<<f>>) = {f}
    BY DEF Range
  <2>3. QED
    BY <2>1, <2>2 DEF f
<1>4. TypeOK'
  <2>1. pc' = "dump"
    BY DEF Backup
  <2>2. /\ clock' = clock /\ live' = live /\ cache' = cache /\ ctx' = ctx
        /\ changed' = {} /\ racy' = racy /\ seen' = seen \cup Fresh(Root)
    BY DEF Backup, userVars
  <2>3. QED
    BY <1>2, <1>3, <2>1, <2>2 DEF IInv, TypeOK, Pcs
<1>5. GoodWalk'
  <2>1. pc' = "dump"
    BY DEF Backup
  <2>2. QED
    BY <1>1, <1>2, <1>3, <2>1 DEF GoodWalk
<1>6. GoodClock' /\ BetweenSessions'
  BY DEF Backup, userVars, GoodClock, BetweenSessions, IInv, TypeOK
<1>7. QED
  BY <1>1, <1>4, <1>5, <1>6 DEF IInv

LEMMA EnterDirStep == IInv /\ EnterDir => IInv'
<1> SUFFICES ASSUME IInv, EnterDir PROVE IInv'
  OBVIOUS
<1> DEFINE f == Frame(Item.name, base)
<1>1. /\ View' = View /\ DOMAIN pending' = {Me} /\ Closed' /\ GoodPool' /\ GoodTables'
  BY Quiet DEF EnterDir
<1>2. DumpFrame(f, View) /\ Fresh(Item.name) \subseteq Leaves
  BY GoodFrame DEF EnterDir
<1>3. pc = "dump" /\ pc' = "dump" /\ stack' = Append(stack, f) /\ Top.todo # <<>>
  BY DEF EnterDir
<1>4. stack \in Seq(Range(stack)) /\ stack # <<>>
  BY <1>3 DEF IInv, TypeOK
<1> HIDE DEF f
<1>5. /\ stack' \in Seq(Range(stack')) /\ stack' # <<>> /\ Len(stack') = Len(stack) + 1
      /\ Range(stack') \subseteq Range(stack) \cup {f}
      /\ \A k \in 1..Len(stack) : stack'[k] = stack[k]
      /\ Len(stack) \in Nat
  BY <1>3, <1>4, Pushed
<1>6. TypeOK'
  <2>1. /\ clock' = clock /\ live' = live /\ cache' = cache /\ ctx' = ctx
        /\ changed' = changed /\ racy' = racy /\ seen' = seen \cup Fresh(Item.name)
    BY DEF EnterDir, userVars
  <2>2. QED
    BY <1>2, <1>3, <1>5, <2>1 DEF IInv, TypeOK, Pcs
<1>7. GoodWalk'
  <2>1. \A g \in Range(stack') : DumpFrame(g, View')
    BY <1>1, <1>2, <1>3, <1>5 DEF IInv, GoodWalk
  <2>2. ASSUME NEW k \in 1..(Len(stack') - 1) PROVE stack'[k].todo # <<>>
    <3>1. k \in 1..Len(stack) /\ stack'[k] = stack[k]
      BY <1>5
    <3>2. CASE k = Len(stack)
      BY <1>3, <3>1, <3>2 DEF Top, Last
    <3>3. CASE k # Len(stack)
      BY <1>3, <1>5, <3>1, <3>3 DEF IInv, GoodWalk
    <3>4. QED
      BY <3>2, <3>3
  <2>3. QED
    BY <1>3, <2>1, <2>2 DEF GoodWalk
<1>8. GoodClock' /\ BetweenSessions'
  BY DEF EnterDir, userVars, GoodClock, BetweenSessions, IInv, TypeOK
<1>9. QED
  BY <1>1, <1>6, <1>7, <1>8 DEF IInv

(* A child of the innermost directory is done.                             *)
LEMMA ChildStep ==
  ASSUME IInv, NEW cs, InsertAll(cs), \A c \in cs : WellMade(c, View \cup cs),
         pc \in {"dump", "read"}, pc' = "dump", Top.todo # <<>>,
         NEW rows, GoodRows(rows, View \cup cs),
         NEW node \in cs, node.kind \in {"REG", "LNK", "DIR"},
         \A e \in rows : Repeats(e, node),
         SetTop(ChildDone(Top, rows, node)),
         UNCHANGED <<userVars, cache, ctx, base, source, changed, seen, racy>>
  PROVE  IInv'
<1> DEFINE f == ChildDone(Top, rows, node)
<1>1. /\ View' = View \cup cs /\ durable' = durable /\ DOMAIN pending' = {Me}
      /\ Closed' /\ GoodPool' /\ GoodTables'
  BY Filled
<1>2. stack \in Seq(Range(stack)) /\ stack # <<>>
  BY DEF IInv, TypeOK
<1>3. stack' = [stack EXCEPT ![Len(stack)] = f]
  BY DEF SetTop
<1>4. DumpFrame(f, View')
  <2>1. Top \in Range(stack)
    BY <1>2, Popped DEF Top
  <2>2. DumpFrame(Top, View')
    BY <1>1, <2>1, DumpFrameGrows DEF IInv, GoodWalk
  <2>3. node \in View' /\ GoodRows(rows, View')
    BY <1>1
  <2>4. QED
    BY <2>2, <2>3, ChildDoneFrame
<1> HIDE DEF f
<1>5. /\ stack' \in Seq(Range(stack')) /\ stack' # <<>> /\ Len(stack') = Len(stack)
      /\ Range(stack') \subseteq Range(stack) \cup {f}
      /\ \A k \in 1..(Len(stack) - 1) : stack'[k] = stack[k]
  <2> DEFINE t == [stack EXCEPT ![Len(stack)] = f]
  <2>1. /\ t \in Seq(Range(t)) /\ t # <<>> /\ Len(t) = Len(stack)
        /\ Range(t) \subseteq Range(stack) \cup {f}
        /\ \A k \in 1..(Len(stack) - 1) : t[k] = stack[k]
    BY <1>2, Replaced
  <2>2. stack' = t
    BY <1>3
  <2> HIDE DEF t
  <2>3. QED
    BY <2>1, <2>2
<1>6. TypeOK'
  <2>1. /\ clock' = clock /\ live' = live /\ cache' = cache /\ ctx' = ctx
        /\ changed' = changed /\ racy' = racy /\ seen' = seen
    BY DEF userVars
  <2>2. QED
    BY <1>5, <2>1 DEF IInv, TypeOK, Pcs
<1>7. GoodWalk'
  <2>1. \A g \in Range(stack) : DumpFrame(g, View')
    BY <1>1, DumpFrameGrows DEF IInv, GoodWalk
  <2>2. \A g \in Range(stack') : DumpFrame(g, View')
    BY <1>4, <1>5, <2>1
  <2>3. \A k \in 1..(Len(stack') - 1) : stack'[k].todo # <<>>
    BY <1>5 DEF IInv, GoodWalk
  <2>4. QED
    BY <2>2, <2>3 DEF GoodWalk
<1>8. GoodClock' /\ BetweenSessions'
  BY DEF userVars, GoodClock, BetweenSessions, IInv, TypeOK
<1>9. QED
  BY <1>1, <1>6, <1>7, <1>8 DEF IInv

(* The item of the innermost directory is a name with its ctime.           *)
LEMMA GoodItem ==
  ASSUME IInv, pc \in {"dump", "read"}, Top.todo # <<>>
  PROVE  DumpFrame(Top, View) /\ Item.name \in Names /\ Item.ctime \in Nat
<1>1. stack \in Seq(Range(stack)) /\ stack # <<>>
  BY DEF IInv, TypeOK
<1>2. DumpFrame(Top, View)
  BY <1>1, Popped DEF IInv, GoodWalk, Top
<1>3. Top.todo \in Seq([name : Names, ctime : Nat])
  BY <1>2 DEF DumpFrame
<1>4. Item \in [name : Names, ctime : Nat]
  BY <1>3, HeadTailProperties DEF Item
<1>5. QED
  BY <1>2, <1>4

(* What makes a node of a file, and a row that it repeats.                 *)
LEMMA FileNode ==
  ASSUME NEW f, NEW t, NEW d, NEW e, e.ino = Ino[f], e.ctime = t, e.oid = d
  PROVE  Reg(f, t, d).kind = "REG" /\ Repeats(e, Reg(f, t, d))
  BY DEF Reg, Repeats

LEMMA ReuseFileStep == IInv /\ ReuseFile => IInv'
<1> SUFFICES ASSUME IInv, ReuseFile PROVE IInv'
  OBVIOUS
<1>1. /\ pc = "dump" /\ pc' = "dump" /\ Top.todo # <<>>
      /\ UNCHANGED <<userVars, cache, ctx, base, source, changed, seen, racy>>
  BY DEF ReuseFile
<1>2. PICK e :
        LET n == Reg(Item.name, Item.ctime, e.oid) IN
        e \in Cached /\ InsertAll({n}) /\ SetTop(ChildDone(Top, {e}, n))
  BY DEF ReuseFile
<1>3. PICK node : node = Reg(Item.name, Item.ctime, e.oid)
  OBVIOUS
<1>4. /\ e \in Top.old /\ e.ino = Ino[Item.name] /\ e.ctime = Item.ctime
      /\ GoodRow(e, View)
  BY <1>1, <1>2, GoodItem DEF Cached, DumpFrame, GoodRows
<1>5. node.kind = "REG" /\ Repeats(e, node)
  BY <1>3, <1>4, FileNode
<1>6. WellMade(node, View \cup {node})
  BY <1>3, <1>4, Constructors DEF GoodRow
<1>7. GoodRows({e}, View \cup {node})
  BY <1>4 DEF GoodRows, GoodRow
<1> DEFINE cs == {node}
           rows == {e}
<1>8. InsertAll(cs) /\ SetTop(ChildDone(Top, rows, node))
  BY <1>2, <1>3
<1>9. /\ \A c \in cs : WellMade(c, View \cup cs)
      /\ node \in cs
      /\ GoodRows(rows, View \cup cs) /\ \A r \in rows : Repeats(r, node)
      /\ pc \in {"dump", "read"} /\ node.kind \in {"REG", "LNK", "DIR"}
  BY <1>1, <1>5, <1>6, <1>7
<1> HIDE DEF cs, rows
<1>10. QED
  BY <1>1, <1>8, <1>9, ChildStep

LEMMA PlainNodeStep == IInv /\ PlainNode => IInv'
<1> SUFFICES ASSUME IInv, PlainNode PROVE IInv'
  OBVIOUS
<1>1. PICK node : node = Lnk(Item.name, Item.ctime, live[Item.name].data)
  OBVIOUS
<1> DEFINE cs == {node}
           rows == {}
<1>2. /\ pc = "dump" /\ pc' = "dump" /\ Top.todo # <<>>
      /\ UNCHANGED <<userVars, cache, ctx, base, source, changed, seen, racy>>
      /\ InsertAll(cs) /\ SetTop(ChildDone(Top, rows, node))
  BY <1>1 DEF PlainNode
<1>3. node.kind = "LNK"
  BY <1>1 DEF Lnk
<1>4. WellMade(node, View \cup {node})
  BY <1>1, Constructors
<1>5. /\ \A c \in cs : WellMade(c, View \cup cs)
      /\ node \in cs
      /\ GoodRows(rows, View \cup cs) /\ \A r \in rows : Repeats(r, node)
      /\ pc \in {"dump", "read"} /\ node.kind \in {"REG", "LNK", "DIR"}
  BY <1>2, <1>3, <1>4 DEF GoodRows
<1> HIDE DEF cs, rows
<1>6. QED
  BY <1>2, <1>5, ChildStep

(* The blobs of a file make data that can be stored.                       *)
LEMMA GoodData ==
  ASSUME NEW V, NEW bs \in Seq(V), \A c \in V : WellMade(c, V)
  PROVE  WellMade(FileData(bs), V \cup {FileData(bs)})
<1>1. CASE bs = <<>>
  BY <1>1, Constructors DEF FileData
<1>2. CASE bs # <<>> /\ Len(bs) = 1
  <2>1. FileData(bs) = bs[1] /\ bs[1] \in V
    BY <1>2 DEF FileData
  <2>2. QED
    BY <2>1, WellMadeGrows
<1>3. CASE bs # <<>> /\ Len(bs) # 1
  <2>1. FileData(bs) = Ind(bs) /\ \A i \in DOMAIN bs : bs[i] \in V
    BY <1>3 DEF FileData
  <2>2. WellMade(Ind(bs), V)
    BY <2>1, Constructors
  <2>3. QED
    BY <2>1, <2>2, WellMadeGrows
<1>4. QED
  BY <1>1, <1>2, <1>3

\* Ages are numbers.
LEMMA AgesAreTimes == Ages \subseteq Nat
  BY BackupAssumption DEF BackupAssumption

LEMMA FinishFileStep == IInv /\ FinishFile => IInv'
<1> SUFFICES ASSUME IInv, FinishFile PROVE IInv'
  OBVIOUS
<1>1. /\ pc = "read" /\ pc' = "dump"
      /\ UNCHANGED <<userVars, cache, ctx, base, source, changed, seen, racy>>
  BY DEF FinishFile
<1>2. PICK data : data = FileData(blocks)
  OBVIOUS
<1>3. PICK node : node = Reg(Item.name, Item.ctime, data)
  OBVIOUS
<1>4. PICK age \in Ages :
        SetTop(ChildDone(Top, {NewRow(Ino[Item.name], Item.ctime, data, age)}, node))
  BY <1>2, <1>3 DEF FinishFile
<1>5. PICK r : r = NewRow(Ino[Item.name], Item.ctime, data, age)
  OBVIOUS
<1> DEFINE cs == {data, node}
           rows == {r}
           V == View \cup cs
<1>6. InsertAll(cs) /\ SetTop(ChildDone(Top, rows, node))
  BY <1>2, <1>3, <1>4, <1>5 DEF FinishFile
<1>7. Top.todo # <<>> /\ blocks \in Seq(View)
  BY <1>1 DEF IInv, GoodWalk
<1>8. WellMade(data, V)
  <2>1. WellMade(data, View \cup {data})
    BY <1>2, <1>7, GoodData DEF IInv, GoodPool
  <2>2. QED
    BY <2>1, WellMadeGrows
<1>9. node.kind = "REG" /\ WellMade(node, V)
  <2>1. data \in V
    OBVIOUS
  <2>2. \A f, t : \A d \in V : WellMade(Reg(f, t, d), V)
    BY Constructors
  <2>3. QED
    BY <1>3, <2>1, <2>2 DEF Reg
<1>10. /\ r.oid = data /\ r.ino = Ino[Item.name] /\ r.ctime = Item.ctime
       /\ r.expire = base + age
  BY <1>1, <1>5 DEF NewRow
<1>11. Repeats(r, node)
  BY <1>3, <1>10, FileNode
<1>12. GoodRow(r, V)
  <2>1. age \in Nat /\ base \in Nat
    BY AgesAreTimes DEF IInv, GoodClock
  <2>2. r.expire \in Nat
    BY <1>10, <2>1
  <2>3. QED
    BY <1>10, <2>2 DEF GoodRow
<1>13. /\ \A c \in cs : WellMade(c, View \cup cs)
       /\ node \in cs
       /\ GoodRows(rows, View \cup cs) /\ \A e \in rows : Repeats(e, node)
       /\ pc \in {"dump", "read"} /\ node.kind \in {"REG", "LNK", "DIR"}
  BY <1>1, <1>8, <1>9, <1>11, <1>12 DEF GoodRows
<1> HIDE DEF cs, rows, V
<1>14. QED
  BY <1>1, <1>6, <1>7, <1>13, ChildStep

LEMMA OpenFileStep == IInv /\ OpenFile => IInv'
<1> SUFFICES ASSUME IInv, OpenFile PROVE IInv'
  OBVIOUS
<1>1. /\ pc = "dump" /\ pc' = "read" /\ stack' = stack /\ blocks' = <<>>
      /\ Top.todo # <<>> /\ Item.name \in Files
      /\ UNCHANGED <<userVars, poolVars, cache, ctx, base, source, changed, seen, racy>>
  BY DEF OpenFile
<1>2. View' = View /\ DOMAIN pending' = {Me} /\ Closed' /\ GoodPool' /\ GoodTables'
  BY <1>1, Quiet
<1>3. TypeOK'
  <2>1. /\ clock' = clock /\ live' = live /\ cache' = cache /\ ctx' = ctx
        /\ changed' = changed /\ racy' = racy /\ seen' = seen
    BY <1>1 DEF userVars
  <2>2. QED
    BY <1>1, <2>1 DEF IInv, TypeOK, Pcs
<1>4. GoodWalk'
  <2>1. Top' = Top /\ Item' = Item
    BY <1>1 DEF Top, Item
  <2>2. blocks' \in Seq(View')
    BY <1>1
  <2>3. QED
    BY <1>1, <1>2, <2>1, <2>2 DEF IInv, GoodWalk
<1>5. GoodClock' /\ BetweenSessions'
  BY <1>1 DEF userVars, GoodClock, BetweenSessions, IInv, TypeOK
<1>6. QED
  BY <1>2, <1>3, <1>4, <1>5 DEF IInv

LEMMA ReadBlockStep == IInv /\ ReadBlock => IInv'
<1> SUFFICES ASSUME IInv, ReadBlock PROVE IInv'
  OBVIOUS
<1>1. PICK b : b = Blob(live[Item.name].data[Len(blocks) + 1])
  OBVIOUS
<1> DEFINE cs == {b}
<1>2. /\ pc = "read" /\ pc' = "read" /\ stack' = stack /\ blocks' = Append(blocks, b)
      /\ InsertAll(cs)
      /\ UNCHANGED <<userVars, cache, ctx, base, source, changed, seen, racy>>
  BY <1>1 DEF ReadBlock
<1>3. \A c \in cs : WellMade(c, View \cup cs)
  BY <1>1, Constructors
<1>4. b \in cs
  OBVIOUS
<1> HIDE DEF cs
<1>5. /\ View' = View \cup cs /\ durable' = durable /\ DOMAIN pending' = {Me}
      /\ Closed' /\ GoodPool' /\ GoodTables'
  BY <1>2, <1>3, Filled
<1>6. TypeOK'
  <2>1. /\ clock' = clock /\ live' = live /\ cache' = cache /\ ctx' = ctx
        /\ changed' = changed /\ racy' = racy /\ seen' = seen
    BY <1>2 DEF userVars
  <2>2. QED
    BY <1>2, <2>1 DEF IInv, TypeOK, Pcs
<1>7. GoodWalk'
  <2>1. Top' = Top /\ Item' = Item
    BY <1>2 DEF Top, Item
  <2>2. blocks' \in Seq(View')
    <3>1. blocks \in Seq(View) /\ View \subseteq View' /\ b \in View'
      BY <1>2, <1>4, <1>5 DEF IInv, GoodWalk
    <3>2. blocks \in Seq(View')
      BY <3>1
    <3>3. QED
      BY <1>2, <3>1, <3>2, AppendProperties
  <2>3. \A g \in Range(stack') : DumpFrame(g, View')
    BY <1>2, <1>5, DumpFrameGrows DEF IInv, GoodWalk
  <2>4. QED
    BY <1>2, <2>1, <2>2, <2>3 DEF IInv, GoodWalk
<1>8. GoodClock' /\ BetweenSessions'
  BY <1>2 DEF userVars, GoodClock, BetweenSessions, IInv, TypeOK
<1>9. QED
  BY <1>5, <1>6, <1>7, <1>8 DEF IInv

LEMMA WriteBackStep == IInv /\ WriteBack => IInv'
<1> SUFFICES ASSUME IInv, WriteBack PROVE IInv'
  OBVIOUS
<1>1. PICK b : b = Back(base, head)
  OBVIOUS
<1> DEFINE cs == {b}
<1>2. /\ pc = "back" /\ pc' = "commit" /\ stack' = stack
      /\ InsertAll(cs)
      /\ UNCHANGED <<userVars, cache, ctx, base, source, changed, seen, racy>>
  BY <1>1 DEF WriteBack
<1>3. \A c \in cs : WellMade(c, View \cup cs)
  <2>1. head \in View \cup cs /\ head.kind = "DIR" /\ base \in Nat
    BY <1>2 DEF IInv, GoodWalk, GoodClock
  <2> HIDE DEF cs
  <2>2. WellMade(Back(base, head), View \cup cs)
    BY <2>1, Constructors
  <2>3. QED
    BY <1>1, <2>2 DEF cs
<1> HIDE DEF cs
<1>4. /\ View' = View \cup cs /\ durable' = durable /\ DOMAIN pending' = {Me}
      /\ Closed' /\ GoodPool' /\ GoodTables'
  BY <1>2, <1>3, Filled
<1>5. TypeOK'
  <2>1. /\ clock' = clock /\ live' = live /\ cache' = cache /\ ctx' = ctx
        /\ changed' = changed /\ racy' = racy /\ seen' = seen
    BY <1>2 DEF userVars
  <2>2. QED
    BY <1>2, <2>1 DEF IInv, TypeOK, Pcs
<1>6. GoodWalk' /\ GoodClock' /\ BetweenSessions'
  BY <1>2 DEF GoodWalk, GoodClock, BetweenSessions, IInv
<1>7. QED
  BY <1>4, <1>5, <1>6 DEF IInv

(* Leaving a directory: its node vouches for the rows of its files.        *)
LEMMA LeaveDirStep == IInv /\ LeaveDir => IInv'
<1> SUFFICES ASSUME IInv, LeaveDir PROVE IInv'
  OBVIOUS
<1>1. PICK list : list = DirData(Top.done)
  OBVIOUS
<1>2. PICK node : node = DirNode(Top.ino, list)
  OBVIOUS
<1>3. PICK rest : rest = Front(stack)
  OBVIOUS
<1> DEFINE cs == {list, node}
           V == View \cup cs
<1>4. /\ pc = "dump" /\ Top.todo = <<>> /\ InsertAll(cs) /\ UpdateDir(Top.ino, Top.new)
      /\ IF rest = <<>>
           THEN pc' = "back" /\ head' = node /\ stack' = <<>>
           ELSE /\ stack' = [rest EXCEPT ![Len(rest)] = ChildDone(@, {}, node)]
                /\ UNCHANGED <<pc, head>>
      /\ UNCHANGED <<userVars, cache, base, source, changed, seen, racy>>
  BY <1>1, <1>2, <1>3 DEF LeaveDir
<1>5. stack \in Seq(Range(stack)) /\ stack # <<>>
  BY <1>4 DEF IInv, TypeOK
<1>6. /\ rest \in Seq(Range(rest)) /\ Range(rest) \subseteq Range(stack)
      /\ Len(stack) \in Nat \ {0} /\ Len(rest) = Len(stack) - 1
      /\ \A k \in 1..Len(rest) : rest[k] = stack[k]
      /\ Top \in Range(stack)
  BY <1>3, <1>5, Popped DEF Top
<1>7. DumpFrame(Top, View)
  BY <1>4, <1>6 DEF IInv, GoodWalk
<1>8. WellMade(list, V) /\ (list = Null \/ list.kind = "dir")
  <2>1. CASE Top.done = <<>>
    BY <1>1, <2>1, Constructors DEF DirData
  <2>2. CASE Top.done # <<>>
    <3>1. list = Listing(Top.done)
      BY <1>1, <2>2 DEF DirData
    <3>2. WellMade(list, View)
      BY <1>7, <3>1, GoodListing DEF DumpFrame
    <3>3. QED
      BY <3>1, <3>2, WellMadeGrows DEF Listing
  <2>3. QED
    BY <2>1, <2>2
<1>9. WellMade(node, V) /\ node.kind = "DIR" /\ node.ino = Top.ino /\ node.children = list
  <2>1. list \in V
    OBVIOUS
  <2>2. \A i : \A l \in V : l = Null \/ l.kind = "dir" => WellMade(DirNode(i, l), V)
    BY Constructors
  <2>3. QED
    BY <1>2, <1>8, <2>1, <2>2 DEF DirNode
<1>10. /\ View' = V /\ durable' = durable /\ DOMAIN pending' = {Me}
       /\ Closed' /\ GoodPool'
  <2>1. \A c \in cs : WellMade(c, View \cup cs)
    BY <1>8, <1>9
  <2> HIDE DEF cs
  <2>2. QED
    BY <1>4, <2>1, Inserted, GoodInsert DEF IInv
<1>11. GoodRows(Top.new, V) /\ VouchedFor(Top.ino, Top.new, V)
  <2>1. GoodRows(Top.new, V)
    BY <1>7, RowsGrow DEF DumpFrame
  <2>2. ASSUME NEW e \in Top.new PROVE \E n \in Refs(node.children) : Repeats(e, n)
    <3>1. PICK k \in DOMAIN Top.done : Repeats(e, Top.done[k][2])
      BY <1>7 DEF DumpFrame
    <3>2. Top.done # <<>>
      BY <3>1
    <3>3. Refs(list) = {Top.done[j][2] : j \in DOMAIN Top.done}
      BY <1>1, <3>2, RefsOf DEF DirData
    <3>4. QED
      BY <1>9, <3>1, <3>3
  <2>3. node \in V
    OBVIOUS
  <2> HIDE DEF V
  <2>4. QED
    BY <1>9, <2>1, <2>2, <2>3 DEF VouchedFor, GoodRows, GoodRow
<1>12. GoodTables' /\ DOMAIN cache' = DirInos /\ DOMAIN ctx' = DirInos
  <2>1. DOMAIN cache = DirInos /\ DOMAIN ctx = DirInos
    BY DEF IInv, TypeOK
  <2>2. ctx' = [ctx EXCEPT ![Top.ino] = {e \in Top.new : e.expire >= base}] /\ cache' = cache
    BY <1>4 DEF UpdateDir
  <2>3. DOMAIN cache' = DirInos /\ DOMAIN ctx' = DirInos
    BY <2>1, <2>2
  <2>4. ASSUME NEW i \in DirInos PROVE GoodRows(ctx'[i], V) /\ VouchedFor(i, ctx'[i], V)
    <3>1. CASE i = Top.ino
      <4>1. ctx'[i] \subseteq Top.new
        BY <2>1, <2>2, <3>1
      <4> HIDE DEF V
      <4>2. QED
        BY <1>11, <3>1, <4>1 DEF GoodRows, VouchedFor
    <3>2. CASE i # Top.ino
      <4>1. ctx'[i] = ctx[i] /\ View \subseteq V
        BY <2>1, <2>2, <3>2
      <4> HIDE DEF V
      <4>2. QED
        BY <4>1, RowsGrow DEF IInv, GoodTables
    <3>3. QED
      BY <3>1, <3>2
  <2> HIDE DEF V
  <2>5. QED
    BY <1>10, <2>2, <2>3, <2>4 DEF IInv, GoodTables
<1>13. /\ clock' = clock /\ live' = live /\ changed' = changed /\ racy' = racy /\ seen' = seen
       /\ base' = base /\ source' = source
  BY <1>4 DEF userVars
<1>14. node \in View'
  BY <1>10
<1> HIDE DEF V, cs
<1>15. CASE rest = <<>>
  <2>1. pc' = "back" /\ head' = node /\ stack' = <<>>
    BY <1>4, <1>15
  <2>2. TypeOK'
    <3>1. stack' \in Seq(Range(stack'))
      BY <2>1
    <3>2. QED
      BY <1>12, <1>13, <2>1, <3>1 DEF IInv, TypeOK, Pcs
  <2>3. GoodWalk'
    BY <1>9, <1>14, <2>1 DEF GoodWalk
  <2>4. GoodClock' /\ BetweenSessions'
    BY <1>4, <1>13, <2>1 DEF IInv, GoodClock, BetweenSessions
  <2>5. QED
    BY <1>10, <1>12, <2>2, <2>3, <2>4 DEF IInv
<1>16. CASE rest # <<>>
  <2>1. PICK f : f = ChildDone(rest[Len(rest)], {}, node)
    OBVIOUS
  <2>2. pc' = "dump" /\ Len(rest) \in 1..Len(rest) /\ Len(rest) \in Nat
    BY <1>4, <1>6, <1>16
  <2>3. stack' = [rest EXCEPT ![Len(rest)] = f]
    BY <1>4, <1>16, <2>1
  <2>4. DumpFrame(f, View')
    <3>1. rest[Len(rest)] \in Range(stack) /\ rest[Len(rest)] = stack[Len(stack) - 1]
      BY <1>6, <2>2 DEF Range
    <3>2. DumpFrame(rest[Len(rest)], View)
      BY <1>4, <3>1 DEF IInv, GoodWalk
    <3>3. View \subseteq View'
      BY <1>10 DEF V
    <3>4. rest[Len(rest)].todo # <<>>
      BY <1>4, <1>6, <2>2, <3>1 DEF IInv, GoodWalk
    <3>5. GoodRows({}, View')
      BY DEF GoodRows
    <3>6. DumpFrame(rest[Len(rest)], View')
      BY <3>2, <3>3, DumpFrameGrows
    <3>7. QED
      BY <1>9, <1>14, <2>1, <3>4, <3>5, <3>6, ChildDoneFrame
  <2>5. /\ stack' \in Seq(Range(stack')) /\ stack' # <<>> /\ Len(stack') = Len(rest)
        /\ Range(stack') \subseteq Range(rest) \cup {f}
        /\ \A k \in 1..(Len(rest) - 1) : stack'[k] = rest[k]
    <3> DEFINE t == [rest EXCEPT ![Len(rest)] = f]
    <3>1. rest \in Seq(Range(rest)) /\ rest # <<>>
      BY <1>6, <1>16
    <3>2. /\ t \in Seq(Range(t)) /\ t # <<>> /\ Len(t) = Len(rest)
          /\ Range(t) \subseteq Range(rest) \cup {f}
          /\ \A k \in 1..(Len(rest) - 1) : t[k] = rest[k]
      BY <3>1, Replaced
    <3>3. stack' = t
      BY <2>3
    <3> HIDE DEF t
    <3>4. QED
      BY <3>2, <3>3
  <2>6. TypeOK'
    BY <1>12, <1>13, <2>2, <2>5 DEF IInv, TypeOK, Pcs
  <2>7. GoodWalk'
    <3>1. \A g \in Range(stack) : DumpFrame(g, View')
      BY <1>4, <1>10, DumpFrameGrows DEF IInv, GoodWalk, V
    <3>2. \A g \in Range(stack') : DumpFrame(g, View')
      BY <1>6, <2>4, <2>5, <3>1
    <3>3. ASSUME NEW k \in 1..(Len(stack') - 1) PROVE stack'[k].todo # <<>>
      <4>1. k \in 1..(Len(rest) - 1) /\ k \in 1..Len(rest) /\ k \in 1..(Len(stack) - 1)
        BY <1>6, <2>2, <2>5
      <4>2. stack'[k] = stack[k]
        BY <1>6, <2>5, <4>1
      <4>3. QED
        BY <1>4, <4>1, <4>2 DEF IInv, GoodWalk
    <3>4. QED
      BY <2>2, <3>2, <3>3 DEF GoodWalk
  <2>8. GoodClock' /\ BetweenSessions'
    BY <1>4, <1>13, <2>2 DEF IInv, GoodClock, BetweenSessions
  <2>9. QED
    BY <1>10, <1>12, <2>6, <2>7, <2>8 DEF IInv
<1>17. QED
  BY <1>15, <1>16

-----------------------------------------------------------------------------
(* The regeneration of the cache. *)

(* What is durable could be stored with only what is durable.              *)
LEMMA DurableMade ==
  ASSUME IInv, NEW c \in durable
  PROVE  WellMade(c, durable)
<1>1. WellMade(c, View) /\ Refs(c) \subseteq durable
  BY DEF IInv, GoodPool, View, Closed
<1>2. ASSUME c.kind = "dir" PROVE c.entries \in Seq(Names \X durable)
  <2>1. PICK es : es = c.entries
    OBVIOUS
  <2>2. es \in Seq(Names \X View) /\ Refs(c) = {es[k][2] : k \in DOMAIN es}
    BY <1>1, <1>2, <2>1 DEF WellMade, Refs
  <2>3. \A k \in DOMAIN es : es[k] \in Names \X View /\ es[k][2] \in durable
    BY <1>1, <2>2
  <2>4. \A k \in DOMAIN es : es[k] \in Names \X durable
    BY <2>3
  <2>5. QED
    BY <2>1, <2>2, <2>4, Narrowed
<1>3. QED
  BY <1>1, <1>2 DEF WellMade

(* A directory of the pool, when the walk enters it.                       *)
LEMMA GoodRegenFrame ==
  ASSUME IInv, NEW d \in durable, d.kind = "DIR"
  PROVE  RegenFrameOK(RegenFrame(d))
<1> DEFINE list == d.children
           f == RegenFrame(d)
<1>1. WellMade(d, durable) /\ Refs(d) = {list} /\ list \in durable
  <2>1. Refs(d) = {list}
    BY DEF Refs
  <2>2. QED
    BY <2>1, DurableMade DEF IInv, Closed
<1>2. WellMade(list, durable)
  BY <1>1, DurableMade
<1>3. /\ Entries(list) \in Seq(Names \X durable)
      /\ \A k \in DOMAIN Entries(list) : Entries(list)[k][2] \in Refs(list)
  <2>1. CASE list = Null
    BY <2>1 DEF Entries
  <2>2. CASE list # Null
    <3>1. list.kind = "dir"
      BY <1>1, <2>2 DEF WellMade
    <3>2. list.entries \in Seq(Names \X durable)
      BY <1>2, <3>1 DEF WellMade
    <3>3. Refs(list) = {list.entries[k][2] : k \in DOMAIN list.entries}
      BY <3>1 DEF Refs
    <3>4. QED
      BY <2>2, <3>2, <3>3 DEF Entries
  <2>3. QED
    BY <2>1, <2>2
<1>4. /\ DOMAIN f = {"name", "ino", "todo", "old", "new", "done"}
      /\ f.ino = d.ino /\ f.todo = Entries(list) /\ f.new = {}
  BY DEF RegenFrame
<1> HIDE DEF f, list
<1>5. RegenFrameOf(f, d)
  BY <1>3, <1>4 DEF RegenFrameOf, list
<1>6. RegenFrameOK(f)
  BY <1>3, <1>4, <1>5 DEF RegenFrameOK, GoodRows
<1>7. QED
  BY <1>6 DEF f

(* The node that is met next, and its directory once it is done.           *)
LEMMA RegenMet ==
  ASSUME IInv, pc = "regen", Top.todo # <<>>, NEW g,
         DOMAIN g = DOMAIN Top, g.ino = Top.ino, g.todo = Tail(Top.todo),
         GoodRows(g.new, durable), \A e \in g.new : e \in Top.new \/ Repeats(e, Node)
  PROVE  Node \in durable /\ RegenFrameOK(g)
<1>1. stack \in Seq(Range(stack)) /\ stack # <<>>
  BY DEF IInv, TypeOK
<1>2. RegenFrameOK(Top)
  BY <1>1, Popped DEF IInv, GoodWalk, Top
<1>3. Top.todo \in Seq(Names \X durable)
  BY <1>2 DEF RegenFrameOK
<1>4. /\ Item = Top.todo[1] /\ Item \in Names \X durable /\ 1 \in DOMAIN Top.todo
      /\ g.todo \in Seq(Names \X durable)
      /\ \A k \in DOMAIN g.todo : k + 1 \in DOMAIN Top.todo /\ g.todo[k] = Top.todo[k + 1]
  <2> DEFINE s == Top.todo
  <2>1. s \in Seq(Names \X durable) /\ s # <<>> /\ g.todo = Tail(s) /\ Item = Head(s)
    BY <1>3 DEF Item
  <2> HIDE DEF s
  <2>2. /\ 1 \in DOMAIN s /\ Head(s) = s[1] /\ Head(s) \in Names \X durable
        /\ Tail(s) \in Seq(Names \X durable)
        /\ \A k \in DOMAIN Tail(s) : k + 1 \in DOMAIN s /\ Tail(s)[k] = s[k + 1]
    BY <2>1, FirstAndRest
  <2>3. QED
    BY <2>1, <2>2 DEF s
<1>5. PICK d \in durable : RegenFrameOf(Top, d)
  BY <1>2 DEF RegenFrameOK
<1>6. Node \in durable /\ Node \in Refs(d.children)
  <2>1. Node = Top.todo[1][2]
    BY <1>4 DEF Node
  <2>2. QED
    BY <1>4, <1>5, <2>1 DEF RegenFrameOf, Node
<1>7. RegenFrameOf(g, d)
  <2>1. \A k \in DOMAIN g.todo : g.todo[k][2] \in Refs(d.children)
    BY <1>4, <1>5 DEF RegenFrameOf
  <2>2. \A e \in g.new : \E n \in Refs(d.children) : Repeats(e, n)
    BY <1>5, <1>6 DEF RegenFrameOf
  <2>3. QED
    BY <1>5, <2>1, <2>2 DEF RegenFrameOf
<1>8. QED
  BY <1>2, <1>4, <1>6, <1>7 DEF RegenFrameOK

LEMMA RegenPassed ==
  ASSUME IInv, pc = "regen", Top.todo # <<>>
  PROVE  /\ Node \in durable /\ RegenFrameOK(Top)
         /\ RegenFrameOK([Top EXCEPT !.todo = Tail(@)])
<1>1. PICK g : g = [Top EXCEPT !.todo = Tail(@)]
  OBVIOUS
<1>2. stack \in Seq(Range(stack)) /\ stack # <<>>
  BY DEF IInv, TypeOK
<1>3. RegenFrameOK(Top)
  BY <1>2, Popped DEF IInv, GoodWalk, Top
<1>4. /\ DOMAIN g = DOMAIN Top /\ g.ino = Top.ino /\ g.todo = Tail(Top.todo)
      /\ g.new = Top.new
  BY <1>1, <1>3 DEF RegenFrameOK
<1>5. GoodRows(g.new, durable)
  BY <1>3, <1>4 DEF RegenFrameOK
<1>6. Node \in durable /\ RegenFrameOK(g)
  BY <1>4, <1>5, RegenMet
<1>7. QED
  BY <1>1, <1>3, <1>6

(* The walk goes on with other frames.                                     *)
LEMMA RegenStep ==
  ASSUME IInv, pc = "regen", pc' = "regen", base' = base, source' = source,
         source \in durable, source.kind = "back", base = source.date,
         UNCHANGED <<userVars, poolVars, cache, ctx, changed, seen, racy>>,
         stack' \in Seq(Range(stack')), stack' # <<>>,
         \A f \in Range(stack') : RegenFrameOK(f)
  PROVE  IInv'
<1>1. View' = View /\ DOMAIN pending' = {Me} /\ Closed' /\ GoodPool' /\ GoodTables'
  BY Quiet
<1>2. durable' = durable /\ clock' = clock /\ live' = live
  BY DEF poolVars, userVars
<1>3. TypeOK'
  BY <1>2 DEF IInv, TypeOK, Pcs
<1>4. GoodWalk'
  BY <1>2 DEF GoodWalk, RegenFrameOK
<1>5. GoodClock' /\ BetweenSessions'
  BY <1>2 DEF IInv, GoodClock, BetweenSessions
<1>6. QED
  BY <1>1, <1>3, <1>4, <1>5 DEF IInv

LEMMA RegenBackStep ==
  ASSUME IInv, NEW b \in durable, RegenBack(b)
  PROVE  IInv'
<1>1. /\ b.kind = "back" /\ pc' = "regen" /\ source' = b /\ base' = b.date
      /\ stack' = <<RegenFrame(b.hash)>> /\ changed' = {}
      /\ UNCHANGED <<userVars, poolVars, cache, ctx, seen, racy>>
  BY DEF RegenBack
<1>2. View' = View /\ DOMAIN pending' = {Me} /\ Closed' /\ GoodPool' /\ GoodTables'
  BY <1>1, Quiet
<1>3. durable' = durable /\ clock' = clock /\ live' = live
  BY <1>1 DEF poolVars, userVars
<1>4. b.hash \in durable /\ b.hash.kind = "DIR" /\ b.date \in Nat
  <2>1. Refs(b) = {b.hash}
    BY <1>1 DEF Refs
  <2>2. b.hash \in durable
    BY <2>1 DEF IInv, Closed
  <2>3. WellMade(b, View)
    BY DEF IInv, GoodPool, View
  <2>4. QED
    BY <1>1, <2>2, <2>3 DEF WellMade
<1>5. PICK f : f = RegenFrame(b.hash)
  OBVIOUS
<1>6. RegenFrameOK(f)
  BY <1>4, <1>5, GoodRegenFrame
<1>7. stack' \in Seq(Range(stack')) /\ stack' # <<>> /\ Range(stack') = {f}
  <2>1. <<f>> \in Seq({f}) /\ <<f>> # <<>> /\ Range(<<f>>) = {f}
    BY DEF Range
  <2>2. QED
    BY <1>1, <1>5, <2>1
<1>8. TypeOK'
  BY <1>1, <1>3, <1>7 DEF IInv, TypeOK, Pcs
<1>9. GoodWalk'
  BY <1>1, <1>3, <1>6, <1>7 DEF GoodWalk, RegenFrameOK
<1>10. GoodClock' /\ BetweenSessions'
  BY <1>1, <1>3, <1>4 DEF GoodClock, BetweenSessions
<1>11. QED
  BY <1>2, <1>8, <1>9, <1>10 DEF IInv

LEMMA RegenEnterStep == IInv /\ RegenEnter => IInv'
<1> SUFFICES ASSUME IInv, RegenEnter PROVE IInv'
  OBVIOUS
<1>1. PICK f : f = RegenFrame(Node)
  OBVIOUS
<1>2. PICK g : g = [Top EXCEPT !.todo = Tail(@)]
  OBVIOUS
<1>3. /\ pc = "regen" /\ pc' = "regen" /\ base' = base /\ source' = source
      /\ Top.todo # <<>> /\ Node.kind = "DIR"
      /\ UNCHANGED <<userVars, poolVars, cache, ctx, changed, seen, racy>>
  BY DEF RegenEnter
<1>4. stack \in Seq(Range(stack)) /\ stack # <<>>
  BY <1>3 DEF IInv, TypeOK
<1>5. \A h \in Range(stack) : RegenFrameOK(h)
  BY <1>3 DEF IInv, GoodWalk
<1>6. Node \in durable /\ RegenFrameOK(g)
  BY <1>2, <1>3, RegenPassed
<1>7. RegenFrameOK(f)
  BY <1>1, <1>3, <1>6, GoodRegenFrame
<1>8. PICK t : t = [stack EXCEPT ![Len(stack)] = g]
  OBVIOUS
<1>9. t \in Seq(Range(t)) /\ Range(t) \subseteq Range(stack) \cup {g}
  BY <1>4, <1>8, Replaced
<1>10. stack' = Append(t, f)
  <2>1. [stack EXCEPT ![Len(stack)].todo = Tail(@)] = t
    BY <1>2, <1>8 DEF Top, Last
  <2>2. QED
    BY <1>1, <2>1 DEF RegenEnter
<1>11. /\ stack' \in Seq(Range(stack')) /\ stack' # <<>>
       /\ Range(stack') \subseteq Range(t) \cup {f}
  BY <1>9, <1>10, Pushed
<1>12. \A h \in Range(stack') : RegenFrameOK(h)
  BY <1>5, <1>6, <1>7, <1>9, <1>11
<1>13. source \in durable /\ source.kind = "back" /\ base = source.date
  BY <1>3 DEF IInv, GoodClock
<1>14. QED
  BY <1>3, <1>11, <1>12, <1>13, RegenStep

(* The innermost directory is one node further.                            *)
LEMMA RegenStay ==
  ASSUME IInv, pc = "regen", NEW g, RegenFrameOK(g), SetTop(g),
         UNCHANGED <<userVars, poolVars, cache, ctx, pc, base, source, changed, seen, racy>>
  PROVE  IInv'
<1>1. stack \in Seq(Range(stack)) /\ stack # <<>>
  BY DEF IInv, TypeOK
<1>2. PICK t : t = [stack EXCEPT ![Len(stack)] = g]
  OBVIOUS
<1>3. t \in Seq(Range(t)) /\ t # <<>> /\ Range(t) \subseteq Range(stack) \cup {g}
  BY <1>1, <1>2, Replaced
<1>4. stack' = t
  BY <1>2 DEF SetTop
<1>5. \A h \in Range(stack') : RegenFrameOK(h)
  BY <1>3, <1>4 DEF IInv, GoodWalk
<1>6. source \in durable /\ source.kind = "back" /\ base = source.date
  BY DEF IInv, GoodClock
<1>7. QED
  BY <1>3, <1>4, <1>5, <1>6, RegenStep


LEMMA RegenSkipStep == IInv /\ RegenSkip => IInv'
<1> SUFFICES ASSUME IInv, RegenSkip PROVE IInv'
  OBVIOUS
<1>1. PICK g : g = [Top EXCEPT !.todo = Tail(@)]
  OBVIOUS
<1>2. /\ pc = "regen" /\ Top.todo # <<>> /\ SetTop(g)
      /\ UNCHANGED <<userVars, poolVars, cache, ctx, pc, base, source, changed, seen, racy>>
  BY <1>1 DEF RegenSkip
<1>3. RegenFrameOK(g)
  BY <1>1, <1>2, RegenPassed
<1>4. QED
  BY <1>2, <1>3, RegenStay

LEMMA RegenOpenStep == IInv /\ RegenOpen => IInv'
<1> SUFFICES ASSUME IInv, RegenOpen PROVE IInv'
  OBVIOUS
<1> DEFINE Row(a) == NewRow(Node.ino, Node.ctime, Node.data, a)
           New(r) == [Top EXCEPT !.todo = Tail(@), !.new = {e \in @ : e.ino # r.ino} \cup {r}]
<1>a. PICK age \in Ages : SetTop(New(Row(age)))
  BY Zenon DEF RegenOpen
<1> HIDE DEF Row, New
<1>b. PICK row : row = Row(age)
  OBVIOUS
<1>c. PICK g : g = New(row)
  OBVIOUS
<1>1. /\ row = NewRow(Node.ino, Node.ctime, Node.data, age)
      /\ g = [Top EXCEPT !.todo = Tail(@), !.new = {e \in @ : e.ino # row.ino} \cup {row}]
      /\ SetTop(g)
  <2>1. SetTop(g)
    BY <1>a, <1>b, <1>c
  <2>2. QED
    BY <2>1, <1>b, <1>c DEF Row, New
<1>2. /\ pc = "regen" /\ Top.todo # <<>> /\ Node.kind = "REG"
      /\ UNCHANGED <<userVars, poolVars, cache, ctx, pc, base, source, changed, seen, racy>>
  BY DEF RegenOpen
<1>3. Node \in durable /\ RegenFrameOK(Top)
  BY <1>2, RegenPassed
<1>4. Node.data \in durable
  <2>1. Refs(Node) = {Node.data}
    BY <1>2 DEF Refs
  <2>2. QED
    BY <1>3, <2>1 DEF IInv, Closed
<1>5. /\ row.ino = Node.ino /\ row.ctime = Node.ctime /\ row.oid = Node.data
      /\ row.expire = base + age
  BY <1>1 DEF NewRow
<1>6. GoodRow(row, durable) /\ Repeats(row, Node)
  <2>1. base \in Nat /\ age \in Nat
    BY AgesAreTimes DEF IInv, GoodClock
  <2>2. row.expire \in Nat
    BY <1>5, <2>1
  <2>3. QED
    BY <1>2, <1>4, <1>5, <2>2 DEF GoodRow, Repeats
<1>7. /\ DOMAIN g = DOMAIN Top /\ g.ino = Top.ino /\ g.todo = Tail(Top.todo)
      /\ g.new = {e \in Top.new : e.ino # row.ino} \cup {row}
  BY <1>1, <1>3 DEF RegenFrameOK
<1>8. /\ GoodRows(g.new, durable)
      /\ \A e \in g.new : e \in Top.new \/ Repeats(e, Node)
  BY <1>3, <1>6, <1>7 DEF RegenFrameOK, GoodRows
<1>9. RegenFrameOK(g)
  BY <1>2, <1>7, <1>8, RegenMet
<1>10. QED
  BY <1>1, <1>2, <1>9, RegenStay

LEMMA RegenLeaveStep == IInv /\ RegenLeave => IInv'
<1> SUFFICES ASSUME IInv, RegenLeave PROVE IInv'
  OBVIOUS
<1>1. /\ pc = "regen" /\ UpdateDir(Top.ino, Top.new) /\ stack' = Front(stack)
      /\ pc' = IF Len(stack) = 1 THEN "commit" ELSE pc
      /\ UNCHANGED <<userVars, poolVars, cache, base, source, changed, seen, racy>>
  BY DEF RegenLeave
<1>2. /\ View' = View /\ durable' = durable /\ cache' = cache /\ pending' = pending
      /\ clock' = clock /\ live' = live
  BY <1>1 DEF View, poolVars, userVars
<1>3. stack \in Seq(Range(stack)) /\ stack # <<>>
  BY <1>1 DEF IInv, TypeOK
<1>4. /\ stack' \in Seq(Range(stack')) /\ Range(stack') \subseteq Range(stack)
      /\ stack' = <<>> <=> Len(stack) = 1
      /\ Top \in Range(stack)
  BY <1>1, <1>3, Popped DEF Top
<1>5. /\ GoodRows(Top.new, View) /\ VouchedFor(Top.ino, Top.new, View)
  <2>1. RegenFrameOK(Top)
    BY <1>1, <1>4 DEF IInv, GoodWalk
  <2>2. PICK d \in durable : RegenFrameOf(Top, d)
    BY <2>1 DEF RegenFrameOK
  <2>3. VouchedFor(Top.ino, Top.new, durable)
    BY <2>1, <2>2 DEF VouchedFor, RegenFrameOf, RegenFrameOK, GoodRows, GoodRow
  <2>4. durable \subseteq View
    BY DEF View
  <2>5. QED
    BY <2>1, <2>3, <2>4, RowsGrow DEF RegenFrameOK
<1>6. GoodTables' /\ DOMAIN cache' = DirInos /\ DOMAIN ctx' = DirInos
  <2>1. DOMAIN cache = DirInos /\ DOMAIN ctx = DirInos
    BY DEF IInv, TypeOK
  <2>2. ctx' = [ctx EXCEPT ![Top.ino] = {e \in Top.new : e.expire >= base}] /\ cache' = cache
    BY <1>1 DEF UpdateDir
  <2>3. DOMAIN cache' = DirInos /\ DOMAIN ctx' = DirInos
    BY <2>1, <2>2
  <2>4. ASSUME NEW i \in DirInos PROVE GoodRows(ctx'[i], View) /\ VouchedFor(i, ctx'[i], View)
    <3>1. CASE i = Top.ino
      <4>1. ctx'[i] \subseteq Top.new
        BY <2>1, <2>2, <3>1
      <4>2. QED
        BY <1>5, <3>1, <4>1 DEF GoodRows, VouchedFor
    <3>2. CASE i # Top.ino
      BY <2>1, <2>2, <3>2 DEF IInv, GoodTables
    <3>3. QED
      BY <3>1, <3>2
  <2>5. QED
    BY <1>2, <2>2, <2>3, <2>4 DEF IInv, GoodTables
<1>7. Closed' /\ GoodPool' /\ DOMAIN pending' = {Me}
  BY <1>2 DEF IInv, Closed, GoodPool
<1>8. TypeOK'
  BY <1>1, <1>2, <1>4, <1>6 DEF IInv, TypeOK, Pcs
<1>9. GoodWalk'
  BY <1>1, <1>2, <1>4 DEF IInv, GoodWalk, RegenFrameOK
<1>10. GoodClock' /\ BetweenSessions'
  BY <1>1, <1>2 DEF IInv, GoodClock, BetweenSessions
<1>11. QED
  BY <1>6, <1>7, <1>8, <1>9, <1>10 DEF IInv

-----------------------------------------------------------------------------
(* The ends of a session, and what goes on around it.                      *)

LEMMA CommitStep == IInv /\ Commit => IInv'
<1> SUFFICES ASSUME IInv, Commit PROVE IInv'
  OBVIOUS
<1>1. /\ durable' = View /\ View' = View /\ DOMAIN pending' = {Me} /\ pending'[Me] = {}
      /\ cache' = ctx /\ ctx' = ctx /\ pc' = "idle" /\ stack' = <<>> /\ base' = 0
      /\ changed' = {} /\ clock' = clock /\ live' = live /\ seen' = seen /\ racy' = racy
  BY DEF Commit, P!PoolFlush, View, EndSession, userVars, IInv
<1>2. Closed' /\ GoodPool'
  BY <1>1 DEF IInv, GoodPool, WellMade, Closed
<1>3. GoodTables'
  BY <1>1 DEF IInv, GoodTables
<1>4. TypeOK'
  <2>1. stack' \in Seq(Range(stack'))
    BY <1>1
  <2>2. QED
    BY <1>1, <2>1 DEF IInv, TypeOK, Pcs
<1>5. GoodWalk' /\ GoodClock' /\ BetweenSessions'
  BY <1>1 DEF GoodWalk, GoodClock, BetweenSessions
<1>6. QED
  BY <1>1, <1>2, <1>3, <1>4, <1>5 DEF IInv

LEMMA RollbackStep == IInv /\ Rollback => IInv'
<1> SUFFICES ASSUME IInv, Rollback PROVE IInv'
  OBVIOUS
<1>1. /\ durable' = durable /\ View' = durable /\ DOMAIN pending' = {Me} /\ pending'[Me] = {}
      /\ cache' = cache /\ ctx' = cache /\ pc' = "idle" /\ stack' = <<>> /\ base' = 0
      /\ changed' = {} /\ clock' = clock /\ live' = live /\ seen' = seen /\ racy' = racy
  BY DEF Rollback, P!PoolAbandon, View, EndSession, userVars, IInv
<1>2. Closed' /\ GoodPool'
  <2>1. \A c \in durable : WellMade(c, durable)
    BY DurableMade
  <2>2. QED
    BY <1>1, <2>1 DEF IInv, GoodPool, Closed
<1>3. GoodTables'
  BY <1>1 DEF IInv, GoodTables
<1>4. TypeOK'
  <2>1. stack' \in Seq(Range(stack'))
    BY <1>1
  <2>2. QED
    BY <1>1, <2>1 DEF IInv, TypeOK, Pcs
<1>5. GoodWalk' /\ GoodClock' /\ BetweenSessions'
  BY <1>1 DEF GoodWalk, GoodClock, BetweenSessions
<1>6. QED
  BY <1>1, <1>2, <1>3, <1>4, <1>5 DEF IInv

LEMMA RunExpireStep == IInv /\ RunExpire => IInv'
<1> SUFFICES ASSUME IInv, RunExpire PROVE IInv'
  OBVIOUS
<1>1. /\ durable' = durable /\ View' = View /\ pending' = pending
      /\ cache' = [i \in DirInos |-> {e \in cache[i] : e.expire >= clock}] /\ ctx' = cache'
      /\ pc = "idle" /\ pc' = pc /\ stack' = stack /\ base' = base
      /\ changed' = changed /\ clock' = clock /\ live' = live /\ seen' = seen /\ racy' = racy
  BY DEF RunExpire, View, poolVars, userVars
<1>2. Closed' /\ GoodPool'
  BY <1>1 DEF IInv, GoodPool, Closed
<1>3. GoodTables'
  <2>1. \A i \in DirInos : cache'[i] \subseteq cache[i]
    BY <1>1
  <2>2. \A i \in DirInos : GoodRows(cache'[i], durable) /\ VouchedFor(i, cache'[i], durable)
    BY <2>1 DEF IInv, GoodTables, GoodRows, VouchedFor
  <2>3. durable \subseteq View
    BY DEF View
  <2>4. QED
    BY <1>1, <2>2, <2>3, RowsGrow DEF GoodTables
<1>4. TypeOK'
  BY <1>1 DEF IInv, TypeOK, Pcs
<1>5. GoodWalk' /\ GoodClock' /\ BetweenSessions'
  BY <1>1 DEF IInv, GoodWalk, GoodClock, BetweenSessions
<1>6. QED
  BY <1>1, <1>2, <1>3, <1>4, <1>5 DEF IInv

(* A step of the users: only time and files change, and both grow older.   *)
LEMMA AroundIt ==
  ASSUME IInv, UNCHANGED <<poolVars, cache, ctx, pc, base, stack, blocks, head, source>>,
         clock <= clock', TypeOK'
  PROVE  IInv'
<1>1. View' = View /\ DOMAIN pending' = {Me} /\ Closed' /\ GoodPool' /\ GoodTables'
  BY Quiet
<1>2. durable' = durable /\ pending' = pending
  BY DEF poolVars
<1>3. GoodWalk'
  <2>1. Top' = Top /\ Item' = Item
    BY DEF Top, Item
  <2>2. QED
    BY <1>1, <1>2, <2>1 DEF IInv, GoodWalk, RegenFrameOK
<1>4. GoodClock'
  <2>1. clock \in Nat /\ clock' \in Nat
    BY BackupAssumption DEF BackupAssumption, IInv, TypeOK
  <2>2. QED
    BY <1>2, <2>1 DEF IInv, GoodClock
<1>5. BetweenSessions'
  BY <1>2 DEF IInv, BetweenSessions
<1>6. QED
  BY <1>1, <1>3, <1>4, <1>5 DEF IInv

LEMMA TickStep == IInv /\ Tick => IInv'
<1> SUFFICES ASSUME IInv, Tick PROVE IInv'
  OBVIOUS
<1>1. clock \in Nat /\ MaxClock \in Nat /\ clock < MaxClock /\ clock' = clock + 1
  BY BackupAssumption DEF BackupAssumption, IInv, TypeOK, Tick
<1>2. /\ live' = live /\ seen' = {}
      /\ UNCHANGED <<poolVars, cache, ctx, pc, base, stack, blocks, head, source, changed, racy>>
  BY DEF Tick
<1>3. clock' \in 0..MaxClock /\ 0..clock \subseteq 0..clock' /\ clock <= clock'
  BY <1>1
<1>4. live' \in [Leaves -> [here : BOOLEAN, data : Contents, ctime : 0..clock']]
  BY <1>2, <1>3 DEF IInv, TypeOK
<1>5. TypeOK'
  BY <1>2, <1>3, <1>4 DEF IInv, TypeOK, Pcs
<1>6. QED
  BY <1>2, <1>3, <1>5, AroundIt

LEMMA TouchStep ==
  ASSUME IInv, NEW f \in Leaves, NEW st, Touch(f, st),
         st \in [here : BOOLEAN, data : Contents, ctime : 0..clock]
  PROVE  IInv'
<1>1. /\ live' = [live EXCEPT ![f] = st] /\ clock' = clock /\ seen' = seen
      /\ changed' \subseteq changed \cup {f} /\ racy' \subseteq racy \cup {f}
      /\ UNCHANGED <<poolVars, cache, ctx, pc, base, stack, blocks, head, source>>
  BY DEF Touch
<1>2. live' \in [Leaves -> [here : BOOLEAN, data : Contents, ctime : 0..clock']]
  BY <1>1 DEF IInv, TypeOK
<1>3. TypeOK'
  BY <1>1, <1>2 DEF IInv, TypeOK, Pcs
<1>4. clock <= clock'
  BY <1>1, BackupAssumption DEF BackupAssumption, IInv, TypeOK
<1>5. QED
  BY <1>1, <1>3, <1>4, AroundIt

LEMMA UserStep == IInv /\ User => IInv'
<1> SUFFICES ASSUME IInv, User PROVE IInv'
  OBVIOUS
<1>1. /\ clock \in 0..clock
      /\ live \in [Leaves -> [here : BOOLEAN, data : Contents, ctime : 0..clock]]
  BY BackupAssumption DEF BackupAssumption, IInv, TypeOK
<1>2. ASSUME NEW f \in Leaves, NEW c \in Contents, Modify(f, c) \/ Create(f, c)
      PROVE  IInv'
  <2>1. PICK st : st = [here |-> TRUE, data |-> c, ctime |-> clock]
    OBVIOUS
  <2>2. Touch(f, st)
    BY <1>2, <2>1 DEF Modify, Create
  <2>3. st \in [here : BOOLEAN, data : Contents, ctime : 0..clock]
    BY <1>1, <2>1
  <2>4. QED
    BY <2>2, <2>3, TouchStep
<1>3. ASSUME NEW f \in Leaves, Unlink(f)
      PROVE  IInv'
  <2>1. PICK st : st = [live[f] EXCEPT !.here = FALSE]
    OBVIOUS
  <2>2. Touch(f, st)
    BY <1>3, <2>1 DEF Unlink
  <2>3. st \in [here : BOOLEAN, data : Contents, ctime : 0..clock]
    BY <1>1, <2>1
  <2>4. QED
    BY <2>2, <2>3, TouchStep
<1>4. QED
  BY <1>2, <1>3, TickStep DEF User

-----------------------------------------------------------------------------
(* The theorems. *)

(* Whatever users, dumps, regenerations and expiry do, in any order, IInv  *)
(* holds.                                                                  *)
THEOREM BackupInvariant == Spec => []IInv
<1>1. Init => IInv
  BY Initially
<1>2. IInv /\ [Next]_vars => IInv'
  <2> SUFFICES ASSUME IInv, [Next]_vars PROVE IInv'
    OBVIOUS
  <2>1. CASE User
    BY <2>1, UserStep
  <2>2. CASE Backup \/ EnterDir \/ ReuseFile \/ OpenFile \/ ReadBlock
    BY <2>2, BackupStep, EnterDirStep, ReuseFileStep, OpenFileStep, ReadBlockStep
  <2>3. CASE FinishFile \/ PlainNode \/ LeaveDir \/ WriteBack
    BY <2>3, FinishFileStep, PlainNodeStep, LeaveDirStep, WriteBackStep
  <2>4. CASE Vanished \/ Abort
    BY <2>4, RollbackStep DEF Vanished, Abort
  <2>5. CASE \E b \in durable : RegenBack(b)
    BY <2>5, RegenBackStep
  <2>6. CASE RegenEnter \/ RegenOpen \/ RegenSkip \/ RegenLeave
    BY <2>6, RegenEnterStep, RegenOpenStep, RegenSkipStep, RegenLeaveStep
  <2>7. CASE RunExpire
    BY <2>7, RunExpireStep
  <2>8. CASE Commit
    BY <2>8, CommitStep
  <2>9. CASE UNCHANGED vars
    <3>1. /\ UNCHANGED <<poolVars, cache, ctx, pc, base, stack, blocks, head, source>>
          /\ UNCHANGED <<clock, live, changed, racy, seen>>
      BY <2>9 DEF vars, userVars
    <3>2. clock <= clock'
      BY <3>1, BackupAssumption DEF BackupAssumption, IInv, TypeOK
    <3>3. TypeOK'
      BY <3>1 DEF IInv, TypeOK, Pcs
    <3>4. QED
      BY <3>1, <3>2, <3>3, AroundIt
  <2>10. QED
    BY <2>1, <2>2, <2>3, <2>4, <2>5, <2>6, <2>7, <2>8, <2>9 DEF Next, Dump, Regen
<1>3. QED
  BY <1>1, <1>2, PTL DEF Spec

(* What is durable can be restored: a chunk is never there without all it  *)
(* refers to, though the data that comes from the cache is not asked for.  *)
THEOREM NothingDangles == Spec => []Closed
<1>1. IInv => Closed
  BY DEF IInv
<1>2. QED
  BY <1>1, BackupInvariant, PTL

(* Every row of the cache repeats a file node of a backup in the pool.     *)
THEOREM RowsVouched == Spec => []Vouched
<1>1. IInv => Vouched
  BY DEF IInv, GoodTables, Vouched
<1>2. QED
  BY <1>1, BackupInvariant, PTL

-----------------------------------------------------------------------------
(***************************************************************************)
(* Why a dump is faithful, for any tree of names: FaithInv is inductive    *)
(* along with IInv, and what is about to be committed shows every file     *)
(* that nobody changed as it is.                                           *)
(***************************************************************************)

(* Paths. *)

(* A path leads from directory to directory, and ends with its file.       *)
LEMMA PathFacts ==
  ASSUME NEW f \in Leaves
  PROVE  /\ Path[f] \in Seq(Names) /\ Len(Path[f]) \in Nat \ {0}
         /\ DOMAIN Path[f] = 1..Len(Path[f])
         /\ Path[f][Len(Path[f])] = f
         /\ \A k \in 1..(Len(Path[f]) - 1) : Path[f][k] \in Dirs
         /\ \A k \in 1..Len(Path[f]) : Path[f][k] \in Range(Children[Parent(f, k)])
<1>1. /\ Path[f] \in Seq(Names) /\ Path[f] # <<>> /\ Last(Path[f]) = f
      /\ Range(Front(Path[f])) \subseteq Dirs
      /\ \A k \in DOMAIN Path[f] : Path[f][k] \in Range(Children[Parent(f, k)])
  BY TreeAssumption DEF TreeAssumption, Names
<1>2. PICK p \in Seq(Names) : p = Path[f] /\ p # <<>>
  BY <1>1
<1>3. PICK n \in Nat \ {0} : n = Len(p) /\ DOMAIN p = 1..n
  BY <1>2
<1>4. p[n] = f
  BY <1>1, <1>2, <1>3 DEF Last
<1>5. ASSUME NEW k \in 1..(n - 1) PROVE p[k] \in Dirs
  <2>1. k \in 1..Len(Front(p)) /\ Front(p)[k] = p[k] /\ DOMAIN Front(p) = 1..Len(Front(p))
    <3>1. p \in Seq(Range(p))
      BY SeqOfRange
    <3>2. PICK t : t = Front(p)
      OBVIOUS
    <3>3. /\ t \in Seq(Range(t)) /\ Len(t) = n - 1 /\ \A i \in 1..Len(t) : t[i] = p[i]
      BY <1>2, <1>3, <3>1, <3>2, Popped
    <3>4. DOMAIN t = 1..Len(t)
      BY <3>3
    <3>5. QED
      BY <1>5, <3>2, <3>3, <3>4
  <2>2. p[k] \in Range(Front(p))
    BY <2>1 DEF Range
  <2>3. QED
    BY <1>1, <1>2, <2>2
<1>6. QED
  BY <1>1, <1>2, <1>3, <1>4, <1>5

(* A name is in one directory, so whatever leads to it comes from there.   *)
LEMMA OneParent ==
  ASSUME NEW f \in Leaves, NEW j \in 1..Len(Path[f]),
         NEW d \in Dirs, Path[f][j] \in Range(Children[d])
  PROVE  Parent(f, j) = d
<1>1. Path[f][j] \in Range(Children[Parent(f, j)])
  BY PathFacts
<1>2. Parent(f, j) \in Dirs
  <2>1. CASE j = 1
    BY <2>1, BackupAssumption DEF BackupAssumption, Parent
  <2>2. CASE j # 1
    <3>1. j - 1 \in 1..(Len(Path[f]) - 1)
      BY <2>2, PathFacts
    <3>2. QED
      BY <2>2, <3>1, PathFacts DEF Parent
  <2>3. QED
    BY <2>1, <2>2
<1>3. QED
  BY <1>1, <1>2, TreeAssumption DEF TreeAssumption

(* The path of a file leads on from each directory on it.                  *)
LEMMA LeadsOn ==
  ASSUME NEW f \in Leaves, NEW j \in 0..Len(Path[f]), NEW d \in Dirs,
         IF j = 0 THEN d = Root ELSE Path[f][j] = d
  PROVE  j + 1 \in 1..Len(Path[f]) /\ Path[f][j + 1] \in Range(Children[d])
<1>1. f \notin Dirs
  BY BackupAssumption DEF BackupAssumption, Leaves
<1>2. j # Len(Path[f])
  BY <1>1, PathFacts
<1>3. j + 1 \in 1..Len(Path[f])
  BY <1>2, PathFacts
<1>4. Parent(f, j + 1) = d
  BY <1>3, PathFacts DEF Parent
<1>5. QED
  BY <1>3, <1>4, PathFacts

-----------------------------------------------------------------------------
(* The way down a backup. *)

\* at[k] are the nodes to which p leads after k names.
Descends(at, p, j) == \A k \in (j + 1)..Len(p) : at[k] = Down(at[k - 1], p[k])

(* Below, step by step.                                                    *)
LEMMA Descent ==
  ASSUME NEW n, NEW p, Len(p) \in Nat, NEW j \in 0..Len(p)
  PROVE  \E at : Below(n, p, j) = at[Len(p)] /\ at[j] = {n} /\ Descends(at, p, j)
<1> DEFINE Step(ms, k) == Down(ms, p[k])
           Good(g, i) == g = [k \in j..(j + i) |-> IF k = j THEN {n} ELSE Step(g[k - 1], k)]
<1> HIDE DEF Step
<1>1. j \in Nat /\ Len(p) \in Nat
  OBVIOUS
<1>2. \A i \in Nat : \E g : Good(g, i)
  <2> DEFINE T == {i \in Nat : \E g : Good(g, i)}
  <2>1. 0 \in T
    <3>1. Good([k \in j..(j + 0) |-> {n}], 0)
      BY <1>1
    <3>2. QED
      BY <3>1
  <2>2. ASSUME NEW i \in Nat, i \in T PROVE i + 1 \in T
    <3>1. PICK g : Good(g, i)
      BY <2>2
    <3>2. PICK l \in Nat : l = j + i /\ j + (i + 1) = l + 1 /\ j <= l
      BY <1>1
    <3> DEFINE h == [k \in j..(l + 1) |-> IF k = l + 1 THEN Step(g[l], l + 1) ELSE g[k]]
    <3>3. \A k \in j..l : h[k] = g[k]
      BY <1>1, <3>2
    <3>4. ASSUME NEW k \in j..(l + 1)
          PROVE  h[k] = IF k = j THEN {n} ELSE Step(h[k - 1], k)
      <4>1. CASE k = l + 1
        <5>1. h[k] = Step(g[l], l + 1) /\ k # j /\ k - 1 = l
          BY <1>1, <3>2, <4>1
        <5>2. h[l] = g[l]
          BY <1>1, <3>2, <3>3
        <5>3. QED
          BY <4>1, <5>1, <5>2
      <4>2. CASE k \in j..l
        <5>1. k # j => k - 1 \in j..l
          BY <1>1, <4>2
        <5>2. g[k] = IF k = j THEN {n} ELSE Step(g[k - 1], k)
          BY <3>1, <3>2, <4>2
        <5>3. QED
          BY <3>3, <4>2, <5>1, <5>2
      <4>3. QED
        BY <1>1, <3>2, <4>1, <4>2
    <3>5. Good(h, i + 1)
      BY <3>2, <3>4
    <3> HIDE DEF h, Good
    <3>6. \E f : Good(f, i + 1)
      BY <3>5
    <3>7. QED
      BY <3>6
  <2> HIDE DEF T
  <2>3. Nat \subseteq T
    BY <2>1, <2>2, Induction
  <2>4. QED
    BY <2>3 DEF T
<1>3. PICK i \in Nat : j + i = Len(p)
  <2>1. Len(p) - j \in Nat /\ j + (Len(p) - j) = Len(p)
    BY <1>1
  <2>2. QED
    BY <2>1
<1> DEFINE at == CHOOSE g : Good(g, i)
<1>4. Below(n, p, j) = at[Len(p)]
  BY <1>3 DEF Below, Step
<1>5. Good(at, i)
  BY <1>2
<1> HIDE DEF at
<1>6. \A k \in j..Len(p) : at[k] = IF k = j THEN {n} ELSE Step(at[k - 1], k)
  BY <1>3, <1>5
<1> HIDE DEF Good
<1>7. at[j] = {n}
  BY <1>1, <1>6
<1>8. \A k \in (j + 1)..Len(p) : at[k] = Step(at[k - 1], k)
  <2>1. \A k \in (j + 1)..Len(p) : k \in j..Len(p) /\ k # j
    BY <1>1
  <2>2. QED
    BY <1>6, <2>1
<1>9. QED
  BY <1>4, <1>7, <1>8 DEF Step, Descends

(* At its end, a path leads no further.                                    *)
LEMMA BelowEnd ==
  ASSUME NEW n, NEW p, Len(p) \in Nat
  PROVE  Below(n, p, Len(p)) = {n}
<1>1. Len(p) \in 0..Len(p)
  OBVIOUS
<1>2. PICK at : Below(n, p, Len(p)) = at[Len(p)] /\ at[Len(p)] = {n}
  BY <1>1, Descent
<1>3. QED
  BY <1>2

(* Two descents that agree after a step agree at the end.                  *)
LEMMA SameDescent ==
  ASSUME NEW p, Len(p) \in Nat, NEW i \in 0..Len(p), NEW at, NEW bt, at[i] = bt[i],
         Descends(at, p, i), Descends(bt, p, i)
  PROVE  at[Len(p)] = bt[Len(p)]
<1> DEFINE T == {n \in Nat : i + n <= Len(p) => at[i + n] = bt[i + n]}
<1>1. i \in Nat /\ Len(p) \in Nat
  OBVIOUS
<1>2. 0 \in T
  BY <1>1
<1>3. ASSUME NEW n \in Nat, n \in T PROVE n + 1 \in T
  <2>1. CASE i + (n + 1) <= Len(p)
    <3>1. PICK k \in (i + 1)..Len(p) : k = i + (n + 1) /\ k - 1 = i + n /\ i + n <= Len(p)
      BY <1>1, <2>1
    <3>2. at[k - 1] = bt[k - 1]
      BY <1>3, <3>1
    <3>3. at[k] = bt[k]
      BY <3>2 DEF Descends
    <3>4. QED
      BY <3>1, <3>3
  <2>2. QED
    BY <2>1
<1> HIDE DEF T
<1>4. Nat \subseteq T
  BY <1>2, <1>3, Induction
<1>5. PICK n \in Nat : i + n = Len(p)
  <2>1. Len(p) - i \in Nat /\ i + (Len(p) - i) = Len(p)
    BY <1>1
  <2>2. QED
    BY <2>1
<1>6. n \in T
  BY <1>4
<1>7. i + n <= Len(p) => at[i + n] = bt[i + n]
  BY <1>6 DEF T
<1>8. QED
  BY <1>1, <1>5, <1>7

(* A descent begins with the entries of the next name.                     *)
LEMMA FirstStep ==
  ASSUME NEW n, NEW p, Len(p) \in Nat, NEW j \in Nat, j + 1 \in 1..Len(p)
  PROVE  \E at : /\ Below(n, p, j) = at[Len(p)]
                 /\ at[j + 1] = Named(n, p[j + 1])
                 /\ Descends(at, p, j + 1)
<1>1. j \in 0..Len(p) /\ j + 1 \in (j + 1)..Len(p) /\ j + 1 - 1 = j
  OBVIOUS
<1>2. PICK at : Below(n, p, j) = at[Len(p)] /\ at[j] = {n} /\ Descends(at, p, j)
  BY <1>1, Descent
<1>3. at[j + 1] = Down({n}, p[j + 1])
  <2>1. PICK k \in (j + 1)..Len(p) : k = j + 1 /\ k - 1 = j
    BY <1>1
  <2>2. at[k] = Down(at[k - 1], p[k])
    BY <1>2 DEF Descends
  <2>3. at[k - 1] = {n}
    BY <1>2, <2>1
  <2>4. QED
    BY <2>1, <2>2, <2>3
<1>4. Down({n}, p[j + 1]) = Named(n, p[j + 1])
  BY DEF Down
<1>5. \A k \in (j + 1 + 1)..Len(p) : k \in (j + 1)..Len(p)
  OBVIOUS
<1>6. Descends(at, p, j + 1)
  BY <1>2, <1>5 DEF Descends
<1>7. QED
  BY <1>2, <1>3, <1>4, <1>6

(* Where there is one entry of the next name, it leads on.                 *)
LEMMA BelowOne ==
  ASSUME NEW n, NEW p, Len(p) \in Nat, NEW j \in Nat, j + 1 \in 1..Len(p),
         NEW m, Named(n, p[j + 1]) = {m}
  PROVE  Below(n, p, j) = Below(m, p, j + 1)
<1>1. j + 1 \in 0..Len(p)
  OBVIOUS
<1>2. PICK at : /\ Below(n, p, j) = at[Len(p)]
                /\ at[j + 1] = {m}
                /\ Descends(at, p, j + 1)
  BY FirstStep
<1>3. PICK bt : /\ Below(m, p, j + 1) = bt[Len(p)]
                /\ bt[j + 1] = {m}
                /\ Descends(bt, p, j + 1)
  BY <1>1, Descent
<1>4. at[Len(p)] = bt[Len(p)]
  BY <1>1, <1>2, <1>3, SameDescent
<1>5. QED
  BY <1>2, <1>3, <1>4

(* Where there is none, nothing is shown.                                  *)
LEMMA BelowNone ==
  ASSUME NEW n, NEW p, Len(p) \in Nat, NEW j \in Nat, j + 1 \in 1..Len(p),
         Named(n, p[j + 1]) = {}
  PROVE  Below(n, p, j) = {}
<1>1. j + 1 \in 0..Len(p)
  OBVIOUS
<1>2. PICK at : /\ Below(n, p, j) = at[Len(p)]
                /\ at[j + 1] = {}
                /\ Descends(at, p, j + 1)
  BY FirstStep
<1>3. PICK bt : bt = [k \in 0..Len(p) |-> {}]
  OBVIOUS
<1>4. /\ \A k \in 0..Len(p) : bt[k] = {}
      /\ \A k \in (j + 1 + 1)..Len(p) : k \in 0..Len(p) /\ k - 1 \in 0..Len(p)
  BY <1>3
<1>5. Descends(bt, p, j + 1)
  <2>1. \A name : Down({}, name) = {}
    BY DEF Down
  <2>2. QED
    BY <1>4, <2>1 DEF Descends
<1>6. at[Len(p)] = bt[Len(p)]
  BY <1>1, <1>2, <1>4, <1>5, SameDescent
<1>7. Len(p) \in 0..Len(p)
  OBVIOUS
<1>8. QED
  BY <1>2, <1>4, <1>6, <1>7

-----------------------------------------------------------------------------
(* What a directory of a backup shows. *)

(* The entries of the node that LeaveDir makes.                            *)
LEMMA NodeOfDir ==
  ASSUME NEW i, NEW es
  PROVE  /\ DirNode(i, DirData(es)).kind = "DIR"
         /\ Entries(DirNode(i, DirData(es)).children) = es
<1>1. Listing(es).kind = "dir" /\ Listing(es).entries = es /\ Null.kind = "null"
  BY DEF Listing, Null
<1>2. Entries(DirData(es)) = es
  BY <1>1 DEF Entries, DirData
<1>3. QED
  BY <1>2 DEF DirNode

(* A directory that has nothing left to do shows each file below it, if    *)
(* what it holds does.                                                     *)
LEMMA ShownDir ==
  ASSUME NEW fr, NEW i, fr.name \in Dirs, fr.todo = <<>>, NamesComplete(fr),
         NEW f \in Kept, NEW j \in 0..Len(Path[f]),
         IF j = 0 THEN fr.name = Root ELSE Path[f][j] = fr.name,
         \A k \in DOMAIN fr.done :
           Path[f][j + 1] = fr.done[k][1] => Shows(fr.done[k][2], f, j + 1)
  PROVE  Shows(DirNode(i, DirData(fr.done)), f, j)
<1> DEFINE OnDevice(k0) == \A k \in DOMAIN Path[f] : k >= k0 => Path[f][k] \notin Foreign
<1>1. PICK n : n = DirNode(i, DirData(fr.done)) /\ Entries(n.children) = fr.done
  BY NodeOfDir
<1>2. f \in Leaves /\ f \notin changed
  BY DEF Kept
<1>3. PICK p : p = Path[f]
  OBVIOUS
<1>4. /\ Len(p) \in Nat \ {0} /\ DOMAIN p = 1..Len(p) /\ p[Len(p)] = f
      /\ \A k \in 1..(Len(p) - 1) : p[k] \in Dirs
  BY <1>2, <1>3, PathFacts
<1>5. PICK x : x = p[j + 1]
  OBVIOUS
<1>6. j \in Nat /\ j + 1 \in 1..Len(p) /\ x \in Range(Children[fr.name])
  BY <1>2, <1>3, <1>5, LeadsOn
<1>7. Named(n, x) = {fr.done[k][2] : k \in {k \in DOMAIN fr.done : fr.done[k][1] = x}}
  BY <1>1 DEF Named, Range
<1>8. CASE fr.name \in Foreign
  <2>1. DoneNames(fr) = {}
    BY <1>8 DEF NamesComplete
  <2>2. Named(n, x) = {}
    BY <1>7, <2>1 DEF DoneNames
  <2>3. Below(n, p, j) = {}
    BY <1>4, <1>5, <1>6, <2>2, BelowNone
  <2>4. j # 0
    BY <1>8, BackupAssumption DEF BackupAssumption
  <2>5. j \in DOMAIN p /\ j >= j /\ p[j] \in Foreign
    BY <1>3, <1>4, <1>6, <1>8, <2>4
  <2>6. ~OnDevice(j)
    BY <1>3, <2>5
  <2>7. QED
    BY <1>1, <1>3, <2>3, <2>6 DEF Shows
<1>9. CASE fr.name \notin Foreign
  <2>1. OnDevice(j) <=> OnDevice(j + 1)
    <3>1. ASSUME NEW k \in DOMAIN p, k >= j, ~(k >= j + 1) PROVE p[k] \notin Foreign
      <4>1. k = j /\ j # 0
        BY <1>4, <1>6, <3>1
      <4>2. QED
        BY <1>3, <1>9, <4>1
    <3>2. \A k \in DOMAIN p : k >= j + 1 => k >= j
      BY <1>4, <1>6
    <3>3. QED
      BY <1>3, <3>1, <3>2
  <2>2. CASE x \in DoneNames(fr)
    <3>1. PICK k \in DOMAIN fr.done : fr.done[k][1] = x
      BY <2>2 DEF DoneNames
    <3>2. {l \in DOMAIN fr.done : fr.done[l][1] = x} = {k}
      BY <3>1 DEF NamesComplete
    <3>3. PICK m : m = fr.done[k][2]
      OBVIOUS
    <3>4. Named(n, x) = {m}
      BY <1>7, <3>2, <3>3
    <3>5. Below(n, p, j) = Below(m, p, j + 1)
      BY <1>4, <1>5, <1>6, <3>4, BelowOne
    <3>6. Shows(m, f, j + 1)
      BY <1>3, <1>5, <3>1, <3>3
    <3>7. QED
      BY <1>1, <1>3, <2>1, <3>5, <3>6 DEF Shows
  <2>3. CASE x \notin DoneNames(fr)
    <3>1. Named(n, x) = {}
      BY <1>7, <2>3 DEF DoneNames
    <3>2. Below(n, p, j) = {}
      BY <1>4, <1>5, <1>6, <3>1, BelowNone
    <3>3. x \notin TodoNames(fr)
      BY DEF TodoNames
    <3>4. x \notin Dirs /\ ~(x \notin changed /\ live[x].here)
      BY <1>6, <1>9, <2>3, <3>3 DEF NamesComplete
    <3>5. x = f
      BY <1>4, <1>5, <1>6, <3>4
    <3>6. ~live[f].here
      BY <1>2, <3>4, <3>5
    <3>7. QED
      BY <1>1, <1>3, <3>2, <3>6 DEF Shows
  <2>4. QED
    BY <2>2, <2>3
<1>10. QED
  BY <1>8, <1>9

(* The node of a file is found where the path of the file ends.            *)
LEMMA ShownLeaf ==
  ASSUME NEW x \in Leaves, live[x].here,
         NEW f \in Leaves, NEW j \in DOMAIN Path[f], Path[f][j] = x
  PROVE  Shows(AsIs(x), f, j)
<1>1. x \notin Dirs /\ x \notin Foreign
  BY BackupAssumption DEF BackupAssumption, Leaves
<1>2. /\ Len(Path[f]) \in Nat \ {0} /\ DOMAIN Path[f] = 1..Len(Path[f])
      /\ Path[f][Len(Path[f])] = f /\ \A k \in 1..(Len(Path[f]) - 1) : Path[f][k] \in Dirs
  BY PathFacts
<1>3. j = Len(Path[f]) /\ f = x
  BY <1>1, <1>2
<1>4. Below(AsIs(x), Path[f], j) = {AsIs(f)}
  BY <1>2, <1>3, BelowEnd
<1>5. \A k \in DOMAIN Path[f] : k >= j => Path[f][k] \notin Foreign
  BY <1>1, <1>2, <1>3
<1>6. QED
  BY <1>3, <1>4, <1>5 DEF Shows


-----------------------------------------------------------------------------
(* What users do. *)

(* What a user does to one file.                                           *)
Edits(f, st) ==
  Touch(f, st) /\ f \in Leaves /\ (st.here => st.ctime = clock)

LEMMA UserCases == TypeOK /\ User => Tick \/ \E f, st : Edits(f, st)
<1> SUFFICES ASSUME TypeOK, User PROVE Tick \/ \E f, st : Edits(f, st)
  OBVIOUS
<1>1. CASE Tick
  BY <1>1
<1>2. ASSUME NEW f \in Leaves, NEW c, Modify(f, c) \/ Create(f, c)
      PROVE  \E st : Edits(f, st)
  <2>1. PICK st : st = [here |-> TRUE, data |-> c, ctime |-> clock]
    OBVIOUS
  <2>2. Touch(f, st)
    BY <1>2, <2>1 DEF Modify, Create
  <2>3. st.ctime = clock
    BY <2>1
  <2>4. QED
    BY <2>2, <2>3 DEF Edits
<1>3. ASSUME NEW f \in Leaves, Unlink(f)
      PROVE  \E st : Edits(f, st)
  <2>1. PICK st : st = [live[f] EXCEPT !.here = FALSE]
    OBVIOUS
  <2>2. Touch(f, st)
    BY <1>3, <2>1 DEF Unlink
  <2>3. ~st.here
    <3>1. live[f] \in [here : BOOLEAN, data : Contents, ctime : 0..clock]
      BY DEF TypeOK
    <3>2. QED
      BY <2>1, <3>1
  <2>4. QED
    BY <2>2, <2>3 DEF Edits
<1>4. QED
  BY <1>1, <1>2, <1>3 DEF User

(* What an edit changes.                                                   *)
LEMMA Edited ==
  ASSUME TypeOK, NEW f, NEW st, Edits(f, st)
  PROVE  /\ f \in Leaves /\ live'[f] = st
         /\ \A g \in Leaves \ {f} : live'[g] = live[g] /\ (g \in racy' <=> g \in racy)
         /\ f \in seen => f \in racy'
         /\ pc # "idle" => changed' = changed \cup {f}
         /\ UNCHANGED <<clock, seen, pc, stack, blocks, head>>
         /\ UNCHANGED <<poolVars, cache, ctx, base, source>>
<1>1. DOMAIN live = Leaves
  BY DEF TypeOK
<1>2. QED
  BY <1>1 DEF Edits, Touch

(* A row or node that is right stays right, whatever users do: a file that *)
(* changes either gets another ctime, or is racy.                          *)
LEMMA RightUser ==
  ASSUME TypeOK, NEW i, NEW t, NEW d, Right(i, t, d), User
  PROVE  Right(i, t, d)'
<1>1. SUFFICES ASSUME NEW f \in Files, SameDevice(f), Ino[f] = i
               PROVE  /\ t \in 0..clock' /\ (t = clock' => f \in seen')
                      /\ live'[f].here /\ live'[f].ctime = t /\ f \notin racy' => d = Content(f)'
  BY DEF Right
<1>2. /\ t \in 0..clock /\ (t = clock => f \in seen)
      /\ live[f].here /\ live[f].ctime = t /\ f \notin racy => d = Content(f)
  BY <1>1 DEF Right
<1>3. clock \in Nat
  BY DEF TypeOK
<1>4. CASE Tick
  <2>1. clock' = clock + 1 /\ live' = live /\ racy' = racy
    BY <1>4 DEF Tick
  <2>2. QED
    BY <1>2, <1>3, <2>1 DEF Content
<1>5. ASSUME NEW g, NEW st, Edits(g, st)
      PROVE  /\ t \in 0..clock' /\ (t = clock' => f \in seen')
             /\ live'[f].here /\ live'[f].ctime = t /\ f \notin racy' => d = Content(f)'
  <2>1. f \in Leaves /\ clock' = clock /\ seen' = seen
    BY <1>5, Edited DEF Leaves
  <2>2. CASE f # g
    BY <1>2, <1>5, <2>1, <2>2, Edited DEF Content
  <2>3. CASE f = g
    <3>1. ~(live'[f].here /\ live'[f].ctime = t /\ f \notin racy')
      BY <1>2, <1>5, <2>1, <2>3, Edited DEF Edits
    <3>2. QED
      BY <1>2, <2>1, <3>1
  <2>4. QED
    BY <2>2, <2>3
<1>6. QED
  BY <1>4, <1>5, UserCases

(* Nor does a session change that.                                         *)
LEMMA RightStays ==
  ASSUME NEW i, NEW t, NEW d, Right(i, t, d), UNCHANGED <<userVars, racy>>, seen \subseteq seen'
  PROVE  Right(i, t, d)'
<1>1. clock' = clock /\ live' = live /\ racy' = racy
  BY DEF userVars
<1>2. QED
  BY <1>1 DEF Right, Content

(* A file that is shown and not changed is still shown.                    *)
LEMMA ShowsSame ==
  ASSUME NEW n, NEW f, NEW j, live'[f] = live[f], Shows(n, f, j)
  PROVE  Shows(n, f, j)'
  BY DEF Shows, AsIs, Content

LEMMA ShowsUser ==
  ASSUME TypeOK, NEW n, NEW f \in Leaves, f \notin changed', NEW j, Shows(n, f, j), User, pc # "idle"
  PROVE  Shows(n, f, j)'
<1>1. live'[f] = live[f]
  <2>1. CASE Tick
    BY <2>1 DEF Tick
  <2>2. ASSUME NEW g, NEW st, Edits(g, st) PROVE live'[f] = live[f]
    BY <2>2, Edited
  <2>3. QED
    BY <2>1, <2>2, UserCases
<1>2. QED
  BY <1>1, ShowsSame

(* During a session users only take files out of those that are kept.      *)
LEMMA KeptUser ==
  ASSUME TypeOK, User, pc # "idle"
  PROVE  Kept' \subseteq Kept
<1>1. CASE Tick
  BY <1>1 DEF Tick, Kept
<1>2. ASSUME NEW g, NEW st, Edits(g, st) PROVE Kept' \subseteq Kept
  <2>1. g \in Leaves /\ changed' = changed \cup {g}
    BY <1>2, Edited
  <2>2. \A f \in Leaves \ {g} : f \in racy' <=> f \in racy
    BY <1>2, Edited
  <2>3. QED
    BY <2>1, <2>2 DEF Kept
<1>3. QED
  BY <1>1, <1>2, UserCases


(* What is known of a directory being dumped survives what users do.       *)
LEMMA FrameUser ==
  ASSUME TypeOK, pc # "idle", User, NEW fr, fr.name \in Dirs, FrameRight(fr)
  PROVE  FrameRight(fr)'
<1>1. Children[fr.name] \in Seq(Names)
  BY BackupAssumption DEF BackupAssumption, Names, Leaves
<1>2. \A x \in Range(Children[fr.name]) : x \in Dirs \/ x \in Leaves
  BY <1>1 DEF Range, Names
<1>3. /\ \A e \in fr.old : Right(e.ino, e.ctime, e.oid)
      /\ NamesComplete(fr)
      /\ \A k \in DOMAIN fr.todo : StatRight(fr.todo[k].name, fr.todo[k].ctime)
      /\ fr.todo # <<>> => SameDeviceDir(fr.name)
      /\ \A k \in DOMAIN fr.done : \A f \in Kept : \A j \in DOMAIN Path[f] :
           Path[f][j] = fr.done[k][1] => Shows(fr.done[k][2], f, j)
  BY DEF FrameRight
<1>4. /\ changed \subseteq changed'
      /\ \A x \in Leaves \ changed' : live'[x] = live[x]
  <2>1. CASE Tick
    BY <2>1 DEF Tick
  <2>2. ASSUME NEW g, NEW st, Edits(g, st)
        PROVE  changed \subseteq changed' /\ \A x \in Leaves \ changed' : live'[x] = live[x]
    <3>1. changed' = changed \cup {g} /\ \A x \in Leaves \ {g} : live'[x] = live[x]
      BY <2>2, Edited
    <3>2. QED
      BY <3>1
  <2>3. QED
    BY <2>1, <2>2, UserCases
<1>5. ASSUME NEW e \in fr.old PROVE Right(e.ino, e.ctime, e.oid)'
  <2>1. PICK i, t, d : i = e.ino /\ t = e.ctime /\ d = e.oid
    OBVIOUS
  <2>2. Right(i, t, d)'
    BY <1>3, <2>1, RightUser
  <2>3. QED
    BY <2>1, <2>2
<1>6. NamesComplete(fr)'
  <2>1. \A x \in Range(Children[fr.name]) :
          /\ x \in Dirs \cup changed \/ live[x].here => x \in Dirs \cup changed' \/ live'[x].here
          /\ x \in Dirs \/ (x \notin changed' /\ live'[x].here)
               => x \in Dirs \/ (x \notin changed /\ live[x].here)
    BY <1>2, <1>4
  <2>2. QED
    BY <1>3, <2>1 DEF NamesComplete, TodoNames, DoneNames
<1>7. ASSUME NEW k \in DOMAIN fr.todo PROVE StatRight(fr.todo[k].name, fr.todo[k].ctime)'
  <2>1. PICK x, t : x = fr.todo[k].name /\ t = fr.todo[k].ctime
    OBVIOUS
  <2>2. StatRight(x, t)
    BY <1>3, <2>1
  <2>3. StatRight(x, t)'
    <3>1. CASE Tick
      BY <1>4, <2>2, <3>1 DEF Tick, StatRight, TypeOK
    <3>2. ASSUME NEW g, NEW st, Edits(g, st) PROVE StatRight(x, t)'
      <4>1. clock' = clock /\ seen' = seen
        BY <3>2, Edited
      <4>2. QED
        BY <1>4, <2>2, <4>1 DEF StatRight
    <3>3. QED
      BY <3>1, <3>2, UserCases
  <2>4. QED
    BY <2>1, <2>3
<1>8. ASSUME NEW k \in DOMAIN fr.done, NEW f \in Kept', NEW j \in DOMAIN Path[f],
             Path[f][j] = fr.done[k][1]
      PROVE  Shows(fr.done[k][2], f, j)'
  <2>1. PICK n : n = fr.done[k][2]
    OBVIOUS
  <2>2. f \in Kept /\ f \in Leaves /\ f \notin changed'
    BY KeptUser, <1>8 DEF Kept
  <2>3. Shows(n, f, j)
    BY <1>3, <1>8, <2>1, <2>2
  <2>4. Shows(n, f, j)'
    BY <2>2, <2>3, ShowsUser
  <2>5. QED
    BY <2>1, <2>4
<1>9. QED
  BY <1>3, <1>5, <1>6, <1>7, <1>8 DEF FrameRight, SameDeviceDir

(* A session that enters no directory leaves what is known as it is.       *)
LEMMA FrameStays ==
  ASSUME UNCHANGED <<userVars, changed, racy>>, seen \subseteq seen', NEW fr, FrameRight(fr)
  PROVE  FrameRight(fr)'
<1>1. live' = live /\ clock' = clock /\ changed' = changed /\ racy' = racy
  BY DEF userVars
<1>2. Kept' = Kept /\ NamesComplete(fr)' = NamesComplete(fr)
  BY <1>1 DEF Kept, NamesComplete, TodoNames, DoneNames
<1>3. ASSUME NEW e \in fr.old PROVE Right(e.ino, e.ctime, e.oid)'
  <2>1. PICK i, t, d : i = e.ino /\ t = e.ctime /\ d = e.oid
    OBVIOUS
  <2>2. Right(i, t, d)
    BY <2>1 DEF FrameRight
  <2>3. Right(i, t, d)'
    BY <2>2, RightStays
  <2>4. QED
    BY <2>1, <2>3
<1>4. ASSUME NEW k \in DOMAIN fr.todo PROVE StatRight(fr.todo[k].name, fr.todo[k].ctime)'
  BY <1>1 DEF FrameRight, StatRight
<1>5. ASSUME NEW k \in DOMAIN fr.done, NEW f \in Kept', NEW j \in DOMAIN Path[f],
             Path[f][j] = fr.done[k][1]
      PROVE  Shows(fr.done[k][2], f, j)'
  <2>1. PICK n : n = fr.done[k][2]
    OBVIOUS
  <2>2. Shows(n, f, j)
    BY <1>2, <1>5, <2>1 DEF FrameRight
  <2>3. Shows(n, f, j)'
    BY <1>1, <2>2, ShowsSame
  <2>4. QED
    BY <2>1, <2>3
<1>6. QED
  BY <1>2, <1>3, <1>4, <1>5 DEF FrameRight, SameDeviceDir


-----------------------------------------------------------------------------
(* What the dump does to a directory. *)

(* One child is done, by a node that shows it.                             *)
LEMMA ChildRight ==
  ASSUME NEW fr, NEW V, DumpFrame(fr, V), FrameRight(fr), fr.todo # <<>>, NEW rows, NEW node,
         \A f \in Kept : \A j \in DOMAIN Path[f] :
           Path[f][j] = Head(fr.todo).name => Shows(node, f, j)
  PROVE  FrameRight(ChildDone(fr, rows, node))
<1>1. PICK g : g = ChildDone(fr, rows, node)
  OBVIOUS
<1>2. /\ g.name = fr.name /\ g.old = fr.old
      /\ g.todo = Tail(fr.todo)
      /\ g.done = Append(fr.done, <<Head(fr.todo).name, node>>)
  BY <1>1 DEF ChildDone, DumpFrame
<1>3. PICK s, t, x, y : s = fr.todo /\ t = g.todo /\ x = Head(s).name /\ y = <<x, node>>
  OBVIOUS
<1>4. PICK u, v : u = fr.done /\ v = g.done
  OBVIOUS
<1>5. /\ s \in Seq([name : Names, ctime : Nat]) /\ s # <<>> /\ u \in Seq(Names \X V)
  BY <1>3, <1>4 DEF DumpFrame
<1>6. /\ 1 \in DOMAIN s /\ s[1].name = x /\ t = Tail(s)
      /\ \A k \in DOMAIN t : k + 1 \in DOMAIN s /\ t[k] = s[k + 1]
      /\ \A k \in DOMAIN s : k = 1 \/ (k - 1 \in DOMAIN t /\ s[k] = t[k - 1])
      /\ \A k \in DOMAIN s \cup DOMAIN t : k \in Nat
  <2>1. t = Tail(s)
    BY <1>2, <1>3
  <2>2. PICK n \in Nat \ {0} : n = Len(s) /\ DOMAIN s = 1..n
    BY <1>5
  <2>3. /\ t \in Seq([name : Names, ctime : Nat]) /\ Len(t) = n - 1
        /\ \A k \in 1..Len(t) : t[k] = s[k + 1]
    BY <1>5, <2>1, <2>2, HeadTailProperties
  <2>4. DOMAIN t = 1..(n - 1)
    BY <2>2, <2>3
  <2>5. Head(s) = s[1]
    BY <1>5
  <2>6. \A k \in 1..(n - 1) : k + 1 \in 1..n /\ t[k] = s[k + 1] /\ k \in Nat
    BY <2>2, <2>3
  <2>7. \A k \in 1..n : k \in Nat /\ (k = 1 \/ (k - 1 \in 1..(n - 1) /\ k - 1 + 1 = k))
    BY <2>2
  <2>8. QED
    BY <1>3, <2>1, <2>2, <2>4, <2>5, <2>6, <2>7
<1>7. PICK m \in Nat : /\ DOMAIN u = 1..m /\ DOMAIN v = 1..(m + 1) /\ v[m + 1] = y
                       /\ \A k \in 1..m : v[k] = u[k]
  <2>1. v = Append(u, y)
    BY <1>2, <1>3, <1>4
  <2>2. PICK m \in Nat : m = Len(u) /\ DOMAIN u = 1..m
    BY <1>5
  <2>3. u \in Seq(Range(u) \cup {y})
    <3>1. u \in Seq(Range(u))
      BY <1>5, SeqOfRange
    <3>2. QED
      BY <3>1
  <2>4. /\ v \in Seq(Range(u) \cup {y}) /\ Len(v) = m + 1 /\ v[m + 1] = y
        /\ \A k \in 1..m : v[k] = u[k]
    BY <2>1, <2>2, <2>3, AppendProperties
  <2>5. QED
    BY <2>2, <2>4
<1>8. \A k \in 1..(m + 1) : k = m + 1 \/ k \in 1..m
  BY <1>7
<1>9. /\ TodoNames(fr) = {s[k].name : k \in DOMAIN s} /\ TodoNames(g) = {t[k].name : k \in DOMAIN t}
      /\ DoneNames(fr) = {u[k][1] : k \in DOMAIN u} /\ DoneNames(g) = {v[k][1] : k \in DOMAIN v}
  BY <1>3, <1>4 DEF TodoNames, DoneNames
<1>10. /\ \A j, k \in DOMAIN s : s[j].name = s[k].name => j = k
       /\ \A j, k \in DOMAIN u : u[j][1] = u[k][1] => j = k
       /\ TodoNames(fr) \cap DoneNames(fr) = {}
  BY <1>3, <1>4 DEF FrameRight, NamesComplete
<1>11. \A k \in DOMAIN t : t[k].name # x
  BY <1>6, <1>10
<1>12. TodoNames(fr) = TodoNames(g) \cup {x} /\ x \notin TodoNames(g)
  <2>1. x \in TodoNames(fr)
    BY <1>6, <1>9
  <2>2. ASSUME NEW k \in DOMAIN t PROVE t[k].name \in TodoNames(fr)
    <3>1. k + 1 \in DOMAIN s /\ t[k] = s[k + 1]
      BY <1>6
    <3>2. QED
      BY <1>9, <3>1
  <2>3. ASSUME NEW k \in DOMAIN s PROVE s[k].name \in TodoNames(g) \cup {x}
    <3>1. CASE k = 1
      BY <1>6, <3>1
    <3>2. CASE k - 1 \in DOMAIN t /\ s[k] = t[k - 1]
      BY <1>9, <3>2
    <3>3. QED
      BY <1>6, <3>1, <3>2
  <2>4. TodoNames(g) \subseteq TodoNames(fr)
    BY <1>9, <2>2
  <2>5. TodoNames(fr) \subseteq TodoNames(g) \cup {x}
    BY <1>9, <2>3
  <2>6. x \notin TodoNames(g)
    BY <1>9, <1>11
  <2>7. QED
    BY <2>1, <2>4, <2>5, <2>6
<1>13. DoneNames(g) = DoneNames(fr) \cup {x}
  BY <1>3, <1>7, <1>8, <1>9
<1>14. x \notin DoneNames(fr)
  BY <1>10, <1>12
<1>15. \A j, k \in DOMAIN t : t[j].name = t[k].name => j = k
  <2>1. SUFFICES ASSUME NEW j \in DOMAIN t, NEW k \in DOMAIN t, t[j].name = t[k].name
                 PROVE  j = k
    OBVIOUS
  <2>2. j + 1 = k + 1 /\ j \in Nat /\ k \in Nat
    BY <1>6, <1>10, <2>1
  <2>3. QED
    BY <2>2
<1>16. \A j, k \in DOMAIN v : v[j][1] = v[k][1] => j = k
  <2>1. \A k \in 1..m : v[k][1] # x
    BY <1>7, <1>9, <1>14
  <2>2. v[m + 1][1] = x
    BY <1>3, <1>7
  <2>3. QED
    BY <1>7, <1>8, <1>10, <2>1, <2>2
<1>17. NamesComplete(g)
  <2>1. TodoNames(g) \cup DoneNames(g) = TodoNames(fr) \cup DoneNames(fr)
    BY <1>12, <1>13
  <2>2. TodoNames(g) \cap DoneNames(g) = {}
    BY <1>10, <1>12, <1>13
  <2>3. /\ \A j, k \in DOMAIN g.todo : g.todo[j].name = g.todo[k].name => j = k
        /\ \A j, k \in DOMAIN g.done : g.done[j][1] = g.done[k][1] => j = k
    BY <1>3, <1>4, <1>15, <1>16
  <2>4. NamesComplete(fr)
    BY DEF FrameRight
  <2>5. QED
    BY <1>2, <2>1, <2>2, <2>3, <2>4 DEF NamesComplete
<1>18. \A k \in DOMAIN g.todo : StatRight(g.todo[k].name, g.todo[k].ctime)
  <2>1. \A k \in DOMAIN s : StatRight(s[k].name, s[k].ctime)
    BY <1>3 DEF FrameRight
  <2>2. QED
    BY <1>3, <1>6, <2>1
<1>19. ASSUME NEW k \in DOMAIN v, NEW f \in Kept, NEW j \in DOMAIN Path[f], Path[f][j] = v[k][1]
       PROVE  Shows(v[k][2], f, j)
  <2>1. CASE k = m + 1
    BY <1>3, <1>7, <1>19, <2>1
  <2>2. CASE k \in 1..m
    BY <1>4, <1>7, <1>19, <2>2 DEF FrameRight
  <2>3. QED
    BY <1>7, <1>8, <2>1, <2>2
<1>20. QED
  BY <1>1, <1>2, <1>3, <1>4, <1>17, <1>18, <1>19 DEF FrameRight


(* What Readdir returns: each name that is there once, as it is.           *)
LEMMA Listed ==
  ASSUME TypeOK, NEW d \in Dirs \ Foreign, NEW r, r = Readdir(d)
  PROVE  /\ \A j, k \in DOMAIN r : r[j].name = r[k].name => j = k
         /\ {r[k].name : k \in DOMAIN r} =
              {x \in Range(Children[d]) : x \in Dirs \/ live[x].here}
         /\ \A k \in DOMAIN r : r[k].name \in Leaves => r[k].ctime = live[r[k].name].ctime
<1> DEFINE there == Dirs \cup {n \in Leaves : live[n].here}
           Stat(n) == [name |-> n, ctime |-> IF n \in Dirs THEN 0 ELSE live[n].ctime]
<1>1. Children[d] \in Seq(Names) /\ d \notin Foreign /\ IsInjective(Children[d])
  BY BackupAssumption, TreeAssumption DEF BackupAssumption, TreeAssumption, Names, Leaves
<1>2. PICK c : c = Children[d] /\ c \in Seq(Names)
  BY <1>1
<1>3. PICK names : names = Select(c, there)
  OBVIOUS
<1>4. /\ {names[k] : k \in DOMAIN names} = {c[k] : k \in DOMAIN c} \cap there
      /\ \A j, k \in DOMAIN names : names[j] = names[k] => j = k
  <2> HIDE DEF there
  <2>1. \A j, k \in DOMAIN c : c[j] = c[k] => j = k
    BY <1>1, <1>2 DEF IsInjective
  <2>2. QED
    BY <1>2, <1>3, <2>1, SelectedAll
<1>5. r = [k \in DOMAIN names |-> Stat(names[k])]
  BY <1>1, <1>2, <1>3 DEF Readdir
<1>6. \A k \in DOMAIN r : k \in DOMAIN names /\ r[k].name = names[k]
  BY <1>5
<1>7. DOMAIN r = DOMAIN names
  BY <1>5
<1>8. \A j, k \in DOMAIN r : r[j].name = r[k].name => j = k
  BY <1>4, <1>6
<1>9. {r[k].name : k \in DOMAIN r} = {x \in Range(Children[d]) : x \in Dirs \/ live[x].here}
  <2>1. {r[k].name : k \in DOMAIN r} = {names[k] : k \in DOMAIN names}
    BY <1>6, <1>7
  <2>2. {c[k] : k \in DOMAIN c} = Range(Children[d])
    BY <1>2 DEF Range
  <2>3. \A x \in Range(Children[d]) : x \in there <=> (x \in Dirs \/ live[x].here)
    <3>1. \A x \in Range(Children[d]) : x \in Dirs \/ x \in Leaves
      BY <1>2 DEF Range, Names
    <3>2. QED
      BY <3>1
  <2>4. QED
    BY <1>4, <2>1, <2>2, <2>3
<1>10. ASSUME NEW k \in DOMAIN r, r[k].name \in Leaves
       PROVE  r[k].ctime = live[r[k].name].ctime
  <2>1. r[k].name \notin Dirs
    BY <1>10, BackupAssumption DEF BackupAssumption, Leaves
  <2>2. QED
    BY <1>5, <1>6, <2>1
<1>11. QED
  BY <1>5, <1>8, <1>9, <1>10


(* The rows the session sees repeat nodes it sees.                         *)
LEMMA RowsRight ==
  ASSUME IInv, NodesRight, NEW i \in DirInos, NEW e \in ctx[i]
  PROVE  Right(e.ino, e.ctime, e.oid)
<1>1. VouchedFor(i, ctx[i], View) /\ GoodPool
  BY DEF IInv, GoodTables
<1>2. PICK d \in View : d.kind = "DIR" /\ \E n \in Refs(d.children) : Repeats(e, n)
  BY <1>1 DEF VouchedFor
<1>3. PICK n \in Refs(d.children) : Repeats(e, n)
  BY <1>2
<1>4. Refs(d) = {d.children}
  BY <1>2 DEF Refs
<1>5. d.children \in View
  BY <1>1, <1>2, <1>4 DEF GoodPool, WellMade
<1>6. n \in View
  BY <1>1, <1>3, <1>5 DEF GoodPool, WellMade
<1>7. n.kind = "REG" /\ n.ino = e.ino /\ n.ctime = e.ctime /\ n.data = e.oid
  BY <1>3 DEF Repeats
<1>8. QED
  BY <1>6, <1>7 DEF NodesRight

(* What is known of a directory that the dump enters.                      *)
LEMMA NewRight ==
  ASSUME IInv, NodesRight, NEW d \in Dirs, NEW t, NEW fr, fr = Frame(d, t),
         UNCHANGED <<userVars, racy>>, seen' = seen \cup Fresh(d),
         d \in Foreign \/ SameDeviceDir(d)
  PROVE  FrameRight(fr)' /\ fr.name = d
<1>1. live' = live /\ clock' = clock /\ seen \subseteq seen'
  BY DEF userVars
<1>2. /\ fr.name = d /\ fr.todo = Readdir(d) /\ fr.done = <<>>
      /\ fr.old = GetDir(Ino[d], t)
  BY DEF Frame
<1>3. ASSUME NEW e \in fr.old PROVE Right(e.ino, e.ctime, e.oid)'
  <2>1. e \in ctx[Ino[d]] /\ Ino[d] \in DirInos
    BY <1>2 DEF GetDir, DirInos
  <2>2. PICK i, c, o : i = e.ino /\ c = e.ctime /\ o = e.oid
    OBVIOUS
  <2>3. Right(i, c, o)
    BY <2>1, <2>2, RowsRight
  <2>4. Right(i, c, o)'
    BY <1>1, <2>3, RightStays
  <2>5. QED
    BY <2>2, <2>4
<1>4. PICK r : r = Readdir(d) /\ r = fr.todo
  BY <1>2
<1>5. DOMAIN fr.done = {} /\ DoneNames(fr) = {}
  BY <1>2 DEF DoneNames
<1>6. d \in Foreign => r = <<>> /\ DOMAIN r = {}
  BY <1>4 DEF Readdir
<1>7. TodoNames(fr) = {r[k].name : k \in DOMAIN r}
  BY <1>4 DEF TodoNames
<1>8. /\ \A j, k \in DOMAIN r : r[j].name = r[k].name => j = k
      /\ d \notin Foreign => {r[k].name : k \in DOMAIN r} =
           {x \in Range(Children[d]) : x \in Dirs \/ live[x].here}
      /\ \A k \in DOMAIN r : r[k].name \in Leaves => r[k].ctime = live[r[k].name].ctime
  <2>1. CASE d \in Foreign
    BY <1>6, <2>1
  <2>2. CASE d \notin Foreign
    <3>1. TypeOK /\ d \in Dirs \ Foreign
      BY <2>2 DEF IInv
    <3>2. QED
      BY <1>4, <3>1, Listed
  <2>3. QED
    BY <2>1, <2>2
<1>9. NamesComplete(fr)'
  <2>1. TodoNames(fr) = IF d \in Foreign THEN {}
                        ELSE {x \in Range(Children[d]) : x \in Dirs \/ live'[x].here}
    BY <1>1, <1>6, <1>7, <1>8
  <2>2. \A j, k \in DOMAIN fr.todo : fr.todo[j].name = fr.todo[k].name => j = k
    BY <1>4, <1>8
  <2>3. QED
    BY <1>2, <1>5, <2>1, <2>2 DEF NamesComplete, TodoNames, DoneNames
<1>10. ASSUME NEW k \in DOMAIN fr.todo PROVE StatRight(fr.todo[k].name, fr.todo[k].ctime)'
  <2>1. PICK x, c : x = fr.todo[k].name /\ c = fr.todo[k].ctime
    OBVIOUS
  <2>2. SUFFICES ASSUME x \in Leaves
                 PROVE  c \in 0..clock /\ (c = clock => x \in seen') /\ c = live[x].ctime
    BY <1>1, <2>1 DEF StatRight
  <2>3. c = live[x].ctime
    BY <1>4, <1>8, <1>10, <2>1, <2>2
  <2>4. c \in 0..clock
    BY <2>2, <2>3 DEF IInv, TypeOK
  <2>5. c = clock => x \in Fresh(d)
    BY <1>4, <1>10, <2>1, <2>2, <2>3 DEF Fresh
  <2>6. QED
    BY <2>3, <2>4, <2>5
<1>11. fr.todo # <<>> => SameDeviceDir(d)
  BY <1>4, <1>6
<1>12. QED
  BY <1>2, <1>3, <1>5, <1>9, <1>10, <1>11 DEF FrameRight, SameDeviceDir

(* A directory in one that is of the same device, and itself is.           *)
LEMMA SubdirDevice ==
  ASSUME NEW d \in Dirs, SameDeviceDir(d), NEW x \in Range(Children[d]), x \notin Foreign
  PROVE  SameDeviceDir(x)
<1>1. SUFFICES ASSUME NEW f \in Leaves, NEW j \in DOMAIN Path[f], Path[f][j] = x, NEW k \in 1..j
               PROVE  Path[f][k] \notin Foreign
  BY DEF SameDeviceDir
<1>2. Len(Path[f]) \in Nat /\ DOMAIN Path[f] = 1..Len(Path[f])
  BY PathFacts
<1>3. Parent(f, j) = d
  BY <1>1, <1>2, OneParent
<1>4. CASE k = j
  BY <1>1, <1>4
<1>5. CASE k # j
  <2>1. j # 1 /\ j - 1 \in DOMAIN Path[f] /\ k \in 1..(j - 1)
    BY <1>1, <1>2, <1>5
  <2>2. Path[f][j - 1] = d
    BY <1>3, <2>1 DEF Parent
  <2>3. QED
    BY <2>1, <2>2 DEF SameDeviceDir
<1>6. QED
  BY <1>4, <1>5

(* So is a file in it.                                                     *)
LEMMA FileDevice ==
  ASSUME NEW d \in Dirs, SameDeviceDir(d), NEW x \in Leaves, x \in Range(Children[d])
  PROVE  SameDevice(x)
<1>1. x \notin Foreign
  BY BackupAssumption DEF BackupAssumption, Leaves
<1>2. SameDeviceDir(x)
  BY <1>1, SubdirDevice
<1>3. /\ Len(Path[x]) \in Nat \ {0} /\ DOMAIN Path[x] = 1..Len(Path[x])
      /\ Path[x][Len(Path[x])] = x
  BY PathFacts
<1>4. Len(Path[x]) \in DOMAIN Path[x]
  BY <1>3
<1>5. QED
  BY <1>2, <1>3, <1>4 DEF SameDeviceDir, SameDevice

(* The root is of its own device.                                          *)
LEMMA RootDevice == SameDeviceDir(Root)
<1>1. SUFFICES ASSUME NEW f \in Leaves, NEW j \in DOMAIN Path[f], Path[f][j] = Root
               PROVE  FALSE
  BY DEF SameDeviceDir
<1>2. j \in 1..Len(Path[f]) /\ Len(Path[f]) \in Nat
  BY PathFacts
<1>3. Path[f][j] \in Range(Children[Parent(f, j)])
  BY <1>2, PathFacts
<1>4. Parent(f, j) \in Dirs
  <2>1. CASE j = 1
    BY <2>1, BackupAssumption DEF BackupAssumption, Parent
  <2>2. CASE j # 1
    <3>1. j - 1 \in 1..(Len(Path[f]) - 1)
      BY <1>2, <2>2
    <3>2. QED
      BY <2>2, <3>1, PathFacts DEF Parent
  <2>3. QED
    BY <2>1, <2>2
<1>5. QED
  BY <1>1, <1>3, <1>4, TreeAssumption DEF TreeAssumption


-----------------------------------------------------------------------------
(* The steps. *)

(* The directory being dumped, and what is next in it.                     *)
LEMMA TopRight ==
  ASSUME IInv, WalkRight, pc \in {"dump", "read"}
  PROVE  /\ Len(stack) \in Nat \ {0} /\ DOMAIN stack = 1..Len(stack) /\ Top = stack[Len(stack)]
         /\ \A k \in DOMAIN stack : FrameRight(stack[k]) /\ DumpFrame(stack[k], View)
         /\ FrameRight(Top) /\ DumpFrame(Top, View) /\ Top.name \in Dirs
         /\ Top.todo # <<>> =>
              /\ Item.name \in TodoNames(Top) /\ Item.name \in Range(Children[Top.name])
              /\ SameDeviceDir(Top.name) /\ StatRight(Item.name, Item.ctime)
<1>1. stack \in Seq(Range(stack)) /\ stack # <<>>
  BY DEF IInv, TypeOK
<1>2. /\ Len(stack) \in Nat \ {0} /\ DOMAIN stack = 1..Len(stack) /\ Top = stack[Len(stack)]
      /\ Len(stack) \in DOMAIN stack
  BY <1>1 DEF Top, Last
<1>3. \A k \in DOMAIN stack : FrameRight(stack[k]) /\ DumpFrame(stack[k], View)
  BY DEF WalkRight, IInv, GoodWalk, Range
<1>4. PICK fr : fr = Top /\ FrameRight(fr) /\ DumpFrame(fr, View)
  BY <1>2, <1>3
<1>5. fr.name \in Dirs /\ fr.todo \in Seq([name : Names, ctime : Nat])
  BY <1>4 DEF DumpFrame
<1>6. ASSUME fr.todo # <<>>
      PROVE  /\ Item.name \in TodoNames(fr) /\ Item.name \in Range(Children[fr.name])
             /\ SameDeviceDir(fr.name) /\ StatRight(Item.name, Item.ctime)
  <2>1. 1 \in DOMAIN fr.todo /\ Item = fr.todo[1]
    BY <1>4, <1>5, <1>6, FirstAndRest DEF Item
  <2>2. Item.name \in TodoNames(fr)
    BY <2>1 DEF TodoNames
  <2>3. Item.name \in Range(Children[fr.name])
    BY <1>4, <2>2 DEF FrameRight, NamesComplete
  <2>4. QED
    BY <1>4, <1>6, <2>1, <2>2, <2>3 DEF FrameRight
<1>7. QED
  BY <1>2, <1>3, <1>4, <1>5, <1>6

(* A file that is next: of the same device, and as Readdir found it unless *)
(* it was changed since.                                                   *)
LEMMA ItemAsFound ==
  ASSUME IInv, WalkRight, pc \in {"dump", "read"}, Top.todo # <<>>, Item.name \in Leaves
  PROVE  /\ SameDevice(Item.name)
         /\ Item.ctime \in 0..clock /\ (Item.ctime = clock => Item.name \in seen)
         /\ Item.name \notin changed =>
              live[Item.name].here /\ Item.ctime = live[Item.name].ctime
<1>1. PICK fr, x : fr = Top /\ x = Item.name
  OBVIOUS
<1>2. /\ FrameRight(fr) /\ fr.name \in Dirs /\ x \in TodoNames(fr) /\ x \in Range(Children[fr.name])
      /\ SameDeviceDir(fr.name) /\ StatRight(x, Item.ctime)
  BY <1>1, TopRight
<1>3. SameDevice(x)
  BY <1>1, <1>2, FileDevice
<1>4. x \notin Dirs
  BY <1>1, BackupAssumption DEF BackupAssumption, Leaves
<1>5. x \notin changed => live[x].here
  BY <1>2, <1>4 DEF FrameRight, NamesComplete
<1>6. QED
  BY <1>1, <1>2, <1>3, <1>5 DEF StatRight

(* A node that is the file as it is, if nobody changed that, shows it.     *)
LEMMA ItemShown ==
  ASSUME IInv, WalkRight, pc \in {"dump", "read"}, Top.todo # <<>>, Item.name \in Leaves,
         NEW node, Item.name \in Kept => node = AsIs(Item.name),
         NEW f \in Kept, NEW j \in DOMAIN Path[f], Path[f][j] = Head(Top.todo).name
  PROVE  Shows(node, f, j)
<1>1. PICK x : x = Item.name /\ Path[f][j] = x
  BY DEF Item
<1>2. f \in Leaves /\ x \in Leaves /\ x \notin Dirs
  BY <1>1, BackupAssumption DEF BackupAssumption, Leaves, Kept
<1>3. x = f
  BY <1>1, <1>2, PathFacts
<1>4. live[x].here
  BY <1>1, <1>3, ItemAsFound DEF Kept
<1>5. QED
  BY <1>1, <1>2, <1>3, <1>4, ShownLeaf

(* Nodes stored by a session.                                              *)
LEMMA NodesStored ==
  ASSUME NodesRight, UNCHANGED <<userVars, racy>>, seen \subseteq seen',
         NEW cs, View' \subseteq View \cup cs,
         \A n \in cs : n.kind = "REG" => Right(n.ino, n.ctime, n.data)
  PROVE  NodesRight'
<1>1. SUFFICES ASSUME NEW n \in View', n.kind = "REG"
               PROVE  Right(n.ino, n.ctime, n.data)'
  BY DEF NodesRight
<1>2. PICK i, t, d : i = n.ino /\ t = n.ctime /\ d = n.data
  OBVIOUS
<1>3. Right(i, t, d)
  BY <1>1, <1>2 DEF NodesRight
<1>4. Right(i, t, d)'
  BY <1>3, RightStays
<1>5. QED
  BY <1>2, <1>4

(* Between dumps there is little to say.                                   *)
LEMMA OffRight ==
  ASSUME NodesRight, UNCHANGED <<userVars, racy, seen>>, View' \subseteq View,
         pc' \notin {"dump", "read"}, head' = Null
  PROVE  AllRight'
<1>1. NodesRight'
  <2>1. SUFFICES ASSUME NEW n \in View', n.kind = "REG"
                 PROVE  Right(n.ino, n.ctime, n.data)'
    BY DEF NodesRight
  <2>2. PICK i, t, d : i = n.ino /\ t = n.ctime /\ d = n.data
    OBVIOUS
  <2>3. Right(i, t, d)
    BY <2>1, <2>2 DEF NodesRight
  <2>4. seen \subseteq seen' /\ UNCHANGED <<userVars, racy>>
    OBVIOUS
  <2>5. Right(i, t, d)'
    BY <2>3, <2>4, RightStays
  <2>6. QED
    BY <2>2, <2>5
<1>2. WalkRight' /\ ReadRight' /\ HeadRight'
  BY DEF WalkRight, ReadRight, HeadRight
<1>3. QED
  BY <1>1, <1>2 DEF AllRight

-----------------------------------------------------------------------------
(* The steps of users. *)

(* Users leave right what was right.                                       *)
LEMMA UserRight ==
  ASSUME FaithInv, User
  PROVE  AllRight'
<1>1. /\ IInv /\ TypeOK /\ GoodWalk /\ NodesRight /\ WalkRight /\ ReadRight /\ HeadRight
  BY DEF FaithInv, AllRight, IInv
<1>2. /\ UNCHANGED <<pc, stack, blocks, head>> /\ View' = View
      /\ seen \subseteq seen' \/ clock' = clock + 1
  <2>1. CASE Tick
    BY <2>1 DEF Tick, View, poolVars
  <2>2. ASSUME NEW g, NEW st, Edits(g, st)
        PROVE  /\ UNCHANGED <<pc, stack, blocks, head>> /\ View' = View
               /\ seen \subseteq seen' \/ clock' = clock + 1
    BY <1>1, <2>2, Edited DEF View, poolVars
  <2>3. QED
    BY <1>1, <2>1, <2>2, UserCases
<1>3. NodesRight'
  <2>1. SUFFICES ASSUME NEW n \in View, n.kind = "REG"
                 PROVE  Right(n.ino, n.ctime, n.data)'
    BY <1>2 DEF NodesRight
  <2>2. PICK i, t, d : i = n.ino /\ t = n.ctime /\ d = n.data
    OBVIOUS
  <2>3. Right(i, t, d)
    BY <1>1, <2>1, <2>2 DEF NodesRight
  <2>4. Right(i, t, d)'
    BY <1>1, <2>3, RightUser
  <2>5. QED
    BY <2>2, <2>4
<1>4. WalkRight'
  <2>1. SUFFICES ASSUME pc \in {"dump", "read"}
                 PROVE  \A k \in DOMAIN stack : FrameRight(stack[k])'
    BY <1>1, <1>2 DEF WalkRight
  <2>2. ASSUME NEW k \in DOMAIN stack PROVE FrameRight(stack[k])'
    <3>1. PICK fr : fr = stack[k]
      OBVIOUS
    <3>2. FrameRight(fr) /\ fr.name \in Dirs
      BY <1>1, <2>1, <3>1, TopRight DEF DumpFrame
    <3>3. FrameRight(fr)'
      BY <1>1, <2>1, <3>2, FrameUser
    <3>4. stack' = stack
      BY <1>2
    <3>5. QED
      BY <3>1, <3>3, <3>4
  <2>3. QED
    BY <2>2
<1>5. ReadRight'
  <2>1. PICK f, t : f = Item.name /\ t = Item.ctime
    OBVIOUS
  <2>2. f = Item'.name /\ t = Item'.ctime
    BY <1>2, <2>1 DEF Item, Top
  <2>3. SUFFICES ASSUME pc = "read", live'[f].here, live'[f].ctime = t, f \notin racy'
                 PROVE  /\ Len(blocks) <= Len(live'[f].data)
                        /\ \A k \in DOMAIN blocks : blocks[k] = Blob(live'[f].data[k])
    BY <1>2, <2>2 DEF ReadRight
  <2>4. /\ f \in Leaves /\ Top.todo # <<>>
    BY <1>1, <2>1, <2>3 DEF GoodWalk, Leaves
  <2>5. t \in 0..clock /\ (t = clock => f \in seen)
    BY <1>1, <2>1, <2>3, <2>4, ItemAsFound
  <2>6. live'[f] = live[f] /\ f \notin racy
    <3>1. CASE Tick
      BY <2>3, <3>1 DEF Tick
    <3>2. ASSUME NEW g, NEW st, Edits(g, st) PROVE live'[f] = live[f] /\ f \notin racy
      <4>1. CASE f = g
        <5>1. live'[f] = st /\ (st.here => st.ctime = clock) /\ (f \in seen => f \in racy')
          BY <1>1, <3>2, <4>1, Edited DEF Edits
        <5>2. QED
          BY <2>3, <2>5, <5>1
      <4>2. CASE f # g
        BY <1>1, <2>3, <2>4, <3>2, <4>2, Edited
      <4>3. QED
        BY <4>1, <4>2
    <3>3. QED
      BY <1>1, <3>1, <3>2, UserCases
  <2>7. QED
    BY <1>1, <2>1, <2>3, <2>6 DEF ReadRight
<1>6. HeadRight'
  <2>1. SUFFICES ASSUME head # Null
                 PROVE  pc \in {"back", "commit"} /\ \A f \in Kept' : Shows(head, f, 0)'
    <3>1. PICK n : n = head /\ n = head'
      BY <1>2
    <3>2. (\A f \in Kept' : Shows(n, f, 0)') => (\A f \in Kept : Shows(head, f, 0))'
      BY <3>1
    <3>3. QED
      BY <1>2, <2>1, <3>1, <3>2 DEF HeadRight, Null
  <2>2. pc \in {"back", "commit"}
    BY <1>1, <2>1 DEF HeadRight
  <2>3. PICK n : n = head
    OBVIOUS
  <2>4. ASSUME NEW f \in Kept' PROVE Shows(n, f, 0)'
    <3>1. f \in Kept /\ f \in Leaves /\ f \notin changed'
      BY <1>1, <2>2, <2>4, KeptUser DEF Kept
    <3>2. Shows(n, f, 0)
      BY <1>1, <2>1, <2>3, <3>1 DEF HeadRight
    <3>3. QED
      BY <1>1, <2>2, <3>1, <3>2, ShowsUser
  <2>5. QED
    BY <1>2, <2>2, <2>3, <2>4
<1>7. QED
  BY <1>3, <1>4, <1>5, <1>6 DEF AllRight


-----------------------------------------------------------------------------
(* The steps of a dump. *)

(* The innermost directory makes way for another state of it.              *)
LEMMA TopReplaced ==
  ASSUME IInv, WalkRight, pc \in {"dump", "read"}, UNCHANGED <<userVars, changed, racy, seen>>,
         NEW g, SetTop(g), g.name = Top.name, FrameRight(g)
  PROVE  WalkRight'
<1>1. /\ stack \in Seq(Range(stack)) /\ stack # <<>>
      /\ Len(stack) \in Nat \ {0} /\ DOMAIN stack = 1..Len(stack) /\ Top = stack[Len(stack)]
      /\ \A k \in DOMAIN stack : FrameRight(stack[k])
  BY TopRight DEF IInv, TypeOK
<1>2. PICK s, n : s = stack /\ n = Len(stack)
  OBVIOUS
<1>3. PICK t : t = [s EXCEPT ![n] = g] /\ t = stack'
  BY <1>2 DEF SetTop
<1>4. /\ t \in Seq(Range(t)) /\ Len(t) = n /\ Last(t) = g /\ \A k \in 1..(n - 1) : t[k] = s[k]
  <2>1. s \in Seq(Range(s)) /\ s # <<>> /\ t = [s EXCEPT ![Len(s)] = g]
    BY <1>1, <1>2, <1>3
  <2> DEFINE u == [s EXCEPT ![Len(s)] = g]
  <2>2. /\ u \in Seq(Range(u)) /\ u # <<>> /\ Last(u) = g /\ Len(u) = Len(s)
        /\ \A k \in 1..(Len(s) - 1) : u[k] = s[k]
    BY <2>1, Replaced
  <2> HIDE DEF u
  <2>3. u = t
    BY <2>1 DEF u
  <2>4. QED
    BY <1>2, <2>2, <2>3
<1>5. DOMAIN t = 1..n /\ n \in Nat \ {0} /\ t[n] = g
  BY <1>1, <1>2, <1>4 DEF Last
<1>6. /\ s[1].name = Root
      /\ \A k \in 1..n : k < n => Head(s[k].todo).name = s[k + 1].name
  BY <1>1, <1>2 DEF WalkRight
<1>7. \A k \in 1..n : t[k].name = s[k].name
  BY <1>1, <1>2, <1>4, <1>5
<1>8. t[1].name = Root
  BY <1>5, <1>6, <1>7
<1>9. ASSUME NEW k \in 1..n, k < n PROVE Head(t[k].todo).name = t[k + 1].name
  <2>1. t[k] = s[k] /\ k + 1 \in 1..n
    BY <1>4, <1>5, <1>9
  <2>2. QED
    BY <1>6, <1>7, <1>9, <2>1
<1>10. ASSUME NEW k \in 1..n PROVE FrameRight(t[k])'
  <2>1. PICK fr : fr = t[k] /\ fr = stack'[k]
    BY <1>3
  <2>2. FrameRight(fr)
    <3>1. CASE k = n
      BY <1>5, <2>1, <3>1
    <3>2. CASE k # n
      <4>1. DOMAIN stack = 1..n /\ n \in Nat \ {0}
        BY <1>1, <1>2
      <4>2. k \in 1..(n - 1) /\ k \in DOMAIN stack
        BY <3>2, <4>1
      <4>3. QED
        BY <1>1, <1>2, <1>4, <2>1, <4>2
    <3>3. QED
      BY <3>1, <3>2
  <2>3. FrameRight(fr)'
    <3>1. seen \subseteq seen' /\ UNCHANGED <<userVars, changed, racy>>
      OBVIOUS
    <3>2. QED
      BY <2>2, <3>1, FrameStays
  <2>4. QED
    BY <1>3, <2>1, <2>3
<1>11. QED
  <2>1. PICK u : u = stack' /\ u = t
    BY <1>3
  <2>2. Len(u) = n /\ DOMAIN u = 1..n
    BY <1>4, <1>5, <2>1
  <2>3. \A k \in DOMAIN u : FrameRight(u[k])' /\ (k < Len(u) => Head(u[k].todo).name = u[k + 1].name)
    BY <1>9, <1>10, <2>1, <2>2
  <2>4. u[1].name = Root
    BY <1>8, <2>1
  <2>5. QED
    BY <2>1, <2>3, <2>4 DEF WalkRight

(* One child of it is done, by a node that shows it.                       *)
LEMMA ChildWalk ==
  ASSUME IInv, WalkRight, pc \in {"dump", "read"}, UNCHANGED <<userVars, changed, racy, seen>>,
         Top.todo # <<>>, NEW rows, NEW node, SetTop(ChildDone(Top, rows, node)),
         \A f \in Kept : \A j \in DOMAIN Path[f] :
           Path[f][j] = Head(Top.todo).name => Shows(node, f, j)
  PROVE  WalkRight'
<1>1. PICK fr : fr = Top /\ FrameRight(fr) /\ DumpFrame(fr, View)
  BY TopRight
<1>2. PICK g : g = ChildDone(fr, rows, node)
  OBVIOUS
<1>3. FrameRight(g)
  BY <1>1, <1>2, ChildRight
<1>4. g.name = fr.name
  BY <1>1, <1>2 DEF ChildDone, DumpFrame
<1>5. QED
  BY <1>1, <1>2, <1>3, <1>4, TopReplaced

(* The dump may store chunks, and goes on walking.                         *)
LEMMA GoesOn ==
  ASSUME AllRight, pc \notin {"back", "commit"}, pc' = "dump" \/ ReadRight',
         UNCHANGED <<userVars, racy, head>>, seen \subseteq seen',
         NEW cs, View' \subseteq View \cup cs,
         \A n \in cs : n.kind = "REG" => Right(n.ino, n.ctime, n.data),
         WalkRight'
  PROVE  AllRight'
<1>1. NodesRight /\ HeadRight
  BY DEF AllRight
<1>2. NodesRight'
  <2>1. UNCHANGED <<userVars, racy>>
    OBVIOUS
  <2>2. QED
    BY <1>1, <2>1, NodesStored
<1>3. head' = Null
  BY <1>1 DEF HeadRight
<1>4. QED
  BY <1>2, <1>3 DEF AllRight, ReadRight, HeadRight

(* An entry of the cache with the inode and the ctime of the file.         *)
LEMMA ReuseFileRight ==
  ASSUME FaithInv, ReuseFile
  PROVE  AllRight'
<1>1. IInv /\ AllRight /\ WalkRight
  BY DEF FaithInv, AllRight
<1>2. /\ pc = "dump" /\ pc' = "dump" /\ Top.todo # <<>> /\ Item.name \in Files
      /\ UNCHANGED <<userVars, changed, racy, head, seen>>
  BY DEF ReuseFile
<1>3. PICK e \in Cached :
        LET n == Reg(Item.name, Item.ctime, e.oid) IN
        InsertAll({n}) /\ SetTop(ChildDone(Top, {e}, n))
  BY DEF ReuseFile
<1>4. PICK x, t, node : /\ x = Item.name /\ t = Item.ctime /\ node = Reg(x, t, e.oid)
  OBVIOUS
<1>5. e \in Top.old /\ e.ino = Ino[x] /\ e.ctime = t
  BY <1>3, <1>4 DEF Cached
<1>6. Right(e.ino, e.ctime, e.oid)
  BY <1>1, <1>2, <1>5, TopRight DEF FrameRight
<1>7. Right(Ino[x], t, e.oid)
  BY <1>5, <1>6
<1>8. x \in Leaves /\ x \in Files /\ x \notin Links
  BY <1>2, <1>4, BackupAssumption DEF BackupAssumption, Leaves
<1>9. x \in Kept => node = AsIs(x)
  <2>1. /\ SameDevice(x) /\ (x \notin changed => live[x].here /\ t = live[x].ctime)
    BY <1>1, <1>2, <1>4, <1>8, ItemAsFound
  <2>2. x \in Kept => e.oid = Content(x)
    BY <1>7, <1>8, <2>1 DEF Kept, Right
  <2>3. QED
    BY <1>4, <1>8, <2>1, <2>2 DEF AsIs, Kept
<1>10. \A f \in Kept : \A j \in DOMAIN Path[f] :
         Path[f][j] = Head(Top.todo).name => Shows(node, f, j)
  BY <1>1, <1>2, <1>4, <1>8, <1>9, ItemShown
<1>11. WalkRight'
  <2>1. PICK rows : rows = {e} /\ SetTop(ChildDone(Top, rows, node))
    BY <1>3, <1>4
  <2>2. QED
    BY <1>1, <1>2, <1>10, <2>1, ChildWalk
<1>12. InsertAll({node})
  BY <1>3, <1>4
<1>13. \A n \in {node} : n.kind = "REG" => Right(n.ino, n.ctime, n.data)
  BY <1>4, <1>7 DEF Reg
<1>14. PICK cs : cs = {node} /\ View' \subseteq View \cup cs
  BY <1>1, <1>12, Inserted DEF IInv
<1>15. /\ \A n \in cs : n.kind = "REG" => Right(n.ino, n.ctime, n.data)
       /\ pc \notin {"back", "commit"} /\ seen \subseteq seen' /\ UNCHANGED <<userVars, racy, head>>
  BY <1>13, <1>14, <1>2
<1>16. QED
  BY <1>1, <1>15, <1>2, <1>11, <1>14, GoesOn

(* A link, read after it was stat'ed.                                      *)
LEMMA PlainNodeRight ==
  ASSUME FaithInv, PlainNode
  PROVE  AllRight'
<1>1. IInv /\ AllRight /\ WalkRight
  BY DEF FaithInv, AllRight
<1>2. /\ pc = "dump" /\ pc' = "dump" /\ Top.todo # <<>> /\ Item.name \in Links
      /\ UNCHANGED <<userVars, changed, racy, head, seen>>
  BY DEF PlainNode
<1>3. PICK x, node : x = Item.name /\ node = Lnk(x, Item.ctime, live[x].data)
  OBVIOUS
<1>4. InsertAll({node}) /\ SetTop(ChildDone(Top, {}, node))
  BY <1>3 DEF PlainNode
<1>5. x \in Leaves /\ x \in Links
  BY <1>2, <1>3 DEF Leaves
<1>6. x \in Kept => node = AsIs(x)
  <2>1. x \notin changed => Item.ctime = live[x].ctime
    BY <1>1, <1>2, <1>3, <1>5, ItemAsFound
  <2>2. QED
    BY <1>3, <1>5, <2>1 DEF AsIs, Kept
<1>7. \A f \in Kept : \A j \in DOMAIN Path[f] :
        Path[f][j] = Head(Top.todo).name => Shows(node, f, j)
  BY <1>1, <1>2, <1>3, <1>5, <1>6, ItemShown
<1>8. WalkRight'
  <2>1. PICK rows : rows = {} /\ SetTop(ChildDone(Top, rows, node))
    BY <1>4
  <2>2. QED
    BY <1>1, <1>2, <1>7, <2>1, ChildWalk
<1>9. \A n \in {node} : n.kind = "REG" => Right(n.ino, n.ctime, n.data)
  BY <1>3 DEF Lnk
<1>10. PICK cs : cs = {node} /\ View' \subseteq View \cup cs
  BY <1>1, <1>4, Inserted DEF IInv
<1>11. /\ \A n \in cs : n.kind = "REG" => Right(n.ino, n.ctime, n.data)
       /\ pc \notin {"back", "commit"} /\ seen \subseteq seen' /\ UNCHANGED <<userVars, racy, head>>
  BY <1>9, <1>10, <1>2
<1>12. QED
  BY <1>1, <1>11, <1>2, <1>8, <1>10, GoesOn


(* No directory is disturbed.                                              *)
LEMMA WalkSame ==
  ASSUME WalkRight, pc \in {"dump", "read"},
         UNCHANGED <<userVars, changed, racy, seen, stack>>
  PROVE  WalkRight'
<1>1. PICK s : s = stack /\ s = stack'
  OBVIOUS
<1>2. /\ s[1].name = Root
      /\ \A k \in DOMAIN s : FrameRight(s[k]) /\ (k < Len(s) => Head(s[k].todo).name = s[k + 1].name)
  BY <1>1 DEF WalkRight
<1>3. ASSUME NEW k \in DOMAIN s PROVE FrameRight(s[k])'
  <2>1. PICK fr : fr = s[k] /\ fr = stack'[k] /\ FrameRight(fr)
    BY <1>1, <1>2
  <2>2. seen \subseteq seen' /\ UNCHANGED <<userVars, changed, racy>>
    OBVIOUS
  <2>3. FrameRight(fr)'
    BY <2>1, <2>2, FrameStays
  <2>4. QED
    BY <1>1, <2>1, <2>3
<1>4. QED
  BY <1>1, <1>2, <1>3 DEF WalkRight

(* A file is opened: nothing is read yet.                                  *)
LEMMA OpenFileRight ==
  ASSUME FaithInv, OpenFile
  PROVE  AllRight'
<1>1. IInv /\ AllRight /\ WalkRight
  BY DEF FaithInv, AllRight
<1>2. /\ pc = "dump" /\ pc' = "read" /\ Top.todo # <<>> /\ Item.name \in Files /\ blocks' = <<>>
      /\ UNCHANGED <<userVars, poolVars, changed, racy, head, seen, stack>>
  BY DEF OpenFile
<1>3. WalkRight'
  BY <1>1, <1>2, WalkSame
<1>4. ReadRight'
  <2>1. PICK x : x = Item.name /\ x = Item'.name
    BY <1>2 DEF Item, Top
  <2>2. live[x].data \in Seq(Range(live[x].data)) /\ live' = live
    <3>1. x \in Leaves
      BY <1>2, <2>1 DEF Leaves
    <3>2. QED
      BY <1>1, <1>2, <3>1, BackupAssumption DEF BackupAssumption, IInv, TypeOK, userVars
  <2>3. Len(blocks') <= Len(live'[x].data) /\ DOMAIN blocks' = {}
    BY <1>2, <2>2
  <2>4. QED
    BY <2>1, <2>3 DEF ReadRight
<1>5. PICK cs : cs = {} /\ View' \subseteq View \cup cs
  BY <1>2 DEF View, poolVars
<1>6. \A n \in cs : n.kind = "REG" => Right(n.ino, n.ctime, n.data)
  BY <1>5
<1>7. pc \notin {"back", "commit"} /\ seen \subseteq seen' /\ UNCHANGED <<userVars, racy, head>>
  BY <1>2
<1>8. QED
  BY <1>1, <1>3, <1>4, <1>5, <1>6, <1>7, GoesOn

(* One more block of it is read.                                           *)
LEMMA ReadBlockRight ==
  ASSUME FaithInv, ReadBlock
  PROVE  AllRight'
<1>1. IInv /\ AllRight /\ WalkRight /\ ReadRight
  BY DEF FaithInv, AllRight
<1>2. PICK x : x = Item.name
  OBVIOUS
<1>3. PICK data, b : data = live[x].data /\ b = Blob(data[Len(blocks) + 1])
  OBVIOUS
<1>4. /\ pc = "read" /\ Len(blocks) + 1 <= Len(data)
      /\ blocks' = Append(blocks, b) /\ InsertAll({b})
      /\ UNCHANGED <<userVars, pc, changed, racy, head, seen, stack>>
  BY <1>2, <1>3 DEF ReadBlock
<1>5. x = Item'.name /\ Item = Item'
  BY <1>2, <1>4 DEF Item, Top
<1>6. WalkRight'
  BY <1>1, <1>4, WalkSame
<1>7. ReadRight'
  <2>1. blocks \in Seq(View) /\ x \in Files
    BY <1>1, <1>2, <1>4 DEF IInv, GoodWalk
  <2>2. data \in Seq(Range(data))
    <3>1. x \in Leaves
      BY <2>1 DEF Leaves
    <3>2. QED
      BY <1>1, <1>3, <3>1, BackupAssumption DEF BackupAssumption, IInv, TypeOK
  <2>3. PICK s, t : s = blocks /\ t = blocks'
    OBVIOUS
  <2>4. PICK n \in Nat : n = Len(s) /\ DOMAIN s = 1..n
    BY <2>1, <2>3
  <2>5. Len(t) = n + 1 /\ DOMAIN t = 1..(n + 1) /\ t[n + 1] = b /\ \A k \in 1..n : t[k] = s[k]
    <3>1. s \in Seq(View \cup {b}) /\ t = Append(s, b)
      BY <1>4, <2>1, <2>3
    <3>2. QED
      BY <2>4, <3>1, AppendProperties
  <2>6. SUFFICES ASSUME live[x].here, live[x].ctime = Item.ctime, x \notin racy
                 PROVE  Len(t) <= Len(data) /\ \A k \in DOMAIN t : t[k] = Blob(data[k])
    <3>1. live' = live /\ racy' = racy
      BY <1>4 DEF userVars
    <3>2. QED
      BY <1>3, <1>5, <2>3, <3>1 DEF ReadRight
  <2>7. \A k \in 1..n : s[k] = Blob(data[k])
    BY <1>1, <1>2, <1>3, <1>4, <2>3, <2>4, <2>6 DEF ReadRight
  <2>8. Len(t) <= Len(data)
    BY <1>4, <2>3, <2>4, <2>5
  <2>9. t[n + 1] = Blob(data[n + 1])
    BY <1>3, <2>3, <2>4, <2>5
  <2>10. \A k \in 1..(n + 1) : k = n + 1 \/ k \in 1..n
    BY <2>4
  <2>11. QED
    BY <2>5, <2>7, <2>8, <2>9, <2>10
<1>8. PICK cs : cs = {b} /\ View' \subseteq View \cup cs
  BY <1>1, <1>4, Inserted DEF IInv
<1>9. \A n \in {b} : n.kind = "REG" => Right(n.ino, n.ctime, n.data)
  BY <1>3 DEF Blob
<1>10. /\ \A n \in cs : n.kind = "REG" => Right(n.ino, n.ctime, n.data)
       /\ pc \notin {"back", "commit"} /\ seen \subseteq seen' /\ UNCHANGED <<userVars, racy, head>>
  BY <1>4, <1>8, <1>9
<1>11. QED
  BY <1>1, <1>6, <1>7, <1>8, <1>10, GoesOn

(* All of it is read: what was read is what the file holds, if its ctime   *)
(* is still the one that was stat'ed and betrays every change.             *)
LEMMA FinishFileRight ==
  ASSUME FaithInv, FinishFile
  PROVE  AllRight'
<1>1. IInv /\ AllRight /\ WalkRight /\ ReadRight /\ NodesRight
  BY DEF FaithInv, AllRight
<1>2. PICK x, t, data : x = Item.name /\ t = Item.ctime /\ data = FileData(blocks)
  OBVIOUS
<1>3. PICK node : node = Reg(x, t, data)
  OBVIOUS
<1>4. /\ pc = "read" /\ pc' = "dump" /\ Len(blocks) >= Len(live[x].data)
      /\ InsertAll({data, node})
      /\ UNCHANGED <<userVars, changed, racy, head, seen>>
  BY <1>2, <1>3 DEF FinishFile
<1>5. PICK rows : SetTop(ChildDone(Top, rows, node))
  <2>1. \E age \in Ages : SetTop(ChildDone(Top, {NewRow(Ino[x], t, data, age)}, node))
    BY Zenon, <1>2, <1>3 DEF FinishFile
  <2>2. QED
    BY <2>1
<1>6. /\ Top.todo # <<>> /\ x \in Files /\ x \in Leaves /\ x \notin Links /\ blocks \in Seq(View)
  BY <1>1, <1>2, <1>4, BackupAssumption DEF IInv, GoodWalk, BackupAssumption, Leaves
<1>7. /\ SameDevice(x) /\ t \in 0..clock /\ (t = clock => x \in seen)
      /\ x \notin changed => live[x].here /\ t = live[x].ctime
  BY <1>1, <1>2, <1>4, <1>6, ItemAsFound
<1>8. ASSUME live[x].here, live[x].ctime = t, x \notin racy
      PROVE  data = Content(x)
  <2>1. PICK c : c = live[x].data /\ c \in Seq(Range(c))
    BY <1>1, <1>6, BackupAssumption DEF BackupAssumption, IInv, TypeOK
  <2>2. PICK s : s = blocks /\ s \in Seq(View)
    BY <1>6
  <2>3. Len(s) <= Len(c) /\ \A k \in DOMAIN s : s[k] = Blob(c[k])
    BY <1>1, <1>2, <1>4, <1>8, <2>1, <2>2 DEF ReadRight
  <2>4. DOMAIN s = DOMAIN c
    BY <1>4, <2>1, <2>2, <2>3
  <2>5. s = [k \in DOMAIN c |-> Blob(c[k])]
    BY <2>2, <2>3, <2>4
  <2>6. QED
    BY <1>2, <2>1, <2>2, <2>5 DEF Content
<1>9. Right(Ino[x], t, data)
  <2>1. \A f \in Files : SameDevice(f) /\ Ino[f] = Ino[x] => f = x
    BY <1>6, <1>7, TreeAssumption DEF TreeAssumption
  <2>2. QED
    BY <1>7, <1>8, <2>1 DEF Right
<1>10. x \in Kept => node = AsIs(x)
  <2>1. ASSUME x \in Kept PROVE data = Content(x) /\ t = live[x].ctime
    BY <1>7, <1>8, <2>1 DEF Kept
  <2>2. QED
    BY <1>3, <1>6, <2>1 DEF AsIs
<1>11. \A f \in Kept : \A j \in DOMAIN Path[f] :
         Path[f][j] = Head(Top.todo).name => Shows(node, f, j)
  BY <1>1, <1>2, <1>4, <1>6, <1>10, ItemShown
<1>12. WalkRight'
  BY <1>1, <1>4, <1>5, <1>6, <1>11, ChildWalk
<1>13. ASSUME NEW n \in {data, node}, n.kind = "REG" PROVE Right(n.ino, n.ctime, n.data)
  <2>1. CASE n = node
    BY <1>3, <1>9, <2>1 DEF Reg
  <2>2. CASE n = data
    <3>1. data \in View
      <4>1. PICK s : s = blocks /\ s \in Seq(View)
        BY <1>6
      <4>2. Null.kind # "REG" /\ Ind(s).kind # "REG"
        BY DEF Null, Ind
      <4>3. s # <<>> /\ Len(s) = 1 /\ data = s[1]
        BY <1>2, <1>13, <2>2, <4>1, <4>2 DEF FileData
      <4>4. QED
        BY <4>1, <4>3
    <3>2. QED
      BY <1>1, <1>13, <2>2, <3>1 DEF NodesRight
  <2>3. QED
    BY <2>1, <2>2
<1>14. PICK cs : cs = {data, node} /\ View' \subseteq View \cup cs
  BY <1>1, <1>4, Inserted DEF IInv
<1>15. /\ \A n \in cs : n.kind = "REG" => Right(n.ino, n.ctime, n.data)
       /\ pc \notin {"back", "commit"} /\ seen \subseteq seen' /\ UNCHANGED <<userVars, racy, head>>
  BY <1>4, <1>13, <1>14
<1>16. QED
  BY <1>1, <1>4, <1>12, <1>14, <1>15, GoesOn


(* A directory is entered: it is of the same device as the one it is in,   *)
(* or nothing is found in it.                                              *)
LEMMA EnterDirRight ==
  ASSUME FaithInv, EnterDir
  PROVE  AllRight'
<1>1. IInv /\ AllRight /\ WalkRight /\ NodesRight
  BY DEF FaithInv, AllRight
<1>2. PICK d, g : d = Item.name /\ g = Frame(d, base)
  OBVIOUS
<1>3. /\ pc = "dump" /\ pc' = "dump" /\ Top.todo # <<>> /\ d \in Dirs
      /\ stack' = Append(stack, g) /\ seen' = seen \cup Fresh(d)
      /\ UNCHANGED <<userVars, poolVars, changed, racy, head>>
  BY <1>2 DEF EnterDir
<1>4. /\ stack \in Seq(Range(stack)) /\ Len(stack) \in Nat \ {0} /\ DOMAIN stack = 1..Len(stack)
      /\ Top = stack[Len(stack)] /\ \A k \in DOMAIN stack : FrameRight(stack[k])
  BY <1>1, <1>3, TopRight DEF IInv, TypeOK
<1>5. d \in Foreign \/ SameDeviceDir(d)
  <2>1. /\ Top.name \in Dirs /\ d \in Range(Children[Top.name]) /\ SameDeviceDir(Top.name)
    BY <1>1, <1>2, <1>3, TopRight
  <2>2. QED
    BY <2>1, SubdirDevice
<1>6. FrameRight(g)' /\ g.name = d
  <2>1. UNCHANGED <<userVars, racy>> /\ seen' = seen \cup Fresh(d)
    BY <1>3
  <2>2. QED
    BY <1>1, <1>2, <1>3, <1>5, <2>1, NewRight
<1>7. PICK s, n : s = stack /\ n = Len(s) /\ n \in Nat \ {0} /\ DOMAIN s = 1..n
  BY <1>4
<1>8. PICK t : t = stack' /\ DOMAIN t = 1..(n + 1) /\ Len(t) = n + 1 /\ t[n + 1] = g
               /\ \A k \in 1..n : t[k] = s[k]
  <2>1. PICK t : t = Append(s, g) /\ t = stack'
    BY <1>3, <1>7
  <2>2. PICK S : s \in Seq(S) /\ g \in S
    <3>1. s \in Seq(Range(s) \cup {g})
      BY <1>4, <1>7
    <3>2. QED
      BY <3>1
  <2>3. /\ Append(s, g) \in Seq(S) /\ Len(Append(s, g)) = Len(s) + 1
        /\ Append(s, g)[Len(s) + 1] = g
        /\ \A k \in 1..Len(s) : Append(s, g)[k] = s[k]
    BY <2>2, AppendProperties
  <2>4. t \in Seq(S) /\ Len(t) = n + 1 /\ t[n + 1] = g /\ \A k \in 1..n : t[k] = s[k]
    BY <1>7, <2>1, <2>3
  <2>5. DOMAIN t = 1..(n + 1)
    BY <1>7, <2>4
  <2>6. QED
    BY <2>1, <2>4, <2>5
<1>9. ASSUME NEW k \in 1..n PROVE FrameRight(t[k])'
  <2>1. PICK fr : fr = s[k] /\ fr = stack'[k] /\ FrameRight(fr)
    BY <1>4, <1>7, <1>8, <1>9
  <2>2. seen \subseteq seen' /\ UNCHANGED <<userVars, changed, racy>>
    BY <1>3
  <2>3. FrameRight(fr)'
    BY <2>1, <2>2, FrameStays
  <2>4. QED
    BY <1>8, <2>1, <2>3
<1>10. \A k \in 1..n : k < n + 1 => Head(t[k].todo).name = t[k + 1].name
  <2>1. Head(t[n].todo).name = g.name
    <3>1. t[n] = Top
      BY <1>4, <1>7, <1>8
    <3>2. Head(Top.todo).name = d
      BY <1>2 DEF Item
    <3>3. QED
      BY <1>6, <3>1, <3>2
  <2>2. ASSUME NEW k \in 1..n, k # n PROVE Head(t[k].todo).name = t[k + 1].name
    <3>1. k + 1 \in 1..n /\ k < n
      BY <1>7, <2>2
    <3>2. Head(s[k].todo).name = s[k + 1].name
      BY <1>1, <1>3, <1>7, <3>1 DEF WalkRight
    <3>3. QED
      BY <1>8, <3>1, <3>2
  <2>3. QED
    BY <1>8, <2>1, <2>2
<1>11. WalkRight'
  <2>1. t[1].name = Root
    BY <1>1, <1>3, <1>7, <1>8 DEF WalkRight
  <2>2. \A k \in 1..(n + 1) : k = n + 1 \/ k \in 1..n
    BY <1>7
  <2>3. FrameRight(t[n + 1])'
    BY <1>6, <1>8
  <2>4. \A k \in 1..(n + 1) : FrameRight(t[k])'
    BY <1>9, <2>2, <2>3
  <2>5. \A k \in 1..(n + 1) : k < n + 1 => Head(t[k].todo).name = t[k + 1].name
    BY <1>10, <2>2
  <2>6. QED
    BY <1>8, <2>1, <2>4, <2>5 DEF WalkRight
<1>12. PICK cs : cs = {} /\ View' \subseteq View \cup cs
  BY <1>3 DEF View, poolVars
<1>13. /\ \A m \in cs : m.kind = "REG" => Right(m.ino, m.ctime, m.data)
       /\ pc \notin {"back", "commit"} /\ seen \subseteq seen' /\ UNCHANGED <<userVars, racy, head>>
  BY <1>3, <1>12
<1>14. QED
  BY <1>1, <1>3, <1>11, <1>12, <1>13, GoesOn

(* A dump begins at the root.                                              *)
LEMMA BackupRight ==
  ASSUME FaithInv, Backup
  PROVE  AllRight'
<1>1. IInv /\ AllRight /\ NodesRight
  BY DEF FaithInv, AllRight
<1>2. PICK g : g = Frame(Root, clock)
  OBVIOUS
<1>3. /\ pc = "idle" /\ pc' = "dump" /\ stack' = <<g>> /\ seen' = seen \cup Fresh(Root)
      /\ UNCHANGED <<userVars, poolVars, racy, head>>
  BY <1>2 DEF Backup
<1>4. FrameRight(g)' /\ g.name = Root
  <2>1. UNCHANGED <<userVars, racy>> /\ seen' = seen \cup Fresh(Root)
    BY <1>3
  <2>2. Root \in Dirs
    BY BackupAssumption DEF BackupAssumption
  <2>3. QED
    BY <1>1, <1>2, <2>1, <2>2, RootDevice, NewRight
<1>5. WalkRight'
  <2>1. PICK t : t = stack' /\ t = <<g>>
    BY <1>3
  <2>2. DOMAIN t = {1} /\ Len(t) = 1 /\ t[1] = g
    BY <2>1
  <2>3. FrameRight(t[1])'
    BY <1>4, <2>2
  <2>4. QED
    BY <1>4, <2>1, <2>2, <2>3 DEF WalkRight
<1>6. PICK cs : cs = {} /\ View' \subseteq View \cup cs
  BY <1>3 DEF View, poolVars
<1>7. /\ \A m \in cs : m.kind = "REG" => Right(m.ino, m.ctime, m.data)
      /\ pc \notin {"back", "commit"} /\ seen \subseteq seen' /\ UNCHANGED <<userVars, racy, head>>
  BY <1>3, <1>6
<1>8. QED
  BY <1>1, <1>3, <1>5, <1>6, <1>7, GoesOn

(* The root directory is over, and its node shows every file; or another   *)
(* directory is, and its node shows what is below it.                      *)
LEMMA LeaveDirRight ==
  ASSUME FaithInv, LeaveDir
  PROVE  AllRight'
<1>1. IInv /\ AllRight /\ WalkRight /\ NodesRight
  BY DEF FaithInv, AllRight
<1>2. PICK list, node : list = DirData(Top.done) /\ node = DirNode(Top.ino, list)
  OBVIOUS
<1>3. PICK s, n, rest : s = stack /\ n = Len(s) /\ rest = Front(s)
  OBVIOUS
<1>4. /\ pc = "dump" /\ Top.todo = <<>> /\ InsertAll({list, node})
      /\ IF rest = <<>>
           THEN pc' = "back" /\ head' = node /\ stack' = <<>>
           ELSE /\ stack' = [rest EXCEPT ![Len(rest)] = ChildDone(@, {}, node)]
                /\ UNCHANGED <<pc, head>>
      /\ UNCHANGED <<userVars, changed, seen, racy>>
  BY <1>2, <1>3 DEF LeaveDir
<1>5. PICK fr : fr = Top
  OBVIOUS
<1>6. /\ s \in Seq(Range(s)) /\ n \in Nat \ {0} /\ DOMAIN s = 1..n
      /\ fr = s[n] /\ FrameRight(fr) /\ fr.name \in Dirs /\ fr.todo = <<>> /\ s # <<>>
      /\ \A k \in 1..n : FrameRight(s[k]) /\ DumpFrame(s[k], View)
      /\ s[1].name = Root
      /\ \A k \in 1..n : k < n => Head(s[k].todo).name = s[k + 1].name
  <2>1. WalkRight /\ pc \in {"dump", "read"} /\ IInv
    BY <1>1, <1>4
  <2>2. /\ n \in Nat \ {0} /\ DOMAIN s = 1..n /\ fr = s[n] /\ FrameRight(fr) /\ fr.name \in Dirs
        /\ \A k \in 1..n : FrameRight(s[k]) /\ DumpFrame(s[k], View)
    BY <1>3, <1>5, <2>1, TopRight
  <2>3. /\ s[1].name = Root
        /\ \A k \in 1..n : k < n => Head(s[k].todo).name = s[k + 1].name
    BY <1>3, <2>1, <2>2 DEF WalkRight
  <2>4. s \in Seq(Range(s)) /\ s # <<>>
    BY <1>3, <1>4, <2>1 DEF IInv, TypeOK
  <2>5. QED
    BY <1>4, <1>5, <2>2, <2>3, <2>4
<1>7. ASSUME NEW f \in Kept, NEW j \in 0..Len(Path[f]),
             IF j = 0 THEN fr.name = Root ELSE Path[f][j] = fr.name
      PROVE  Shows(node, f, j)
  <2>1. f \in Leaves /\ DOMAIN Path[f] = 1..Len(Path[f])
    BY <1>7, PathFacts DEF Kept
  <2>2. j + 1 \in DOMAIN Path[f]
    BY <1>6, <1>7, <2>1, LeadsOn
  <2>3. \A k \in DOMAIN fr.done :
          Path[f][j + 1] = fr.done[k][1] => Shows(fr.done[k][2], f, j + 1)
    BY <1>6, <1>7, <2>2 DEF FrameRight
  <2>4. NamesComplete(fr)
    BY <1>6 DEF FrameRight
  <2>5. PICK i : i = Top.ino
    OBVIOUS
  <2>6. Shows(DirNode(i, DirData(fr.done)), f, j)
    BY <1>6, <1>7, <2>3, <2>4, ShownDir
  <2>7. QED
    BY <1>2, <1>5, <2>5, <2>6
<1>8. PICK cs : cs = {list, node} /\ View' \subseteq View \cup cs
  BY <1>1, <1>4, Inserted DEF IInv
<1>9. \A m \in cs : m.kind = "REG" => Right(m.ino, m.ctime, m.data)
  <2>1. node.kind = "DIR" /\ list.kind \in {"null", "dir"}
    BY <1>2 DEF DirNode, DirData, Null, Listing
  <2>2. QED
    BY <1>8, <2>1
<1>10. UNCHANGED <<userVars, racy, changed, seen>> /\ seen \subseteq seen'
  BY <1>4
<1>11. NodesRight'
  <2>1. UNCHANGED <<userVars, racy>>
    BY <1>10
  <2>2. QED
    BY <1>1, <1>8, <1>9, <1>10, <2>1, NodesStored
<1>12. CASE rest = <<>>
  <2>1. pc' = "back" /\ head' = node
    BY <1>4, <1>12
  <2>2. n = 1
    BY <1>3, <1>6, <1>12, Popped
  <2>3. fr.name = Root
    BY <1>6, <2>2
  <2>4. Kept' = Kept /\ live' = live
    BY <1>10 DEF Kept, userVars
  <2>5. ASSUME NEW f \in Kept PROVE Shows(node, f, 0)'
    <3>1. 0 \in 0..Len(Path[f])
      <4>1. f \in Leaves
        BY DEF Kept
      <4>2. QED
        BY <4>1, PathFacts
    <3>2. PICK j : j = 0
      OBVIOUS
    <3>3. Shows(node, f, j)
      BY <1>7, <2>3, <3>1, <3>2
    <3>4. live'[f] = live[f]
      BY <2>4
    <3>5. Shows(node, f, j)'
      BY <3>3, <3>4, ShowsSame
    <3>6. QED
      BY <3>2, <3>5
  <2>6. HeadRight'
    BY <2>1, <2>4, <2>5 DEF HeadRight
  <2>7. WalkRight' /\ ReadRight'
    BY <2>1 DEF WalkRight, ReadRight
  <2>8. QED
    BY <1>11, <2>6, <2>7 DEF AllRight
<1>13. CASE rest # <<>>
  <2>1. /\ rest \in Seq(Range(rest)) /\ Len(rest) = n - 1 /\ n # 1 /\ \A k \in 1..(n - 1) : rest[k] = s[k]
    BY <1>3, <1>6, <1>13, Popped
  <2>2. PICK m \in Nat \ {0} : m = n - 1 /\ n = m + 1 /\ Len(rest) = m
    BY <1>6, <2>1
  <2>3. PICK up : up = rest[m]
    OBVIOUS
  <2>4. up = s[m] /\ m \in 1..n /\ m < n /\ n \in 1..n
    <3>1. m \in 1..n /\ m < n /\ n \in 1..n /\ m \in 1..(n - 1)
      BY <2>2
    <3>2. QED
      BY <2>1, <2>3, <3>1
  <2>5. FrameRight(up) /\ DumpFrame(up, View) /\ Head(up.todo).name = fr.name
    BY <1>6, <2>2, <2>4
  <2>6. up.todo # <<>>
    <3>1. \A k \in 1..(Len(stack) - 1) : stack[k].todo # <<>>
      BY <1>1, <1>4 DEF IInv, GoodWalk
    <3>2. QED
      BY <1>3, <2>2, <2>4, <3>1
  <2>7. PICK rows : rows = {}
    OBVIOUS
  <2>8. PICK g : g = ChildDone(up, rows, node)
    OBVIOUS
  <2>9. ASSUME NEW f \in Kept, NEW j \in DOMAIN Path[f], Path[f][j] = Head(up.todo).name
        PROVE  Shows(node, f, j)
    <3>1. f \in Leaves
      BY DEF Kept
    <3>2. j \in 0..Len(Path[f]) /\ j # 0
      BY <3>1, PathFacts
    <3>3. QED
      BY <1>7, <2>5, <2>9, <3>2
  <2>10. FrameRight(g)
    BY <2>5, <2>6, <2>8, <2>9, ChildRight
  <2>11. g.name = up.name
    BY <2>5, <2>8 DEF ChildDone, DumpFrame
  <2>12. PICK t : t = stack' /\ DOMAIN t = 1..m /\ Len(t) = m /\ t[m] = g
                  /\ \A k \in 1..(m - 1) : t[k] = rest[k]
    <3> DEFINE u == [rest EXCEPT ![Len(rest)] = g]
    <3>1. stack' = u
      BY <1>4, <1>13, <2>2, <2>3, <2>7, <2>8
    <3>2. /\ u \in Seq(Range(u)) /\ u # <<>> /\ Last(u) = g /\ Len(u) = Len(rest)
          /\ \A k \in 1..(Len(rest) - 1) : u[k] = rest[k]
      <4>1. rest \in Seq(Range(rest)) /\ rest # <<>>
        BY <1>13, <2>1
      <4>2. QED
        BY <4>1, Replaced
    <3> HIDE DEF u
    <3>3. PICK t : t = u /\ t = stack'
      BY <3>1
    <3>4. DOMAIN t = 1..m /\ Len(t) = m /\ t[m] = g
      BY <2>2, <3>2, <3>3 DEF Last
    <3>5. QED
      BY <2>2, <3>2, <3>3, <3>4
  <2>13. \A k \in 1..m : k = m \/ (k \in 1..(m - 1) /\ k + 1 \in 1..m /\ k \in 1..n /\ k < n)
    BY <2>2
  <2>14. \A k \in 1..m : FrameRight(t[k]) /\ t[k].name = s[k].name
    BY <1>6, <2>1, <2>2, <2>4, <2>10, <2>11, <2>12, <2>13
  <2>15. \A k \in 1..m : k < m => Head(t[k].todo).name = t[k + 1].name
    <3>1. SUFFICES ASSUME NEW k \in 1..m, k # m PROVE Head(t[k].todo).name = t[k + 1].name
      OBVIOUS
    <3>2. k \in 1..(m - 1) /\ k + 1 \in 1..m /\ k \in 1..n /\ k < n
      BY <2>13, <3>1
    <3>3. t[k] = s[k]
      BY <2>1, <2>2, <2>12, <3>2
    <3>4. t[k + 1].name = s[k + 1].name
      BY <2>14, <3>2
    <3>5. QED
      BY <1>6, <3>2, <3>3, <3>4
  <2>16. \A k \in 1..m : FrameRight(t[k])'
    <3>1. SUFFICES ASSUME NEW k \in 1..m PROVE FrameRight(t[k])'
      OBVIOUS
    <3>2. PICK h : h = t[k] /\ h = stack'[k] /\ FrameRight(h)
      BY <2>12, <2>14
    <3>3. UNCHANGED <<userVars, changed, racy>>
      BY <1>10
    <3>4. FrameRight(h)'
      BY <1>10, <3>2, <3>3, FrameStays
    <3>5. QED
      BY <2>12, <3>2, <3>4
  <2>17. t[1].name = Root
    BY <1>6, <2>2, <2>14
  <2>18. WalkRight'
    BY <2>12, <2>15, <2>16, <2>17 DEF WalkRight
  <2>19. pc' = "dump" /\ pc \notin {"back", "commit"} /\ UNCHANGED <<userVars, racy, head>>
    BY <1>4, <1>13
  <2>20. QED
    BY <1>1, <1>8, <1>9, <1>10, <2>18, <2>19, GoesOn
<1>14. QED
  BY <1>12, <1>13


(* The backup is recorded: it shows what its root shows.                   *)
LEMMA WriteBackRight ==
  ASSUME FaithInv, WriteBack
  PROVE  AllRight'
<1>1. IInv /\ NodesRight /\ HeadRight
  BY DEF FaithInv, AllRight
<1>2. PICK b : b = Back(base, head)
  OBVIOUS
<1>3. /\ pc = "back" /\ pc' = "commit" /\ InsertAll({b})
      /\ UNCHANGED <<userVars, head, changed, seen, racy>>
  BY <1>2 DEF WriteBack
<1>4. PICK cs : cs = {b} /\ View' \subseteq View \cup cs
  BY <1>1, <1>3, Inserted DEF IInv
<1>5. \A n \in cs : n.kind = "REG" => Right(n.ino, n.ctime, n.data)
  BY <1>2, <1>4 DEF Back
<1>6. NodesRight'
  <2>1. UNCHANGED <<userVars, racy>> /\ seen \subseteq seen'
    BY <1>3
  <2>2. QED
    BY <1>1, <1>4, <1>5, <2>1, NodesStored
<1>7. HeadRight'
  <2>1. PICK n : n = head /\ n = head'
    BY <1>3
  <2>2. Kept' = Kept /\ live' = live
    BY <1>3 DEF Kept, userVars
  <2>3. ASSUME n # Null, NEW f \in Kept PROVE Shows(n, f, 0)'
    <3>1. Shows(n, f, 0)
      BY <1>1, <2>1, <2>3 DEF HeadRight
    <3>2. live'[f] = live[f]
      BY <2>2
    <3>3. QED
      BY <3>1, <3>2, ShowsSame
  <2>4. n # Null => \A f \in Kept' : Shows(n, f, 0)'
    BY <2>2, <2>3
  <2>5. Null' = Null
    BY DEF Null
  <2>6. QED
    BY <1>3, <2>1, <2>4, <2>5 DEF HeadRight
<1>8. WalkRight' /\ ReadRight'
  BY <1>3 DEF WalkRight, ReadRight
<1>9. QED
  BY <1>6, <1>7, <1>8 DEF AllRight

-----------------------------------------------------------------------------
(* The other steps. *)

(* The session ends, with its chunks or without.                           *)
LEMMA EndRight ==
  ASSUME FaithInv, Commit \/ Rollback
  PROVE  AllRight'
<1>1. NodesRight /\ DOMAIN pending = {Me}
  BY DEF FaithInv, AllRight, IInv
<1>2. View' \subseteq View
  BY <1>1 DEF Commit, Rollback, P!PoolFlush, P!PoolAbandon, View
<1>3. /\ UNCHANGED <<userVars, racy, seen>>
      /\ pc' \notin {"dump", "read"} /\ head' = Null
  BY DEF Commit, Rollback, EndSession
<1>4. QED
  BY <1>1, <1>2, <1>3, OffRight

(* Nothing is dumped: the cache expires, or is regenerated.                *)
LEMMA ElseRight ==
  ASSUME FaithInv,
         RunExpire \/ (\E b \in durable : RegenBack(b))
           \/ RegenEnter \/ RegenOpen \/ RegenSkip \/ RegenLeave
  PROVE  AllRight'
<1>1. NodesRight /\ HeadRight
  BY DEF FaithInv, AllRight
<1>2. /\ pc \in {"idle", "regen"} /\ pc' \in {"idle", "regen", "commit"}
      /\ UNCHANGED <<userVars, poolVars, racy, seen, head>>
  BY DEF RunExpire, RegenBack, RegenEnter, RegenOpen, RegenSkip, RegenLeave
<1>3. View' \subseteq View
  BY <1>2 DEF View, poolVars
<1>4. head' = Null
  BY <1>1, <1>2 DEF HeadRight
<1>5. pc' \notin {"dump", "read"} /\ UNCHANGED <<userVars, racy, seen>>
  BY <1>2
<1>6. QED
  BY <1>1, <1>3, <1>4, <1>5, OffRight

(* Nothing happens.                                                        *)
LEMMA StutterRight ==
  ASSUME FaithInv, UNCHANGED vars
  PROVE  AllRight'
<1>1. /\ IInv /\ NodesRight /\ WalkRight /\ ReadRight /\ HeadRight
  BY DEF FaithInv, AllRight
<1>2. UNCHANGED <<userVars, poolVars, pc, stack, blocks, head, changed, seen, racy>>
  BY DEF vars
<1>3. NodesRight'
  <2>1. PICK cs : cs = {} /\ View' \subseteq View \cup cs
    BY <1>2 DEF View, poolVars
  <2>2. \A n \in cs : n.kind = "REG" => Right(n.ino, n.ctime, n.data)
    BY <2>1
  <2>3. UNCHANGED <<userVars, racy>> /\ seen \subseteq seen'
    BY <1>2
  <2>4. QED
    BY <1>1, <2>1, <2>2, <2>3, NodesStored
<1>4. WalkRight'
  <2>1. CASE pc \in {"dump", "read"}
    BY <1>1, <1>2, <2>1, WalkSame
  <2>2. CASE pc \notin {"dump", "read"}
    BY <1>2, <2>2 DEF WalkRight
  <2>3. QED
    BY <2>1, <2>2
<1>5. ReadRight'
  <2>1. live' = live /\ Item' = Item
    BY <1>2 DEF userVars, Item, Top
  <2>2. QED
    BY <1>1, <1>2, <2>1 DEF ReadRight
<1>6. HeadRight'
  <2>1. Kept' = Kept /\ live' = live
    BY <1>2 DEF Kept, userVars
  <2>2. \A f \in Kept : Shows(head, f, 0)' <=> Shows(head, f, 0)
    BY <1>2, <2>1 DEF Shows, AsIs, Content
  <2>3. QED
    BY <1>1, <1>2, <2>1, <2>2 DEF HeadRight, Null
<1>7. QED
  BY <1>3, <1>4, <1>5, <1>6 DEF AllRight

LEMMA InitRight == Init => AllRight
<1> SUFFICES ASSUME Init PROVE AllRight
  OBVIOUS
<1>1. View = {}
  BY DEF Init, P!PoolInit, View
<1>2. pc = "idle" /\ head = Null
  BY DEF Init
<1>3. QED
  BY <1>1, <1>2 DEF AllRight, NodesRight, WalkRight, ReadRight, HeadRight

-----------------------------------------------------------------------------
(* The theorems. *)

(* For any tree of names, and whatever users, dumps, regenerations and     *)
(* expiry do, in any order: every row and node is right about its file, or *)
(* its ctime tells that it is not, and every directory being dumped holds  *)
(* what was found in it, each name once, to do or done.                    *)
THEOREM FaithInvariant == Spec => []FaithInv
<1>1. Init => AllRight
  BY InitRight
<1>2. IInv /\ AllRight /\ [Next]_vars => AllRight'
  <2> SUFFICES ASSUME FaithInv, [Next]_vars PROVE AllRight'
    BY DEF FaithInv
  <2>1. CASE User
    BY <2>1, UserRight
  <2>2. CASE Backup \/ EnterDir \/ ReuseFile \/ OpenFile \/ ReadBlock
    BY <2>2, BackupRight, EnterDirRight, ReuseFileRight, OpenFileRight, ReadBlockRight
  <2>3. CASE FinishFile \/ PlainNode \/ LeaveDir \/ WriteBack
    BY <2>3, FinishFileRight, PlainNodeRight, LeaveDirRight, WriteBackRight
  <2>4. CASE Vanished \/ Abort \/ Commit
    BY <2>4, EndRight DEF Vanished, Abort
  <2>5. CASE RunExpire \/ Regen
    BY <2>5, ElseRight DEF Regen
  <2>6. CASE UNCHANGED vars
    BY <2>6, StutterRight
  <2>7. QED
    BY <2>1, <2>2, <2>3, <2>4, <2>5, <2>6 DEF Next, Dump
<1>3. IInv /\ AllRight => FaithInv
  BY DEF FaithInv
<1>4. QED
  BY <1>1, <1>2, <1>3, BackupInvariant, PTL DEF Spec

(* A dump that is about to commit shows every file and link that nobody    *)
(* changed since it started exactly as it is on disk, a racy file apart,   *)
(* and none of another device.                                             *)
THEOREM ShownAsIs == Spec => []Faithful
<1>1. FaithInv => Faithful
  <2> SUFFICES ASSUME FaithInv, pc = "commit", head # Null, NEW f \in Leaves \ (changed \cup racy)
               PROVE  NodesAt(f) = IF live[f].here /\ SameDevice(f) THEN {AsIs(f)} ELSE {}
    BY DEF Faithful
  <2>1. Shows(head, f, 0)
    BY DEF FaithInv, AllRight, HeadRight, Kept
  <2>2. \A k \in DOMAIN Path[f] : k >= 0
    BY PathFacts
  <2>3. QED
    BY <2>1, <2>2 DEF Shows, NodesAt, SameDevice
<1>2. QED
  BY <1>1, FaithInvariant, PTL

-----------------------------------------------------------------------------
(* Why a regeneration rebuilds the rows that the last dump left, for any   *)
(* tree of names and any inode numbers: both leave the directories of one  *)
(* backup in one order, and the last of an inode writes its rows.          *)

\* What the rows of a directory say.

Fact(n) == <<n.ino, n.ctime, n.data>>

Facts(es) == {<<e.ino, e.ctime, e.oid>> : e \in es}

\* Of the nodes of one inode, the last one has the row.
LastOnes(ns) ==
  {k \in DOMAIN ns :
     /\ ns[k].kind = "REG"
     /\ \A j \in DOMAIN ns : ns[j].kind = "REG" /\ ns[j].ino = ns[k].ino => j <= k}

LastRows(ns) == {Fact(ns[k]) : k \in LastOnes(ns)}

(* Positions.  A walk is given by the nodes it has left behind in each of the *)
(* directories it is in; first comes the place of the root.  The position of  *)
(* a node is the sequence of its indexes in the directories above it.         *)

\* The nodes in a directory.
Kids(m) == [k \in DOMAIN Entries(m.children) |-> Entries(m.children)[k][2]]

\* Nodes at[k], at[k + 1], .. are those on the way that s describes.
Leads(at, k, s) ==
  \A j \in (k + 1)..Len(s) :
    /\ at[j - 1].kind = "DIR"
    /\ s[j] \in DOMAIN Kids(at[j - 1]) /\ at[j] = Kids(at[j - 1])[s[j]]

\* Node m has position s below node n, which is the k-th on the way.
Under(n, k, s, m) == \E at : at[k] = n /\ Leads(at, k, s) /\ at[Len(s)] = m

\* Directory m has position s and has been left.
Left(W, s, m) ==
  /\ s \in Seq(Nat) /\ m.kind = "DIR"
  /\ \E k \in DOMAIN W :
       /\ k <= Len(s) /\ s[k] \in DOMAIN W[k]
       /\ \A j \in DOMAIN W : j < k => s[j] = Len(W[j]) + 1
       /\ Under(W[k][s[k]], k, s, m)

\* A directory is left after those in it, and after those before it.
Before(b, a) ==
  \/ Len(a) < Len(b) /\ \A j \in 1..Len(a) : a[j] = b[j]
  \/ \E j \in 1..Len(a) :
       j <= Len(b) /\ b[j] < a[j] /\ \A i \in 1..(j - 1) : a[i] = b[i]

\* Of those of inode i, it is the last.
LastOf(W, i, s, m) ==
  /\ Left(W, s, m) /\ m.ino = i
  /\ \A t, n : Left(W, t, n) /\ n.ino = i => t = s \/ Before(t, s)

\* What a table says of the directories that have been left.
Sums(W, said) ==
  \A i \in DirInos :
    (\E s, m : Left(W, s, m) /\ m.ino = i)
      => \E s, m : LastOf(W, i, s, m) /\ said[i] = LastRows(Kids(m))

\* A walk that is over.
Over(h) == << <<h>> >>

-----------------------------------------------------------------------------
(* Ways.                                                                   *)

LEMMA UnderItself ==
  ASSUME NEW n, NEW s \in Seq(Nat), NEW m
  PROVE  Under(n, Len(s), s, m) <=> m = n
<1>1. PICK l \in Nat : l = Len(s)
  OBVIOUS
<1>2. PICK at : at = [j \in {l} |-> n]
  OBVIOUS
<1>3. at[l] = n /\ Leads(at, l, s)
  BY <1>1, <1>2 DEF Leads
<1>4. QED
  BY <1>1, <1>3 DEF Under

LEMMA UnderKid ==
  ASSUME NEW n, NEW k \in Nat, NEW s \in Seq(Nat), k < Len(s), NEW m
  PROVE  Under(n, k, s, m) <=>
           /\ n.kind = "DIR" /\ s[k + 1] \in DOMAIN Kids(n)
           /\ Under(Kids(n)[s[k + 1]], k + 1, s, m)
<1>1. PICK l \in Nat : l = Len(s) /\ k + 1 \in (k + 1)..l /\ (k + 1) - 1 = k
  OBVIOUS
<1>2. ASSUME Under(n, k, s, m)
      PROVE  /\ n.kind = "DIR" /\ s[k + 1] \in DOMAIN Kids(n)
             /\ Under(Kids(n)[s[k + 1]], k + 1, s, m)
  <2>1. PICK at : at[k] = n /\ Leads(at, k, s) /\ at[l] = m
    BY <1>1, <1>2 DEF Under
  <2>2. /\ n.kind = "DIR" /\ s[k + 1] \in DOMAIN Kids(n)
        /\ at[k + 1] = Kids(n)[s[k + 1]]
    BY <1>1, <2>1 DEF Leads
  <2>3. (k + 2)..l \subseteq (k + 1)..l /\ (k + 1) + 1 = k + 2
    BY <1>1
  <2>4. Leads(at, k + 1, s)
    BY <1>1, <2>1, <2>3 DEF Leads
  <2>5. QED
    BY <1>1, <2>1, <2>2, <2>4 DEF Under
<1>3. ASSUME n.kind = "DIR", s[k + 1] \in DOMAIN Kids(n),
             Under(Kids(n)[s[k + 1]], k + 1, s, m)
      PROVE  Under(n, k, s, m)
  <2>1. PICK at : at[k + 1] = Kids(n)[s[k + 1]] /\ Leads(at, k + 1, s) /\ at[l] = m
    BY <1>1, <1>3 DEF Under
  <2>2. PICK bt : bt = [j \in k..l |-> IF j = k THEN n ELSE at[j]]
    OBVIOUS
  <2>3. bt[k] = n /\ bt[l] = m /\ \A j \in (k + 1)..l : bt[j] = at[j]
    BY <1>1, <2>1, <2>2
  <2>4. ASSUME NEW j \in (k + 1)..l
        PROVE  /\ bt[j - 1].kind = "DIR"
               /\ s[j] \in DOMAIN Kids(bt[j - 1]) /\ bt[j] = Kids(bt[j - 1])[s[j]]
    <3>1. CASE j = k + 1
      BY <1>1, <1>3, <2>1, <2>3, <3>1
    <3>2. CASE j # k + 1
      <4>1. j \in ((k + 1) + 1)..l /\ j - 1 \in (k + 1)..l
        BY <3>2
      <4>2. bt[j - 1] = at[j - 1] /\ bt[j] = at[j]
        BY <2>3, <4>1
      <4>3. QED
        BY <1>1, <2>1, <4>1, <4>2 DEF Leads
    <3>3. QED
      BY <3>1, <3>2
  <2>5. Leads(bt, k, s)
    BY <1>1, <2>4 DEF Leads
  <2>6. QED
    BY <1>1, <2>3, <2>5 DEF Under
<1>4. QED
  BY <1>2, <1>3

\* One position, one node.
LEMMA UnderOne ==
  ASSUME NEW h, NEW s \in Seq(Nat), 1 <= Len(s), NEW m, NEW n,
         Under(h, 1, s, m), Under(h, 1, s, n)
  PROVE  m = n
<1>1. PICK l \in Nat : l = Len(s) /\ 1 <= l
  OBVIOUS
<1>2. PICK at : at[1] = h /\ Leads(at, 1, s) /\ at[l] = m
  BY <1>1 DEF Under
<1>3. PICK bt : bt[1] = h /\ Leads(bt, 1, s) /\ bt[l] = n
  BY <1>1 DEF Under
<1>4. PICK T : T = {j \in Nat : j + 1 <= l => at[j + 1] = bt[j + 1]}
  OBVIOUS
<1>5. 0 \in T
  BY <1>2, <1>3, <1>4
<1>6. ASSUME NEW j \in Nat, j \in T PROVE j + 1 \in T
  <2>1. CASE (j + 1) + 1 <= l
    <3>1. (j + 1) + 1 \in (1 + 1)..l /\ ((j + 1) + 1) - 1 = j + 1 /\ j + 1 <= l
      BY <2>1
    <3>2. at[j + 1] = bt[j + 1]
      BY <1>4, <1>6, <3>1
    <3>3. at[(j + 1) + 1] = bt[(j + 1) + 1]
      BY <1>1, <1>2, <1>3, <3>1, <3>2 DEF Leads
    <3>4. QED
      BY <1>4, <3>3
  <2>2. CASE ~((j + 1) + 1 <= l)
    BY <1>4, <2>2
  <2>3. QED
    BY <2>1, <2>2
<1>7. Nat \subseteq T
  BY <1>5, <1>6, Induction
<1>8. l - 1 \in T /\ (l - 1) + 1 = l
  BY <1>1, <1>7
<1>9. QED
  BY <1>2, <1>3, <1>4, <1>8

\* On into a directory.
LEMMA UnderNext ==
  ASSUME NEW n, NEW k \in Nat, NEW s \in Seq(Nat), k <= Len(s), NEW m, m.kind = "DIR",
         Under(n, k, s, m), NEW j \in Nat, j \in DOMAIN Kids(m)
  PROVE  Under(n, k, Append(s, j), Kids(m)[j])
<1>1. PICK l \in Nat : l = Len(s) /\ k <= l
  OBVIOUS
<1>2. PICK t : t = Append(s, j) /\ t \in Seq(Nat)
  <2>1. Append(s, j) \in Seq(Nat)
    OBVIOUS
  <2>2. QED
    BY <2>1
<1>3. Len(t) = l + 1 /\ t[l + 1] = j /\ \A i \in 1..l : t[i] = s[i]
  BY <1>1, <1>2
<1>4. PICK at : at[k] = n /\ Leads(at, k, s) /\ at[l] = m
  BY <1>1 DEF Under
<1>5. PICK bt : bt = [i \in k..(l + 1) |-> IF i = l + 1 THEN Kids(m)[j] ELSE at[i]]
  OBVIOUS
<1>6. bt[l + 1] = Kids(m)[j] /\ \A i \in k..l : bt[i] = at[i]
  BY <1>1, <1>5
<1>7. ASSUME NEW i \in (k + 1)..(l + 1)
      PROVE  /\ bt[i - 1].kind = "DIR"
             /\ t[i] \in DOMAIN Kids(bt[i - 1]) /\ bt[i] = Kids(bt[i - 1])[t[i]]
  <2>1. CASE i = l + 1
    <3>1. bt[i - 1] = m
      BY <1>1, <1>4, <1>6, <2>1
    <3>2. QED
      BY <1>3, <1>6, <2>1, <3>1
  <2>2. CASE i # l + 1
    <3>1. i \in (k + 1)..l /\ i - 1 \in k..l /\ i \in k..l /\ i \in 1..l
      BY <1>1, <2>2
    <3>2. bt[i - 1] = at[i - 1] /\ bt[i] = at[i] /\ t[i] = s[i]
      BY <1>3, <1>6, <3>1
    <3>3. QED
      BY <1>1, <1>4, <3>1, <3>2 DEF Leads
  <2>3. QED
    BY <2>1, <2>2
<1>8. bt[k] = n /\ Leads(bt, k, t) /\ bt[Len(t)] = Kids(m)[j]
  BY <1>1, <1>3, <1>4, <1>6, <1>7 DEF Leads
<1>9. QED
  BY <1>2, <1>8 DEF Under

\* Of two positions, one is left first.
LEMMA NotBoth ==
  ASSUME NEW a \in Seq(Nat), NEW b \in Seq(Nat), Before(a, b), Before(b, a)
  PROVE  FALSE
<1>1. /\ Len(a) \in Nat /\ Len(b) \in Nat
      /\ \A j \in 1..Len(a) : a[j] \in Nat
      /\ \A j \in 1..Len(b) : b[j] \in Nat
  OBVIOUS
<1>2. \/ Len(a) < Len(b) /\ \A j \in 1..Len(a) : a[j] = b[j]
      \/ \E j \in 1..Len(a) : j <= Len(b) /\ b[j] < a[j] /\ \A i \in 1..(j - 1) : a[i] = b[i]
  BY DEF Before
<1>3. \/ Len(b) < Len(a) /\ \A j \in 1..Len(b) : b[j] = a[j]
      \/ \E j \in 1..Len(b) : j <= Len(a) /\ a[j] < b[j] /\ \A i \in 1..(j - 1) : b[i] = a[i]
  BY DEF Before
<1>4. CASE Len(a) < Len(b) /\ \A j \in 1..Len(a) : a[j] = b[j]
  BY <1>1, <1>3, <1>4
<1>5. CASE Len(b) < Len(a) /\ \A j \in 1..Len(b) : b[j] = a[j]
  BY <1>1, <1>2, <1>5
<1>6. ASSUME NEW j \in 1..Len(a), j <= Len(b), b[j] < a[j], \A i \in 1..(j - 1) : a[i] = b[i],
             NEW k \in 1..Len(b), k <= Len(a), a[k] < b[k], \A i \in 1..(k - 1) : b[i] = a[i]
      PROVE  FALSE
  <2>0. a[j] \in Nat /\ b[k] \in Nat
    BY <1>1
  <2>3. ~(j < k)
    <3> SUFFICES ASSUME j < k PROVE FALSE
      OBVIOUS
    <3>1. j \in 1..(k - 1)
      OBVIOUS
    <3>2. b[j] = a[j]
      BY <1>6, <3>1
    <3>3. b[j] < a[j]
      BY <1>6
    <3>4. QED
      BY ONLY <2>0, <3>2, <3>3
  <2>4. ~(k < j)
    <3> SUFFICES ASSUME k < j PROVE FALSE
      OBVIOUS
    <3>1. k \in 1..(j - 1)
      OBVIOUS
    <3>2. a[k] = b[k]
      BY <1>6, <3>1
    <3>3. a[k] < b[k]
      BY <1>6
    <3>4. QED
      BY ONLY <2>0, <3>2, <3>3
  <2>5. j # k
    <3> SUFFICES ASSUME j = k PROVE FALSE
      OBVIOUS
    <3>1. b[j] < a[j] /\ a[j] < b[j] /\ a[j] \in Nat /\ b[j] \in Nat
      BY <1>6, <2>0
    <3>2. QED
      BY <3>1
  <2>1. ~(j < k) /\ ~(k < j) /\ j # k
    BY <2>3, <2>4, <2>5
  <2>2. QED
    BY <2>1
<1>7. QED
  BY <1>2, <1>3, <1>4, <1>5, <1>6

-----------------------------------------------------------------------------
(* Walks.                                                                  *)

\* The nodes in each directory of a walk of n directories.
Walk(W, n) ==
  DOMAIN W = 1..n /\ \A k \in 1..n : Len(W[k]) \in Nat /\ DOMAIN W[k] = 1..Len(W[k])

\* One node more.
OneMore(ms, ns, x) ==
  /\ Len(ns) = Len(ms) + 1 /\ ns[Len(ms) + 1] = x
  /\ \A j \in 1..Len(ms) : ns[j] = ms[j]

\* The same walk, and one node more in the n-th directory, which is the last.
Steps(W, V, n, x) ==
  Walk(V, n) /\ (\A k \in 1..n : k < n => V[k] = W[k]) /\ OneMore(W[n], V[n], x)

SameNodes(ms, ns) == DOMAIN ms = DOMAIN ns /\ \A j \in DOMAIN ns : ms[j] = ns[j]

\* Directory x, of position p, is left after all others.
Adds(W, V, x, p) ==
  /\ \A s, m : Left(V, s, m) <=> Left(W, s, m) \/ (s = p /\ m = x)
  /\ \A s, m : Left(W, s, m) => Before(s, p)

\* Entering a directory leaves none.
LEMMA LeftEntering ==
  ASSUME NEW n \in Nat, NEW W, Walk(W, n), NEW V, Walk(V, n + 1),
         \A k \in 1..n : V[k] = W[k], DOMAIN V[n + 1] = {}
  PROVE  Walk(V, n + 1) /\ \A s, m : Left(V, s, m) <=> Left(W, s, m)
<1>1. 1..n \subseteq 1..(n + 1) /\ \A k \in 1..(n + 1) : k \in 1..n \/ k = n + 1
  OBVIOUS
<1>2. DOMAIN V[n + 1] = {}
  OBVIOUS
<1>3. \A k \in 1..(n + 1) : \A j \in 1..(n + 1) : j < k => j \in 1..n /\ V[j] = W[j]
  OBVIOUS
<1>4. ASSUME NEW s, NEW m, Left(W, s, m) PROVE Left(V, s, m)
  <2>1. PICK k \in 1..n :
          /\ k <= Len(s) /\ s[k] \in DOMAIN W[k]
          /\ \A j \in DOMAIN W : j < k => s[j] = Len(W[j]) + 1
          /\ Under(W[k][s[k]], k, s, m)
    BY <1>4 DEF Left, Walk
  <2>2. k \in DOMAIN V /\ V[k] = W[k] /\ \A j \in DOMAIN V : j < k => s[j] = Len(V[j]) + 1
    BY <1>1, <1>3, <2>1 DEF Walk
  <2>3. QED
    BY <1>4, <2>1, <2>2 DEF Left
<1>5. ASSUME NEW s, NEW m, Left(V, s, m) PROVE Left(W, s, m)
  <2>1. PICK k \in 1..(n + 1) :
          /\ k <= Len(s) /\ s[k] \in DOMAIN V[k]
          /\ \A j \in DOMAIN V : j < k => s[j] = Len(V[j]) + 1
          /\ Under(V[k][s[k]], k, s, m)
    BY <1>5 DEF Left, Walk
  <2>2. k \in 1..n
    BY <1>1, <1>2, <2>1
  <2>3. k \in DOMAIN W /\ V[k] = W[k] /\ \A j \in DOMAIN W : j < k => s[j] = Len(W[j]) + 1
    BY <1>3, <2>1, <2>2 DEF Walk
  <2>4. QED
    BY <1>5, <2>1, <2>3 DEF Left
<1>6. QED
  BY <1>4, <1>5

\* Nor does passing a node that is none.
LEMMA LeftPassing ==
  ASSUME NEW n \in Nat \ {0}, NEW W, Walk(W, n), NEW V, NEW x, Steps(W, V, n, x),
         x.kind # "DIR"
  PROVE  \A s, m : Left(V, s, m) <=> Left(W, s, m)
<1> USE DEF Steps, OneMore
<1>1. \A k \in 1..n : k < n \/ k = n
  OBVIOUS
<1>2. \A k \in 1..n : \A j \in 1..n : j < k => j < n /\ V[j] = W[j]
  OBVIOUS
<1>3. PICK l \in Nat : l = Len(W[n]) /\ DOMAIN W[n] = 1..l /\ DOMAIN V[n] = 1..(l + 1)
  BY DEF Walk
<1>4. ASSUME NEW s, NEW m, Left(W, s, m) PROVE Left(V, s, m)
  <2>1. PICK k \in 1..n :
          /\ k <= Len(s) /\ s[k] \in DOMAIN W[k]
          /\ \A j \in DOMAIN W : j < k => s[j] = Len(W[j]) + 1
          /\ Under(W[k][s[k]], k, s, m)
    BY <1>4 DEF Left, Walk
  <2>2. s[k] \in DOMAIN V[k] /\ V[k][s[k]] = W[k][s[k]]
    BY <1>1, <1>3, <2>1
  <2>0. DOMAIN V = 1..n /\ DOMAIN W = 1..n
    BY DEF Walk
  <2>3. k \in DOMAIN V /\ \A j \in DOMAIN V : j < k => s[j] = Len(V[j]) + 1
    BY ONLY <1>2, <2>0, <2>1
  <2>4. QED
    BY <1>4, <2>1, <2>2, <2>3 DEF Left
<1>5. ASSUME NEW s, NEW m, Left(V, s, m) PROVE Left(W, s, m)
  <2>1. PICK k \in 1..n :
          /\ k <= Len(s) /\ s[k] \in DOMAIN V[k]
          /\ \A j \in DOMAIN V : j < k => s[j] = Len(V[j]) + 1
          /\ Under(V[k][s[k]], k, s, m)
    BY <1>5 DEF Left, Walk
  <2>2. k \in DOMAIN W /\ \A j \in DOMAIN W : j < k => s[j] = Len(W[j]) + 1
    BY <1>2, <2>1 DEF Walk
  <2>3. s \in Seq(Nat) /\ m.kind = "DIR"
    BY <1>5 DEF Left
  <2>4. CASE k = n /\ s[k] = l + 1
    <3>0. k \in Nat /\ Len(s) \in Nat
      BY <2>3
    <3>1. Under(x, k, s, m)
      BY <1>3, <2>1, <2>4
    <3>2. CASE k = Len(s)
      BY <2>3, <3>1, <3>2, UnderItself
    <3>3. CASE k < Len(s)
      BY <2>3, <3>0, <3>1, <3>3, UnderKid
    <3>4. QED
      BY <2>1, <2>3, <3>2, <3>3
  <2>5. CASE ~(k = n /\ s[k] = l + 1)
    <3>1. s[k] \in DOMAIN W[k] /\ V[k][s[k]] = W[k][s[k]]
      BY <1>1, <1>3, <2>1, <2>5
    <3>2. QED
      BY <2>1, <2>2, <2>3, <3>1 DEF Left
  <2>6. QED
    BY <2>4, <2>5
<1>6. QED
  BY <1>4, <1>5

\* Leaving a directory leaves that one, and it is the last so far.
LEMMA LeftLeaving ==
  ASSUME NEW n \in Nat \ {0}, NEW W, Walk(W, n + 1), NEW V, NEW x, Steps(W, V, n, x),
         x.kind = "DIR", SameNodes(Kids(x), W[n + 1])
  PROVE  \E p \in Seq(Nat) : Adds(W, V, x, p)
<1> USE DEF Steps, OneMore, SameNodes
<1>0. DOMAIN W = 1..(n + 1) /\ DOMAIN V = 1..n
  BY DEF Walk
<1>1. PICK p : p = [k \in 1..n |-> Len(W[k]) + 1]
  OBVIOUS
<1>2. p \in Seq(Nat) /\ Len(p) = n /\ \A k \in 1..n : p[k] = Len(W[k]) + 1
  <2>1. \A k \in 1..n : Len(W[k]) + 1 \in Nat
    BY DEF Walk
  <2>2. QED
    BY <1>1, <2>1
<1>9. \A j \in 1..n : p[j] = Len(W[j]) + 1 /\ j \in DOMAIN W /\ (j < n \/ j = n)
  BY <1>0, <1>2
<1>3. PICK l \in Nat : l = Len(W[n]) /\ DOMAIN W[n] = 1..l /\ DOMAIN V[n] = 1..(l + 1)
  <2>1. n \in 1..n /\ n \in 1..(n + 1)
    OBVIOUS
  <2>2. QED
    BY <2>1 DEF Walk
<1>4. \A k \in 1..n : \A j \in 1..n : j < k => j < n /\ V[j] = W[j]
  OBVIOUS
<1>5. ASSUME NEW s, NEW m, Left(V, s, m) PROVE Left(W, s, m) \/ (s = p /\ m = x)
  <2>1. s \in Seq(Nat) /\ m.kind = "DIR"
    BY <1>5 DEF Left
  <2>2. PICK k \in 1..n :
          /\ k <= Len(s) /\ s[k] \in DOMAIN V[k]
          /\ \A j \in DOMAIN V : j < k => s[j] = Len(V[j]) + 1
          /\ Under(V[k][s[k]], k, s, m)
    BY <1>5 DEF Left, Walk
  <2>0. DOMAIN V = 1..n /\ DOMAIN W = 1..(n + 1)
    BY DEF Walk
  <2>9. \A j \in 1..(n + 1) : j < k => j \in 1..n
    OBVIOUS
  <2>3. k \in 1..(n + 1) /\ k \in DOMAIN W /\ \A j \in DOMAIN W : j < k => s[j] = Len(W[j]) + 1
    BY ONLY <1>4, <2>0, <2>2, <2>9
  <2>4. CASE k = n /\ s[k] = l + 1 /\ Len(s) = n
    <3>1. m = x
      BY <1>3, <2>1, <2>2, <2>4, UnderItself
    <3>2. ASSUME NEW j \in 1..n PROVE s[j] = p[j]
      <4>1. CASE j < n
        BY <1>9, <2>3, <2>4, <4>1
      <4>2. CASE j = n
        BY <1>3, <1>9, <2>4, <4>2
      <4>3. QED
        BY <1>9, <4>1, <4>2
    <3>3. s = p
      BY <1>2, <2>1, <2>4, <3>2
    <3>4. QED
      BY <3>1, <3>3
  <2>5. CASE k = n /\ s[k] = l + 1 /\ Len(s) # n
    <3>1. n < Len(s) /\ Under(x, n, s, m) /\ n \in Nat
      BY <1>3, <2>1, <2>2, <2>5
    <3>2. s[n + 1] \in DOMAIN Kids(x) /\ Under(Kids(x)[s[n + 1]], n + 1, s, m)
      BY <2>1, <3>1, UnderKid
    <3>3. s[n + 1] \in DOMAIN W[n + 1] /\ Under(W[n + 1][s[n + 1]], n + 1, s, m)
      BY <3>2
    <3>4. ASSUME NEW j \in DOMAIN W, j < n + 1 PROVE s[j] = Len(W[j]) + 1
      <4>1. j \in 1..n
        BY <1>0, <3>4
      <4>2. CASE j < n
        BY <2>3, <2>5, <4>2
      <4>3. CASE j = n
        BY <1>3, <2>5, <4>3
      <4>4. QED
        BY <1>9, <4>1, <4>2, <4>3
    <3>5. n + 1 \in DOMAIN W /\ n + 1 <= Len(s)
      BY <1>0, <2>1, <3>1
    <3>6. QED
      BY <2>1, <3>3, <3>4, <3>5 DEF Left
  <2>6. CASE ~(k = n /\ s[k] = l + 1)
    <3>1. s[k] \in DOMAIN W[k] /\ V[k][s[k]] = W[k][s[k]]
      <4>1. CASE k = n
        BY <1>3, <2>2, <2>6, <4>1
      <4>2. CASE k # n
        BY <2>2, <4>2
      <4>3. QED
        BY <4>1, <4>2
    <3>2. QED
      BY <2>1, <2>2, <2>3, <3>1 DEF Left
  <2>7. QED
    BY <2>4, <2>5, <2>6
<1>6. ASSUME NEW s, NEW m, Left(W, s, m) PROVE Left(V, s, m) /\ Before(s, p)
  <2>1. s \in Seq(Nat) /\ m.kind = "DIR" /\ Len(s) \in Nat
    BY <1>6 DEF Left
  <2>2. PICK k \in 1..(n + 1) :
          /\ k <= Len(s) /\ s[k] \in DOMAIN W[k]
          /\ \A j \in DOMAIN W : j < k => s[j] = Len(W[j]) + 1
          /\ Under(W[k][s[k]], k, s, m)
    BY <1>6 DEF Left, Walk
  <2>3. CASE k = n + 1
    <3>1. n < Len(s) /\ n <= Len(s) /\ n \in Nat /\ n \in 1..n /\ n \in DOMAIN V
      BY <2>1, <2>2, <2>3 DEF Walk
    <3>2. ASSUME NEW j \in 1..n PROVE s[j] = Len(W[j]) + 1 /\ p[j] = s[j]
      <4>1. j < n + 1
        OBVIOUS
      <4>2. QED
        BY <1>9, <2>2, <2>3, <4>1
    <3>3. Under(x, n, s, m)
      <4>1. s[n + 1] \in DOMAIN Kids(x) /\ Under(Kids(x)[s[n + 1]], n + 1, s, m)
        BY <2>2, <2>3
      <4>2. QED
        BY <2>1, <3>1, <4>1, UnderKid
    <3>4. s[n] \in DOMAIN V[n] /\ Under(V[n][s[n]], n, s, m)
      BY <1>3, <3>1, <3>2, <3>3
    <3>5. \A j \in 1..n : j < n => s[j] = Len(V[j]) + 1
      BY <1>4, <3>1, <3>2
    <3>6. Left(V, s, m)
      BY <1>0, <2>1, <3>1, <3>4, <3>5 DEF Left
    <3>7. Before(s, p)
      BY <1>2, <3>1, <3>2 DEF Before
    <3>8. QED
      BY <3>6, <3>7
  <2>4. CASE k # n + 1
    <3>1. k \in 1..n /\ k \in DOMAIN V /\ k - 1 \in 0..(n - 1)
      BY <2>2, <2>4 DEF Walk
    <3>2. ASSUME NEW j \in 1..n, j < k PROVE s[j] = Len(V[j]) + 1 /\ s[j] = p[j]
      BY <1>4, <1>9, <2>2, <3>1, <3>2
    <3>3. s[k] \in DOMAIN V[k] /\ V[k][s[k]] = W[k][s[k]]
      <4>1. CASE k = n
        BY <1>3, <2>2, <4>1
      <4>2. CASE k # n
        BY <2>2, <3>1, <4>2
      <4>3. QED
        BY <4>1, <4>2
    <3>4. Left(V, s, m)
      BY <1>0, <2>1, <2>2, <3>1, <3>2, <3>3 DEF Left
    <3>5. s[k] < p[k]
      <4>1. DOMAIN W[k] = 1..Len(W[k]) /\ Len(W[k]) \in Nat
        BY <2>2 DEF Walk
      <4>2. QED
        BY <1>2, <2>2, <3>1, <4>1
    <3>6. \A j \in 1..(k - 1) : p[j] = s[j]
      <4>1. \A j \in 1..(k - 1) : j \in 1..n /\ j < k
        BY <3>1
      <4>2. QED
        BY <3>2, <4>1
    <3>8. Before(s, p)
      <4>1. k \in 1..Len(p) /\ k <= Len(s)
        BY <1>2, <2>2, <3>1
      <4>2. QED
        BY <3>5, <3>6, <4>1 DEF Before
    <3>7. QED
      BY <3>4, <3>8
  <2>5. QED
    BY <2>3, <2>4
<1>7. Left(V, p, x)
  <2>1. n \in DOMAIN V /\ n <= Len(p) /\ n \in 1..n
    BY <1>2 DEF Walk
  <2>2. p[n] \in DOMAIN V[n] /\ V[n][p[n]] = x
    BY <1>2, <1>3, <2>1
  <2>3. \A j \in 1..n : j < n => p[j] = Len(V[j]) + 1
    BY <1>2, <1>4
  <2>4. Under(x, n, p, x)
    BY <1>2, UnderItself
  <2>5. QED
    BY <1>0, <1>2, <2>1, <2>2, <2>3, <2>4 DEF Left
<1>8. QED
  BY <1>2, <1>5, <1>6, <1>7 DEF Adds
-----------------------------------------------------------------------------
(* Tables.                                                                 *)

LEMMA SumsSame ==
  ASSUME NEW W, NEW V, \A s, m : Left(V, s, m) <=> Left(W, s, m), NEW said, Sums(W, said)
  PROVE  Sums(V, said)
<1>1. \A i, s, m : LastOf(W, i, s, m) => LastOf(V, i, s, m)
  BY DEF LastOf
<1>2. QED
  BY <1>1 DEF Sums

\* Nothing has been left yet.
LEMMA SumsNothing ==
  ASSUME NEW W, \A k \in DOMAIN W : DOMAIN W[k] = {}, NEW said
  PROVE  Sums(W, said)
<1>1. \A s, m : ~Left(W, s, m)
  BY DEF Left
<1>2. QED
  BY <1>1 DEF Sums

\* The rows of inode i are replaced, and only these.
WritesRows(said, said2, i, rows) ==
  said2[i] = rows /\ \A j \in DirInos : j # i => said2[j] = said[j]

\* A directory is left, and its rows are written.
LEMMA SumsLeaving ==
  ASSUME NEW W, NEW V, NEW x, NEW p, Adds(W, V, x, p),
         NEW said, Sums(W, said), NEW said2, WritesRows(said, said2, x.ino, LastRows(Kids(x)))
  PROVE  Sums(V, said2)
<1> USE DEF Adds, WritesRows
<1>1. LastOf(V, x.ino, p, x)
  BY DEF LastOf
<1>2. ASSUME NEW i \in DirInos, i # x.ino, NEW s, NEW m, Left(V, s, m), m.ino = i
      PROVE  \E t, n : LastOf(V, i, t, n) /\ said2[i] = LastRows(Kids(n))
  <2>1. Left(W, s, m)
    BY <1>2
  <2>2. PICK t, n : LastOf(W, i, t, n) /\ said[i] = LastRows(Kids(n))
    BY <1>2, <2>1 DEF Sums
  <2>3. LastOf(V, i, t, n)
    BY <1>2, <2>2 DEF LastOf
  <2>4. QED
    BY <1>2, <2>2, <2>3
<1>3. QED
  BY <1>1, <1>2 DEF Sums

\* Of a walk that is over, only one node is the last of an inode.
LEMMA SumsAgree ==
  ASSUME NEW h, NEW said, NEW told, Sums(Over(h), said), Sums(Over(h), told),
         NEW i \in DirInos, NEW s, NEW m, Left(Over(h), s, m), m.ino = i
  PROVE  said[i] = told[i]
<1>1. PICK a, x : LastOf(Over(h), i, a, x) /\ said[i] = LastRows(Kids(x))
  BY DEF Sums
<1>2. PICK b, y : LastOf(Over(h), i, b, y) /\ told[i] = LastRows(Kids(y))
  BY DEF Sums
<1>3. a \in Seq(Nat) /\ b \in Seq(Nat) /\ Left(Over(h), a, x) /\ Left(Over(h), b, y)
  BY <1>1, <1>2 DEF LastOf, Left
<1>4. a = b
  <2>1. (a = b \/ Before(a, b)) /\ (b = a \/ Before(b, a))
    BY <1>1, <1>2 DEF LastOf
  <2>2. QED
    BY <1>3, <2>1, NotBoth
<1>5. \A n : Left(Over(h), a, n) => 1 <= Len(a) /\ Under(h, 1, a, n)
  <2>1. DOMAIN Over(h) = {1} /\ DOMAIN Over(h)[1] = {1} /\ Over(h)[1][1] = h
    BY DEF Over
  <2>2. QED
    BY <2>1 DEF Left
<1>6. x = y
  BY <1>3, <1>4, <1>5, UnderOne
<1>7. QED
  BY <1>1, <1>2, <1>6

\* The rows of a directory when one more node has been passed.
LEMMA RowsPassing ==
  ASSUME NEW l \in Nat, NEW ms, DOMAIN ms = 1..l, NEW ns, DOMAIN ns = 1..(l + 1),
         \A j \in 1..l : ns[j] = ms[j], NEW x, ns[l + 1] = x
  PROVE  /\ x.kind # "REG" => LastRows(ns) = LastRows(ms)
         /\ x.kind = "REG" =>
              LastRows(ns) = {t \in LastRows(ms) : t[1] # x.ino} \cup {Fact(x)}
<1>1. \A j \in 1..(l + 1) : (j \in 1..l /\ j < l + 1) \/ j = l + 1
  OBVIOUS
<1>2. CASE x.kind # "REG"
  <2>1. LastOnes(ns) = LastOnes(ms)
    BY <1>1, <1>2 DEF LastOnes
  <2>2. \A k \in LastOnes(ms) : ns[k] = ms[k]
    BY DEF LastOnes
  <2>3. LastRows(ns) = LastRows(ms)
    BY <2>1, <2>2 DEF LastRows
  <2>4. QED
    BY <1>2, <2>3
<1>3. CASE x.kind = "REG"
  <2>1. \A k \in 1..l : k \in LastOnes(ns) <=> k \in LastOnes(ms) /\ ms[k].ino # x.ino
    BY <1>1, <1>3 DEF LastOnes
  <2>2. l + 1 \in LastOnes(ns)
    BY <1>1, <1>3 DEF LastOnes
  <2>3. LastOnes(ns) \subseteq 1..(l + 1) /\ LastOnes(ms) \subseteq 1..l
    BY DEF LastOnes
  <2>4. \A n : Fact(n)[1] = n.ino
    BY DEF Fact
  <2>5. ASSUME NEW t \in LastRows(ns)
        PROVE  t \in {u \in LastRows(ms) : u[1] # x.ino} \cup {Fact(x)}
    <3>1. PICK k \in LastOnes(ns) : t = Fact(ns[k])
      BY DEF LastRows
    <3>2. CASE k = l + 1
      BY <3>1, <3>2
    <3>3. CASE k \in 1..l
      <4>1. k \in LastOnes(ms) /\ ms[k].ino # x.ino /\ ns[k] = ms[k]
        BY <2>1, <3>3
      <4>2. t \in LastRows(ms) /\ t[1] # x.ino
        BY <2>4, <3>1, <4>1 DEF LastRows
      <4>3. QED
        BY <4>2
    <3>4. QED
      BY <1>1, <2>3, <3>2, <3>3
  <2>6. ASSUME NEW t \in LastRows(ms), t[1] # x.ino PROVE t \in LastRows(ns)
    <3>1. PICK k \in LastOnes(ms) : t = Fact(ms[k])
      BY DEF LastRows
    <3>2. k \in 1..l /\ ms[k].ino # x.ino
      BY <2>3, <2>4, <2>6, <3>1
    <3>3. k \in LastOnes(ns) /\ ns[k] = ms[k]
      BY <2>1, <3>1, <3>2
    <3>4. QED
      BY <3>1, <3>3 DEF LastRows
  <2>7. Fact(x) \in LastRows(ns)
    BY <2>2 DEF LastRows
  <2>8. LastRows(ns) = {t \in LastRows(ms) : t[1] # x.ino} \cup {Fact(x)}
    BY <2>5, <2>6, <2>7
  <2>9. QED
    BY <1>3, <2>8
<1>4. QED
  BY <1>2, <1>3

LEMMA RowsNone == \A ns : DOMAIN ns = {} => LastRows(ns) = {}
  BY DEF LastRows, LastOnes

\* What the rows say when one more is added.
LEMMA FactsAdded ==
  ASSUME NEW es, NEW r, NEW new, new = {e \in es : e.ino # r.ino} \cup {r}
  PROVE  Facts(new) = {t \in Facts(es) : t[1] # r.ino} \cup {<<r.ino, r.ctime, r.oid>>}
<1>1. \A e : <<e.ino, e.ctime, e.oid>>[1] = e.ino
  OBVIOUS
<1>2. ASSUME NEW t \in Facts(new)
      PROVE  t \in {u \in Facts(es) : u[1] # r.ino} \cup {<<r.ino, r.ctime, r.oid>>}
  BY <1>1 DEF Facts
<1>3. ASSUME NEW t \in Facts(es), t[1] # r.ino PROVE t \in Facts(new)
  BY <1>1, <1>3 DEF Facts
<1>4. <<r.ino, r.ctime, r.oid>> \in Facts(new)
  BY DEF Facts
<1>5. QED
  BY <1>2, <1>3, <1>4

-----------------------------------------------------------------------------
(* The directories that every dump walks.                                  *)

\* Closed under the directories in a directory of the device.
Walks(S) ==
  Root \in S /\ \A d \in S \ Foreign : \A y \in Range(Children[d]) \cap Dirs : y \in S

Walked == {d \in Dirs : \A S \in SUBSET Dirs : Walks(S) => d \in S}

WalkedInos == {Ino[d] : d \in Walked}

\* Node m is of directory x and has all directories in it.
NodeOf(x, m) ==
  /\ m.kind = "DIR" /\ m.ino = Ino[x]
  /\ x \notin Foreign =>
       \A y \in Range(Children[x]) \cap Dirs :
         \E k \in DOMAIN Entries(m.children) : Entries(m.children)[k][1] = y

\* The entries of directories are nodes of directories.
EntriesOf(es) == \A k \in DOMAIN es : es[k][1] \in Dirs => NodeOf(es[k][1], es[k][2])

\* A backup with this root has every directory that a dump walks.
Reaches(h) == \A i \in WalkedInos : \E s, m : Left(Over(h), s, m) /\ m.ino = i

LEMMA RootWalked == Root \in Walked
  BY BackupAssumption DEF BackupAssumption, Walked, Walks

LEMMA ChildWalked ==
  ASSUME NEW d \in Walked, d \notin Foreign, NEW y \in Range(Children[d]), y \in Dirs
  PROVE  y \in Walked
  BY DEF Walked, Walks

LEMMA OverLeft ==
  ASSUME NEW h, NEW s, NEW m
  PROVE  Left(Over(h), s, m) <=>
           /\ s \in Seq(Nat) /\ m.kind = "DIR" /\ 1 <= Len(s) /\ s[1] = 1 /\ Under(h, 1, s, m)
<1>1. DOMAIN Over(h) = {1} /\ DOMAIN Over(h)[1] = {1} /\ Over(h)[1][1] = h
  BY DEF Over
<1>2. QED
  BY <1>1 DEF Left

LEMMA RootReached ==
  ASSUME NEW h, h.kind = "DIR"
  PROVE  \E s : Left(Over(h), s, h)
<1>1. PICK s : s \in Seq(Nat) /\ Len(s) = 1 /\ s[1] = 1
  <2>1. <<1>> \in Seq(Nat) /\ Len(<<1>>) = 1 /\ <<1>>[1] = 1
    OBVIOUS
  <2>2. QED
    BY <2>1
<1>5. Len(s) \in Nat /\ 1 <= Len(s)
  BY ONLY <1>1
<1>2. Under(h, 1, s, h)
  <2>1. Under(h, Len(s), s, h)
    BY ONLY <1>1, UnderItself
  <2>2. QED
    BY ONLY <1>1, <2>1
<1>3. Left(Over(h), s, h)
  <2>1. s \in Seq(Nat) /\ h.kind = "DIR" /\ 1 <= Len(s) /\ s[1] = 1 /\ Under(h, 1, s, h)
    BY <1>1, <1>2, <1>5
  <2>2. QED
    BY ONLY <2>1, OverLeft
<1>4. QED
  BY <1>3

LEMMA KidReached ==
  ASSUME NEW h, NEW s, NEW m, Left(Over(h), s, m), NEW j \in Nat, j \in DOMAIN Kids(m),
         Kids(m)[j].kind = "DIR"
  PROVE  \E t : Left(Over(h), t, Kids(m)[j])
<1>1. s \in Seq(Nat) /\ m.kind = "DIR" /\ 1 <= Len(s) /\ s[1] = 1 /\ Under(h, 1, s, m)
  BY OverLeft
<1>2. Under(h, 1, Append(s, j), Kids(m)[j])
  BY <1>1, UnderNext
<1>3. Append(s, j) \in Seq(Nat) /\ 1 <= Len(Append(s, j)) /\ Append(s, j)[1] = 1
  BY <1>1
<1>4. Left(Over(h), Append(s, j), Kids(m)[j])
  BY <1>2, <1>3, OverLeft
<1>5. QED
  BY <1>4

\* The root has every directory that a dump walks, since its node has those in it,
\* and so on.
LEMMA RootReaches ==
  ASSUME NEW V, \A c \in V : WellMade(c, V),
         \A l \in V : l.kind = "dir" => EntriesOf(l.entries),
         NEW h \in V, NodeOf(Root, h)
  PROVE  Reaches(h)
<1>1. PICK S : S = {x \in Dirs : \E s, m : Left(Over(h), s, m) /\ m \in V /\ NodeOf(x, m)}
  OBVIOUS
<1>2. Root \in S
  <2>1. PICK s : Left(Over(h), s, h)
    BY RootReached DEF NodeOf
  <2>2. Root \in Dirs
    BY BackupAssumption DEF BackupAssumption
  <2>3. QED
    BY <1>1, <2>1, <2>2
<1>3. ASSUME NEW d \in S, d \notin Foreign, NEW y \in Range(Children[d]) \cap Dirs
      PROVE  y \in S
  <2>1. PICK s, m : Left(Over(h), s, m) /\ m \in V /\ NodeOf(d, m)
    BY <1>1
  <2>2. PICK k \in DOMAIN Entries(m.children) : Entries(m.children)[k][1] = y
    BY <1>3, <2>1 DEF NodeOf
  <2>3. m.kind = "DIR" /\ WellMade(m, V)
    BY <2>1 DEF NodeOf
  <2>4. m.children \in V /\ (m.children = Null \/ m.children.kind = "dir")
    BY <2>3 DEF WellMade, Refs
  <2>5. m.children # Null
    BY <2>2 DEF Entries
  <2>6. PICK l \in V : l = m.children /\ l.kind = "dir" /\ WellMade(l, V)
    BY <2>4, <2>5
  <2>7. PICK es : es = l.entries /\ es = Entries(m.children)
    BY <2>5, <2>6 DEF Entries
  <2>8. es \in Seq(Names \X V) /\ EntriesOf(es)
    <3>1. EntriesOf(l.entries)
      BY <2>6
    <3>2. l.entries \in Seq(Names \X V)
      BY <2>6 DEF WellMade
    <3>3. QED
      BY <2>7, <3>1, <3>2
  <2>9. k \in DOMAIN es /\ k \in Nat /\ es[k][1] = y /\ es[k][2] \in V
    BY <2>2, <2>7, <2>8
  <2>10. NodeOf(y, es[k][2])
    BY <1>3, <2>8, <2>9 DEF EntriesOf
  <2>11. k \in DOMAIN Kids(m) /\ Kids(m)[k] = es[k][2]
    BY <2>7, <2>9 DEF Kids
  <2>12. PICK t : Left(Over(h), t, Kids(m)[k])
    BY <2>1, <2>9, <2>10, <2>11, KidReached DEF NodeOf
  <2>13. QED
    BY <1>1, <1>3, <2>9, <2>10, <2>11, <2>12
<1>4. S \subseteq Dirs /\ Walks(S)
  BY <1>1, <1>2, <1>3 DEF Walks
<1>5. ASSUME NEW d \in Walked PROVE \E s, m : Left(Over(h), s, m) /\ m.ino = Ino[d]
  <2>1. d \in S
    BY <1>4 DEF Walked
  <2>2. QED
    BY <1>1, <2>1 DEF NodeOf
<1>6. QED
  BY <1>5 DEF Reaches, WalkedInos

-----------------------------------------------------------------------------
(* The invariant. *)

DoneKids(fr) == [k \in DOMAIN fr.done |-> fr.done[k][2]]

\* The walk of a dump, with the place of the root first.
Trail(st) ==
  [k \in 1..(Len(st) + 1) |-> IF k = 1 THEN <<>> ELSE DoneKids(st[k - 1])]

\* The rows of a directory are those of its nodes, and will be kept; it is one of
\* those that every dump walks.
FrameTells(fr) ==
  /\ Facts(fr.new) = LastRows(DoneKids(fr))
  /\ \A e \in fr.old \cup fr.new : e.expire >= base
  /\ fr.name \in Walked /\ EntriesOf(fr.done)

DumpTells ==
  pc \in {"dump", "read"} =>
    /\ \A k \in DOMAIN stack : FrameTells(stack[k])
    /\ Sums(Trail(stack), Said(ctx))

HeadTells ==
  head # Null => Reaches(head) /\ Sums(Over(head), Said(ctx))

\* The directory d of a backup, of which the nodes ns have been passed and the
\* nodes down, one or none, have been entered.
RegenTells(fr, d, ns, down) ==
  /\ d.kind = "DIR" /\ d.ino = fr.ino
  /\ Facts(fr.new) = LastRows(ns)
  /\ LET n == Len(ns) + Len(down) IN
     /\ DOMAIN Kids(d) = 1..(n + Len(fr.todo))
     /\ \A j \in 1..Len(ns) : Kids(d)[j] = ns[j]
     /\ \A j \in 1..Len(down) : Kids(d)[Len(ns) + j] = down[j]
     /\ \A j \in 1..Len(fr.todo) : Kids(d)[n + j] = fr.todo[j][2]

\* The frames st are on the way from node h through the nodes ds.
Follows(st, W, ds, h) ==
  /\ Walk(W, Len(st) + 1) /\ W[1] = <<>>
  /\ DOMAIN ds = 1..Len(st) /\ ds[1] = h
  /\ \A k \in 1..Len(st) :
       RegenTells(st[k], ds[k], W[k + 1], IF k = Len(st) THEN <<>> ELSE <<ds[k + 1]>>)

\* A regeneration goes the way of the dump.
Retraces(W, ds) ==
  /\ Follows(stack, W, ds, source.hash) /\ Sums(W, Said(ctx))
  /\ \A k \in DOMAIN stack : \A e \in stack[k].new : e.expire >= base

SourceTells ==
  /\ pc = "regen" => \E W, ds : Retraces(W, ds)
  /\ pc = "commit" /\ head = Null =>
       source.kind = "back" /\ Sums(Over(source.hash), Said(ctx))

LastTells ==
  last.back # Null =>
    /\ Reaches(last.back.hash) /\ Sums(Over(last.back.hash), last.cache)
    /\ last.cache = [i \in DirInos |-> last.cache[i]]
    /\ \A i \in DirInos \ WalkedInos : last.cache[i] = {}

\* No other directory has ever been dumped.
OnlyWalked ==
  /\ \A n \in View : n.kind = "DIR" => n.ino \in WalkedInos
  /\ \A l \in View : l.kind = "dir" => EntriesOf(l.entries)

Tells == DumpTells /\ HeadTells /\ SourceTells /\ LastTells /\ OnlyWalked

-----------------------------------------------------------------------------
(* Steps that tell nothing new. *)

LEMMA OnlyWalkedStays ==
  ASSUME OnlyWalked, NEW cs, View' \subseteq View \cup cs,
         \A c \in cs : /\ c.kind = "DIR" => c.ino \in WalkedInos
                       /\ c.kind = "dir" => EntriesOf(c.entries)
  PROVE  OnlyWalked'
  BY DEF OnlyWalked

LEMMA LastStays == LastTells /\ UNCHANGED last => LastTells'
  BY DEF LastTells

LEMMA HeadStays == HeadTells /\ UNCHANGED <<head, ctx>> => HeadTells'
  BY DEF HeadTells

LEMMA FrameStaysTold ==
  ASSUME NEW fr, FrameTells(fr), UNCHANGED base
  PROVE  FrameTells(fr)'
  BY DEF FrameTells

LEMMA DumpStays ==
  ASSUME DumpTells, UNCHANGED <<base, stack, ctx>>, pc' \in {"dump", "read"} => pc \in {"dump", "read"}
  PROVE  DumpTells'
<1> SUFFICES ASSUME pc' \in {"dump", "read"} PROVE DumpTells'
  BY DEF DumpTells
<1>1. (\A k \in DOMAIN stack : FrameTells(stack[k])) /\ Sums(Trail(stack), Said(ctx))
  BY DEF DumpTells
<1>2. \A k \in DOMAIN stack' : FrameTells(stack[k])'
  BY <1>1 DEF FrameTells
<1>3. Sums(Trail(stack), Said(ctx))'
  BY <1>1
<1>4. QED
  BY <1>2, <1>3 DEF DumpTells

LEMMA SourceStays ==
  ASSUME SourceTells, UNCHANGED <<base, stack, ctx, source, pc, head>>
  PROVE  SourceTells'
<1>1. pc' = "commit" /\ head' = Null =>
        source'.kind = "back" /\ Sums(Over(source'.hash), Said(ctx)')
  BY DEF SourceTells
<1>2. ASSUME pc' = "regen" PROVE \E W, ds : Retraces(W, ds)'
  <2>1. PICK W, ds : Retraces(W, ds)
    BY <1>2 DEF SourceTells
  <2>2. Retraces(W, ds)'
    BY <2>1 DEF Retraces
  <2>3. QED
    BY <2>2
<1>3. QED
  BY <1>1, <1>2 DEF SourceTells

\* Users, and whatever else leaves the session alone.
LEMMA AloneTells ==
  ASSUME Tells, UNCHANGED <<poolVars, ctx, pc, base, stack, head, source, last>>
  PROVE  Tells'
<1>1. DumpTells /\ HeadTells /\ SourceTells /\ LastTells /\ OnlyWalked
  BY DEF Tells
<1>2. DumpTells' /\ HeadTells' /\ SourceTells' /\ LastTells'
  BY <1>1, DumpStays, HeadStays, SourceStays, LastStays
<1>3. PICK cs : cs = {} /\ View' \subseteq View \cup cs
  BY DEF View, poolVars
<1>4. OnlyWalked'
  BY <1>1, <1>3, OnlyWalkedStays
<1>5. QED
  BY <1>2, <1>4 DEF Tells

\* A session ends, or is not there.
LEMMA OffTells ==
  ASSUME Tells, pc' = "idle", head' = Null, View' \subseteq View, LastTells'
  PROVE  Tells'
<1>1. PICK cs : cs = {} /\ View' \subseteq View \cup cs
  OBVIOUS
<1>2. OnlyWalked'
  BY <1>1, OnlyWalkedStays DEF Tells
<1>3. DumpTells' /\ SourceTells'
  BY DEF DumpTells, SourceTells
<1>4. Null' = Null
  BY DEF Null
<1>5. HeadTells'
  BY <1>4 DEF HeadTells
<1>6. QED
  BY <1>2, <1>3, <1>5 DEF Tells

LEMMA UserTells == Tells /\ User => Tells'
<1>1. User => UNCHANGED <<poolVars, ctx, pc, base, stack, head, source, last>>
  BY DEF User, Tick, Modify, Create, Unlink, Touch
<1>2. QED
  BY <1>1, AloneTells

LEMMA RunExpireTells == FaithInv /\ Tells /\ RunExpire => Tells'
<1> SUFFICES ASSUME FaithInv, Tells, RunExpire PROVE Tells'
  OBVIOUS
<1>1. pc = "idle" /\ UNCHANGED <<poolVars, pc, head, last>>
  BY DEF RunExpire
<1>2. head' = Null
  BY <1>1 DEF FaithInv, AllRight, HeadRight
<1>3. View' \subseteq View
  BY <1>1 DEF View, poolVars
<1>4. LastTells'
  BY <1>1, LastStays DEF Tells
<1>5. QED
  BY <1>1, <1>2, <1>3, <1>4, OffTells

LEMMA RollbackTells == FaithInv /\ Tells /\ Rollback => Tells'
<1> SUFFICES ASSUME FaithInv, Tells, Rollback PROVE Tells'
  OBVIOUS
<1>1. DOMAIN pending = {Me}
  BY DEF FaithInv, IInv
<1>2. View' \subseteq View
  BY <1>1 DEF Rollback, P!PoolAbandon, View
<1>3. pc' = "idle" /\ head' = Null /\ last' = last
  BY DEF Rollback, EndSession
<1>4. LastTells'
  BY <1>3, LastStays DEF Tells
<1>5. QED
  BY <1>2, <1>3, <1>4, OffTells

\* The rows of directories that no dump walks.
LEMMA NothingElsewhere ==
  ASSUME FaithInv, OnlyWalked, NEW i \in DirInos \ WalkedInos
  PROVE  Said(ctx)[i] = {}
<1>1. VouchedFor(i, ctx[i], View)
  BY DEF FaithInv, IInv, GoodTables
<1>2. ASSUME NEW e \in ctx[i] PROVE FALSE
  <2>1. \E d \in View : d.kind = "DIR" /\ d.ino = i
    BY <1>1 DEF VouchedFor
  <2>2. QED
    BY <2>1 DEF OnlyWalked
<1>3. QED
  BY <1>2 DEF Said

LEMMA CommitTells == FaithInv /\ Tells /\ Commit => Tells'
<1> SUFFICES ASSUME FaithInv, Tells, Commit PROVE Tells'
  OBVIOUS
<1>1. DOMAIN pending = {Me}
  BY DEF FaithInv, IInv
<1>2. View' \subseteq View
  BY <1>1 DEF Commit, P!PoolFlush, View
<1>3. /\ pc' = "idle" /\ head' = Null
      /\ last' = IF head = Null THEN last ELSE [back |-> Back(base, head), cache |-> Said(ctx)]
  BY DEF Commit, EndSession
<1>4. CASE head = Null
  <2>1. LastTells'
    BY <1>3, <1>4, LastStays DEF Tells
  <2>2. QED
    BY <1>2, <1>3, <2>1, OffTells
<1>5. CASE head # Null
  <2>1. Reaches(head) /\ Sums(Over(head), Said(ctx))
    BY <1>5 DEF Tells, HeadTells
  <2>2. \A i \in DirInos \ WalkedInos : Said(ctx)[i] = {}
    BY NothingElsewhere DEF Tells
  <2>3. Said(ctx) = [i \in DirInos |-> Said(ctx)[i]]
    BY DEF Said
  <2>4. PICK said : said = Said(ctx)
    OBVIOUS
  <2>5. PICK h : h = head
    OBVIOUS
  <2>6. last'.cache = said /\ last'.back.hash = h
    BY <1>3, <1>5, <2>4, <2>5 DEF Back
  <2>7. /\ Reaches(h) /\ Sums(Over(h), said) /\ said = [i \in DirInos |-> said[i]]
        /\ \A i \in DirInos \ WalkedInos : said[i] = {}
    BY <2>1, <2>2, <2>3, <2>4, <2>5
  <2>8. LastTells'
    BY <2>6, <2>7 DEF LastTells
  <2>9. QED
    BY <1>2, <1>3, <2>8, OffTells
<1>6. QED
  BY <1>4, <1>5

-----------------------------------------------------------------------------
(* A dump passes a file, or leaves a directory: the frame above. *)

LEMMA NodesOf ==
  ASSUME NEW fr, NEW S, fr.done \in Seq(S)
  PROVE  /\ Len(fr.done) \in Nat /\ DOMAIN fr.done = 1..Len(fr.done)
         /\ DOMAIN DoneKids(fr) = 1..Len(fr.done) /\ Len(DoneKids(fr)) = Len(fr.done)
         /\ \A k \in 1..Len(fr.done) : DoneKids(fr)[k] = fr.done[k][2]
<1>0. PICK d : d = fr.done /\ d \in Seq(S)
  OBVIOUS
<1>1. PICK l \in Nat : d = fr.done /\ l = Len(d) /\ DOMAIN d = 1..l
  BY <1>0
<1>2. PICK ns : ns = [k \in 1..l |-> d[k][2]]
  OBVIOUS
<1>3. ns = DoneKids(fr)
  BY <1>1, <1>2 DEF DoneKids
<1>4. DOMAIN ns = 1..l /\ Len(ns) = l /\ \A k \in 1..l : ns[k] = d[k][2]
  BY <1>2
<1>5. QED
  BY <1>1, <1>3, <1>4

LEMMA TrailOf ==
  ASSUME NEW st, NEW n \in Nat, Len(st) = n, NEW S, \A k \in 1..n : st[k].done \in Seq(S)
  PROVE  /\ Walk(Trail(st), n + 1) /\ Trail(st)[1] = <<>>
         /\ \A k \in 1..n : Trail(st)[k + 1] = DoneKids(st[k])
<1>1. PICK W : W = Trail(st)
  OBVIOUS
<1>2. DOMAIN W = 1..(n + 1) /\ W[1] = <<>> /\ \A k \in 1..(n + 1) : k # 1 => W[k] = DoneKids(st[k - 1])
  BY <1>1 DEF Trail
<1>3. \A k \in 1..n : k + 1 \in 1..(n + 1) /\ k + 1 # 1 /\ (k + 1) - 1 = k
  OBVIOUS
<1>4. \A k \in 1..n : W[k + 1] = DoneKids(st[k])
  BY <1>2, <1>3
<1>5. ASSUME NEW k \in 1..(n + 1) PROVE Len(W[k]) \in Nat /\ DOMAIN W[k] = 1..Len(W[k])
  <2>1. CASE k = 1
    BY <1>2, <2>1
  <2>2. CASE k # 1
    <3>1. k - 1 \in 1..n /\ W[k] = DoneKids(st[k - 1])
      BY <1>2, <2>2
    <3>2. PICK fr : fr = st[k - 1] /\ fr.done \in Seq(S)
      BY <3>1
    <3>3. QED
      BY <3>1, <3>2, NodesOf
  <2>3. QED
    BY <2>1, <2>2
<1>6. QED
  BY <1>1, <1>2, <1>4, <1>5 DEF Walk

\* The rows that a dump has for a node: one for a file, which will be kept.
RowsFor(node, rows) ==
  \/ node.kind # "REG" /\ rows = {}
  \/ node.kind = "REG" /\ \E r : /\ rows = {r} /\ Fact(node) = <<r.ino, r.ctime, r.oid>>
                                 /\ r.ino = node.ino /\ r.expire >= base

LEMMA FrameDone ==
  ASSUME NEW fr, NEW V, DumpFrame(fr, V), FrameTells(fr), NEW rows, NEW node,
         RowsFor(node, rows),
         Head(fr.todo).name \in Dirs => NodeOf(Head(fr.todo).name, node),
         NEW g, g = ChildDone(fr, rows, node), node \in V, fr.todo # <<>>
  PROVE  /\ FrameTells(g) /\ g.name = fr.name /\ g.done \in Seq(Names \X V)
         /\ OneMore(DoneKids(fr), DoneKids(g), node)
<1>1. PICK x : x = Head(fr.todo).name
  OBVIOUS
<1>2. /\ g.name = fr.name /\ g.old = fr.old /\ g.done = Append(fr.done, <<x, node>>)
      /\ g.new = {e \in fr.new : \A r \in rows : e.ino # r.ino} \cup rows
  BY <1>1 DEF ChildDone, DumpFrame
<1>3. fr.done \in Seq(Names \X V) /\ x \in Names
  <2>1. fr.todo \in Seq([name : Names, ctime : Nat]) /\ fr.done \in Seq(Names \X V)
    BY DEF DumpFrame
  <2>2. Head(fr.todo) \in [name : Names, ctime : Nat]
    BY <2>1, FirstAndRest
  <2>3. QED
    BY <1>1, <2>1, <2>2
<1>14. PICK d, b, S : d = fr.done /\ b = g.done /\ S = Names \X V
  OBVIOUS
<1>4. PICK l \in Nat :
        /\ d = fr.done /\ b = g.done /\ l = Len(d) /\ DOMAIN d = 1..l
        /\ d \in Seq(S) /\ <<x, node>> \in S
  <2>1. d \in Seq(S) /\ <<x, node>> \in S
    BY <1>3, <1>14
  <2>2. QED
    BY <1>14, <2>1
<1>5. /\ b \in Seq(S) /\ Len(b) = l + 1 /\ b[l + 1] = <<x, node>> /\ \A k \in 1..l : b[k] = d[k]
  <2>1. b = Append(d, <<x, node>>)
    BY <1>2, <1>4
  <2>2. QED
    BY <1>4, <2>1, AppendProperties
<1>6. PICK ms, ns : ms = DoneKids(fr) /\ ns = DoneKids(g)
  OBVIOUS
<1>7. DOMAIN ms = 1..l /\ Len(ms) = l /\ \A k \in 1..l : ms[k] = d[k][2]
  BY <1>4, <1>6, NodesOf
<1>8. DOMAIN ns = 1..(l + 1) /\ Len(ns) = l + 1 /\ \A k \in 1..(l + 1) : ns[k] = b[k][2]
  <2>1. g.done \in Seq(S) /\ Len(g.done) = l + 1 /\ g.done = b
    BY <1>4, <1>5
  <2>2. /\ DOMAIN DoneKids(g) = 1..Len(g.done) /\ Len(DoneKids(g)) = Len(g.done)
        /\ \A k \in 1..Len(g.done) : DoneKids(g)[k] = g.done[k][2]
    BY <2>1, NodesOf
  <2>3. QED
    BY <1>6, <2>1, <2>2
<1>9. ns[l + 1] = node /\ \A k \in 1..l : ns[k] = ms[k]
  <2>1. l + 1 \in 1..(l + 1) /\ \A k \in 1..l : k \in 1..(l + 1)
    OBVIOUS
  <2>2. QED
    BY <1>5, <1>7, <1>8, <2>1
<1>10. Facts(g.new) = LastRows(ns) /\ \A e \in g.new : e.expire >= base
  <2>1. Facts(fr.new) = LastRows(ms) /\ \A e \in fr.new : e.expire >= base
    BY <1>6 DEF FrameTells
  <2>2. CASE node.kind # "REG" /\ rows = {}
    <3>1. g.new = fr.new
      BY <1>2, <2>2
    <3>2. LastRows(ns) = LastRows(ms)
      BY <1>7, <1>8, <1>9, <2>2, RowsPassing
    <3>3. QED
      BY <2>1, <3>1, <3>2
  <2>3. CASE node.kind = "REG" /\ \E r : /\ rows = {r} /\ Fact(node) = <<r.ino, r.ctime, r.oid>>
                                        /\ r.ino = node.ino /\ r.expire >= base
    <3>1. PICK r : /\ rows = {r} /\ Fact(node) = <<r.ino, r.ctime, r.oid>>
                   /\ r.ino = node.ino /\ r.expire >= base
      BY <2>3
    <3>2. g.new = {e \in fr.new : e.ino # r.ino} \cup {r}
      BY <1>2, <3>1
    <3>3. Facts(g.new) = {t \in Facts(fr.new) : t[1] # r.ino} \cup {<<r.ino, r.ctime, r.oid>>}
      BY <3>2, FactsAdded
    <3>4. LastRows(ns) = {t \in LastRows(ms) : t[1] # node.ino} \cup {Fact(node)}
      <4>1. DOMAIN ms = 1..l /\ DOMAIN ns = 1..(l + 1) /\ node.kind = "REG"
        BY <1>7, <1>8, <2>3
      <4>2. (\A j \in 1..l : ns[j] = ms[j]) /\ ns[l + 1] = node
        BY <1>9
      <4>3. QED
        BY <4>1, <4>2, RowsPassing
    <3>5. Facts(g.new) = LastRows(ns)
      BY <2>1, <3>1, <3>3, <3>4
    <3>6. \A e \in g.new : e.expire >= base
      BY <2>1, <3>1, <3>2
    <3>7. QED
      BY <3>5, <3>6
  <2>4. QED
    BY <2>2, <2>3 DEF RowsFor
<1>11. EntriesOf(g.done)
  <2>1. EntriesOf(d)
    BY <1>4 DEF FrameTells
  <2>2. DOMAIN b = 1..(l + 1) /\ \A k \in 1..(l + 1) : k \in 1..l \/ k = l + 1
    BY <1>5
  <2>3. x \in Dirs => NodeOf(x, node)
    BY <1>1
  <2>4. EntriesOf(b)
    BY <1>4, <1>5, <2>1, <2>2, <2>3 DEF EntriesOf
  <2>5. QED
    BY <1>4, <2>4
<1>12. FrameTells(g)
  <2>1. (\A e \in fr.old : e.expire >= base) /\ fr.name \in Walked
    BY DEF FrameTells
  <2>2. QED
    BY <1>2, <1>6, <1>10, <1>11, <2>1 DEF FrameTells
<1>13. QED
  BY <1>2, <1>4, <1>5, <1>6, <1>7, <1>8, <1>9, <1>12, <1>14 DEF OneMore

\* A frame takes the place of the innermost one.
LEMMA TopChanged ==
  ASSUME NEW s, s \in Seq(Range(s)), s # <<>>, NEW g
  PROVE  /\ Len(s) \in Nat \ {0}
         /\ \A t : t = [s EXCEPT ![Len(s)] = g] =>
              /\ DOMAIN t = 1..Len(s) /\ Len(t) = Len(s) /\ t[Len(s)] = g
              /\ \A k \in 1..Len(s) : k < Len(s) => t[k] = s[k]
<1>1. PICK n \in Nat \ {0} : n = Len(s) /\ DOMAIN s = 1..n
  OBVIOUS
<1>2. PICK t : t = [s EXCEPT ![n] = g]
  OBVIOUS
<1>3. DOMAIN t = 1..n /\ t[n] = g /\ \A k \in 1..n : k < n => t[k] = s[k]
  BY <1>1, <1>2
<1>4. Len(t) = n
  <2>1. t = [k \in 1..n |-> t[k]]
    BY <1>1, <1>2
  <2>2. QED
    BY <2>1
<1>5. QED
  BY <1>1, <1>2, <1>3, <1>4

\* The frames of a dump.
LEMMA DumpFrames ==
  ASSUME FaithInv, Tells, pc \in {"dump", "read"}
  PROVE  /\ stack \in Seq(Range(stack)) /\ stack # <<>> /\ DOMAIN stack = 1..Len(stack)
         /\ Len(stack) \in Nat \ {0} /\ Top = stack[Len(stack)]
         /\ \A k \in 1..Len(stack) :
              FrameRight(stack[k]) /\ DumpFrame(stack[k], View) /\ FrameTells(stack[k])
         /\ Sums(Trail(stack), Said(ctx)) /\ head = Null
<1>1. stack \in Seq(Range(stack)) /\ stack # <<>>
  BY DEF FaithInv, IInv, TypeOK
<1>2. /\ Len(stack) \in Nat \ {0} /\ DOMAIN stack = 1..Len(stack) /\ Top = stack[Len(stack)]
      /\ \A k \in DOMAIN stack : FrameRight(stack[k]) /\ DumpFrame(stack[k], View)
  BY TopRight DEF FaithInv, AllRight
<1>3. (\A k \in DOMAIN stack : FrameTells(stack[k])) /\ Sums(Trail(stack), Said(ctx))
  BY DEF Tells, DumpTells
<1>4. head = Null
  BY DEF FaithInv, AllRight, HeadRight
<1>5. QED
  BY <1>1, <1>2, <1>3, <1>4

LEMMA TopTells ==
  ASSUME FaithInv, Tells, pc \in {"dump", "read"}
  PROVE  DumpFrame(Top, View) /\ FrameTells(Top)
<1>1. PICK n : n = Len(stack)
  OBVIOUS
<1>2. n \in Nat \ {0} /\ Top = stack[n]
  BY <1>1, DumpFrames
<1>3. \A k \in 1..n : DumpFrame(stack[k], View) /\ FrameTells(stack[k])
  BY <1>1, DumpFrames
<1>4. n \in 1..n
  BY <1>2
<1>5. QED
  BY <1>2, <1>3, <1>4

\* A file or link is passed.
LEMMA PassTells ==
  ASSUME FaithInv, Tells, pc \in {"dump", "read"}, pc' = "dump",
         Top.todo # <<>>, Item.name \notin Dirs, NEW rows, NEW node, node.kind # "DIR",
         RowsFor(node, rows),
         NEW cs, InsertAll(cs), node \in cs, \A c \in cs : c.kind \in {"DIR", "dir"} => c \in View,
         SetTop(ChildDone(Top, rows, node)), UNCHANGED <<ctx, base, head, source, last>>
  PROVE  Tells'
<1>1. PICK s, fr, V : s = stack /\ fr = Top /\ V = View \cup cs
  OBVIOUS
<1>2. PICK n \in Nat \ {0} : n = Len(s)
  BY <1>1, DumpFrames
<1>3. /\ s \in Seq(Range(s)) /\ s # <<>> /\ DOMAIN s = 1..n /\ fr = s[n]
      /\ \A k \in 1..n : DumpFrame(s[k], View) /\ FrameTells(s[k])
      /\ Sums(Trail(s), Said(ctx)) /\ head = Null
  BY <1>1, <1>2, DumpFrames
<1>4. \A k \in 1..n : DumpFrame(s[k], V) /\ s[k].done \in Seq(Names \X V)
  <2>1. SUFFICES ASSUME NEW k \in 1..n PROVE DumpFrame(s[k], V) /\ s[k].done \in Seq(Names \X V)
    OBVIOUS
  <2>2. DumpFrame(s[k], V)
    BY <1>1, <1>3, DumpFrameGrows
  <2>3. QED
    BY <2>2 DEF DumpFrame
<1>5. PICK g : g = ChildDone(fr, rows, node)
  OBVIOUS
<1>6. PICK t : t = stack' /\ DOMAIN t = 1..n /\ Len(t) = n /\ t[n] = g
               /\ \A k \in 1..n : k < n => t[k] = s[k]
  <2>1. stack' = [s EXCEPT ![n] = g]
    BY <1>1, <1>2, <1>5 DEF SetTop
  <2>2. QED
    BY <1>2, <1>3, <2>1, TopChanged
<1>7. FrameTells(g) /\ g.done \in Seq(Names \X V) /\ OneMore(DoneKids(fr), DoneKids(g), node)
  <2>1. DumpFrame(fr, V) /\ FrameTells(fr) /\ node \in V /\ fr.todo # <<>>
    <3>1. n \in 1..n
      OBVIOUS
    <3>2. DumpFrame(fr, V) /\ FrameTells(fr)
      BY <1>3, <1>4, <3>1
    <3>3. node \in V /\ fr.todo # <<>>
      BY <1>1
    <3>4. QED
      BY <3>2, <3>3
  <2>2. Head(fr.todo).name \in Dirs => NodeOf(Head(fr.todo).name, node)
    BY <1>1 DEF Item
  <2>3. QED
    BY <1>5, <2>1, <2>2, FrameDone
<1>8. \A k \in 1..n : k < n \/ k = n
  OBVIOUS
<1>9. \A k \in 1..n : t[k].done \in Seq(Names \X V) /\ FrameTells(t[k])
  BY <1>3, <1>4, <1>6, <1>7, <1>8
<1>10. PICK W, U : W = Trail(s) /\ U = Trail(t)
  OBVIOUS
<1>11. /\ Walk(W, n + 1) /\ W[1] = <<>> /\ \A k \in 1..n : W[k + 1] = DoneKids(s[k])
  BY <1>2, <1>4, <1>10, TrailOf
<1>12. /\ Walk(U, n + 1) /\ U[1] = <<>> /\ \A k \in 1..n : U[k + 1] = DoneKids(t[k])
  <2>1. Len(t) = n /\ \A k \in 1..n : t[k].done \in Seq(Names \X V)
    BY <1>6, <1>9
  <2>2. QED
    BY <1>10, <2>1, TrailOf
<1>13. \A k \in 1..(n + 1) : k < n + 1 => U[k] = W[k]
  <2>1. SUFFICES ASSUME NEW k \in 1..(n + 1), k < n + 1, k # 1 PROVE U[k] = W[k]
    BY <1>11, <1>12
  <2>2. k - 1 \in 1..n /\ k - 1 < n /\ (k - 1) + 1 = k
    BY <2>1
  <2>3. U[(k - 1) + 1] = DoneKids(t[k - 1]) /\ W[(k - 1) + 1] = DoneKids(s[k - 1])
    BY <1>11, <1>12, <2>2
  <2>4. QED
    BY <1>6, <2>2, <2>3
<1>14. PICK m \in Nat \ {0} : m = n + 1
  OBVIOUS
<1>15. U[m] = DoneKids(g) /\ W[m] = DoneKids(fr)
  BY <1>3, <1>6, <1>11, <1>12, <1>14
<1>16. \A a, x : Left(U, a, x) <=> Left(W, a, x)
  <2>1. OneMore(W[m], U[m], node)
    BY <1>7, <1>15
  <2>2. Walk(W, m) /\ Steps(W, U, m, node)
    BY <1>11, <1>12, <1>13, <1>14, <2>1 DEF Steps
  <2>3. QED
    BY <2>2, LeftPassing
<1>17. Sums(Trail(t), Said(ctx))
  BY <1>3, <1>10, <1>16, SumsSame
<1>18. DumpTells'
  <2>1. UNCHANGED base /\ ctx' = ctx
    OBVIOUS
  <2>2. \A k \in DOMAIN t : FrameTells(t[k])'
    BY <1>6, <1>9, <2>1, FrameStaysTold
  <2>3. Sums(Trail(t), Said(ctx)')
    BY <1>17
  <2>4. QED
    BY <1>6, <2>2, <2>3 DEF DumpTells
<1>19. View' \subseteq View \cup cs
  BY Inserted DEF FaithInv, IInv
<1>20. OnlyWalked'
  <2>1. OnlyWalked
    BY DEF Tells
  <2>2. \A c \in cs : /\ c.kind = "DIR" => c.ino \in WalkedInos
                      /\ c.kind = "dir" => EntriesOf(c.entries)
    BY <2>1 DEF OnlyWalked
  <2>3. QED
    BY <1>19, <2>1, <2>2, OnlyWalkedStays
<1>21. HeadTells' /\ LastTells'
  BY HeadStays, LastStays DEF Tells
<1>22. SourceTells'
  BY DEF SourceTells
<1>23. QED
  BY <1>18, <1>20, <1>21, <1>22 DEF Tells

LEMMA ReuseFileTells ==
  ASSUME FaithInv, Tells, ReuseFile
  PROVE  Tells'
<1>1. /\ pc = "dump" /\ pc' = "dump" /\ Top.todo # <<>> /\ Item.name \in Files
      /\ UNCHANGED <<ctx, base, head, source, last>>
  BY DEF ReuseFile
<1>2. PICK e \in Cached :
        LET n == Reg(Item.name, Item.ctime, e.oid) IN
        InsertAll({n}) /\ SetTop(ChildDone(Top, {e}, n))
  BY DEF ReuseFile
<1>3. PICK node : node = Reg(Item.name, Item.ctime, e.oid)
  OBVIOUS
<1>4. e \in Top.old /\ e.ino = Ino[Item.name] /\ e.ctime = Item.ctime
  BY <1>2 DEF Cached
<1>5. node.kind = "REG" /\ e.ino = node.ino /\ Fact(node) = <<e.ino, e.ctime, e.oid>>
  BY <1>3, <1>4 DEF Reg, Fact
<1>6. e.expire >= base
  <2>1. FrameTells(Top)
    BY <1>1, TopTells
  <2>2. QED
    BY <1>4, <2>1 DEF FrameTells
<1>7. Item.name \notin Dirs
  BY <1>1, BackupAssumption DEF BackupAssumption
<1>8. PICK rows, cs : rows = {e} /\ cs = {node}
  OBVIOUS
<1>9. InsertAll(cs) /\ SetTop(ChildDone(Top, rows, node))
  BY <1>2, <1>3, <1>8
<1>10. node \in cs /\ \A c \in cs : c.kind \in {"DIR", "dir"} => c \in View
  BY <1>5, <1>8
<1>11. RowsFor(node, rows)
  BY <1>5, <1>6, <1>8 DEF RowsFor
<1>12. QED
  BY <1>1, <1>5, <1>7, <1>9, <1>10, <1>11, PassTells

LEMMA PlainNodeTells ==
  ASSUME FaithInv, Tells, PlainNode
  PROVE  Tells'
<1>1. /\ pc = "dump" /\ pc' = "dump" /\ Top.todo # <<>> /\ Item.name \in Links
      /\ UNCHANGED <<ctx, base, head, source, last>>
  BY DEF PlainNode
<1>2. PICK node : node = Lnk(Item.name, Item.ctime, live[Item.name].data)
  OBVIOUS
<1>3. PICK rows, cs : rows = {} /\ cs = {node}
  OBVIOUS
<1>4. InsertAll(cs) /\ SetTop(ChildDone(Top, rows, node))
  BY <1>2, <1>3 DEF PlainNode
<1>5. node.kind = "LNK" /\ node.kind # "REG" /\ node.kind # "DIR"
  BY <1>2 DEF Lnk
<1>6. node \in cs /\ \A c \in cs : c.kind \in {"DIR", "dir"} => c \in View
  BY <1>3, <1>5
<1>7. Item.name \notin Dirs
  BY <1>1, BackupAssumption DEF BackupAssumption
<1>8. RowsFor(node, rows)
  BY <1>3, <1>5 DEF RowsFor
<1>9. QED
  BY <1>1, <1>4, <1>5, <1>6, <1>7, <1>8, PassTells

LEMMA FinishFileTells ==
  ASSUME FaithInv, Tells, FinishFile
  PROVE  Tells'
<1>1. PICK data, node : data = FileData(blocks) /\ node = Reg(Item.name, Item.ctime, data)
  OBVIOUS
<1>2. PICK age \in Ages :
        /\ InsertAll({data, node})
        /\ SetTop(ChildDone(Top, {NewRow(Ino[Item.name], Item.ctime, data, age)}, node))
  BY <1>1 DEF FinishFile
<1>3. /\ pc = "read" /\ pc' = "dump" /\ UNCHANGED <<ctx, base, head, source, last>>
  BY DEF FinishFile
<1>4. /\ Top.todo # <<>> /\ Item.name \in Files /\ blocks \in Seq(View)
  BY <1>3 DEF FaithInv, IInv, GoodWalk
<1>5. PICK r : r = NewRow(Ino[Item.name], Item.ctime, data, age)
  OBVIOUS
<1>6. r.ino = Ino[Item.name] /\ r.ctime = Item.ctime /\ r.oid = data /\ r.expire = base + age
  BY <1>5 DEF NewRow
<1>7. r.expire >= base
  BY <1>6, AgesAreTimes DEF FaithInv, IInv, GoodClock
<1>8. node.kind = "REG" /\ r.ino = node.ino /\ Fact(node) = <<r.ino, r.ctime, r.oid>>
  BY <1>1, <1>6 DEF Reg, Fact
<1>9. PICK rows, cs : rows = {r} /\ cs = {data, node}
  OBVIOUS
<1>10. InsertAll(cs) /\ SetTop(ChildDone(Top, rows, node))
  BY <1>2, <1>5, <1>9
<1>11. RowsFor(node, rows)
  BY <1>7, <1>8, <1>9 DEF RowsFor
<1>12. data.kind \in {"DIR", "dir"} => data \in View
  <2>1. PICK bs \in Seq(View) : data = FileData(bs)
    BY <1>1, <1>4
  <2>2. data = Null \/ data = Ind(bs) \/ (bs # <<>> /\ data = bs[1])
    BY <2>1 DEF FileData
  <2>3. bs # <<>> => bs[1] \in View
    BY <2>1
  <2>4. QED
    BY <2>2, <2>3 DEF Null, Ind
<1>13. node \in cs /\ \A c \in cs : c.kind \in {"DIR", "dir"} => c \in View
  BY <1>8, <1>9, <1>12
<1>14. Item.name \notin Dirs
  BY <1>4, BackupAssumption DEF BackupAssumption
<1>15. QED
  BY <1>3, <1>4, <1>8, <1>10, <1>11, <1>13, <1>14, PassTells

-----------------------------------------------------------------------------
(* A dump begins, goes into a directory, reads a file. *)

\* What becomes of the tables is known, and what is inserted is no directory.
LEMMA GoesOnTells ==
  ASSUME Tells, NEW cs, View' \subseteq View \cup cs,
         \A c \in cs : c.kind \in {"DIR", "dir"} => c \in View,
         DumpTells', HeadTells', SourceTells', UNCHANGED last
  PROVE  Tells'
<1>1. OnlyWalked /\ LastTells
  BY DEF Tells
<1>2. \A c \in cs : /\ c.kind = "DIR" => c.ino \in WalkedInos
                    /\ c.kind = "dir" => EntriesOf(c.entries)
  BY <1>1 DEF OnlyWalked
<1>3. OnlyWalked' /\ LastTells'
  BY <1>1, <1>2, OnlyWalkedStays, LastStays
<1>4. QED
  BY <1>3 DEF Tells

LEMMA OpenFileTells ==
  ASSUME Tells, OpenFile
  PROVE  Tells'
<1>1. /\ pc = "dump" /\ pc' = "read"
      /\ UNCHANGED <<poolVars, ctx, base, stack, head, source, last>>
  BY DEF OpenFile
<1>2. DumpTells' /\ HeadTells'
  BY <1>1, DumpStays, HeadStays DEF Tells
<1>3. SourceTells'
  BY <1>1 DEF SourceTells
<1>4. PICK cs : cs = {} /\ View' \subseteq View \cup cs
  BY <1>1 DEF View, poolVars
<1>5. QED
  BY <1>1, <1>2, <1>3, <1>4, GoesOnTells

LEMMA ReadBlockTells ==
  ASSUME FaithInv, Tells, ReadBlock
  PROVE  Tells'
<1>1. PICK b : InsertAll({Blob(b)})
  BY DEF ReadBlock
<1>2. /\ pc = "read" /\ pc' = "read"
      /\ UNCHANGED <<ctx, base, stack, head, source, last>>
  BY DEF ReadBlock
<1>3. DumpTells' /\ HeadTells'
  BY <1>2, DumpStays, HeadStays DEF Tells
<1>4. SourceTells'
  BY <1>2 DEF SourceTells
<1>5. PICK cs : cs = {Blob(b)} /\ View' \subseteq View \cup cs
  BY <1>1, Inserted DEF FaithInv, IInv
<1>6. \A c \in cs : c.kind \in {"DIR", "dir"} => c \in View
  BY <1>5 DEF Blob
<1>7. QED
  BY <1>2, <1>3, <1>4, <1>5, <1>6, GoesOnTells

\* The frame of a directory that is entered.
LEMMA FrameBegins ==
  ASSUME NEW d \in Walked, NEW t, NEW g, g = Frame(d, t)
  PROVE  /\ Facts(g.new) = LastRows(DoneKids(g))
         /\ \A e \in g.old \cup g.new : e.expire >= t
         /\ g.name \in Walked /\ EntriesOf(g.done) /\ DOMAIN DoneKids(g) = {}
<1>1. g.name = d /\ g.old = GetDir(Ino[d], t) /\ g.new = {} /\ g.done = <<>>
  BY DEF Frame
<1>2. DOMAIN g.done = {}
  BY <1>1
<1>3. DOMAIN DoneKids(g) = {}
  BY <1>2 DEF DoneKids
<1>4. Facts(g.new) = {}
  BY <1>1 DEF Facts
<1>5. Facts(g.new) = LastRows(DoneKids(g))
  BY <1>3, <1>4, RowsNone
<1>6. \A e \in g.old \cup g.new : e.expire >= t
  BY <1>1 DEF GetDir
<1>7. QED
  BY <1>1, <1>2, <1>3, <1>5, <1>6 DEF EntriesOf

LEMMA BackupTells ==
  ASSUME FaithInv, Tells, Backup
  PROVE  Tells'
<1>1. PICK g, t : g = Frame(Root, clock) /\ t = <<g>>
  OBVIOUS
<1>2. /\ pc = "idle" /\ pc' = "dump" /\ base' = clock /\ stack' = t
      /\ UNCHANGED <<poolVars, ctx, head, source, last>>
  BY <1>1 DEF Backup
<1>3. /\ Facts(g.new) = LastRows(DoneKids(g)) /\ \A e \in g.old \cup g.new : e.expire >= clock
      /\ g.name \in Walked /\ EntriesOf(g.done) /\ DOMAIN DoneKids(g) = {}
  BY <1>1, RootWalked, FrameBegins
<1>4. FrameTells(g)'
  BY <1>2, <1>3 DEF FrameTells
<1>5. DOMAIN t = {1} /\ Len(t) = 1 /\ t[1] = g
  BY <1>1
<1>6. \A k \in DOMAIN t : FrameTells(t[k])'
  BY <1>4, <1>5
<1>7. PICK W : W = Trail(t)
  OBVIOUS
<1>8. \A k \in DOMAIN W : DOMAIN W[k] = {}
  <2>1. DOMAIN W = 1..2 /\ \A k \in 1..2 : W[k] = IF k = 1 THEN <<>> ELSE DoneKids(t[k - 1])
    BY <1>5, <1>7 DEF Trail
  <2>2. W[1] = <<>> /\ W[2] = DoneKids(g)
    BY <1>5, <2>1
  <2>3. \A k \in 1..2 : k = 1 \/ k = 2
    OBVIOUS
  <2>4. QED
    BY <1>3, <2>1, <2>2, <2>3
<1>9. Sums(Trail(t), Said(ctx)')
  BY <1>7, <1>8, SumsNothing
<1>10. DumpTells'
  BY <1>2, <1>6, <1>9 DEF DumpTells
<1>11. HeadTells' /\ SourceTells'
  BY <1>2, HeadStays DEF Tells, SourceTells
<1>12. PICK cs : cs = {} /\ View' \subseteq View \cup cs
  BY <1>2 DEF View, poolVars
<1>13. QED
  BY <1>2, <1>10, <1>11, <1>12, GoesOnTells

LEMMA EnterDirTells ==
  ASSUME FaithInv, Tells, EnterDir
  PROVE  Tells'
<1>1. PICK d, g : d = Item.name /\ g = Frame(d, base)
  OBVIOUS
<1>2. /\ pc = "dump" /\ pc' = "dump" /\ Top.todo # <<>> /\ d \in Dirs
      /\ stack' = Append(stack, g) /\ UNCHANGED <<poolVars, ctx, base, head, source, last>>
  BY <1>1 DEF EnterDir
<1>3. d \in Walked
  <2>1. /\ Top.name \in Dirs /\ d \in Range(Children[Top.name]) /\ d \in TodoNames(Top)
        /\ FrameRight(Top)
    BY <1>1, <1>2, TopRight DEF FaithInv, AllRight
  <2>2. Top.name \notin Foreign
    BY <2>1 DEF FrameRight, NamesComplete
  <2>3. Top.name \in Walked
    BY <1>2, TopTells DEF FrameTells
  <2>4. QED
    BY <1>2, <2>1, <2>2, <2>3, ChildWalked
<1>4. /\ FrameTells(g) /\ DOMAIN DoneKids(g) = {}
  BY <1>1, <1>3, FrameBegins DEF FrameTells
<1>5. g.done \in Seq(Names \X View)
  BY <1>1, <1>2, GoodFrame DEF FaithInv, DumpFrame
<1>6. PICK s, n : s = stack /\ n = Len(s)
  OBVIOUS
<1>7. /\ s \in Seq(Range(s)) /\ n \in Nat \ {0} /\ DOMAIN s = 1..n
      /\ \A k \in 1..n : DumpFrame(s[k], View) /\ FrameTells(s[k])
      /\ Sums(Trail(s), Said(ctx)) /\ head = Null
  BY <1>2, <1>6, DumpFrames
<1>8. PICK t : t = stack' /\ DOMAIN t = 1..(n + 1) /\ Len(t) = n + 1 /\ t[n + 1] = g
               /\ \A k \in 1..n : t[k] = s[k]
  <2>1. PICK t : t = Append(s, g) /\ t = stack'
    BY <1>2, <1>6
  <2>2. /\ Append(s, g) \in Seq(Range(Append(s, g))) /\ Last(Append(s, g)) = g
        /\ Len(Append(s, g)) = Len(s) + 1 /\ \A k \in 1..Len(s) : Append(s, g)[k] = s[k]
    BY <1>7, Pushed
  <2>3. t \in Seq(Range(t)) /\ Last(t) = g /\ Len(t) = n + 1 /\ \A k \in 1..n : t[k] = s[k]
    BY <1>6, <2>1, <2>2
  <2>4. QED
    BY <2>1, <2>3 DEF Last
<1>9. \A k \in 1..(n + 1) : k \in 1..n \/ k = n + 1
  BY <1>7
<1>10. \A k \in 1..n : s[k].done \in Seq(Names \X View)
  BY <1>7 DEF DumpFrame
<1>11. \A k \in 1..(n + 1) : t[k].done \in Seq(Names \X View) /\ FrameTells(t[k])
  BY <1>4, <1>5, <1>7, <1>8, <1>9, <1>10
<1>12. PICK m \in Nat : m = n + 1
  BY <1>7
<1>13. PICK W, U : W = Trail(s) /\ U = Trail(t)
  OBVIOUS
<1>14. Walk(W, m) /\ W[1] = <<>> /\ \A k \in 1..n : W[k + 1] = DoneKids(s[k])
  <2>1. n \in Nat /\ Len(s) = n
    BY <1>6, <1>7
  <2>2. QED
    BY <1>10, <1>12, <1>13, <2>1, TrailOf
<1>15. Walk(U, m + 1) /\ U[1] = <<>> /\ \A k \in 1..m : U[k + 1] = DoneKids(t[k])
  <2>1. Len(t) = m /\ \A k \in 1..m : t[k].done \in Seq(Names \X View)
    BY <1>8, <1>11, <1>12
  <2>2. QED
    BY <1>13, <2>1, TrailOf
<1>16. \A k \in 1..m : U[k] = W[k]
  <2>1. SUFFICES ASSUME NEW k \in 1..m, k # 1 PROVE U[k] = W[k]
    BY <1>14, <1>15
  <2>2. k - 1 \in 1..n /\ k - 1 \in 1..m /\ (k - 1) + 1 = k
    BY <1>7, <1>12, <2>1
  <2>3. U[(k - 1) + 1] = DoneKids(t[k - 1]) /\ W[(k - 1) + 1] = DoneKids(s[k - 1])
    BY <1>14, <1>15, <2>2
  <2>4. QED
    BY <1>8, <2>2, <2>3
<1>17. DOMAIN U[m + 1] = {}
  <2>1. m \in 1..m /\ t[m] = g
    BY <1>7, <1>8, <1>12
  <2>2. QED
    BY <1>4, <1>15, <2>1
<1>18. \A a, x : Left(U, a, x) <=> Left(W, a, x)
  BY <1>14, <1>15, <1>16, <1>17, LeftEntering
<1>19. Sums(Trail(t), Said(ctx)')
  BY <1>2, <1>7, <1>13, <1>18, SumsSame
<1>20. DumpTells'
  <2>1. \A k \in DOMAIN t : FrameTells(t[k])'
    BY <1>2, <1>8, <1>11, FrameStaysTold
  <2>2. QED
    BY <1>8, <1>19, <2>1 DEF DumpTells
<1>21. HeadTells' /\ SourceTells'
  BY <1>2, HeadStays DEF Tells, SourceTells
<1>22. PICK cs : cs = {} /\ View' \subseteq View \cup cs
  BY <1>2 DEF View, poolVars
<1>23. QED
  BY <1>2, <1>20, <1>21, <1>22, GoesOnTells

-----------------------------------------------------------------------------
(* A dump leaves a directory. *)

\* UpdateDir, when all rows will be kept.
LEMMA Written ==
  ASSUME DOMAIN ctx = DirInos, NEW i \in DirInos, NEW es, UpdateDir(i, es),
         \A e \in es : e.expire >= base
  PROVE  /\ Said(ctx)'[i] = Facts(es)
         /\ \A j \in DirInos : j # i => Said(ctx)'[j] = Said(ctx)[j]
<1>1. {e \in es : e.expire >= base} = es
  OBVIOUS
<1>2. ctx' = [ctx EXCEPT ![i] = es]
  BY <1>1 DEF UpdateDir
<1>3. ctx'[i] = es /\ \A j \in DirInos : j # i => ctx'[j] = ctx[j]
  BY <1>2
<1>4. QED
  BY <1>3 DEF Said, Facts

LEMMA KidsOf ==
  ASSUME NEW fr, NEW i, NEW x, x = DirNode(i, DirData(fr.done))
  PROVE  /\ x.kind = "DIR" /\ x.ino = i
         /\ Entries(x.children) = fr.done /\ Kids(x) = DoneKids(fr)
         /\ DirData(fr.done).kind = "dir" => DirData(fr.done).entries = fr.done
<1>1. x.kind = "DIR" /\ x.ino = i /\ x.children = DirData(fr.done)
  BY DEF DirNode
<1>2. CASE fr.done = <<>>
  <2>1. DirData(fr.done) = Null /\ Null.kind = "null"
    BY <1>2 DEF DirData, Null
  <2>2. Entries(Null) = <<>>
    BY DEF Entries
  <2>3. Entries(x.children) = fr.done
    BY <1>1, <1>2, <2>1, <2>2
  <2>4. QED
    BY <1>1, <2>1, <2>3 DEF Kids, DoneKids
<1>3. CASE fr.done # <<>>
  <2>1. DirData(fr.done) = Listing(fr.done)
    BY <1>3 DEF DirData
  <2>2. Listing(fr.done).kind = "dir" /\ Listing(fr.done).entries = fr.done /\ Null.kind = "null"
    BY DEF Listing, Null
  <2>3. Listing(fr.done) # Null
    BY <2>2
  <2>4. Entries(x.children) = fr.done
    BY <1>1, <2>1, <2>2, <2>3 DEF Entries
  <2>5. QED
    BY <1>1, <2>1, <2>2, <2>4 DEF Kids, DoneKids
<1>4. QED
  BY <1>2, <1>3

\* The node of a directory in which nothing is left to do.
LEMMA NodeDone ==
  ASSUME NEW fr, NEW V, DumpFrame(fr, V), FrameRight(fr), fr.todo = <<>>, NEW x,
         x = DirNode(fr.ino, DirData(fr.done))
  PROVE  NodeOf(fr.name, x)
<1>1. x.kind = "DIR" /\ x.ino = fr.ino /\ Entries(x.children) = fr.done
  BY KidsOf
<1>2. fr.ino = Ino[fr.name]
  BY DEF DumpFrame
<1>3. TodoNames(fr) = {}
  BY DEF TodoNames
<1>4. ASSUME fr.name \notin Foreign, NEW y \in Range(Children[fr.name]) \cap Dirs
      PROVE  \E k \in DOMAIN fr.done : fr.done[k][1] = y
  <2>1. y \in TodoNames(fr) \cup DoneNames(fr)
    BY <1>4 DEF FrameRight, NamesComplete
  <2>2. QED
    BY <1>3, <2>1 DEF DoneNames
<1>5. QED
  BY <1>1, <1>2, <1>4 DEF NodeOf

LEMMA LeaveDirTells ==
  ASSUME FaithInv, Tells, LeaveDir
  PROVE  Tells'
<1>1. PICK s, n, rest, fr : s = stack /\ n = Len(s) /\ rest = Front(s) /\ fr = Top
  OBVIOUS
<1>2. PICK list, node : list = DirData(fr.done) /\ node = DirNode(fr.ino, list)
  OBVIOUS
<1>3. /\ pc = "dump" /\ fr.todo = <<>> /\ InsertAll({list, node}) /\ UpdateDir(fr.ino, fr.new)
      /\ IF rest = <<>>
           THEN pc' = "back" /\ head' = node /\ stack' = <<>>
           ELSE /\ stack' = [rest EXCEPT ![Len(rest)] = ChildDone(@, {}, node)]
                /\ UNCHANGED <<pc, head>>
      /\ UNCHANGED <<base, source, last>>
  BY <1>1, <1>2 DEF LeaveDir
<1>4. /\ s \in Seq(Range(s)) /\ s # <<>> /\ n \in Nat \ {0} /\ DOMAIN s = 1..n /\ fr = s[n]
      /\ \A k \in 1..n : FrameRight(s[k]) /\ DumpFrame(s[k], View) /\ FrameTells(s[k])
      /\ Sums(Trail(s), Said(ctx)) /\ head = Null
  BY <1>1, <1>3, DumpFrames
<1>5. FrameRight(fr) /\ DumpFrame(fr, View) /\ FrameTells(fr)
  <2>1. n \in 1..n
    BY <1>4
  <2>2. QED
    BY <1>4, <2>1
<1>6. /\ node.kind = "DIR" /\ node.ino = fr.ino /\ Kids(node) = DoneKids(fr)
      /\ list.kind = "dir" => list.entries = fr.done
  BY <1>2, KidsOf
<1>7. NodeOf(fr.name, node)
  BY <1>2, <1>3, <1>5, NodeDone
<1>8. /\ fr.name \in Walked /\ EntriesOf(fr.done) /\ Facts(fr.new) = LastRows(DoneKids(fr))
      /\ \A e \in fr.new : e.expire >= base
  BY <1>5 DEF FrameTells
<1>9. fr.ino = Ino[fr.name] /\ fr.ino \in WalkedInos /\ fr.ino \in DirInos
  BY <1>5, <1>8 DEF DumpFrame, WalkedInos, DirInos
<1>10. /\ Said(ctx)'[node.ino] = LastRows(Kids(node))
       /\ \A j \in DirInos : j # node.ino => Said(ctx)'[j] = Said(ctx)[j]
  <2>1. DOMAIN ctx = DirInos
    BY DEF FaithInv, IInv, TypeOK
  <2>2. /\ Said(ctx)'[fr.ino] = Facts(fr.new)
        /\ \A j \in DirInos : j # fr.ino => Said(ctx)'[j] = Said(ctx)[j]
    BY <1>3, <1>8, <1>9, <2>1, Written
  <2>3. QED
    BY <1>6, <1>8, <2>2
<1>11. PICK cs : cs = {list, node}
  OBVIOUS
<1>12. View' = View \cup cs
  BY <1>3, <1>11, Inserted DEF FaithInv, IInv
<1>13. OnlyWalked' /\ LastTells'
  <2>1. \A c \in cs : /\ c.kind = "DIR" => c.ino \in WalkedInos
                      /\ c.kind = "dir" => EntriesOf(c.entries)
    <3>1. list.kind # "DIR"
      BY <1>2 DEF DirData, Null, Listing
    <3>2. list.kind = "dir" => EntriesOf(list.entries)
      BY <1>6, <1>8
    <3>3. QED
      BY <1>6, <1>9, <1>11, <3>1, <3>2
  <2>2. OnlyWalked'
    BY <1>12, <2>1, OnlyWalkedStays DEF Tells
  <2>3. QED
    BY <1>3, <2>2, LastStays DEF Tells
<1>14. \A k \in 1..n : s[k].done \in Seq(Names \X View)
  BY <1>4 DEF DumpFrame
<1>15. PICK W : W = Trail(s)
  OBVIOUS
<1>16. Walk(W, n + 1) /\ W[1] = <<>> /\ \A k \in 1..n : W[k + 1] = DoneKids(s[k])
  <2>1. n \in Nat /\ Len(s) = n
    BY <1>1, <1>4
  <2>2. QED
    BY <1>14, <1>15, <2>1, TrailOf
<1>17. Kids(node) = W[n + 1]
  <2>1. n \in 1..n
    BY <1>4
  <2>2. QED
    BY <1>4, <1>6, <1>16, <2>1
<1>18. ASSUME NEW V, Steps(W, V, n, node) PROVE Sums(V, Said(ctx)')
  <2>1. PICK p \in Seq(Nat) : Adds(W, V, node, p)
    <3>1. n \in Nat \ {0} /\ Walk(W, n + 1) /\ SameNodes(Kids(node), W[n + 1])
      BY <1>4, <1>16, <1>17 DEF SameNodes
    <3>2. QED
      BY <1>6, <1>18, <3>1, LeftLeaving
  <2>2. PICK said, said2 : said = Said(ctx) /\ said2 = Said(ctx)'
    OBVIOUS
  <2>3. Sums(W, said) /\ WritesRows(said, said2, node.ino, LastRows(Kids(node)))
    BY <1>4, <1>10, <1>15, <2>2 DEF WritesRows
  <2>4. Sums(V, said2)
    BY <2>1, <2>3, SumsLeaving
  <2>5. QED
    BY <2>2, <2>4
<1>19. CASE rest = <<>>
  <2>1. pc' = "back" /\ head' = node
    BY <1>3, <1>19
  <2>2. n = 1
    BY <1>1, <1>4, <1>19, Popped
  <2>3. fr.name = Root
    BY <1>1, <1>3, <1>4, <2>2 DEF FaithInv, AllRight, WalkRight
  <2>4. Reaches(node)
    <3>1. PICK V : V = View'
      OBVIOUS
    <3>2. \A c \in V : WellMade(c, V)
      <4>1. IInv'
        BY LeaveDirStep DEF FaithInv
      <4>2. QED
        BY <3>1, <4>1 DEF IInv, GoodPool
    <3>3. \A l \in V : l.kind = "dir" => EntriesOf(l.entries)
      BY <1>13, <3>1 DEF OnlyWalked
    <3>4. node \in V /\ NodeOf(Root, node)
      BY <1>7, <1>11, <1>12, <2>3, <3>1
    <3>5. QED
      BY <3>2, <3>3, <3>4, RootReaches
  <2>5. Sums(Over(node), Said(ctx)')
    <3>1. PICK V : V = Over(node)
      OBVIOUS
    <3>2. DOMAIN V = 1..1 /\ Len(V[1]) = 1 /\ DOMAIN V[1] = 1..1 /\ V[1][1] = node
      BY <3>1 DEF Over
    <3>3. Walk(V, n)
      BY <2>2, <3>2 DEF Walk
    <3>4. Len(W[1]) = 0
      BY <1>16
    <3>5. Steps(W, V, n, node)
      BY <2>2, <3>2, <3>3, <3>4 DEF Steps, OneMore
    <3>6. QED
      BY <1>18, <3>1, <3>5
  <2>6. HeadTells'
    BY <2>1, <2>4, <2>5 DEF HeadTells
  <2>7. DumpTells' /\ SourceTells'
    BY <2>1 DEF DumpTells, SourceTells
  <2>8. QED
    BY <1>13, <2>6, <2>7 DEF Tells
<1>20. CASE rest # <<>>
  <2>1. /\ rest \in Seq(Range(rest)) /\ Len(rest) = n - 1 /\ n # 1 /\ \A k \in 1..(n - 1) : rest[k] = s[k]
    BY <1>1, <1>4, <1>20, Popped
  <2>2. PICK m \in Nat \ {0} : m = n - 1 /\ n = m + 1 /\ Len(rest) = m
    BY <1>4, <2>1
  <2>3. PICK up : up = rest[m]
    OBVIOUS
  <2>4. up = s[m] /\ m \in 1..n /\ m < n /\ n \in 1..n
    <3>1. m \in 1..n /\ m < n /\ n \in 1..n /\ m \in 1..(n - 1)
      BY <2>2
    <3>2. QED
      BY <2>1, <2>3, <3>1
  <2>5. Head(up.todo).name = fr.name
    <3>1. \A k \in DOMAIN s : k < Len(s) => Head(s[k].todo).name = s[k + 1].name
      BY <1>1, <1>3 DEF FaithInv, AllRight, WalkRight
    <3>2. QED
      BY <1>1, <1>4, <2>2, <2>4, <3>1
  <2>6. up.todo # <<>>
    <3>1. \A k \in 1..(Len(stack) - 1) : stack[k].todo # <<>>
      BY <1>3 DEF FaithInv, IInv, GoodWalk
    <3>2. QED
      BY <1>1, <2>2, <2>4, <3>1
  <2>7. PICK rows, V : rows = {} /\ V = View \cup cs
    OBVIOUS
  <2>8. PICK g : g = ChildDone(up, rows, node)
    OBVIOUS
  <2>9. \A k \in 1..n : DumpFrame(s[k], V) /\ s[k].done \in Seq(Names \X V)
    <3>1. SUFFICES ASSUME NEW k \in 1..n PROVE DumpFrame(s[k], V) /\ s[k].done \in Seq(Names \X V)
      OBVIOUS
    <3>2. DumpFrame(s[k], V)
      BY <1>4, <2>7, DumpFrameGrows
    <3>3. QED
      BY <3>2 DEF DumpFrame
  <2>10. FrameTells(g) /\ g.done \in Seq(Names \X V) /\ OneMore(DoneKids(up), DoneKids(g), node)
    <3>1. RowsFor(node, rows)
      BY <1>6, <2>7 DEF RowsFor
    <3>2. DumpFrame(up, V) /\ FrameTells(up) /\ up.todo # <<>> /\ node \in V
      BY <1>4, <1>11, <2>4, <2>6, <2>7, <2>9
    <3>3. Head(up.todo).name \in Dirs => NodeOf(Head(up.todo).name, node)
      BY <1>7, <2>5
    <3>4. QED
      BY <2>8, <3>1, <3>2, <3>3, FrameDone
  <2>11. PICK t : t = stack' /\ DOMAIN t = 1..m /\ Len(t) = m /\ t[m] = g
                  /\ \A k \in 1..m : k < m => t[k] = s[k]
    <3>1. stack' = [rest EXCEPT ![m] = g]
      BY <1>3, <1>20, <2>2, <2>3, <2>7, <2>8
    <3>2. PICK t : t = [rest EXCEPT ![m] = g] /\ t = stack'
      BY <3>1
    <3>3. rest \in Seq(Range(rest)) /\ rest # <<>> /\ t = [rest EXCEPT ![Len(rest)] = g]
      BY <1>20, <2>1, <2>2, <3>2
    <3>4. /\ DOMAIN t = 1..Len(rest) /\ Len(t) = Len(rest) /\ t[Len(rest)] = g
          /\ \A k \in 1..Len(rest) : k < Len(rest) => t[k] = rest[k]
      BY ONLY <3>3, TopChanged
    <3>5. DOMAIN t = 1..m /\ Len(t) = m /\ t[m] = g /\ \A k \in 1..m : k < m => t[k] = rest[k]
      BY <2>2, <3>4
    <3>6. \A k \in 1..m : k < m => k \in 1..(n - 1)
      BY <2>2
    <3>7. \A k \in 1..m : k < m => t[k] = s[k]
      BY <2>1, <3>5, <3>6
    <3>8. QED
      BY <3>2, <3>5, <3>7
  <2>12. \A k \in 1..m : (k < m \/ k = m) /\ k \in 1..n
    BY <2>2
  <2>13. \A k \in 1..m : t[k].done \in Seq(Names \X V) /\ FrameTells(t[k])
    BY <1>4, <2>9, <2>10, <2>11, <2>12
  <2>14. PICK U : U = Trail(t)
    OBVIOUS
  <2>15. Walk(U, n) /\ U[1] = <<>> /\ \A k \in 1..m : U[k + 1] = DoneKids(t[k])
    <3>1. m \in Nat /\ Len(t) = m /\ \A k \in 1..m : t[k].done \in Seq(Names \X V)
      BY <2>11, <2>13
    <3>2. QED
      BY <2>2, <2>14, <3>1, TrailOf
  <2>16. U[n] = DoneKids(g) /\ W[n] = DoneKids(up)
    <3>1. m \in 1..m
      OBVIOUS
    <3>2. QED
      BY <1>16, <2>2, <2>4, <2>11, <2>15, <3>1
  <2>17. \A k \in 1..n : k < n => U[k] = W[k]
    <3>1. SUFFICES ASSUME NEW k \in 1..n, k < n, k # 1 PROVE U[k] = W[k]
      BY <1>16, <2>15
    <3>2. k - 1 \in 1..m /\ k - 1 < m /\ k - 1 \in 1..n /\ (k - 1) + 1 = k
      BY <2>2, <3>1
    <3>3. U[(k - 1) + 1] = DoneKids(t[k - 1]) /\ W[(k - 1) + 1] = DoneKids(s[k - 1])
      BY <1>16, <2>15, <3>2
    <3>4. QED
      BY <2>11, <3>2, <3>3
  <2>18. Sums(U, Said(ctx)')
    <3>1. Steps(W, U, n, node)
      BY <2>10, <2>15, <2>16, <2>17 DEF Steps
    <3>2. QED
      BY <1>18, <3>1
  <2>19. pc' = "dump" /\ head' = head
    BY <1>3, <1>20
  <2>20. DumpTells'
    <3>1. \A k \in DOMAIN t : FrameTells(t[k])'
      BY <1>3, <2>11, <2>13, FrameStaysTold
    <3>2. QED
      BY <2>11, <2>14, <2>18, <3>1 DEF DumpTells
  <2>21. HeadTells' /\ SourceTells'
    <3>1. Null' = Null
      BY DEF Null
    <3>2. QED
      BY <1>4, <2>19, <3>1 DEF HeadTells, SourceTells
  <2>22. QED
    BY <1>13, <2>20, <2>21 DEF Tells
<1>21. QED
  BY <1>19, <1>20


-----------------------------------------------------------------------------
(* A regeneration meets a node. *)

\* A walk that goes one node further in its n-th directory.
LEMMA CanStep ==
  ASSUME NEW n \in Nat \ {0}, NEW m \in {n, n + 1}, NEW W, Walk(W, m), NEW x
  PROVE  \E V : Steps(W, V, n, x)
<1>1. n \in 1..n /\ \A k \in 1..n : k \in 1..m
  OBVIOUS
<1>2. PICK l \in Nat : l = Len(W[n]) /\ DOMAIN W[n] = 1..l
  BY <1>1 DEF Walk
<1>3. PICK ms : ms = [j \in 1..(l + 1) |-> IF j = l + 1 THEN x ELSE W[n][j]]
  OBVIOUS
<1>4. DOMAIN ms = 1..(l + 1) /\ Len(ms) = l + 1 /\ OneMore(W[n], ms, x)
  BY <1>2, <1>3 DEF OneMore
<1>5. PICK V : V = [k \in 1..n |-> IF k = n THEN ms ELSE W[k]]
  OBVIOUS
<1>6. DOMAIN V = 1..n /\ V[n] = ms /\ \A k \in 1..n : k < n => V[k] = W[k]
  BY <1>1, <1>5
<1>7. Walk(V, n)
  <2>1. \A k \in 1..n : k < n \/ k = n
    OBVIOUS
  <2>2. QED
    BY <1>1, <1>4, <1>6, <2>1 DEF Walk
<1>8. QED
  BY <1>4, <1>6, <1>7 DEF Steps

LEMMA RowsSame ==
  ASSUME NEW ms, NEW ns, SameNodes(ms, ns)
  PROVE  LastRows(ms) = LastRows(ns)
<1>1. LastOnes(ms) = LastOnes(ns)
  BY DEF SameNodes, LastOnes
<1>2. \A k \in LastOnes(ns) : ms[k] = ns[k]
  BY DEF SameNodes, LastOnes
<1>3. QED
  BY <1>1, <1>2 DEF LastRows

\* What is next in a directory.
LEMMA NextMet ==
  ASSUME NEW fr, NEW S, fr.todo \in Seq(S), fr.todo # <<>>, NEW g, g.todo = Tail(fr.todo)
  PROVE  /\ Len(g.todo) \in Nat /\ Len(fr.todo) = Len(g.todo) + 1
         /\ \A j \in 1..Len(g.todo) : g.todo[j] = fr.todo[j + 1]
         /\ Head(fr.todo) = fr.todo[1]
<1>1. PICK s, t : s = fr.todo /\ t = g.todo /\ t = Tail(s) /\ s \in Seq(S) /\ s # <<>>
  OBVIOUS
<1>2. Len(t) \in Nat /\ Len(s) = Len(t) + 1 /\ \A j \in 1..Len(t) : t[j] = s[j + 1]
  <2>1. Len(t) = Len(s) - 1 /\ \A j \in 1..Len(t) : t[j] = s[j + 1]
    BY <1>1, HeadTailProperties
  <2>2. Len(s) \in Nat \ {0}
    BY <1>1
  <2>3. QED
    BY <2>1, <2>2
<1>3. Head(s) = s[1]
  BY <1>1
<1>4. QED
  BY <1>1, <1>2, <1>3

\* A file or link of the directory is passed.
LEMMA KidPassed ==
  ASSUME NEW fr, NEW S, fr.todo \in Seq(S), fr.todo # <<>>, NEW g, g.todo = Tail(fr.todo),
         g.ino = fr.ino, NEW d, NEW ns, Len(ns) \in Nat, RegenTells(fr, d, ns, <<>>),
         NEW x, x = Head(fr.todo)[2], NEW ms, OneMore(ns, ms, x), Facts(g.new) = LastRows(ms)
  PROVE  RegenTells(g, d, ms, <<>>)
<1>1. PICK l \in Nat, m \in Nat : l = Len(ns) /\ m = Len(g.todo)
  BY NextMet
<1>2. Len(fr.todo) = m + 1 /\ (\A j \in 1..m : g.todo[j] = fr.todo[j + 1]) /\ x = fr.todo[1][2]
  BY <1>1, NextMet
<1>3. Len(ms) = l + 1 /\ ms[l + 1] = x /\ \A j \in 1..l : ms[j] = ns[j]
  BY <1>1 DEF OneMore
<1>4. PICK k : k = Kids(d)
  OBVIOUS
<1>5. /\ d.kind = "DIR" /\ d.ino = fr.ino /\ DOMAIN k = 1..(l + (m + 1))
      /\ \A j \in 1..l : k[j] = ns[j]
      /\ \A j \in 1..(m + 1) : k[l + j] = fr.todo[j][2]
  BY <1>1, <1>2, <1>4 DEF RegenTells
<1>6. \A j \in 1..(l + 1) : k[j] = ms[j]
  <2>1. \A j \in 1..(l + 1) : j \in 1..l \/ (j = l + 1 /\ 1 \in 1..(m + 1))
    OBVIOUS
  <2>2. QED
    BY <1>2, <1>3, <1>5, <2>1
<1>7. \A j \in 1..m : k[(l + 1) + j] = g.todo[j][2]
  <2>1. \A j \in 1..m : j + 1 \in 1..(m + 1) /\ (l + 1) + j = l + (j + 1)
    OBVIOUS
  <2>2. QED
    BY <1>2, <1>5, <2>1
<1>8. PICK none : none = <<>> /\ Len(none) = 0
  OBVIOUS
<1>9. /\ DOMAIN k = 1..((Len(ms) + Len(none)) + Len(g.todo))
      /\ \A j \in 1..Len(none) : k[Len(ms) + j] = none[j]
      /\ \A j \in 1..Len(g.todo) : k[(Len(ms) + Len(none)) + j] = g.todo[j][2]
  <2>1. Len(ms) = l + 1 /\ Len(none) = 0 /\ Len(g.todo) = m /\ (l + 1) + 0 = l + 1
    BY <1>1, <1>3, <1>8
  <2>2. l + (m + 1) = (l + 1) + m
    OBVIOUS
  <2>3. DOMAIN k = 1..((Len(ms) + Len(none)) + Len(g.todo))
    BY <1>5, <2>1, <2>2
  <2>4. \A j \in 1..Len(none) : k[Len(ms) + j] = none[j]
    BY <2>1
  <2>5. \A j \in 1..Len(g.todo) : k[(Len(ms) + Len(none)) + j] = g.todo[j][2]
    BY <1>7, <2>1
  <2>6. QED
    BY <2>3, <2>4, <2>5
<1>10. RegenTells(g, d, ms, none)
  BY <1>3, <1>4, <1>5, <1>6, <1>9 DEF RegenTells
<1>11. QED
  BY <1>8, <1>10

\* A directory in it is entered.
LEMMA KidEntered ==
  ASSUME NEW fr, NEW S, fr.todo \in Seq(S), fr.todo # <<>>, NEW g, g.todo = Tail(fr.todo),
         g.ino = fr.ino, g.new = fr.new, NEW d, NEW ns, Len(ns) \in Nat,
         RegenTells(fr, d, ns, <<>>), NEW x, x = Head(fr.todo)[2]
  PROVE  RegenTells(g, d, ns, <<x>>)
<1>1. PICK l \in Nat, m \in Nat : l = Len(ns) /\ m = Len(g.todo)
  BY NextMet
<1>2. Len(fr.todo) = m + 1 /\ (\A j \in 1..m : g.todo[j] = fr.todo[j + 1]) /\ x = fr.todo[1][2]
  BY <1>1, NextMet
<1>3. PICK k : k = Kids(d)
  OBVIOUS
<1>4. /\ d.kind = "DIR" /\ d.ino = fr.ino /\ DOMAIN k = 1..(l + (m + 1))
      /\ Facts(fr.new) = LastRows(ns) /\ \A j \in 1..l : k[j] = ns[j]
      /\ \A j \in 1..(m + 1) : k[l + j] = fr.todo[j][2]
  BY <1>1, <1>2, <1>3 DEF RegenTells
<1>5. \A j \in 1..m : k[(l + 1) + j] = g.todo[j][2]
  <2>1. \A j \in 1..m : j + 1 \in 1..(m + 1) /\ (l + 1) + j = l + (j + 1)
    OBVIOUS
  <2>2. QED
    BY <1>2, <1>4, <2>1
<1>6. PICK one : one = <<x>> /\ Len(one) = 1 /\ one[1] = x
  <2>1. Len(<<x>>) = 1 /\ <<x>>[1] = x
    OBVIOUS
  <2>2. QED
    BY <2>1
<1>7. \A j \in 1..1 : k[l + j] = one[j]
  <2>1. 1 \in 1..(m + 1) /\ \A j \in 1..1 : j = 1
    OBVIOUS
  <2>2. QED
    BY <1>2, <1>4, <1>6, <2>1
<1>8. /\ DOMAIN k = 1..((Len(ns) + Len(one)) + Len(g.todo))
      /\ \A j \in 1..Len(ns) : k[j] = ns[j]
      /\ \A j \in 1..Len(one) : k[Len(ns) + j] = one[j]
      /\ \A j \in 1..Len(g.todo) : k[(Len(ns) + Len(one)) + j] = g.todo[j][2]
  <2>1. l + (m + 1) = (l + 1) + m
    OBVIOUS
  <2>2. QED
    BY <1>1, <1>4, <1>5, <1>6, <1>7, <2>1
<1>9. RegenTells(g, d, ns, one)
  BY <1>3, <1>4, <1>8 DEF RegenTells
<1>10. QED
  BY <1>6, <1>9

\* And left.
LEMMA KidLeft ==
  ASSUME NEW fr, Len(fr.todo) \in Nat, NEW d, NEW ns, Len(ns) \in Nat, DOMAIN ns = 1..Len(ns),
         NEW x, x.kind = "DIR", RegenTells(fr, d, ns, <<x>>),
         NEW ms, OneMore(ns, ms, x), DOMAIN ms = 1..Len(ms)
  PROVE  RegenTells(fr, d, ms, <<>>)
<1>1. PICK l \in Nat, m \in Nat : l = Len(ns) /\ m = Len(fr.todo)
  OBVIOUS
<1>2. Len(ms) = l + 1 /\ ms[l + 1] = x /\ (\A j \in 1..l : ms[j] = ns[j]) /\ DOMAIN ms = 1..(l + 1)
  BY <1>1 DEF OneMore
<1>3. PICK k, one : k = Kids(d) /\ one = <<x>> /\ Len(one) = 1 /\ one[1] = x
  OBVIOUS
<1>4. /\ d.kind = "DIR" /\ d.ino = fr.ino /\ DOMAIN k = 1..((l + 1) + m)
      /\ Facts(fr.new) = LastRows(ns) /\ \A j \in 1..l : k[j] = ns[j]
      /\ \A j \in 1..1 : k[l + j] = one[j]
      /\ \A j \in 1..m : k[(l + 1) + j] = fr.todo[j][2]
  <2>1. RegenTells(fr, d, ns, one)
    BY <1>3
  <2>2. QED
    BY <1>1, <1>3, <2>1 DEF RegenTells
<1>5. \A j \in 1..(l + 1) : k[j] = ms[j]
  <2>1. (\A j \in 1..(l + 1) : j \in 1..l \/ j = l + 1) /\ 1 \in 1..1
    OBVIOUS
  <2>2. k[l + 1] = ms[l + 1]
    <3>1. k[l + 1] = one[1]
      BY ONLY <1>4, <2>1
    <3>2. QED
      BY <1>2, <1>3, <3>1
  <2>3. \A j \in 1..l : k[j] = ms[j]
    <3>1. (\A j \in 1..l : ms[j] = ns[j]) /\ (\A j \in 1..l : k[j] = ns[j])
      BY ONLY <1>2, <1>4
    <3>2. QED
      BY ONLY <3>1
  <2>4. QED
    BY ONLY <2>1, <2>2, <2>3
<1>6. Facts(fr.new) = LastRows(ms)
  <2>1. DOMAIN ns = 1..l /\ x.kind # "REG"
    BY <1>1
  <2>2. LastRows(ms) = LastRows(ns)
    BY ONLY <1>1, <1>2, <2>1, RowsPassing
  <2>3. QED
    BY ONLY <1>4, <2>2
<1>7. PICK none : none = <<>> /\ Len(none) = 0
  OBVIOUS
<1>8. /\ DOMAIN k = 1..((Len(ms) + Len(none)) + Len(fr.todo))
      /\ \A j \in 1..Len(none) : k[Len(ms) + j] = none[j]
      /\ \A j \in 1..Len(fr.todo) : k[(Len(ms) + Len(none)) + j] = fr.todo[j][2]
  BY <1>1, <1>2, <1>4, <1>7
<1>9. RegenTells(fr, d, ms, none)
  BY <1>2, <1>3, <1>4, <1>5, <1>6, <1>8 DEF RegenTells
<1>10. QED
  BY <1>7, <1>9

\* A directory in which nothing has been passed.
LEMMA KidBegins ==
  ASSUME NEW x, x.kind = "DIR", NEW S, RegenFrame(x).todo \in Seq(S)
  PROVE  RegenTells(RegenFrame(x), x, <<>>, <<>>)
<1>1. PICK fr, es : fr = RegenFrame(x) /\ es = Entries(x.children)
  OBVIOUS
<1>2. fr.ino = x.ino /\ fr.todo = es /\ fr.new = {}
  BY <1>1 DEF RegenFrame
<1>3. PICK m \in Nat : m = Len(es) /\ DOMAIN es = 1..m
  BY <1>1, <1>2
<1>4. PICK k : k = Kids(x) /\ DOMAIN k = 1..m /\ \A j \in 1..m : k[j] = es[j][2]
  <2>1. Kids(x) = [j \in 1..m |-> es[j][2]]
    BY <1>1, <1>3 DEF Kids
  <2>2. QED
    BY <2>1
<1>5. PICK none : none = <<>> /\ Len(none) = 0 /\ DOMAIN none = {}
  OBVIOUS
<1>6. Facts(fr.new) = LastRows(none)
  BY <1>2, <1>5, RowsNone DEF Facts
<1>7. \A j \in 1..m : (0 + 0) + j = j
  OBVIOUS
<1>8. RegenTells(fr, x, none, none)
  BY <1>2, <1>3, <1>4, <1>5, <1>6, <1>7 DEF RegenTells
<1>9. QED
  BY <1>1, <1>5, <1>8


-----------------------------------------------------------------------------
(* A regeneration follows. *)

\* The frames of a regeneration.
LEMMA RegenFrames ==
  ASSUME FaithInv, Tells, pc = "regen"
  PROVE  /\ stack \in Seq(Range(stack)) /\ stack # <<>> /\ DOMAIN stack = 1..Len(stack)
         /\ Len(stack) \in Nat \ {0} /\ Top = stack[Len(stack)]
         /\ \A k \in 1..Len(stack) : RegenFrameOK(stack[k])
         /\ head = Null /\ \E W, ds : Retraces(W, ds)
<1>1. stack \in Seq(Range(stack)) /\ stack # <<>>
  BY DEF FaithInv, IInv, TypeOK
<1>2. Len(stack) \in Nat \ {0} /\ DOMAIN stack = 1..Len(stack) /\ Top = stack[Len(stack)]
  BY <1>1 DEF Top, Last
<1>3. \A k \in 1..Len(stack) : RegenFrameOK(stack[k])
  BY <1>2 DEF FaithInv, IInv, GoodWalk, Range
<1>4. head = Null
  BY DEF FaithInv, AllRight, HeadRight
<1>5. \E W, ds : Retraces(W, ds)
  BY DEF Tells, SourceTells
<1>6. QED
  BY <1>1, <1>2, <1>3, <1>4, <1>5

LEMMA FollowsOn ==
  ASSUME NEW s, NEW n \in Nat \ {0}, Len(s) = n, NEW W, NEW ds, NEW h, Follows(s, W, ds, h),
         NEW U, NEW x, Steps(W, U, n + 1, x),
         NEW t, Len(t) = n, \A k \in 1..n : k < n => t[k] = s[k],
         RegenTells(t[n], ds[n], U[n + 1], <<>>)
  PROVE  Follows(t, U, ds, h)
<1>1. Walk(U, n + 1) /\ \A k \in 1..(n + 1) : k < n + 1 => U[k] = W[k]
  BY DEF Steps
<1>2. U[1] = <<>> /\ DOMAIN ds = 1..n /\ ds[1] = h
  BY <1>1 DEF Follows
<1>3. ASSUME NEW k \in 1..n
      PROVE  RegenTells(t[k], ds[k], U[k + 1], IF k = n THEN <<>> ELSE <<ds[k + 1]>>)
  <2>1. CASE k = n
    BY <2>1
  <2>2. CASE k # n
    <3>1. k < n /\ k + 1 \in 1..(n + 1) /\ k + 1 < n + 1
      BY <2>2
    <3>2. t[k] = s[k] /\ U[k + 1] = W[k + 1]
      BY <1>1, <3>1
    <3>3. RegenTells(s[k], ds[k], W[k + 1], <<ds[k + 1]>>)
      BY <2>2 DEF Follows
    <3>4. QED
      BY <2>2, <3>2, <3>3
  <2>3. QED
    BY <2>1, <2>2
<1>4. QED
  BY <1>1, <1>2, <1>3 DEF Follows

LEMMA FollowsIn ==
  ASSUME NEW s, NEW n \in Nat \ {0}, Len(s) = n, NEW W, NEW ds, NEW h, Follows(s, W, ds, h),
         NEW x, NEW t, Len(t) = n + 1, \A k \in 1..n : k < n => t[k] = s[k],
         RegenTells(t[n], ds[n], W[n + 1], <<x>>), RegenTells(t[n + 1], x, <<>>, <<>>)
  PROVE  \E U, es : /\ Follows(t, U, es, h) /\ Walk(U, (n + 1) + 1)
                    /\ \A k \in 1..(n + 1) : U[k] = W[k]
                    /\ DOMAIN U[(n + 1) + 1] = {}
<1>1. Walk(W, n + 1) /\ W[1] = <<>> /\ DOMAIN ds = 1..n /\ ds[1] = h
  BY DEF Follows
<1>2. PICK U : U = [k \in 1..((n + 1) + 1) |-> IF k = (n + 1) + 1 THEN <<>> ELSE W[k]]
  OBVIOUS
<1>3. /\ DOMAIN U = 1..((n + 1) + 1) /\ U[(n + 1) + 1] = <<>>
      /\ \A k \in 1..(n + 1) : U[k] = W[k]
  BY <1>2
<1>4. Walk(U, (n + 1) + 1)
  <2>1. \A k \in 1..((n + 1) + 1) : k \in 1..(n + 1) \/ k = (n + 1) + 1
    OBVIOUS
  <2>2. Len(<<>>) = 0 /\ DOMAIN <<>> = 1..0
    OBVIOUS
  <2>3. QED
    BY <1>1, <1>3, <2>1, <2>2 DEF Walk
<1>5. PICK es : es = [k \in 1..(n + 1) |-> IF k = n + 1 THEN x ELSE ds[k]]
  OBVIOUS
<1>6. DOMAIN es = 1..(n + 1) /\ es[n + 1] = x /\ \A k \in 1..n : es[k] = ds[k]
  BY <1>5
<1>7. ASSUME NEW k \in 1..(n + 1)
      PROVE  RegenTells(t[k], es[k], U[k + 1], IF k = n + 1 THEN <<>> ELSE <<es[k + 1]>>)
  <2>1. CASE k = n + 1
    BY <1>3, <1>6, <2>1
  <2>2. CASE k = n
    <3>1. n \in 1..n /\ n + 1 \in 1..(n + 1) /\ n # n + 1
      OBVIOUS
    <3>2. U[k + 1] = W[n + 1] /\ es[k] = ds[n] /\ es[k + 1] = x
      BY <1>3, <1>6, <2>2, <3>1
    <3>3. QED
      BY <2>2, <3>1, <3>2
  <2>3. CASE k # n + 1 /\ k # n
    <3>1. k < n /\ k \in 1..n /\ k + 1 \in 1..(n + 1) /\ k + 1 \in 1..n
      BY <2>3
    <3>2. t[k] = s[k] /\ U[k + 1] = W[k + 1] /\ es[k] = ds[k] /\ es[k + 1] = ds[k + 1]
      BY <1>3, <1>6, <3>1
    <3>3. RegenTells(s[k], ds[k], W[k + 1], <<ds[k + 1]>>)
      BY <2>3, <3>1 DEF Follows
    <3>4. QED
      BY <2>3, <3>2, <3>3
  <2>4. QED
    BY <2>1, <2>2, <2>3
<1>8. U[1] = <<>> /\ es[1] = h
  <2>1. 1 \in 1..n /\ 1 \in 1..(n + 1)
    OBVIOUS
  <2>2. QED
    BY <1>1, <1>3, <1>6, <2>1
<1>9. Follows(t, U, es, h)
  BY <1>4, <1>6, <1>7, <1>8 DEF Follows
<1>10. QED
  BY <1>3, <1>4, <1>9

LEMMA FollowsOut ==
  ASSUME NEW s, NEW m \in Nat \ {0}, Len(s) = m + 1, NEW W, NEW ds, NEW h,
         Follows(s, W, ds, h), NEW U, Steps(W, U, m + 1, ds[m + 1]),
         NEW t, Len(t) = m, \A k \in 1..m : t[k] = s[k], Len(t[m].todo) \in Nat
  PROVE  \E es : Follows(t, U, es, h)
<1>1. Walk(W, (m + 1) + 1) /\ W[1] = <<>> /\ DOMAIN ds = 1..(m + 1) /\ ds[1] = h
  BY DEF Follows
<1>2. /\ Walk(U, m + 1) /\ (\A k \in 1..(m + 1) : k < m + 1 => U[k] = W[k])
      /\ OneMore(W[m + 1], U[m + 1], ds[m + 1])
  BY DEF Steps
<1>3. PICK es : es = [k \in 1..m |-> ds[k]]
  OBVIOUS
<1>4. DOMAIN es = 1..m /\ \A k \in 1..m : es[k] = ds[k]
  BY <1>3
<1>5. RegenTells(t[m], ds[m], U[m + 1], <<>>)
  <2>1. m \in 1..m /\ m \in 1..(m + 1) /\ m + 1 \in 1..(m + 1) /\ m + 1 \in 1..((m + 1) + 1) /\ m # m + 1
    OBVIOUS
  <2>2. RegenTells(s[m], ds[m], W[m + 1], <<ds[m + 1]>>)
    BY <2>1 DEF Follows
  <2>3. ds[m + 1].kind = "DIR"
    BY <2>1 DEF Follows, RegenTells
  <2>4. PICK fr, ns, ms, x : fr = t[m] /\ ns = W[m + 1] /\ ms = U[m + 1] /\ x = ds[m + 1]
    OBVIOUS
  <2>5. /\ Len(fr.todo) \in Nat /\ Len(ns) \in Nat /\ DOMAIN ns = 1..Len(ns)
        /\ x.kind = "DIR" /\ RegenTells(fr, ds[m], ns, <<x>>)
        /\ OneMore(ns, ms, x) /\ DOMAIN ms = 1..Len(ms)
    BY <1>1, <1>2, <2>1, <2>2, <2>3, <2>4 DEF Walk
  <2>6. RegenTells(fr, ds[m], ms, <<>>)
    BY ONLY <2>5, KidLeft
  <2>7. QED
    BY <2>4, <2>6
<1>6. ASSUME NEW k \in 1..m
      PROVE  RegenTells(t[k], es[k], U[k + 1], IF k = m THEN <<>> ELSE <<es[k + 1]>>)
  <2>1. CASE k = m
    BY <1>4, <1>5, <2>1
  <2>2. CASE k # m
    <3>1. k \in 1..(m + 1) /\ k + 1 \in 1..(m + 1) /\ k + 1 < m + 1 /\ k + 1 \in 1..m /\ k # m + 1
      BY <2>2
    <3>2. t[k] = s[k] /\ U[k + 1] = W[k + 1] /\ es[k] = ds[k] /\ es[k + 1] = ds[k + 1]
      BY <1>2, <1>4, <3>1
    <3>3. RegenTells(s[k], ds[k], W[k + 1], <<ds[k + 1]>>)
      BY <3>1 DEF Follows
    <3>4. QED
      BY <2>2, <3>2, <3>3
  <2>3. QED
    BY <2>1, <2>2
<1>7. U[1] = <<>> /\ es[1] = h
  <2>1. 1 \in 1..m /\ 1 \in 1..(m + 1) /\ 1 < m + 1
    OBVIOUS
  <2>2. QED
    BY <1>1, <1>2, <1>4, <2>1
<1>8. Follows(t, U, es, h)
  BY <1>2, <1>4, <1>6, <1>7 DEF Follows
<1>9. QED
  BY <1>8

\* All rows of the innermost frame will be kept.
LEMMA TopKept ==
  ASSUME FaithInv, Tells, pc = "regen"
  PROVE  \A e \in Top.new : e.expire >= base
<1>1. PICK n : n = Len(stack) /\ n \in Nat \ {0} /\ Top = stack[n] /\ DOMAIN stack = 1..n
  BY RegenFrames
<1>2. PICK W, ds : Retraces(W, ds)
  BY RegenFrames
<1>3. n \in DOMAIN stack
  BY <1>1
<1>4. QED
  BY <1>1, <1>2, <1>3 DEF Retraces

\* A regeneration goes on.
LEMMA RegenGoesOn ==
  ASSUME Tells, pc' = "regen", UNCHANGED <<poolVars, last>>, head' = Null,
         NEW W, NEW ds, Follows(stack', W, ds, source'.hash), Sums(W, Said(ctx)'),
         \A k \in DOMAIN stack' : \A e \in stack'[k].new : e.expire >= base'
  PROVE  Tells'
<1>1. Retraces(W, ds)'
  BY DEF Retraces
<1>2. SourceTells'
  BY <1>1 DEF SourceTells
<1>3. DumpTells'
  BY DEF DumpTells
<1>4. HeadTells'
  <2>1. Null' = Null
    BY DEF Null
  <2>2. QED
    BY <2>1 DEF HeadTells
<1>5. PICK cs : cs = {} /\ View' \subseteq View \cup cs
  BY DEF View, poolVars
<1>6. \A c \in cs : c.kind \in {"DIR", "dir"} => c \in View
  BY <1>5
<1>7. QED
  BY <1>2, <1>3, <1>4, <1>5, <1>6, GoesOnTells


LEMMA RegenBackTells ==
  ASSUME FaithInv, Tells, NEW b \in durable, RegenBack(b)
  PROVE  Tells'
<1>1. PICK g, t : g = RegenFrame(b.hash) /\ t = <<g>>
  OBVIOUS
<1>2. /\ b.kind = "back" /\ pc = "idle" /\ pc' = "regen" /\ source' = b /\ stack' = t
      /\ UNCHANGED <<poolVars, ctx, head, last>>
  BY <1>1 DEF RegenBack
<1>3. head' = Null
  BY <1>2 DEF FaithInv, AllRight, HeadRight
<1>4. b.hash \in durable /\ b.hash.kind = "DIR"
  <2>1. Refs(b) = {b.hash} /\ WellMade(b, View)
    BY <1>2 DEF Refs, FaithInv, IInv, GoodPool, View
  <2>2. QED
    BY <1>2, <2>1 DEF FaithInv, IInv, Closed, WellMade
<1>5. RegenFrame(b.hash).todo \in Seq(Names \X durable)
  BY <1>4, GoodRegenFrame DEF FaithInv, RegenFrameOK
<1>6. PICK h : h = b.hash /\ h.kind = "DIR" /\ RegenTells(g, h, <<>>, <<>>)
  BY <1>1, <1>4, <1>5, KidBegins
<1>7. DOMAIN t = {1} /\ Len(t) = 1 /\ t[1] = g
  BY <1>1
<1>8. PICK ds, W : ds = [k \in 1..1 |-> h] /\ W = [k \in 1..(1 + 1) |-> <<>>]
  OBVIOUS
<1>9. /\ DOMAIN ds = 1..1 /\ ds[1] = h /\ DOMAIN W = 1..(1 + 1)
      /\ \A k \in 1..(1 + 1) : W[k] = <<>>
  BY <1>8
<1>10. Walk(W, 1 + 1) /\ W[1] = <<>> /\ W[1 + 1] = <<>>
  <2>1. Len(<<>>) = 0 /\ DOMAIN <<>> = 1..0
    OBVIOUS
  <2>2. QED
    BY <1>9, <2>1 DEF Walk
<1>11. Follows(t, W, ds, h)
  <2>1. \A k \in 1..1 : k = 1
    OBVIOUS
  <2>2. QED
    BY <1>6, <1>7, <1>9, <1>10, <2>1 DEF Follows
<1>12. Sums(W, Said(ctx)')
  <2>1. \A k \in DOMAIN W : DOMAIN W[k] = {}
    BY <1>9
  <2>2. QED
    BY <2>1, SumsNothing
<1>13. \A k \in DOMAIN t : \A e \in t[k].new : e.expire >= base'
  BY <1>1, <1>7 DEF RegenFrame
<1>14. QED
  BY <1>2, <1>3, <1>6, <1>11, <1>12, <1>13, RegenGoesOn

LEMMA RegenEnterTells ==
  ASSUME FaithInv, Tells, RegenEnter
  PROVE  Tells'
<1>1. PICK s, n, fr, x : s = stack /\ n = Len(s) /\ fr = Top /\ x = Node
  OBVIOUS
<1>2. PICK g : g = [fr EXCEPT !.todo = Tail(@)]
  OBVIOUS
<1>3. /\ pc = "regen" /\ pc' = "regen" /\ fr.todo # <<>> /\ x.kind = "DIR"
      /\ UNCHANGED <<poolVars, ctx, base, head, source, last>>
  BY <1>1 DEF RegenEnter
<1>4. /\ s \in Seq(Range(s)) /\ s # <<>> /\ DOMAIN s = 1..n /\ n \in Nat \ {0} /\ fr = s[n]
      /\ \A k \in 1..n : RegenFrameOK(s[k])
      /\ head = Null /\ \E W, ds : Retraces(W, ds)
  BY <1>1, <1>3, RegenFrames
<1>5. PICK W, ds : Retraces(W, ds)
  BY <1>4
<1>6. /\ Follows(s, W, ds, source.hash) /\ Sums(W, Said(ctx))
      /\ \A k \in 1..n : \A e \in s[k].new : e.expire >= base
  BY <1>1, <1>4, <1>5 DEF Retraces
<1>7. x \in durable /\ RegenFrameOK(fr)
  BY <1>1, <1>3, RegenPassed DEF FaithInv
<1>8. g.ino = fr.ino /\ g.new = fr.new /\ g.todo = Tail(fr.todo)
  BY <1>2, <1>7 DEF RegenFrameOK
<1>9. fr.todo \in Seq(Names \X durable) /\ x = Head(fr.todo)[2]
  BY <1>1, <1>7 DEF RegenFrameOK, Node, Item
<1>10. Walk(W, n + 1) /\ RegenTells(fr, ds[n], W[n + 1], <<>>) /\ Len(W[n + 1]) \in Nat
  <2>1. n \in 1..n /\ n + 1 \in 1..(n + 1) /\ Len(s) = n
    BY <1>1, <1>4
  <2>2. QED
    BY <1>4, <1>6, <2>1 DEF Follows, Walk
<1>11. RegenTells(g, ds[n], W[n + 1], <<x>>)
  BY ONLY <1>3, <1>8, <1>9, <1>10, KidEntered
<1>12. PICK f : f = RegenFrame(x) /\ RegenTells(f, x, <<>>, <<>>) /\ f.new = {}
  <2>1. RegenFrame(x).todo \in Seq(Names \X durable)
    BY <1>3, <1>7, GoodRegenFrame DEF FaithInv, RegenFrameOK
  <2>2. RegenTells(RegenFrame(x), x, <<>>, <<>>)
    BY <1>3, <2>1, KidBegins
  <2>3. RegenFrame(x).new = {}
    BY DEF RegenFrame
  <2>4. QED
    BY <2>2, <2>3
<1>13. PICK u : u = [s EXCEPT ![n] = g]
  OBVIOUS
<1>14. /\ u \in Seq(Range(u)) /\ DOMAIN u = 1..n /\ Len(u) = n /\ u[n] = g
       /\ \A k \in 1..n : k < n => u[k] = s[k]
  <2>1. s \in Seq(Range(s)) /\ s # <<>> /\ u = [s EXCEPT ![Len(s)] = g]
    BY <1>1, <1>4, <1>13
  <2>2. u \in Seq(Range(u))
    BY <2>1, Replaced
  <2>3. /\ DOMAIN u = 1..Len(s) /\ Len(u) = Len(s) /\ u[Len(s)] = g
        /\ \A k \in 1..Len(s) : k < Len(s) => u[k] = s[k]
    BY ONLY <2>1, TopChanged
  <2>4. QED
    BY <1>1, <2>2, <2>3
<1>15. stack' = Append(u, f)
  <2>1. [stack EXCEPT ![Len(stack)].todo = Tail(@)] = u
    BY <1>1, <1>2, <1>4, <1>13
  <2>2. QED
    BY <1>1, <1>12, <2>1 DEF RegenEnter
<1>16. PICK t : t = stack' /\ DOMAIN t = 1..(n + 1) /\ Len(t) = n + 1 /\ t[n + 1] = f
                /\ \A k \in 1..n : t[k] = u[k]
  <2>1. /\ Append(u, f) \in Seq(Range(Append(u, f))) /\ Last(Append(u, f)) = f
        /\ Len(Append(u, f)) = Len(u) + 1 /\ \A k \in 1..Len(u) : Append(u, f)[k] = u[k]
    BY <1>14, Pushed
  <2>2. PICK t : t = stack' /\ t = Append(u, f)
    BY <1>15
  <2>3. t \in Seq(Range(t)) /\ Last(t) = f /\ Len(t) = n + 1 /\ \A k \in 1..n : t[k] = u[k]
    BY <1>14, <2>1, <2>2
  <2>4. DOMAIN t = 1..(n + 1) /\ t[n + 1] = f
    BY <1>4, <2>3 DEF Last
  <2>5. QED
    BY <2>2, <2>3, <2>4
<1>17. PICK U, es : /\ Follows(t, U, es, source.hash) /\ Walk(U, (n + 1) + 1)
                    /\ \A k \in 1..(n + 1) : U[k] = W[k]
                    /\ DOMAIN U[(n + 1) + 1] = {}
  <2>1. PICK h : h = source.hash
    OBVIOUS
  <2>2. /\ n \in Nat \ {0} /\ Len(s) = n /\ Follows(s, W, ds, h) /\ Len(t) = n + 1
        /\ \A k \in 1..n : k < n => t[k] = s[k]
    BY <1>1, <1>4, <1>6, <1>14, <1>16, <2>1
  <2>3. RegenTells(t[n], ds[n], W[n + 1], <<x>>)
    <3>1. n \in 1..n
      BY <1>4
    <3>2. QED
      BY <1>11, <1>14, <1>16, <3>1
  <2>4. RegenTells(t[n + 1], x, <<>>, <<>>)
    BY <1>12, <1>16
  <2>5. \E U, es : /\ Follows(t, U, es, h) /\ Walk(U, (n + 1) + 1)
                   /\ \A k \in 1..(n + 1) : U[k] = W[k]
                   /\ DOMAIN U[(n + 1) + 1] = {}
    BY ONLY <2>2, <2>3, <2>4, FollowsIn
  <2>6. QED
    BY <2>1, <2>5
<1>18. Sums(U, Said(ctx)')
  <2>1. PICK m \in Nat : m = n + 1
    BY <1>4
  <2>2. Walk(W, m) /\ Walk(U, m + 1) /\ (\A k \in 1..m : U[k] = W[k]) /\ DOMAIN U[m + 1] = {}
    BY <1>10, <1>17, <2>1
  <2>3. \A a, y : Left(U, a, y) <=> Left(W, a, y)
    BY ONLY <2>2, LeftEntering
  <2>4. QED
    BY <1>3, <1>6, <2>3, SumsSame
<1>19. \A k \in DOMAIN t : \A e \in t[k].new : e.expire >= base'
  <2>1. SUFFICES ASSUME NEW k \in 1..(n + 1), NEW e \in t[k].new PROVE e.expire >= base
    BY <1>3, <1>16
  <2>2. k \in 1..n
    BY <1>4, <1>12, <1>16, <2>1
  <2>3. e \in s[k].new
    <3>1. CASE k = n
      BY <1>4, <1>8, <1>14, <1>16, <2>1, <2>2, <3>1
    <3>2. CASE k # n
      <4>1. k < n
        BY <1>4, <2>2, <3>2
      <4>2. QED
        BY <1>14, <1>16, <2>1, <2>2, <4>1
    <3>3. QED
      BY <3>1, <3>2
  <2>4. QED
    BY <1>6, <2>2, <2>3
<1>20. QED
  BY <1>3, <1>4, <1>16, <1>17, <1>18, <1>19, RegenGoesOn


\* The innermost frame is one node further, which is no directory.
LEMMA RegenPassTells ==
  ASSUME FaithInv, Tells, pc = "regen", pc' = "regen", Top.todo # <<>>, Node.kind # "DIR",
         UNCHANGED <<poolVars, ctx, base, head, source, last>>, NEW g, SetTop(g),
         g.ino = Top.ino, g.todo = Tail(Top.todo), \A e \in g.new : e.expire >= base,
         Facts(g.new) = IF Node.kind = "REG"
                          THEN {u \in Facts(Top.new) : u[1] # Node.ino} \cup {Fact(Node)}
                          ELSE Facts(Top.new)
  PROVE  Tells'
<1>1. PICK s, n, fr, x : s = stack /\ n = Len(s) /\ fr = Top /\ x = Node
  OBVIOUS
<1>2. /\ s \in Seq(Range(s)) /\ s # <<>> /\ DOMAIN s = 1..n /\ n \in Nat \ {0} /\ fr = s[n]
      /\ head = Null /\ \E W, ds : Retraces(W, ds)
  BY <1>1, RegenFrames
<1>3. PICK W, ds : Retraces(W, ds)
  BY <1>2
<1>4. /\ Follows(s, W, ds, source.hash) /\ Sums(W, Said(ctx))
      /\ \A k \in 1..n : \A e \in s[k].new : e.expire >= base
  BY <1>1, <1>2, <1>3 DEF Retraces
<1>5. fr.todo \in Seq(Names \X durable) /\ x = Head(fr.todo)[2] /\ fr.todo # <<>>
  <2>1. RegenFrameOK(fr)
    BY <1>1, RegenPassed DEF FaithInv
  <2>2. QED
    BY <1>1, <2>1 DEF RegenFrameOK, Node, Item
<1>6. PICK m \in Nat \ {0} : m = n + 1 /\ n \in 1..n /\ n + 1 \in 1..m
  <2>1. n + 1 \in Nat \ {0} /\ n \in 1..n /\ n + 1 \in 1..(n + 1)
    BY <1>2
  <2>2. QED
    BY <2>1
<1>7. Walk(W, m) /\ RegenTells(fr, ds[n], W[m], <<>>)
  <2>1. Len(s) = n
    BY <1>1
  <2>2. QED
    BY <1>2, <1>4, <1>6, <2>1 DEF Follows
<1>8. PICK U : Steps(W, U, m, x)
  <2>1. m \in {m, m + 1}
    OBVIOUS
  <2>2. QED
    BY <1>7, <2>1, CanStep
<1>9. PICK ns, ms : ns = W[m] /\ ms = U[m]
  OBVIOUS
<1>10. PICK l \in Nat : l = Len(ns) /\ DOMAIN ns = 1..l
  BY <1>6, <1>7, <1>9 DEF Walk
<1>11. OneMore(ns, ms, x) /\ DOMAIN ms = 1..(l + 1)
  <2>1. Walk(U, m) /\ OneMore(ns, ms, x)
    BY <1>8, <1>9 DEF Steps
  <2>2. DOMAIN ms = 1..Len(ms) /\ Len(ms) = l + 1
    BY <1>6, <1>9, <1>10, <2>1 DEF Walk, OneMore
  <2>3. QED
    BY <2>1, <2>2
<1>12. Facts(fr.new) = LastRows(ns)
  BY <1>7, <1>9 DEF RegenTells
<1>13. Facts(g.new) = LastRows(ms)
  <2>1. \A j \in 1..l : ms[j] = ns[j]
    BY <1>10, <1>11 DEF OneMore
  <2>2. ms[l + 1] = x
    BY <1>10, <1>11 DEF OneMore
  <2>3. /\ x.kind # "REG" => LastRows(ms) = LastRows(ns)
        /\ x.kind = "REG" => LastRows(ms) = {u \in LastRows(ns) : u[1] # x.ino} \cup {Fact(x)}
    BY <1>10, <1>11, <2>1, <2>2, RowsPassing
  <2>4. QED
    BY <1>1, <1>12, <2>3
<1>14. RegenTells(g, ds[n], ms, <<>>)
  <2>1. /\ fr.todo \in Seq(Names \X durable) /\ fr.todo # <<>> /\ g.todo = Tail(fr.todo)
        /\ g.ino = fr.ino /\ Len(ns) \in Nat /\ RegenTells(fr, ds[n], ns, <<>>)
        /\ x = Head(fr.todo)[2]
    BY <1>1, <1>5, <1>7, <1>9, <1>10
  <2>2. QED
    BY ONLY <1>11, <1>13, <2>1, KidPassed
<1>15. PICK t : t = stack' /\ DOMAIN t = 1..n /\ Len(t) = n /\ t[n] = g
                /\ \A k \in 1..n : k < n => t[k] = s[k]
  <2>1. PICK t : t = stack' /\ t = [s EXCEPT ![Len(s)] = g]
    BY <1>1 DEF SetTop
  <2>2. s \in Seq(Range(s)) /\ s # <<>>
    BY <1>2
  <2>3. /\ DOMAIN t = 1..Len(s) /\ Len(t) = Len(s) /\ t[Len(s)] = g
        /\ \A k \in 1..Len(s) : k < Len(s) => t[k] = s[k]
    BY ONLY <2>1, <2>2, TopChanged
  <2>4. QED
    BY <1>1, <2>1, <2>3
<1>16. PICK h : h = source.hash
  OBVIOUS
<1>17. Follows(t, U, ds, h)
  <2>1. /\ n \in Nat \ {0} /\ Len(s) = n /\ Follows(s, W, ds, h) /\ Steps(W, U, n + 1, x)
        /\ Len(t) = n /\ (\A k \in 1..n : k < n => t[k] = s[k])
        /\ RegenTells(t[n], ds[n], U[n + 1], <<>>)
    BY <1>1, <1>2, <1>4, <1>6, <1>8, <1>9, <1>14, <1>15, <1>16
  <2>2. QED
    BY ONLY <2>1, FollowsOn
<1>18. Sums(U, Said(ctx)')
  <2>1. x.kind # "DIR"
    BY <1>1
  <2>2. \A a, y : Left(U, a, y) <=> Left(W, a, y)
    BY <1>7, <1>8, <2>1, LeftPassing
  <2>3. QED
    BY <1>4, <2>2, SumsSame
<1>19. \A k \in DOMAIN t : \A e \in t[k].new : e.expire >= base'
  <2>1. SUFFICES ASSUME NEW k \in 1..n, NEW e \in t[k].new PROVE e.expire >= base
    BY <1>15
  <2>2. CASE k = n
    BY <1>15, <2>1, <2>2
  <2>3. CASE k # n
    BY <1>2, <1>4, <1>15, <2>1, <2>3
  <2>4. QED
    BY <2>2, <2>3
<1>20. QED
  BY <1>2, <1>15, <1>16, <1>17, <1>18, <1>19, RegenGoesOn


LEMMA RegenSkipTells ==
  ASSUME FaithInv, Tells, RegenSkip
  PROVE  Tells'
<1>1. PICK g : g = [Top EXCEPT !.todo = Tail(@)]
  OBVIOUS
<1>2. /\ pc = "regen" /\ pc' = "regen" /\ Top.todo # <<>> /\ Node.kind = "LNK" /\ SetTop(g)
      /\ UNCHANGED <<poolVars, ctx, base, head, source, last>>
  BY <1>1 DEF RegenSkip
<1>3. g.ino = Top.ino /\ g.todo = Tail(Top.todo) /\ g.new = Top.new
  <2>1. RegenFrameOK(Top)
    BY <1>2, RegenPassed DEF FaithInv
  <2>2. QED
    BY <1>1, <2>1 DEF RegenFrameOK
<1>4. Node.kind # "DIR" /\ Node.kind # "REG"
  BY <1>2
<1>5. Facts(g.new) = IF Node.kind = "REG"
                       THEN {u \in Facts(Top.new) : u[1] # Node.ino} \cup {Fact(Node)}
                       ELSE Facts(Top.new)
  BY <1>3, <1>4
<1>6. \A e \in Top.new : e.expire >= base
  BY <1>2, TopKept
<1>7. QED
  BY <1>2, <1>3, <1>4, <1>5, <1>6, RegenPassTells

LEMMA RegenOpenTells ==
  ASSUME FaithInv, Tells, RegenOpen
  PROVE  Tells'
<1> DEFINE Row(a) == NewRow(Node.ino, Node.ctime, Node.data, a)
           New(r) == [Top EXCEPT !.todo = Tail(@), !.new = {e \in @ : e.ino # r.ino} \cup {r}]
<1>1. PICK age \in Ages : SetTop(New(Row(age)))
  BY Zenon DEF RegenOpen
<1> HIDE DEF Row, New
<1>2. PICK row : row = Row(age)
  OBVIOUS
<1>3. PICK g : g = New(row)
  OBVIOUS
<1>4. SetTop(g)
  BY <1>1, <1>2, <1>3
<1>5. /\ pc = "regen" /\ pc' = "regen" /\ Top.todo # <<>> /\ Node.kind = "REG"
      /\ UNCHANGED <<poolVars, ctx, base, head, source, last>>
  BY DEF RegenOpen
<1>6. /\ g.ino = Top.ino /\ g.todo = Tail(Top.todo)
      /\ g.new = {e \in Top.new : e.ino # row.ino} \cup {row}
  <2>1. RegenFrameOK(Top)
    BY <1>5, RegenPassed DEF FaithInv
  <2>2. QED
    BY <1>3, <2>1 DEF RegenFrameOK, New
<1>7. /\ row.ino = Node.ino /\ row.ctime = Node.ctime /\ row.oid = Node.data
      /\ row.expire = base + age
  BY <1>2 DEF Row, NewRow
<1>8. row.expire >= base
  BY <1>7, AgesAreTimes DEF FaithInv, IInv, GoodClock
<1>9. \A e \in g.new : e.expire >= base
  <2>1. \A e \in Top.new : e.expire >= base
    BY <1>5, TopKept
  <2>2. QED
    BY <1>6, <1>8, <2>1
<1>10. Facts(g.new) = {u \in Facts(Top.new) : u[1] # row.ino} \cup {<<row.ino, row.ctime, row.oid>>}
  BY <1>6, FactsAdded
<1>11. Facts(g.new) = IF Node.kind = "REG"
                        THEN {u \in Facts(Top.new) : u[1] # Node.ino} \cup {Fact(Node)}
                        ELSE Facts(Top.new)
  BY <1>5, <1>7, <1>10 DEF Fact
<1>12. Node.kind # "DIR"
  BY <1>5
<1>13. QED
  BY <1>4, <1>5, <1>6, <1>9, <1>11, <1>12, RegenPassTells

LEMMA RegenLeaveTells ==
  ASSUME FaithInv, Tells, RegenLeave
  PROVE  Tells'
<1>1. PICK s, n, t, fr : s = stack /\ n = Len(s) /\ t = Front(s) /\ fr = Top
  OBVIOUS
<1>2. /\ pc = "regen" /\ fr.todo = <<>> /\ UpdateDir(fr.ino, fr.new) /\ stack' = t
      /\ pc' = IF n = 1 THEN "commit" ELSE pc
      /\ UNCHANGED <<poolVars, base, head, source, last>>
  BY <1>1 DEF RegenLeave
<1>3. /\ s \in Seq(Range(s)) /\ s # <<>> /\ DOMAIN s = 1..n /\ n \in Nat \ {0} /\ fr = s[n]
      /\ \A k \in 1..n : RegenFrameOK(s[k])
      /\ head = Null /\ \E W, ds : Retraces(W, ds)
  BY <1>1, <1>2, RegenFrames
<1>4. PICK W, ds : Retraces(W, ds)
  BY <1>3
<1>5. /\ Follows(s, W, ds, source.hash) /\ Sums(W, Said(ctx))
      /\ \A k \in 1..n : \A e \in s[k].new : e.expire >= base
  BY <1>1, <1>3, <1>4 DEF Retraces
<1>6. n \in 1..n /\ n + 1 \in 1..(n + 1) /\ Len(s) = n
  BY <1>1, <1>3
<1>7. Walk(W, n + 1) /\ W[1] = <<>> /\ ds[1] = source.hash /\ RegenTells(fr, ds[n], W[n + 1], <<>>)
  BY <1>3, <1>5, <1>6 DEF Follows
<1>8. PICK x, ns : x = ds[n] /\ ns = W[n + 1]
  OBVIOUS
<1>9. PICK l \in Nat : l = Len(ns) /\ DOMAIN ns = 1..l
  BY <1>6, <1>7, <1>8 DEF Walk
<1>10. /\ x.kind = "DIR" /\ x.ino = fr.ino /\ Facts(fr.new) = LastRows(ns)
       /\ SameNodes(Kids(x), ns)
  <2>1. PICK none : none = <<>> /\ Len(none) = 0
    OBVIOUS
  <2>2. RegenTells(fr, x, ns, none) /\ Len(fr.todo) = 0 /\ (l + 0) + 0 = l
    BY <1>2, <1>7, <1>8, <2>1
  <2>3. QED
    BY <1>9, <2>1, <2>2 DEF RegenTells, SameNodes
<1>11. LastRows(Kids(x)) = Facts(fr.new)
  BY <1>10, RowsSame
<1>12. fr.ino \in DirInos
  <2>1. RegenFrameOK(fr)
    BY <1>3, <1>6
  <2>2. PICK d \in durable : d.kind = "DIR" /\ d.ino = fr.ino
    BY <2>1 DEF RegenFrameOK, RegenFrameOf
  <2>3. d \in View
    BY DEF View
  <2>4. d.ino \in WalkedInos
    BY <2>2, <2>3 DEF Tells, OnlyWalked
  <2>5. QED
    BY <2>2, <2>4 DEF WalkedInos, Walked, DirInos
<1>13. PICK said, said2 : said = Said(ctx) /\ said2 = Said(ctx)'
  OBVIOUS
<1>14. WritesRows(said, said2, x.ino, LastRows(Kids(x)))
  <2>1. DOMAIN ctx = DirInos /\ \A e \in fr.new : e.expire >= base
    BY <1>3, <1>5, <1>6 DEF FaithInv, IInv, TypeOK
  <2>2. /\ Said(ctx)'[fr.ino] = Facts(fr.new)
        /\ \A j \in DirInos : j # fr.ino => Said(ctx)'[j] = Said(ctx)[j]
    BY <1>2, <1>12, <2>1, Written
  <2>3. QED
    BY <1>10, <1>11, <1>13, <2>2 DEF WritesRows
<1>15. ASSUME NEW V, Steps(W, V, n, x) PROVE Sums(V, said2)
  <2>1. PICK p \in Seq(Nat) : Adds(W, V, x, p)
    BY <1>3, <1>7, <1>8, <1>10, <1>15, LeftLeaving
  <2>2. QED
    BY <1>5, <1>13, <1>14, <2>1, SumsLeaving
<1>16. head' = Null
  BY <1>2, <1>3
<1>17. CASE n = 1
  <2>1. PICK V : V = Over(x)
    OBVIOUS
  <2>2. DOMAIN V = 1..1 /\ Len(V[1]) = 1 /\ DOMAIN V[1] = 1..1 /\ V[1][1] = x
    BY <2>1 DEF Over
  <2>3. Walk(V, n)
    BY <1>17, <2>2 DEF Walk
  <2>4. Len(W[1]) = 0
    BY <1>7
  <2>5. Steps(W, V, n, x)
    BY <1>17, <2>2, <2>3, <2>4 DEF Steps, OneMore
  <2>6. x = source.hash
    BY <1>7, <1>8, <1>17
  <2>7. Sums(Over(source.hash), Said(ctx)')
    BY <1>13, <1>15, <2>1, <2>5, <2>6
  <2>8. source.kind = "back"
    BY <1>2 DEF FaithInv, IInv, GoodClock
  <2>9. SourceTells'
    BY <1>2, <1>17, <2>7, <2>8 DEF SourceTells
  <2>10. DumpTells'
    BY <1>2, <1>17 DEF DumpTells
  <2>11. HeadTells'
    <3>1. Null' = Null
      BY DEF Null
    <3>2. QED
      BY <1>16, <3>1 DEF HeadTells
  <2>12. PICK cs : cs = {} /\ View' \subseteq View \cup cs
    BY <1>2 DEF View, poolVars
  <2>13. \A c \in cs : c.kind \in {"DIR", "dir"} => c \in View
    BY <2>12
  <2>14. QED
    BY <1>2, <2>9, <2>10, <2>11, <2>12, <2>13, GoesOnTells
<1>18. CASE n # 1
  <2>1. PICK m \in Nat \ {0} : m = n - 1 /\ n = m + 1
    BY <1>3, <1>18
  <2>2. t \in Seq(Range(t)) /\ Len(t) = m /\ \A k \in 1..m : t[k] = s[k]
    <3>1. /\ Front(s) \in Seq(Range(Front(s))) /\ Len(Front(s)) = Len(s) - 1
          /\ \A k \in 1..Len(Front(s)) : Front(s)[k] = s[k]
      BY <1>3, Popped
    <3>2. QED
      BY <1>1, <2>1, <3>1
  <2>3. PICK U : Steps(W, U, n, x)
    <3>1. n + 1 \in {n, n + 1}
      OBVIOUS
    <3>2. QED
      BY <1>3, <1>7, <3>1, CanStep
  <2>4. PICK h : h = source.hash
    OBVIOUS
  <2>5. PICK es : Follows(t, U, es, h)
    <3>1. Len(t[m].todo) \in Nat
      <4>1. m \in 1..m /\ m \in 1..n
        BY <2>1
      <4>2. RegenFrameOK(t[m])
        BY <1>3, <2>2, <4>1
      <4>3. PICK todo : todo = t[m].todo /\ todo \in Seq(Names \X durable)
        BY <4>2 DEF RegenFrameOK
      <4>4. QED
        BY <4>3
    <3>2. /\ Len(s) = m + 1 /\ Follows(s, W, ds, h) /\ Steps(W, U, m + 1, ds[m + 1])
          /\ Len(t) = m /\ (\A k \in 1..m : t[k] = s[k])
      BY <1>5, <1>6, <1>8, <2>1, <2>2, <2>3, <2>4
    <3>3. QED
      BY <3>1, <3>2, FollowsOut
  <2>6. Sums(U, Said(ctx)')
    BY <1>13, <1>15, <2>3
  <2>7. \A k \in DOMAIN t : \A e \in t[k].new : e.expire >= base'
    <3>1. DOMAIN t = 1..m /\ \A k \in 1..m : k \in 1..n
      BY <2>1, <2>2
    <3>2. QED
      BY <1>2, <1>5, <2>2, <3>1
  <2>8. pc' = "regen"
    BY <1>2, <1>18
  <2>9. QED
    BY <1>2, <1>16, <2>4, <2>5, <2>6, <2>7, <2>8, RegenGoesOn
<1>19. QED
  BY <1>17, <1>18


-----------------------------------------------------------------------------
(* The other steps, and the theorems. *)

LEMMA WriteBackTells ==
  ASSUME FaithInv, Tells, WriteBack
  PROVE  Tells'
<1>1. PICK b : b = Back(base, head) /\ b.kind = "back"
  <2>1. Back(base, head).kind = "back"
    BY DEF Back
  <2>2. QED
    BY <2>1
<1>2. /\ pc = "back" /\ pc' = "commit" /\ InsertAll({b})
      /\ UNCHANGED <<ctx, base, stack, head, source, last>>
  BY <1>1 DEF WriteBack
<1>3. head # Null
  BY <1>2 DEF FaithInv, IInv, GoodWalk, Null
<1>4. Null' = Null
  BY DEF Null
<1>5. SourceTells' /\ DumpTells'
  BY <1>2, <1>3, <1>4 DEF SourceTells, DumpTells
<1>6. HeadTells'
  BY <1>2, HeadStays DEF Tells
<1>7. PICK cs : cs = {b} /\ View' \subseteq View \cup cs
  BY <1>2, Inserted DEF FaithInv, IInv
<1>8. \A c \in cs : c.kind \in {"DIR", "dir"} => c \in View
  BY <1>1, <1>7
<1>9. QED
  BY <1>2, <1>5, <1>6, <1>7, <1>8, GoesOnTells

LEMMA TellsStep == FaithInv /\ Tells /\ [Next]_vars => Tells'
<1> SUFFICES ASSUME FaithInv, Tells, [Next]_vars PROVE Tells'
  OBVIOUS
<1>1. CASE User
  BY <1>1, UserTells
<1>2. CASE Backup \/ EnterDir \/ ReuseFile \/ OpenFile \/ ReadBlock
  BY <1>2, BackupTells, EnterDirTells, ReuseFileTells, OpenFileTells, ReadBlockTells
<1>3. CASE FinishFile \/ PlainNode \/ LeaveDir \/ WriteBack
  BY <1>3, FinishFileTells, PlainNodeTells, LeaveDirTells, WriteBackTells
<1>4. CASE Vanished \/ Abort \/ Commit
  BY <1>4, RollbackTells, CommitTells DEF Vanished, Abort
<1>5. CASE RunExpire
  BY <1>5, RunExpireTells
<1>6. CASE Regen
  BY <1>6, RegenBackTells, RegenEnterTells, RegenOpenTells, RegenSkipTells, RegenLeaveTells
     DEF Regen
<1>7. CASE UNCHANGED vars
  <2>1. UNCHANGED <<poolVars, ctx, pc, base, stack, head, source, last>>
    BY <1>7 DEF vars
  <2>2. QED
    BY <2>1, AloneTells
<1>8. QED
  BY <1>1, <1>2, <1>3, <1>4, <1>5, <1>6, <1>7 DEF Next, Dump

LEMMA InitTells == Init => Tells
<1> SUFFICES ASSUME Init PROVE Tells
  OBVIOUS
<1>1. View = {}
  BY DEF Init, P!PoolInit, View
<1>2. pc = "idle" /\ head = Null /\ last.back = Null
  BY DEF Init
<1>3. QED
  BY <1>1, <1>2 DEF Tells, DumpTells, HeadTells, SourceTells, LastTells, OnlyWalked

\* However users, dumps, regenerations and expiry take turns: the rows a session
\* has written are those of the nodes it has left behind, directory by directory
\* and the last of an inode last, for a dump (dump.Run) as for a regeneration
\* (regenState), and every backup holds all the directories that dumps walk.
THEOREM RebuildInvariant == Spec => [](FaithInv /\ Tells)
<1>1. FaithInv /\ Tells /\ [Next]_vars => Tells'
  BY TellsStep
<1>2. QED
  BY <1>1, InitTells, FaithInvariant, PTL DEF Spec

\* A regeneration (godump/cachecmd) from the last dump leaves the rows that the
\* dump left, expiry apart: for any tree of names, any inode numbers, and whatever
\* happened to the cache in between.
THEOREM Rebuilt == Spec => []RegenRebuilds
<1>1. FaithInv /\ Tells => RegenRebuilds
  <2> SUFFICES ASSUME FaithInv, Tells, pc = "commit", head = Null, source = last.back
               PROVE  Said(ctx) = last.cache
    BY DEF RegenRebuilds
  <2>1. source.kind = "back" /\ Sums(Over(source.hash), Said(ctx))
    BY DEF Tells, SourceTells
  <2>2. last.back # Null
    BY <2>1 DEF Null
  <2>3. /\ Reaches(source.hash) /\ Sums(Over(source.hash), last.cache)
        /\ last.cache = [i \in DirInos |-> last.cache[i]]
        /\ \A i \in DirInos \ WalkedInos : last.cache[i] = {}
    BY <2>2 DEF Tells, LastTells
  <2>4. Said(ctx) = [i \in DirInos |-> Said(ctx)[i]]
    BY DEF Said
  <2>5. PICK h, said, told : h = source.hash /\ said = Said(ctx) /\ told = last.cache
    OBVIOUS
  <2>6. ASSUME NEW i \in DirInos PROVE said[i] = told[i]
    <3>1. CASE i \in WalkedInos
      <4>1. PICK s, m : Left(Over(h), s, m) /\ m.ino = i
        BY <2>3, <2>5, <3>1 DEF Reaches
      <4>2. Sums(Over(h), said) /\ Sums(Over(h), told)
        BY <2>1, <2>3, <2>5
      <4>3. QED
        BY <4>1, <4>2, SumsAgree
    <3>2. CASE i \notin WalkedInos
      BY <2>3, <2>5, <3>2, NothingElsewhere DEF Tells
    <3>3. QED
      BY <3>1, <3>2
  <2>7. QED
    BY <2>3, <2>4, <2>5, <2>6
<1>2. QED
  BY <1>1, RebuildInvariant, PTL

-----------------------------------------------------------------------------
(***************************************************************************)
(* Why trust ends: each row, and each file node of a backup, has been read *)
(* by a dump not long before its expiry, or the date of the backup.  A     *)
(* dump uses a row only up to its expiry, so the date of the backup is     *)
(* no later; a regeneration adds one age to that date.                     *)
(***************************************************************************)

RowsRead(es) == \A e \in es : ReadFor(e.ino, e.ctime, e.oid, e.expire, Lease(regens))

\* Closed under the nodes in a directory, with files that were read.
ReadSet(S, t, lease) ==
  \A n \in S :
    /\ n.kind = "REG" => ReadFor(n.ino, n.ctime, n.data, t, lease)
    /\ n.kind = "DIR" => \A k \in DOMAIN Entries(n.children) : Entries(n.children)[k][2] \in S

\* All the files in the tree of node n were read, a lease before t or later.
AllRead(n, t, lease) == \E S : n \in S /\ ReadSet(S, t, lease)

DumpRead(f) ==
  /\ RowsRead(f.old) /\ RowsRead(f.new)
  /\ \A e \in f.old : e.expire >= base
  /\ \A k \in DOMAIN f.done : AllRead(f.done[k][2], base, Lease(regens))

RegenRead(f) ==
  /\ RowsRead(f.new)
  /\ \A k \in DOMAIN f.todo : AllRead(f.todo[k][2], base, regens * Longest)

TablesRead == \A i \in DirInos : RowsRead(cache[i]) /\ RowsRead(ctx[i])

BackupsRead == \A b \in View : b.kind = "back" => AllRead(b.hash, b.date, Lease(regens))

WalkRead ==
  /\ pc \in {"dump", "read"} => \A f \in Range(stack) : DumpRead(f)
  /\ pc = "back" => AllRead(head, base, Lease(regens))
  /\ pc = "regen" => \A f \in Range(stack) : RegenRead(f)

TimesRead == regens \in Nat /\ \A r \in readings : r.at \in Nat

Leased == TimesRead /\ TablesRead /\ BackupsRead /\ WalkRead

-----------------------------------------------------------------------------
LEMMA LongestAge == Longest \in Nat /\ \A a \in Ages : a \in Nat /\ a <= Longest
<1>1. PICK a \in Ages : Ages \subseteq 0..a
  BY BackupAssumption DEF BackupAssumption
<1>2. Ages \subseteq Nat
  BY AgesAreTimes
<1>3. a \in Ages /\ \A b \in Ages : b <= a
  BY <1>1, <1>2
<1>4. Longest \in Ages /\ \A b \in Ages : b <= Longest
  BY <1>3, Zenon DEF Longest
<1>5. QED
  BY <1>2, <1>4

\* One lease more: what the last regeneration added, and what it started from.
LEMMA Leases ==
  ASSUME NEW k \in Nat
  PROVE  /\ Lease(k) \in Nat /\ k * Longest \in Nat /\ Lease(k) = k * Longest + Longest
         /\ Lease(k) = (k + 1) * Longest /\ Lease(k) <= Lease(k + 1)
<1>1. PICK l \in Nat : l = Longest
  BY LongestAge
<1>2. k * l \in Nat /\ (k + 1) * l = k * l + l /\ ((k + 1) + 1) * l = (k * l + l) + l
  OBVIOUS
<1>3. QED
  BY <1>1, <1>2 DEF Lease

\* More readings, a longer lease and an earlier time ask for less.
LEMMA ReadStays ==
  ASSUME NEW i, NEW c, NEW d, NEW t \in Nat, NEW u \in Nat, NEW l \in Nat, NEW m \in Nat,
         TimesRead, readings \subseteq readings', u <= t, l <= m, ReadFor(i, c, d, t, l)
  PROVE  ReadFor(i, c, d, u, m) /\ ReadFor(i, c, d, u, m)'
<1>1. PICK r \in readings : r.ino = i /\ r.ctime = c /\ r.oid = d /\ t <= r.at + l
  BY DEF ReadFor
<1>2. PICK a \in Nat : a = r.at
  BY DEF TimesRead
<1>3. u <= r.at + m
  BY <1>1, <1>2
<1>4. QED
  BY <1>1, <1>3 DEF ReadFor

LEMMA AllReadStays ==
  ASSUME NEW n, NEW t \in Nat, NEW l \in Nat, NEW m \in Nat,
         TimesRead, readings \subseteq readings', l <= m, AllRead(n, t, l)
  PROVE  AllRead(n, t, m) /\ AllRead(n, t, m)'
<1>1. PICK S : n \in S /\ ReadSet(S, t, l)
  BY DEF AllRead
<1>2. t <= t
  OBVIOUS
<1>3. ReadSet(S, t, m) /\ ReadSet(S, t, m)'
  BY <1>1, <1>2, ReadStays DEF ReadSet
<1>4. QED
  BY <1>1, <1>3 DEF AllRead

\* What is in a directory.
LEMMA AllReadBelow ==
  ASSUME NEW n, NEW t, NEW l, AllRead(n, t, l), n.kind = "DIR",
         NEW k \in DOMAIN Entries(n.children)
  PROVE  AllRead(Entries(n.children)[k][2], t, l)
  BY DEF AllRead, ReadSet

\* A node with nothing in it.
LEMMA LeafRead ==
  ASSUME NEW n, NEW t, NEW l, n.kind # "DIR",
         n.kind = "REG" => ReadFor(n.ino, n.ctime, n.data, t, l)
  PROVE  AllRead(n, t, l)
<1>1. n \in {n} /\ ReadSet({n}, t, l)
  BY DEF ReadSet
<1>2. QED
  BY <1>1 DEF AllRead

LEMMA LeafReadNext ==
  ASSUME NEW n, NEW t, NEW l, n.kind # "DIR",
         n.kind = "REG" => ReadFor(n.ino, n.ctime, n.data, t, l)'
  PROVE  AllRead(n, t, l)'
<1>1. n \in {n} /\ ReadSet({n}, t, l)'
  BY DEF ReadSet
<1>2. QED
  BY <1>1 DEF AllRead

\* A directory of nodes whose trees were read.
LEMMA DirRead ==
  ASSUME NEW n, NEW t, NEW l, n.kind = "DIR",
         \A k \in DOMAIN Entries(n.children) : AllRead(Entries(n.children)[k][2], t, l)
  PROVE  AllRead(n, t, l)
<1> DEFINE es == Entries(n.children)
           W(k) == CHOOSE S : es[k][2] \in S /\ ReadSet(S, t, l)
           U == {n} \cup UNION {W(k) : k \in DOMAIN es}
<1>1. ASSUME NEW k \in DOMAIN es PROVE es[k][2] \in W(k) /\ ReadSet(W(k), t, l)
  <2>1. \E S : es[k][2] \in S /\ ReadSet(S, t, l)
    BY DEF AllRead
  <2> HIDE DEF es
  <2>2. QED
    BY <2>1, Zenon
<1> HIDE DEF W
<1>2. ASSUME NEW m \in U, m.kind = "REG" PROVE ReadFor(m.ino, m.ctime, m.data, t, l)
  BY <1>1, <1>2 DEF ReadSet
<1>3. ASSUME NEW m \in U, m.kind = "DIR", NEW k \in DOMAIN Entries(m.children)
      PROVE  Entries(m.children)[k][2] \in U
  <2>1. CASE m = n
    BY <1>1, <1>3, <2>1
  <2>2. CASE m # n
    <3>1. PICK j \in DOMAIN es : m \in W(j)
      BY <1>3, <2>2
    <3>2. Entries(m.children)[k][2] \in W(j)
      BY <1>1, <1>3, <3>1 DEF ReadSet
    <3>3. QED
      BY <3>1, <3>2
  <2>3. QED
    BY <2>1, <2>2
<1>4. n \in U
  OBVIOUS
<1> HIDE DEF U, es
<1>5. ReadSet(U, t, l)
  BY <1>2, <1>3 DEF ReadSet
<1>6. QED
  BY <1>4, <1>5 DEF AllRead

-----------------------------------------------------------------------------
(* What later readings leave as it was. *)

\* As much was read as before, and a lease is as long.
Later ==
  /\ readings \subseteq readings' /\ TimesRead /\ TimesRead'
  /\ Lease(regens) \in Nat /\ Lease(regens') \in Nat /\ Lease(regens) <= Lease(regens')

LEMMA NotLess ==
  ASSUME TimesRead, UNCHANGED <<readings, regens>>
  PROVE  Later
<1>1. Lease(regens) \in Nat /\ Lease(regens) <= Lease(regens)
  BY Leases DEF TimesRead
<1>2. QED
  BY <1>1 DEF Later, TimesRead

LEMMA RowsStay ==
  ASSUME Later, NEW es, NEW V, GoodRows(es, V), RowsRead(es)
  PROVE  RowsRead(es)'
<1>1. PICK l \in Nat, m \in Nat : l = Lease(regens) /\ m = Lease(regens') /\ l <= m
  BY DEF Later
<1>2. ASSUME NEW e \in es PROVE ReadFor(e.ino, e.ctime, e.oid, e.expire, m)'
  <2>1. e.expire \in Nat /\ e.expire <= e.expire
    BY DEF GoodRows, GoodRow
  <2>2. ReadFor(e.ino, e.ctime, e.oid, e.expire, l)
    BY <1>1 DEF RowsRead
  <2>3. readings \subseteq readings' /\ TimesRead
    BY DEF Later
  <2>4. QED
    BY <1>1, <2>1, <2>2, <2>3, ReadStays
<1>3. QED
  BY <1>1, <1>2 DEF RowsRead

LEMMA TablesStay ==
  ASSUME IInv, TablesRead, Later,
         \A i \in DirInos : cache'[i] \subseteq cache[i] \cup ctx[i]
                            /\ ctx'[i] \subseteq cache[i] \cup ctx[i]
  PROVE  TablesRead'
<1>1. ASSUME NEW i \in DirInos PROVE RowsRead(cache[i] \cup ctx[i])'
  <2>1. PICK es : es = cache[i] \cup ctx[i]
    OBVIOUS
  <2>2. GoodRows(es, View)
    BY <2>1 DEF IInv, GoodTables, GoodRows, GoodRow, View
  <2>3. RowsRead(es)
    BY <2>1 DEF TablesRead, RowsRead
  <2>4. RowsRead(es)'
    BY <2>2, <2>3, RowsStay
  <2>5. \A e \in cache'[i] \cup ctx'[i] : e \in es
    BY <2>1
  <2>6. RowsRead(cache[i])' /\ RowsRead(ctx[i])'
    BY <2>4, <2>5 DEF RowsRead
  <2>7. QED
    BY <2>6 DEF RowsRead
<1>2. QED
  BY <1>1 DEF TablesRead, RowsRead

LEMMA BackupsStay ==
  ASSUME IInv, BackupsRead, Later, NEW cs, View' \subseteq View \cup cs,
         \A c \in cs : c \in View \/ c.kind # "back"
  PROVE  BackupsRead'
<1>1. PICK l \in Nat, m \in Nat : l = Lease(regens) /\ m = Lease(regens') /\ l <= m
  BY DEF Later
<1>2. ASSUME NEW b \in View', b.kind = "back" PROVE AllRead(b.hash, b.date, m)'
  <2>1. b \in View
    BY <1>2
  <2>2. b.date \in Nat
    BY <1>2, <2>1 DEF IInv, GoodPool, WellMade
  <2>3. AllRead(b.hash, b.date, l)
    BY <1>1, <1>2, <2>1 DEF BackupsRead
  <2>4. readings \subseteq readings' /\ TimesRead
    BY DEF Later
  <2>5. QED
    BY <1>1, <2>2, <2>3, <2>4, AllReadStays
<1>3. QED
  BY <1>1, <1>2 DEF BackupsRead

LEMMA DumpReadStays ==
  ASSUME Later, base' = base, base \in Nat, NEW f, NEW V, DumpFrame(f, V), DumpRead(f)
  PROVE  DumpRead(f)'
<1>1. RowsRead(f.old)' /\ RowsRead(f.new)'
  BY RowsStay DEF DumpFrame, DumpRead
<1>2. PICK l \in Nat, m \in Nat, t \in Nat :
        l = Lease(regens) /\ m = Lease(regens') /\ l <= m /\ t = base
  BY DEF Later
<1>3. ASSUME NEW k \in DOMAIN f.done PROVE AllRead(f.done[k][2], t, m)'
  <2>1. AllRead(f.done[k][2], t, l)
    BY <1>2 DEF DumpRead
  <2>2. readings \subseteq readings' /\ TimesRead
    BY DEF Later
  <2>3. QED
    BY <1>2, <2>1, <2>2, AllReadStays
<1>4. \A e \in f.old : e.expire >= base'
  BY DEF DumpRead
<1>5. QED
  BY <1>1, <1>2, <1>3, <1>4 DEF DumpRead

-----------------------------------------------------------------------------
(* The dump. *)

LEMMA FrameRead ==
  ASSUME IInv, Leased, NEW d \in Dirs, NEW t, base' = t, UNCHANGED <<readings, regens>>,
         NEW f, f = Frame(d, t)
  PROVE  DumpRead(f)'
<1>1. PICK i \in DirInos : i = Ino[d]
  BY DEF DirInos
<1>2. f.old = {e \in ctx[i] : e.expire >= t} /\ f.new = {} /\ f.done = <<>>
  BY <1>1 DEF Frame, GetDir
<1>3. RowsRead(ctx[i])
  BY DEF Leased, TablesRead
<1>4. RowsRead(f.old)' /\ RowsRead(f.new)'
  BY <1>2, <1>3 DEF RowsRead, ReadFor
<1>5. DOMAIN f.done = {}
  BY <1>2
<1>6. QED
  BY <1>2, <1>4, <1>5 DEF DumpRead

\* Nothing is stored, and no row is written.
LEMMA QuietRead ==
  ASSUME IInv, Leased, UNCHANGED <<poolVars, cache, ctx, readings, regens>>
  PROVE  Later /\ TimesRead' /\ TablesRead' /\ BackupsRead'
<1>1. Later
  BY NotLess DEF Leased
<1>2. TablesRead'
  BY <1>1, TablesStay DEF Leased
<1>3. PICK cs : cs = {}
  OBVIOUS
<1>4. View' \subseteq View \cup cs
  BY DEF View, poolVars
<1>5. BackupsRead'
  BY <1>1, <1>3, <1>4, BackupsStay DEF Leased
<1>6. QED
  BY <1>1, <1>2, <1>5 DEF Later

LEMMA BackupLeased == IInv /\ Leased /\ Backup => Leased'
<1> SUFFICES ASSUME IInv, Leased, Backup PROVE Leased'
  OBVIOUS
<1>1. PICK t, f : t = clock /\ f = Frame(Root, t)
  OBVIOUS
<1>2. /\ UNCHANGED <<poolVars, cache, ctx, readings, regens>>
      /\ pc' = "dump" /\ base' = t /\ stack' = <<f>>
  BY <1>1 DEF Backup
<1>3. TimesRead' /\ TablesRead' /\ BackupsRead'
  BY <1>2, QuietRead
<1>4. DumpRead(f)'
  BY <1>1, <1>2, FrameRead, BackupAssumption DEF BackupAssumption
<1>5. \A g \in Range(stack') : g = f
  BY <1>2 DEF Range
<1>6. WalkRead'
  BY <1>2, <1>4, <1>5 DEF WalkRead
<1>7. QED
  BY <1>3, <1>6 DEF Leased

LEMMA EnterDirLeased == IInv /\ Leased /\ EnterDir => Leased'
<1> SUFFICES ASSUME IInv, Leased, EnterDir PROVE Leased'
  OBVIOUS
<1>1. PICK t, f : t = base /\ f = Frame(Item.name, t)
  OBVIOUS
<1>2. /\ UNCHANGED <<poolVars, cache, ctx, readings, regens>>
      /\ pc = "dump" /\ pc' = "dump" /\ base' = t /\ stack' = Append(stack, f) /\ Item.name \in Dirs
  BY <1>1 DEF EnterDir
<1>3. Later /\ TimesRead' /\ TablesRead' /\ BackupsRead'
  BY <1>2, QuietRead
<1>4. DumpRead(f)'
  BY <1>1, <1>2, FrameRead
<1>5. \A g \in Range(stack') : g \in Range(stack) \/ g = f
  <2>1. stack \in Seq(Range(stack))
    BY DEF IInv, TypeOK
  <2>2. QED
    BY <1>2, <2>1, Pushed
<1>6. ASSUME NEW g \in Range(stack) PROVE DumpRead(g)'
  <2>1. DumpFrame(g, View) /\ DumpRead(g) /\ base \in Nat
    BY <1>2 DEF IInv, GoodWalk, GoodClock, Leased, WalkRead
  <2>2. QED
    BY <1>1, <1>2, <1>3, <2>1, DumpReadStays
<1>7. WalkRead'
  BY <1>2, <1>4, <1>5, <1>6 DEF WalkRead
<1>8. QED
  BY <1>3, <1>7 DEF Leased

\* A child is done: its rows and its node.
LEMMA DonePlus ==
  ASSUME Later, base' = base, base \in Nat, NEW f, NEW V, DumpFrame(f, V), DumpRead(f),
         NEW rows, NEW node, RowsRead(rows)', AllRead(node, base, Lease(regens))',
         NEW g, g = ChildDone(f, rows, node)
  PROVE  DumpRead(g)'
<1>1. DumpRead(f)'
  BY DumpReadStays
<1>2. /\ g.old = f.old /\ g.new \subseteq f.new \cup rows
      /\ g.done = Append(f.done, <<Head(f.todo).name, node>>)
  BY DEF ChildDone, DumpFrame
<1>3. PICK x : x = <<Head(f.todo).name, node>>
  OBVIOUS
<1>4. PICK S, s, r : S = (Names \X V) \cup {x} /\ s = f.done /\ r = g.done
  OBVIOUS
<1>5. s \in Seq(S) /\ x \in S
  <2>1. s \in Seq(Names \X V)
    BY <1>4 DEF DumpFrame
  <2>2. QED
    BY <1>4, <2>1
<1>6. /\ Len(r) = Len(s) + 1 /\ r \in Seq(S) /\ r[Len(s) + 1] = x
      /\ \A k \in 1..Len(s) : r[k] = s[k]
  BY <1>2, <1>3, <1>4, <1>5, AppendProperties
<1>7. \A k \in DOMAIN r : r[k] = x \/ (k \in DOMAIN s /\ r[k] = s[k])
  BY <1>5, <1>6
<1>8. x[2] = node
  BY <1>3
<1>9. \A k \in DOMAIN s : AllRead(s[k][2], base, Lease(regens))'
  BY <1>1, <1>4 DEF DumpRead
<1>10. \A k \in DOMAIN r : AllRead(r[k][2], base, Lease(regens))'
  BY <1>7, <1>8, <1>9
<1>11. RowsRead(g.new)' /\ RowsRead(g.old)' /\ \A e \in g.old : e.expire >= base'
  BY <1>1, <1>2 DEF DumpRead, RowsRead
<1>12. QED
  BY <1>4, <1>10, <1>11 DEF DumpRead

LEMMA ChildLeased ==
  ASSUME IInv, Leased, Later, UNCHANGED <<cache, ctx, base>>,
         NEW cs, InsertAll(cs), \A c \in cs : c \in View \/ c.kind # "back",
         pc \in {"dump", "read"}, pc' = "dump",
         NEW rows, NEW node, SetTop(ChildDone(Top, rows, node)),
         RowsRead(rows)', AllRead(node, base, Lease(regens))'
  PROVE  Leased'
<1>1. TablesRead'
  <2>1. \A i \in DirInos : cache'[i] \subseteq cache[i] \cup ctx[i]
                           /\ ctx'[i] \subseteq cache[i] \cup ctx[i]
    OBVIOUS
  <2>2. QED
    BY ONLY <2>1, TablesStay, IInv, Leased, Later DEF Leased
<1>2. BackupsRead'
  <2>1. View' \subseteq View \cup cs
    BY Inserted DEF IInv
  <2>2. QED
    BY ONLY <2>1, BackupsStay, IInv, Leased, Later,
            \A c \in cs : c \in View \/ c.kind # "back" DEF Leased
<1>3. PICK f : f = Top
  OBVIOUS
<1>4. PICK g : g = ChildDone(f, rows, node)
  OBVIOUS
<1>5. /\ stack \in Seq(Range(stack)) /\ stack # <<>> /\ base \in Nat
      /\ stack' = [stack EXCEPT ![Len(stack)] = g]
  BY <1>3, <1>4 DEF IInv, TypeOK, GoodClock, SetTop
<1>6. /\ \A h \in Range(stack') : h \in Range(stack) \/ h = g
      /\ f \in Range(stack)
  BY ONLY <1>3, <1>5, Replaced DEF Top
<1>7. \A h \in Range(stack) : DumpFrame(h, View) /\ DumpRead(h)
  BY DEF IInv, GoodWalk, Leased, WalkRead
<1>8. base' = base
  OBVIOUS
<1>9. DumpRead(g)'
  BY ONLY <1>4, <1>5, <1>6, <1>7, <1>8, Later, DonePlus,
          RowsRead(rows)', AllRead(node, base, Lease(regens))'
<1>10. ASSUME NEW h \in Range(stack) PROVE DumpRead(h)'
  BY ONLY <1>5, <1>7, <1>8, <1>10, Later, DumpReadStays
<1>11. WalkRead'
  BY <1>6, <1>9, <1>10 DEF WalkRead
<1>12. QED
  BY <1>1, <1>2, <1>11 DEF Leased, Later

\* A row that is used again was read a lease before its expiry, or later, and has
\* not expired when the dump starts.
LEMMA ReuseFileLeased == IInv /\ Leased /\ ReuseFile => Leased'
<1> SUFFICES ASSUME IInv, Leased, ReuseFile PROVE Leased'
  OBVIOUS
<1>1. PICK f : f = Top
  OBVIOUS
<1>2. PICK e \in f.old :
        /\ e.ino = Ino[Item.name] /\ e.ctime = Item.ctime
        /\ InsertAll({Reg(Item.name, Item.ctime, e.oid)})
        /\ SetTop(ChildDone(Top, {e}, Reg(Item.name, Item.ctime, e.oid)))
  BY <1>1 DEF ReuseFile, Cached
<1>3. PICK node : node = Reg(Item.name, Item.ctime, e.oid)
  OBVIOUS
<1>4. /\ pc = "dump" /\ pc' = "dump" /\ Top.todo # <<>>
      /\ UNCHANGED <<cache, ctx, base, readings, regens>>
  BY DEF ReuseFile
<1>5. /\ node.kind = "REG" /\ node.ino = e.ino /\ node.ctime = e.ctime /\ node.data = e.oid
  BY <1>2, <1>3 DEF Reg
<1>6. Later
  BY <1>4, NotLess DEF Leased
<1>7. /\ stack \in Seq(Range(stack)) /\ stack # <<>> /\ base \in Nat
  BY <1>4 DEF IInv, TypeOK, GoodClock
<1>8. f \in Range(stack)
  BY ONLY <1>1, <1>7, Replaced DEF Top
<1>9. DumpFrame(f, View) /\ DumpRead(f)
  BY <1>4, <1>8 DEF IInv, GoodWalk, Leased, WalkRead
<1>10. PICK l \in Nat, t \in Nat : l = Lease(regens) /\ t = base
  BY <1>6, <1>7 DEF Later
<1>11. /\ ReadFor(e.ino, e.ctime, e.oid, e.expire, l) /\ t <= e.expire /\ e.expire \in Nat
  BY <1>9, <1>10 DEF DumpRead, RowsRead, DumpFrame, GoodRows, GoodRow
<1>12. ReadFor(e.ino, e.ctime, e.oid, t, l)' /\ ReadFor(e.ino, e.ctime, e.oid, e.expire, l)'
  <2>1. TimesRead /\ readings \subseteq readings' /\ l <= l /\ e.expire <= e.expire
    BY <1>6, <1>10, <1>11 DEF Later
  <2>2. QED
    BY ONLY <1>10, <1>11, <2>1, ReadStays
<1>13. base' = t /\ Lease(regens)' = l
  BY <1>4, <1>10 DEF Lease
<1>14. AllRead(node, base, Lease(regens))'
  <2>1. AllRead(node, t, l)'
    BY <1>5, <1>12, LeafReadNext
  <2>2. QED
    BY <1>13, <2>1
<1>15. PICK rows : rows = {e}
  OBVIOUS
<1>16. RowsRead(rows)'
  BY <1>12, <1>13, <1>15 DEF RowsRead
<1>17. PICK cs : cs = {node}
  OBVIOUS
<1>18. /\ InsertAll(cs) /\ SetTop(ChildDone(Top, rows, node))
       /\ \A c \in cs : c \in View \/ c.kind # "back"
  BY <1>2, <1>3, <1>5, <1>15, <1>17
<1>19. QED
  BY ONLY IInv, Leased, <1>4, <1>6, <1>14, <1>16, <1>18, ChildLeased

LEMMA PlainNodeLeased == IInv /\ Leased /\ PlainNode => Leased'
<1> SUFFICES ASSUME IInv, Leased, PlainNode PROVE Leased'
  OBVIOUS
<1>1. PICK node : node = Lnk(Item.name, Item.ctime, live[Item.name].data)
  OBVIOUS
<1>2. PICK rows, cs : rows = {} /\ cs = {node}
  OBVIOUS
<1>3. /\ pc = "dump" /\ pc' = "dump" /\ UNCHANGED <<cache, ctx, base, readings, regens>>
      /\ InsertAll(cs) /\ SetTop(ChildDone(Top, rows, node)) /\ node.kind = "LNK"
  BY <1>1, <1>2 DEF PlainNode, Lnk
<1>4. Later
  BY <1>3, NotLess DEF Leased
<1>5. AllRead(node, base, Lease(regens))'
  <2>1. PICK t, l : t = base' /\ l = Lease(regens)'
    OBVIOUS
  <2>2. AllRead(node, t, l)'
    BY <1>3, LeafReadNext
  <2>3. QED
    BY <2>1, <2>2
<1>6. RowsRead(rows)'
  BY <1>2 DEF RowsRead
<1>7. \A c \in cs : c \in View \/ c.kind # "back"
  BY <1>2, <1>3
<1>8. QED
  BY ONLY IInv, Leased, <1>3, <1>4, <1>5, <1>6, <1>7, ChildLeased

\* What has just been read was read after the dump started, and a new row lives no
\* longer than the longest age from that start.
LEMMA FinishFileLeased == IInv /\ Leased /\ FinishFile => Leased'
<1> SUFFICES ASSUME IInv, Leased, FinishFile PROVE Leased'
  OBVIOUS
<1>1. PICK data : data = FileData(blocks)
  OBVIOUS
<1>2. PICK node, i, c : node = Reg(Item.name, Item.ctime, data)
                        /\ i = Ino[Item.name] /\ c = Item.ctime
  OBVIOUS
<1>3. PICK age \in Ages :
        SetTop(ChildDone(Top, {NewRow(Ino[Item.name], Item.ctime, data, age)}, node))
  BY <1>1, <1>2 DEF FinishFile
<1>4. PICK r : r = NewRow(Ino[Item.name], Item.ctime, data, age)
  OBVIOUS
<1>5. PICK rows, cs : rows = {r} /\ cs = {data, node}
  OBVIOUS
<1>6. /\ pc = "read" /\ pc' = "dump" /\ UNCHANGED <<cache, ctx, base, regens>>
      /\ InsertAll(cs) /\ SetTop(ChildDone(Top, rows, node))
      /\ readings' = readings \cup {[ino |-> i, ctime |-> c, oid |-> data, at |-> clock]}
  BY <1>1, <1>2, <1>3, <1>4, <1>5 DEF FinishFile, HasRead
<1>7. /\ node.kind = "REG" /\ node.ino = i /\ node.ctime = c /\ node.data = data
      /\ r.ino = i /\ r.ctime = c /\ r.oid = data /\ r.expire = base + age
  BY <1>2, <1>4 DEF Reg, NewRow
<1>8. data \in View \/ data.kind # "back"
  <2>1. blocks \in Seq(View)
    BY <1>6 DEF IInv, GoodWalk
  <2>2. CASE blocks = <<>>
    BY <1>1, <2>2 DEF FileData, Null
  <2>3. CASE Len(blocks) = 1
    BY <1>1, <2>1, <2>3 DEF FileData
  <2>4. CASE blocks # <<>> /\ Len(blocks) # 1
    BY <1>1, <2>4 DEF FileData, Ind
  <2>5. QED
    BY <2>2, <2>3, <2>4
<1>9. \A x \in cs : x \in View \/ x.kind # "back"
  BY <1>5, <1>7, <1>8
<1>10. PICK g \in Nat, l \in Nat, m \in Nat :
         /\ g = regens /\ l = Lease(regens) /\ m = g * Longest /\ l = m + Longest
         /\ l <= l
  BY Leases DEF Leased, TimesRead
<1>11. /\ base \in Nat /\ clock \in Nat /\ base <= clock
  BY <1>6, BackupAssumption DEF IInv, TypeOK, GoodClock, BackupAssumption
<1>12. TimesRead'
  BY <1>6, <1>11 DEF Leased, TimesRead
<1>13. Lease(regens)' = l /\ Lease(regens') = l /\ base' = base
  BY <1>6, <1>10 DEF Lease
<1>14. Later
  BY <1>6, <1>10, <1>12, <1>13 DEF Later, Leased
<1>15. PICK x : x = [ino |-> i, ctime |-> c, oid |-> data, at |-> clock]
  OBVIOUS
<1>16. base <= clock + l /\ r.expire <= clock + l
  <2>1. age \in Nat /\ age <= Longest /\ Longest \in Nat
    BY LongestAge
  <2>2. QED
    BY <1>7, <1>10, <1>11, <2>1
<1>17. ReadFor(i, c, data, base, l)' /\ ReadFor(i, c, data, r.expire, l)'
  <2>1. x \in readings' /\ x.ino = i /\ x.ctime = c /\ x.oid = data /\ x.at = clock
    BY <1>6, <1>15
  <2>2. base' <= x.at + l /\ r.expire <= x.at + l
    BY <1>13, <1>16, <2>1
  <2>3. QED
    BY ONLY <2>1, <2>2 DEF ReadFor
<1>18. AllRead(node, base, Lease(regens))'
  <2>1. PICK t : t = base
    OBVIOUS
  <2>2. AllRead(node, t, l)'
    <3>1. ReadFor(i, c, data, t, l)'
      BY <1>13, <1>17, <2>1
    <3>2. QED
      BY <1>7, <3>1, LeafReadNext
  <2>3. QED
    BY <1>13, <2>1, <2>2
<1>19. RowsRead(rows)'
  BY <1>5, <1>7, <1>13, <1>17 DEF RowsRead
<1>20. pc \in {"dump", "read"}
  BY <1>6
<1>21. QED
  BY ONLY IInv, Leased, <1>6, <1>9, <1>14, <1>18, <1>19, <1>20, ChildLeased

\* The frames stay as they are.
LEMMA FramesStay ==
  ASSUME IInv, Leased, Later, base' = base, pc \in {"dump", "read"}
  PROVE  \A f \in Range(stack) : DumpRead(f)'
<1>1. base \in Nat /\ \A f \in Range(stack) : DumpFrame(f, View) /\ DumpRead(f)
  BY DEF IInv, GoodWalk, GoodClock, Leased, WalkRead
<1>2. QED
  BY ONLY <1>1, Later, base' = base, DumpReadStays

LEMMA OpenFileLeased == IInv /\ Leased /\ OpenFile => Leased'
<1> SUFFICES ASSUME IInv, Leased, OpenFile PROVE Leased'
  OBVIOUS
<1>1. /\ UNCHANGED <<poolVars, cache, ctx, readings, regens>>
      /\ pc = "dump" /\ pc' = "read" /\ base' = base /\ stack' = stack
  BY DEF OpenFile
<1>2. Later /\ TimesRead' /\ TablesRead' /\ BackupsRead'
  BY <1>1, QuietRead
<1>3. \A f \in Range(stack) : DumpRead(f)'
  BY <1>1, <1>2, FramesStay
<1>4. WalkRead'
  BY <1>1, <1>3 DEF WalkRead
<1>5. QED
  BY <1>2, <1>4 DEF Leased

LEMMA ReadBlockLeased == IInv /\ Leased /\ ReadBlock => Leased'
<1> SUFFICES ASSUME IInv, Leased, ReadBlock PROVE Leased'
  OBVIOUS
<1>1. PICK b : b = Blob(live[Item.name].data[Len(blocks) + 1])
  OBVIOUS
<1>2. PICK cs : cs = {b}
  OBVIOUS
<1>3. /\ UNCHANGED <<cache, ctx, readings, regens>> /\ InsertAll(cs) /\ b.kind # "back"
      /\ pc = "read" /\ pc' = "read" /\ base' = base /\ stack' = stack
  BY <1>1, <1>2 DEF ReadBlock, Blob
<1>4. Later
  BY <1>3, NotLess DEF Leased
<1>5. \A f \in Range(stack) : DumpRead(f)'
  BY <1>3, <1>4, FramesStay
<1>6. WalkRead'
  BY <1>3, <1>5 DEF WalkRead
<1>7. TablesRead'
  BY <1>3, <1>4, TablesStay DEF Leased
<1>8. BackupsRead'
  <2>1. View' \subseteq View \cup cs
    BY <1>3, Inserted DEF IInv
  <2>2. \A c \in cs : c \in View \/ c.kind # "back"
    BY <1>2, <1>3
  <2>3. QED
    BY <1>4, <2>1, <2>2, BackupsStay DEF Leased
<1>9. QED
  BY <1>4, <1>6, <1>7, <1>8 DEF Leased, Later

\* The rows of one directory are written.
LEMMA TablesWritten ==
  ASSUME IInv, TablesRead, Later, cache' = cache,
         NEW i, NEW es, NEW V, UpdateDir(i, es), GoodRows(es, V), RowsRead(es)
  PROVE  TablesRead'
<1>1. RowsRead(es)'
  BY RowsStay
<1>2. ASSUME NEW j \in DirInos PROVE RowsRead(cache[j])' /\ RowsRead(ctx[j])'
  <2>1. GoodRows(cache[j], durable) /\ GoodRows(ctx[j], View) /\ RowsRead(cache[j]) /\ RowsRead(ctx[j])
    BY DEF IInv, GoodTables, TablesRead
  <2>2. PICK a, b : a = cache[j] /\ b = ctx[j]
    OBVIOUS
  <2>3. RowsRead(a)' /\ RowsRead(b)'
    BY <2>1, <2>2, RowsStay
  <2>4. cache'[j] = a
    BY <2>2
  <2>5. \A e \in ctx'[j] : e \in b \/ e \in es
    BY <2>2 DEF UpdateDir, IInv, TypeOK
  <2>6. QED
    BY <1>1, <2>3, <2>4, <2>5 DEF RowsRead
<1>3. QED
  BY <1>2 DEF TablesRead

\* The node of a directory whose files were read.
LEMMA ListingRead ==
  ASSUME NEW done, NEW i, NEW t, NEW l,
         \A k \in DOMAIN done : AllRead(done[k][2], t, l)
  PROVE  AllRead(DirNode(i, DirData(done)), t, l)
<1>1. PICK n : n = DirNode(i, DirData(done))
  OBVIOUS
<1>2. n.kind = "DIR" /\ n.children = DirData(done)
  BY <1>1 DEF DirNode
<1>3. Entries(n.children) = done
  BY <1>2 DEF Entries, DirData, Listing, Null
<1>4. QED
  BY <1>1, <1>2, <1>3, DirRead

LEMMA LeaveDirLeased == IInv /\ Leased /\ LeaveDir => Leased'
<1> SUFFICES ASSUME IInv, Leased, LeaveDir PROVE Leased'
  OBVIOUS
<1>1. PICK list : list = DirData(Top.done)
  OBVIOUS
<1>2. PICK node, rest, cs, f :
        node = DirNode(Top.ino, list) /\ rest = Front(stack) /\ cs = {list, node} /\ f = Top
  OBVIOUS
<1>3. /\ pc = "dump" /\ InsertAll(cs) /\ UpdateDir(f.ino, f.new)
      /\ UNCHANGED <<cache, base, readings, regens>>
      /\ IF rest = <<>>
           THEN pc' = "back" /\ head' = node /\ stack' = <<>>
           ELSE /\ stack' = [rest EXCEPT ![Len(rest)] = ChildDone(@, {}, node)]
                /\ UNCHANGED <<pc, head>>
  BY <1>1, <1>2 DEF LeaveDir
<1>4. Later
  BY <1>3, NotLess DEF Leased
<1>5. /\ stack \in Seq(Range(stack)) /\ stack # <<>> /\ base \in Nat
  BY <1>3 DEF IInv, TypeOK, GoodClock
<1>6. /\ rest \in Seq(Range(rest)) /\ Range(rest) \subseteq Range(stack)
      /\ Len(stack) \in Nat \ {0} /\ Len(rest) = Len(stack) - 1
      /\ \A k \in 1..Len(rest) : rest[k] = stack[k]
      /\ f \in Range(stack)
  BY <1>2, <1>5, Popped DEF Top
<1>7. \A h \in Range(stack) : DumpFrame(h, View) /\ DumpRead(h)
  BY <1>3 DEF IInv, GoodWalk, Leased, WalkRead
<1>8. \A h \in Range(stack) : DumpRead(h)'
  BY <1>3, <1>4, FramesStay
<1>9. TablesRead'
  <2>1. GoodRows(f.new, View) /\ RowsRead(f.new)
    BY <1>6, <1>7 DEF DumpFrame, DumpRead
  <2>2. QED
    BY ONLY IInv, Leased, <1>3, <1>4, <2>1, TablesWritten DEF Leased
<1>10. node.kind = "DIR" /\ (list = Null \/ list.kind = "dir")
  BY <1>1, <1>2 DEF DirNode, DirData, Listing
<1>11. BackupsRead'
  <2>1. View' \subseteq View \cup cs
    BY <1>3, Inserted DEF IInv
  <2>2. \A c \in cs : c \in View \/ c.kind # "back"
    BY <1>2, <1>10 DEF Null
  <2>3. QED
    BY <1>4, <2>1, <2>2, BackupsStay DEF Leased
<1>12. PICK t, l : t = base /\ l = Lease(regens)
  OBVIOUS
<1>13. base' = t /\ Lease(regens)' = l
  BY <1>3, <1>12 DEF Lease
<1>14. AllRead(node, base, Lease(regens))'
  <2>1. \A k \in DOMAIN f.done : AllRead(f.done[k][2], t, l)
    BY <1>6, <1>7, <1>12 DEF DumpRead
  <2>2. AllRead(node, t, l)
    BY <1>1, <1>2, <2>1, ListingRead
  <2>3. AllRead(node, t, l)'
    BY <1>3, <2>2 DEF AllRead, ReadSet, ReadFor
  <2>4. QED
    BY <1>13, <2>3
<1>15. CASE rest = <<>>
  <2>1. pc' = "back" /\ head' = node /\ stack' = <<>>
    BY <1>3, <1>15
  <2>2. WalkRead'
    BY <1>14, <2>1 DEF WalkRead
  <2>3. QED
    BY <1>4, <1>9, <1>11, <2>2 DEF Leased, Later
<1>16. CASE rest # <<>>
  <2>1. PICK r : r = rest[Len(rest)]
    OBVIOUS
  <2>2. PICK g, rows : rows = {} /\ g = ChildDone(r, rows, node)
    OBVIOUS
  <2>3. pc' = "dump" /\ stack' = [rest EXCEPT ![Len(rest)] = g]
    BY <1>3, <1>16, <2>1, <2>2
  <2>4. \A h \in Range(stack') : h \in Range(rest) \/ h = g
    BY ONLY <1>6, <1>16, <2>3, Replaced
  <2>5. r \in Range(rest)
    BY ONLY <1>6, <1>16, <2>1, Replaced, Last(rest) = rest[Len(rest)] DEF Last
  <2>6. DumpFrame(r, View) /\ DumpRead(r)
    BY <1>6, <1>7, <2>5
  <2>7. RowsRead(rows)'
    BY <2>2 DEF RowsRead
  <2>8. base' = base
    BY <1>3
  <2>9. DumpRead(g)'
    BY ONLY <1>4, <1>5, <1>14, <2>2, <2>6, <2>7, <2>8, DonePlus
  <2>10. WalkRead'
    BY <1>6, <1>8, <2>3, <2>4, <2>9 DEF WalkRead
  <2>11. QED
    BY <1>4, <1>9, <1>11, <2>10 DEF Leased, Later
<1>17. QED
  BY <1>15, <1>16

LEMMA WriteBackLeased == IInv /\ Leased /\ WriteBack => Leased'
<1> SUFFICES ASSUME IInv, Leased, WriteBack PROVE Leased'
  OBVIOUS
<1>1. PICK b : b = Back(base, head)
  OBVIOUS
<1>2. PICK cs : cs = {b}
  OBVIOUS
<1>3. /\ InsertAll(cs) /\ pc = "back" /\ pc' = "commit"
      /\ UNCHANGED <<cache, ctx, readings, regens>>
  BY <1>1, <1>2 DEF WriteBack
<1>4. Later
  BY <1>3, NotLess DEF Leased
<1>5. TablesRead'
  BY <1>3, <1>4, TablesStay DEF Leased
<1>6. PICK l \in Nat : l = Lease(regens)
  BY <1>4 DEF Later
<1>7. BackupsRead'
  <2>1. View' = View \cup cs /\ Lease(regens)' = l
    BY <1>3, <1>6, Inserted DEF IInv, Lease
  <2>2. ASSUME NEW c \in View', c.kind = "back" PROVE AllRead(c.hash, c.date, l)'
    <3>1. CASE c = b
      <4>1. AllRead(c.hash, c.date, l)
        BY <1>1, <1>3, <1>6, <3>1 DEF Back, Leased, WalkRead
      <4>2. QED
        BY <1>3, <4>1 DEF AllRead, ReadSet, ReadFor
    <3>2. CASE c # b
      <4>1. AllRead(c.hash, c.date, l)
        BY <1>2, <1>6, <2>1, <2>2, <3>2 DEF Leased, BackupsRead
      <4>2. QED
        BY <1>3, <4>1 DEF AllRead, ReadSet, ReadFor
    <3>3. QED
      BY <3>1, <3>2
  <2>3. QED
    BY <2>1, <2>2 DEF BackupsRead
<1>8. WalkRead'
  BY <1>3 DEF WalkRead
<1>9. QED
  BY <1>4, <1>5, <1>7, <1>8 DEF Leased, Later

\* The tables and the pool are as they were, or as the session saw them, or less.
LEMMA EndLeased ==
  ASSUME IInv, Leased, UNCHANGED <<readings, regens>>, View' \subseteq View,
         pc' \in {"idle", "commit"},
         \A i \in DirInos : cache'[i] \subseteq cache[i] \cup ctx[i]
                            /\ ctx'[i] \subseteq cache[i] \cup ctx[i]
  PROVE  Leased'
<1>1. Later
  BY NotLess DEF Leased
<1>2. TablesRead'
  BY <1>1, TablesStay DEF Leased
<1>3. PICK cs : cs = {}
  OBVIOUS
<1>4. BackupsRead'
  BY <1>1, <1>3, BackupsStay DEF Leased
<1>5. WalkRead'
  BY DEF WalkRead
<1>6. QED
  BY <1>1, <1>2, <1>4, <1>5 DEF Leased, Later

LEMMA CommitLeased == IInv /\ Leased /\ Commit => Leased'
<1> SUFFICES ASSUME IInv, Leased, Commit PROVE Leased'
  OBVIOUS
<1>1. /\ View' = View /\ cache' = ctx /\ ctx' = ctx /\ pc' = "idle"
      /\ UNCHANGED <<readings, regens>>
  BY DEF Commit, P!PoolFlush, View, EndSession, IInv
<1>2. QED
  BY <1>1, EndLeased

LEMMA RollbackLeased == IInv /\ Leased /\ Rollback => Leased'
<1> SUFFICES ASSUME IInv, Leased, Rollback PROVE Leased'
  OBVIOUS
<1>1. /\ View' = durable /\ cache' = cache /\ ctx' = cache /\ pc' = "idle"
      /\ UNCHANGED <<readings, regens>>
  BY DEF Rollback, P!PoolAbandon, View, EndSession, IInv
<1>2. View' \subseteq View
  BY <1>1 DEF View
<1>3. QED
  BY <1>1, <1>2, EndLeased

LEMMA RunExpireLeased == IInv /\ Leased /\ RunExpire => Leased'
<1> SUFFICES ASSUME IInv, Leased, RunExpire PROVE Leased'
  OBVIOUS
<1>1. /\ View' = View /\ pc' = "idle" /\ UNCHANGED <<readings, regens>>
      /\ cache' = [i \in DirInos |-> {e \in cache[i] : e.expire >= clock}] /\ ctx' = cache'
  BY DEF RunExpire, View, poolVars
<1>2. QED
  BY <1>1, EndLeased

\* Time passes, and files change.
LEMMA AroundLeased ==
  ASSUME Leased, UNCHANGED <<poolVars, cache, ctx, pc, base, stack, head, readings, regens>>
  PROVE  Leased'
<1>1. View' = View
  BY DEF View, poolVars
<1>2. TimesRead' /\ TablesRead' /\ BackupsRead'
  BY <1>1 DEF Leased, TimesRead, TablesRead, BackupsRead, RowsRead, AllRead, ReadSet, ReadFor
<1>3. WalkRead'
  BY DEF Leased, WalkRead, DumpRead, RegenRead, RowsRead, AllRead, ReadSet, ReadFor
<1>4. QED
  BY <1>2, <1>3 DEF Leased

LEMMA UserLeased == Leased /\ User => Leased'
<1> SUFFICES ASSUME Leased, User PROVE Leased'
  OBVIOUS
<1>1. UNCHANGED <<poolVars, cache, ctx, pc, base, stack, head, readings, regens>>
  BY DEF User, Tick, Modify, Create, Unlink, Touch
<1>2. QED
  BY <1>1, AroundLeased

-----------------------------------------------------------------------------
(* The regeneration. *)

LEMMA RegenFrameRead ==
  ASSUME NEW n, n.kind = "DIR", AllRead(n, base, regens * Longest)
  PROVE  RegenRead(RegenFrame(n))
<1>1. PICK f : f = RegenFrame(n)
  OBVIOUS
<1>2. f.new = {} /\ f.todo = Entries(n.children)
  BY <1>1 DEF RegenFrame
<1>3. \A k \in DOMAIN f.todo : AllRead(f.todo[k][2], base, regens * Longest)
  BY <1>2, AllReadBelow
<1>4. QED
  BY <1>1, <1>2, <1>3 DEF RegenRead, RowsRead

\* Regenerating makes every lease one age longer, which is what it needs.
LEMMA RegenBackLeased ==
  ASSUME IInv, Leased, NEW b \in durable, RegenBack(b)
  PROVE  Leased'
<1>1. /\ b.kind = "back" /\ pc' = "regen" /\ base' = b.date /\ regens' = regens + 1
      /\ stack' = <<RegenFrame(b.hash)>>
      /\ UNCHANGED <<poolVars, cache, ctx, readings>>
  BY DEF RegenBack
<1>2. PICK k \in Nat, l \in Nat : k = regens /\ l = Lease(k)
  BY Leases DEF Leased, TimesRead
<1>3. regens' = k + 1 /\ regens' \in Nat /\ (regens * Longest)' = l
  BY <1>1, <1>2 DEF Lease
<1>4. Later
  <2>1. Lease(k + 1) \in Nat /\ l <= Lease(k + 1)
    BY <1>2, Leases
  <2>2. QED
    BY <1>1, <1>2, <1>3, <2>1 DEF Later, Leased, TimesRead
<1>5. TablesRead'
  BY <1>1, <1>4, TablesStay DEF Leased
<1>6. BackupsRead'
  <2>1. PICK cs : cs = {}
    OBVIOUS
  <2>2. View' \subseteq View \cup cs
    BY <1>1 DEF View, poolVars
  <2>3. QED
    BY <1>4, <2>1, <2>2, BackupsStay DEF Leased
<1>7. PICK f, n, t : f = RegenFrame(n) /\ n = b.hash /\ t = b.date
  OBVIOUS
<1>8. n.kind = "DIR" /\ AllRead(n, t, l)
  <2>1. b \in View /\ WellMade(b, View)
    BY DEF IInv, GoodPool, View
  <2>2. QED
    BY <1>1, <1>2, <1>7, <2>1 DEF WellMade, Leased, BackupsRead
<1>9. RegenRead(f)'
  <2>1. f.new = {} /\ f.todo = Entries(n.children)
    BY <1>7 DEF RegenFrame
  <2>2. \A j \in DOMAIN f.todo : AllRead(f.todo[j][2], t, l)
    BY <1>8, <2>1, AllReadBelow
  <2>3. \A j \in DOMAIN f.todo : AllRead(f.todo[j][2], t, l)'
    BY <1>1, <2>2 DEF AllRead, ReadSet, ReadFor
  <2>4. base' = t
    BY <1>1, <1>7
  <2>5. QED
    BY <1>3, <2>1, <2>3, <2>4 DEF RegenRead, RowsRead
<1>10. \A g \in Range(stack') : g = f
  BY <1>1, <1>7 DEF Range
<1>11. WalkRead'
  BY <1>1, <1>9, <1>10 DEF WalkRead
<1>12. QED
  BY <1>4, <1>5, <1>6, <1>11 DEF Leased, Later

\* The walk goes on with other frames.
LEMMA RegenLeased ==
  ASSUME IInv, Leased, pc = "regen", pc' = "regen", NEW fs,
         UNCHANGED <<poolVars, cache, ctx, base, readings, regens>>,
         \A h \in Range(stack') : h \in Range(stack) \cup fs, \A g \in fs : RegenRead(g)
  PROVE  Leased'
<1>1. TimesRead' /\ TablesRead' /\ BackupsRead'
  BY QuietRead
<1>2. ASSUME NEW h \in Range(stack') PROVE RegenRead(h)'
  <2>1. RegenRead(h)
    BY DEF Leased, WalkRead
  <2>2. QED
    BY <2>1 DEF RegenRead, RowsRead, AllRead, ReadSet, ReadFor
<1>3. WalkRead'
  BY <1>2 DEF WalkRead
<1>4. QED
  BY <1>1, <1>3 DEF Leased

LEMMA NodeRead ==
  ASSUME IInv, Leased, pc = "regen", Top.todo # <<>>
  PROVE  /\ stack \in Seq(Range(stack)) /\ stack # <<>> /\ RegenFrameOK(Top)
         /\ AllRead(Node, base, regens * Longest) /\ RowsRead(Top.new)
         /\ \A k \in DOMAIN Tail(Top.todo) : AllRead(Tail(Top.todo)[k][2], base, regens * Longest)
<1>1. PICK f, s : f = Top /\ s = f.todo
  OBVIOUS
<1>2. stack \in Seq(Range(stack)) /\ stack # <<>>
  BY DEF IInv, TypeOK
<1>3. f \in Range(stack)
  BY ONLY <1>1, <1>2, Replaced DEF Top
<1>4. RegenFrameOK(f) /\ RegenRead(f)
  BY <1>3 DEF IInv, GoodWalk, Leased, WalkRead
<1>5. /\ 1 \in DOMAIN s /\ Head(s) = s[1]
      /\ \A k \in DOMAIN Tail(s) : k + 1 \in DOMAIN s /\ Tail(s)[k] = s[k + 1]
  <2>1. s \in Seq(Names \X durable) /\ s # <<>>
    BY <1>1, <1>4 DEF RegenFrameOK
  <2>2. QED
    BY <2>1, FirstAndRest
<1>6. Node = s[1][2]
  BY <1>1, <1>5 DEF Node, Item
<1>7. QED
  BY <1>1, <1>2, <1>4, <1>5, <1>6 DEF RegenRead

LEMMA RegenEnterLeased == IInv /\ Leased /\ RegenEnter => Leased'
<1> SUFFICES ASSUME IInv, Leased, RegenEnter PROVE Leased'
  OBVIOUS
<1>1. PICK f, g : f = RegenFrame(Node) /\ g = [Top EXCEPT !.todo = Tail(@)]
  OBVIOUS
<1>2. /\ pc = "regen" /\ pc' = "regen" /\ Top.todo # <<>> /\ Node.kind = "DIR"
      /\ UNCHANGED <<poolVars, cache, ctx, base, readings, regens>>
  BY DEF RegenEnter
<1>3. stack \in Seq(Range(stack)) /\ stack # <<>>
  BY <1>2, NodeRead
<1>4. RegenRead(f)
  BY <1>1, <1>2, NodeRead, RegenFrameRead
<1>5. RegenRead(g)
  <2>1. g.todo = Tail(Top.todo) /\ g.new = Top.new
    BY <1>1, <1>2, NodeRead DEF RegenFrameOK
  <2>2. QED
    BY <1>2, <2>1, NodeRead DEF RegenRead
<1>6. PICK t : t = [stack EXCEPT ![Len(stack)] = g]
  OBVIOUS
<1>7. t \in Seq(Range(t)) /\ Range(t) \subseteq Range(stack) \cup {g}
  BY <1>3, <1>6, Replaced
<1>8. stack' = Append(t, f)
  <2>1. [stack EXCEPT ![Len(stack)].todo = Tail(@)] = t
    BY <1>1, <1>6 DEF Top, Last
  <2>2. QED
    BY <1>1, <2>1 DEF RegenEnter
<1>9. Range(stack') \subseteq Range(t) \cup {f}
  BY <1>7, <1>8, Pushed
<1>10. PICK fs : fs = {f, g}
  OBVIOUS
<1>11. /\ \A h \in Range(stack') : h \in Range(stack) \cup fs
       /\ \A h \in fs : RegenRead(h)
  BY <1>4, <1>5, <1>7, <1>9, <1>10
<1>12. QED
  BY <1>2, <1>11, RegenLeased

\* The innermost directory is one node further.
LEMMA RegenPassLeased ==
  ASSUME IInv, Leased, pc = "regen", Top.todo # <<>>, NEW g, SetTop(g),
         g.todo = Tail(Top.todo), RowsRead(g.new),
         UNCHANGED <<poolVars, cache, ctx, pc, base, readings, regens>>
  PROVE  Leased'
<1>1. RegenRead(g)
  BY NodeRead DEF RegenRead
<1>2. Range(stack') \subseteq Range(stack) \cup {g}
  BY NodeRead, Replaced DEF SetTop
<1>3. PICK fs : fs = {g}
  OBVIOUS
<1>4. pc' = "regen" /\ \A h \in Range(stack') : h \in Range(stack) \cup fs
  BY <1>2, <1>3
<1>5. \A h \in fs : RegenRead(h)
  BY <1>1, <1>3
<1>6. QED
  BY <1>4, <1>5, RegenLeased

LEMMA RegenSkipLeased == IInv /\ Leased /\ RegenSkip => Leased'
<1> SUFFICES ASSUME IInv, Leased, RegenSkip PROVE Leased'
  OBVIOUS
<1>1. PICK g : g = [Top EXCEPT !.todo = Tail(@)]
  OBVIOUS
<1>2. /\ pc = "regen" /\ Top.todo # <<>> /\ SetTop(g)
      /\ UNCHANGED <<poolVars, cache, ctx, pc, base, readings, regens>>
  BY <1>1 DEF RegenSkip
<1>3. g.todo = Tail(Top.todo) /\ g.new = Top.new
  BY <1>1, <1>2, NodeRead DEF RegenFrameOK
<1>4. QED
  BY <1>2, <1>3, NodeRead, RegenPassLeased

\* A new row lives no longer than the longest age from the date of the backup.
LEMMA RegenOpenLeased == IInv /\ Leased /\ RegenOpen => Leased'
<1> SUFFICES ASSUME IInv, Leased, RegenOpen PROVE Leased'
  OBVIOUS
<1> DEFINE Row(a) == NewRow(Node.ino, Node.ctime, Node.data, a)
           New(r) == [Top EXCEPT !.todo = Tail(@), !.new = {e \in @ : e.ino # r.ino} \cup {r}]
<1>1. PICK age \in Ages : SetTop(New(Row(age)))
  BY Zenon DEF RegenOpen
<1> HIDE DEF Row, New
<1>2. PICK row, g : row = Row(age) /\ g = New(row)
  OBVIOUS
<1>3. /\ pc = "regen" /\ Top.todo # <<>> /\ Node.kind = "REG"
      /\ UNCHANGED <<poolVars, cache, ctx, pc, base, readings, regens>>
  BY DEF RegenOpen
<1>4. /\ row.ino = Node.ino /\ row.ctime = Node.ctime /\ row.oid = Node.data
      /\ row.expire = base + age
  BY <1>2 DEF NewRow, Row
<1>5. /\ g.todo = Tail(Top.todo) /\ g.new = {e \in Top.new : e.ino # row.ino} \cup {row}
  BY <1>2, <1>3, NodeRead DEF RegenFrameOK, New
<1>6. PICK l \in Nat, m \in Nat : l = Lease(regens) /\ m = regens * Longest /\ l = m + Longest
  BY Leases DEF Leased, TimesRead
<1>7. PICK r \in readings :
        r.ino = row.ino /\ r.ctime = row.ctime /\ r.oid = row.oid /\ base <= r.at + m
  <2>1. AllRead(Node, base, m)
    BY <1>3, <1>6, NodeRead
  <2>2. ReadFor(Node.ino, Node.ctime, Node.data, base, m)
    BY <1>3, <2>1 DEF AllRead, ReadSet
  <2>3. QED
    BY <1>4, <2>2 DEF ReadFor
<1>8. row.expire <= r.at + l
  <2>1. age \in Nat /\ age <= Longest /\ Longest \in Nat
    BY LongestAge
  <2>2. base \in Nat /\ r.at \in Nat
    BY DEF IInv, GoodClock, Leased, TimesRead
  <2>3. QED
    BY <1>4, <1>6, <1>7, <2>1, <2>2
<1>9. RowsRead(g.new)
  <2>1. ReadFor(row.ino, row.ctime, row.oid, row.expire, l)
    BY <1>7, <1>8 DEF ReadFor
  <2>2. RowsRead(Top.new)
    BY <1>3, NodeRead
  <2>3. QED
    BY <1>5, <1>6, <2>1, <2>2 DEF RowsRead
<1>10. SetTop(g)
  BY <1>1, <1>2
<1>11. QED
  BY <1>3, <1>5, <1>9, <1>10, RegenPassLeased

LEMMA RegenLeaveLeased == IInv /\ Leased /\ RegenLeave => Leased'
<1> SUFFICES ASSUME IInv, Leased, RegenLeave PROVE Leased'
  OBVIOUS
<1>1. PICK f : f = Top
  OBVIOUS
<1>2. /\ pc = "regen" /\ UpdateDir(f.ino, f.new) /\ stack' = Front(stack)
      /\ pc' \in {"commit", "regen"} /\ cache' = cache
      /\ UNCHANGED <<poolVars, base, readings, regens>>
  BY <1>1 DEF RegenLeave
<1>3. Later
  BY <1>2, NotLess DEF Leased
<1>4. stack \in Seq(Range(stack)) /\ stack # <<>>
  BY <1>2 DEF IInv, TypeOK
<1>5. Range(stack') \subseteq Range(stack) /\ f \in Range(stack)
  BY ONLY <1>1, <1>2, <1>4, Popped DEF Top
<1>6. \A h \in Range(stack) : RegenFrameOK(h) /\ RegenRead(h)
  BY <1>2 DEF IInv, GoodWalk, Leased, WalkRead
<1>7. TablesRead'
  <2>1. GoodRows(f.new, durable) /\ RowsRead(f.new)
    BY <1>5, <1>6 DEF RegenFrameOK, RegenRead
  <2>2. QED
    BY ONLY IInv, Leased, <1>2, <1>3, <2>1, TablesWritten DEF Leased
<1>8. BackupsRead'
  <2>1. PICK cs : cs = {}
    OBVIOUS
  <2>2. View' \subseteq View \cup cs
    BY <1>2 DEF View, poolVars
  <2>3. QED
    BY <1>3, <2>1, <2>2, BackupsStay DEF Leased
<1>9. WalkRead'
  <2>1. \A h \in Range(stack) : RegenRead(h)'
    BY <1>2, <1>6 DEF RegenRead, RowsRead, AllRead, ReadSet, ReadFor
  <2>2. QED
    BY <1>2, <1>5, <2>1 DEF WalkRead
<1>10. QED
  BY <1>3, <1>7, <1>8, <1>9 DEF Leased, Later

-----------------------------------------------------------------------------
LEMMA InitLeased == Init => Leased
<1> SUFFICES ASSUME Init PROVE Leased
  OBVIOUS
<1>1. /\ regens = 0 /\ readings = {} /\ View = {} /\ pc = "idle"
      /\ \A i \in DirInos : cache[i] = {} /\ ctx[i] = {}
  BY DEF Init, P!PoolInit, View
<1>2. QED
  BY <1>1 DEF Leased, TimesRead, TablesRead, BackupsRead, WalkRead, RowsRead

\* In every state, each row was read a lease before its expiry, or later, and each
\* file of a backup a lease before the date of the backup, or later.
THEOREM LeaseInvariant == Spec => []Leased
<1>1. Init => Leased
  BY InitLeased
<1>2. IInv /\ Leased /\ [Next]_vars => Leased'
  <2> SUFFICES ASSUME IInv, Leased, [Next]_vars PROVE Leased'
    OBVIOUS
  <2>1. CASE User
    BY <2>1, UserLeased
  <2>2. CASE Backup \/ EnterDir \/ ReuseFile \/ OpenFile \/ ReadBlock
    BY <2>2, BackupLeased, EnterDirLeased, ReuseFileLeased, OpenFileLeased, ReadBlockLeased
  <2>3. CASE FinishFile \/ PlainNode \/ LeaveDir \/ WriteBack
    BY <2>3, FinishFileLeased, PlainNodeLeased, LeaveDirLeased, WriteBackLeased
  <2>4. CASE Vanished \/ Abort
    BY <2>4, RollbackLeased DEF Vanished, Abort
  <2>5. CASE \E b \in durable : RegenBack(b)
    BY <2>5, RegenBackLeased
  <2>6. CASE RegenEnter \/ RegenOpen \/ RegenSkip \/ RegenLeave
    BY <2>6, RegenEnterLeased, RegenOpenLeased, RegenSkipLeased, RegenLeaveLeased
  <2>7. CASE RunExpire \/ Commit
    BY <2>7, RunExpireLeased, CommitLeased
  <2>8. CASE UNCHANGED vars
    BY <2>8, AroundLeased DEF vars
  <2>9. QED
    BY <2>1, <2>2, <2>3, <2>4, <2>5, <2>6, <2>7, <2>8 DEF Next, Dump, Regen
<1>3. QED
  BY <1>1, <1>2, BackupInvariant, PTL DEF Spec

(* Every row expires at most one longest age after a dump has really read  *)
(* its data under its ctime, plus one more for every regeneration so far,  *)
(* however many dumps have used it again in between.                       *)
THEOREM TrustEnds == Spec => []BoundedTrust
<1>1. Leased => BoundedTrust
  BY DEF Leased, TablesRead, RowsRead, BoundedTrust
<1>2. QED
  BY <1>1, LeaseInvariant, PTL
=============================================================================

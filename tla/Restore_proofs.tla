--------------------------- MODULE Restore_proofs ---------------------------
(***************************************************************************)
(* What a restore guarantees for any backup, any size and depth of it, and *)
(* wherever the restore is stopped.                                        *)
(***************************************************************************)
EXTENDS Restore, SequenceTheorems, Selection_proofs

-----------------------------------------------------------------------------
(* Paths. *)

LEMMA Ends ==
  ASSUME NEW S, NEW s \in Seq(S), s # <<>>
  PROVE  /\ Front(s) \in Seq(S) /\ Last(s) \in S /\ Append(Front(s), Last(s)) = s
         /\ Len(s) \in Nat \ {0} /\ Len(Front(s)) = Len(s) - 1 /\ Last(s) = s[Len(s)]
         /\ \A k \in 1..(Len(s) - 1) : Front(s)[k] = s[k]
<1>1. Len(s) \in Nat \ {0} /\ \A k \in 1..Len(s) : s[k] \in S
  <2>1. Len(s) \in Nat /\ Len(s) # 0
    BY EmptySeq
  <2>2. \A k \in 1..Len(s) : s[k] \in S
    OBVIOUS
  <2>3. QED
    BY <2>1, <2>2
<1>2. /\ Front(s) \in Seq(S) /\ Len(Front(s)) = Len(s) - 1
      /\ \A k \in 1..(Len(s) - 1) : Front(s)[k] = s[k]
  <2>1. PICK n \in Nat : n = Len(s) - 1
    BY <1>1
  <2>2. \A i \in 1..n : s[i] \in S
    BY <1>1, <2>1
  <2>3. /\ SubSeq(s, 1, n) \in Seq(S) /\ Len(SubSeq(s, 1, n)) = n
        /\ \A k \in 1..n : SubSeq(s, 1, n)[k] = s[k]
    <3>1. \A k \in 1..n : k \in 1..(n - 1 + 1) /\ 1 + k - 1 = k
      OBVIOUS
    <3>2. QED
      BY <2>2, <3>1, SubSeqProperties
  <2>4. QED
    BY <2>1, <2>3 DEF Front
<1>3. Last(s) \in S /\ Last(s) = s[Len(s)]
  BY <1>1 DEF Last
<1>4. Append(Front(s), Last(s)) = s
  <2>1. PICK f, l : f = Front(s) /\ l = Last(s)
    OBVIOUS
  <2>2. /\ Append(f, l) \in Seq(S) /\ Len(Append(f, l)) = Len(s)
        /\ \A k \in 1..(Len(s) - 1) : Append(f, l)[k] = s[k]
        /\ Append(f, l)[Len(s)] = s[Len(s)]
    BY <1>1, <1>2, <1>3, <2>1, AppendProperties
  <2>3. \A k \in 1..Len(s) : Append(f, l)[k] = s[k]
    BY <1>1, <2>2
  <2>4. QED
    BY <2>1, <2>2, <2>3, SeqEqual
<1>5. QED
  BY <1>1, <1>2, <1>3, <1>4

LEMMA Extended ==
  ASSUME NEW S, NEW s \in Seq(S), NEW e \in S
  PROVE  LET t == Append(s, e) IN
         /\ t \in Seq(S) /\ t # <<>> /\ Len(t) = Len(s) + 1 /\ Len(s) \in Nat
         /\ Front(t) = s /\ Last(t) = e /\ t[Len(s) + 1] = e
         /\ \A k \in 1..Len(s) : t[k] = s[k]
         /\ \A k \in 0..Len(s) : SubSeq(t, 1, k) = SubSeq(s, 1, k)
<1> DEFINE t == Append(s, e)
<1>1. /\ t \in Seq(S) /\ Len(t) = Len(s) + 1 /\ Len(s) \in Nat /\ t[Len(s) + 1] = e
      /\ \A k \in 1..Len(s) : t[k] = s[k] /\ s[k] \in S
  BY AppendProperties
<1> HIDE DEF t
<1>2. ASSUME NEW k \in 0..Len(s) PROVE SubSeq(t, 1, k) = SubSeq(s, 1, k)
  <2>1. \A i \in 1..k : i \in 1..Len(s) /\ t[i] \in S /\ s[i] \in S /\ t[i] = s[i]
    BY <1>1
  <2>2. /\ SubSeq(t, 1, k) \in Seq(S) /\ Len(SubSeq(t, 1, k)) = k
        /\ \A i \in 1..k : SubSeq(t, 1, k)[i] = t[i]
    BY <1>1, <2>1, SubSeqProperties
  <2>3. /\ SubSeq(s, 1, k) \in Seq(S) /\ Len(SubSeq(s, 1, k)) = k
        /\ \A i \in 1..k : SubSeq(s, 1, k)[i] = s[i]
    BY <2>1, SubSeqProperties
  <2>4. QED
    BY <2>1, <2>2, <2>3, SeqEqual
<1>3. SubSeq(s, 1, Len(s)) = s
  BY SubSeqFull
<1>4. Len(t) - 1 = Len(s) /\ Len(s) \in 0..Len(s)
  BY <1>1
<1>5. Front(t) = s
  BY <1>2, <1>3, <1>4 DEF Front
<1>6. Last(t) = e
  BY <1>1 DEF Last
<1>7. t # <<>>
  BY <1>1
<1>8. QED
  BY <1>1, <1>2, <1>5, <1>6, <1>7 DEF t

(* A directory above another one, or a file in it.                         *)
LEMMA Cut ==
  ASSUME NEW S, NEW s \in Seq(S), NEW k \in 0..Len(s)
  PROVE  /\ SubSeq(s, 1, k) \in Seq(S) /\ Len(SubSeq(s, 1, k)) = k
         /\ (k = Len(s) => SubSeq(s, 1, k) = s)
         /\ (s # <<>> /\ k < Len(s) => SubSeq(Front(s), 1, k) = SubSeq(s, 1, k))
<1>1. \A i \in 1..Len(s) : s[i] \in S
  OBVIOUS
<1>2. SubSeq(s, 1, k) \in Seq(S) /\ Len(SubSeq(s, 1, k)) = k
  BY <1>1, SubSeqProperties
<1>3. k = Len(s) => SubSeq(s, 1, k) = s
  BY SubSeqFull
<1>4. ASSUME s # <<>>, k < Len(s) PROVE SubSeq(Front(s), 1, k) = SubSeq(s, 1, k)
  <2>1. PICK f, l : f = Front(s) /\ l = Last(s)
    OBVIOUS
  <2>2. f \in Seq(S) /\ l \in S /\ Append(f, l) = s /\ Len(f) = Len(s) - 1
    BY <1>4, <2>1, Ends
  <2>3. k \in 0..Len(f)
    BY <1>4, <2>2
  <2>4. SubSeq(Append(f, l), 1, k) = SubSeq(f, 1, k)
    BY <2>2, <2>3, Extended
  <2>5. QED
    BY <2>1, <2>2, <2>4
<1>5. QED
  BY <1>2, <1>3, <1>4

-----------------------------------------------------------------------------
(* The backup. *)

LEMMA Shape ==
  ASSUME TypeOK
  PROVE  /\ path \in DOMAIN tree /\ <<>> \in DOMAIN tree /\ tree[<<>>].kind = "DIR"
         /\ \A p \in DOMAIN tree :
              /\ p \in Seq(NamesIn(tree)) /\ tree[p].names \in Seq(NamesIn(tree))
              /\ tree[p].data \in Seq(BlobsIn(tree))
              /\ tree[p].kind \in Kinds /\ tree[p].mode \in Modes /\ tree[p].mode # "own"
              /\ tree[p].suid \in BOOLEAN /\ tree[p].uid \in Nat /\ tree[p].mtime # Now
              /\ tree[p].kind = "DIR" => tree[p].data = <<>>
              /\ IsInjective(tree[p].names)
         /\ \A p \in DOMAIN tree : \A n \in Range(tree[p].names) :
              /\ n \in NamesIn(tree) /\ Append(p, n) \in DOMAIN tree /\ tree[p].kind = "DIR"
              /\ Append(p, n) # <<>> /\ Front(Append(p, n)) = p /\ Last(Append(p, n)) = n
              /\ Len(Append(p, n)) = Len(p) + 1
         /\ \A p \in DOMAIN tree : p # <<>> =>
              /\ Front(p) \in DOMAIN tree /\ tree[Front(p)].kind = "DIR"
              /\ Last(p) \in Range(tree[Front(p)].names) /\ p = Append(Front(p), Last(p))
              /\ Len(p) \in Nat \ {0} /\ Len(Front(p)) = Len(p) - 1
<1>1. WellFormed(tree) /\ path \in DOMAIN tree
  BY RestoreAssumption DEF RestoreAssumption, TypeOK
<1>2. <<>> \in DOMAIN tree /\ tree[<<>>].kind = "DIR"
  BY <1>1 DEF WellFormed
<1>3. ASSUME NEW p \in DOMAIN tree
      PROVE  /\ p \in Seq(NamesIn(tree)) /\ tree[p].names \in Seq(NamesIn(tree))
             /\ tree[p].data \in Seq(BlobsIn(tree))
             /\ tree[p].kind \in Kinds /\ tree[p].mode \in Modes /\ tree[p].mode # "own"
             /\ tree[p].suid \in BOOLEAN /\ tree[p].uid \in Nat /\ tree[p].mtime # Now
             /\ tree[p].kind = "DIR" => tree[p].data = <<>>
             /\ IsInjective(tree[p].names)
  BY <1>1 DEF WellFormed, Modes
<1>4. ASSUME NEW p \in DOMAIN tree, p # <<>>
      PROVE  /\ Front(p) \in DOMAIN tree /\ tree[Front(p)].kind = "DIR"
             /\ Last(p) \in Range(tree[Front(p)].names) /\ p = Append(Front(p), Last(p))
             /\ Len(p) \in Nat \ {0} /\ Len(Front(p)) = Len(p) - 1
  <2>1. /\ Front(p) \in DOMAIN tree /\ tree[Front(p)].kind = "DIR"
        /\ Last(p) \in Range(tree[Front(p)].names)
    BY <1>1, <1>4 DEF WellFormed
  <2>2. PICK S : S = NamesIn(tree)
    OBVIOUS
  <2>3. p \in Seq(S)
    BY <1>3, <2>2
  <2>4. Append(Front(p), Last(p)) = p /\ Len(p) \in Nat \ {0} /\ Len(Front(p)) = Len(p) - 1
    BY <1>4, <2>3, Ends
  <2>5. QED
    BY <2>1, <2>4
<1>5. ASSUME NEW p \in DOMAIN tree, NEW n \in Range(tree[p].names)
      PROVE  /\ n \in NamesIn(tree) /\ Append(p, n) \in DOMAIN tree /\ tree[p].kind = "DIR"
             /\ Append(p, n) # <<>> /\ Front(Append(p, n)) = p /\ Last(Append(p, n)) = n
             /\ Len(Append(p, n)) = Len(p) + 1
  <2>1. n \in NamesIn(tree)
    BY DEF NamesIn
  <2>2. Append(p, n) \in DOMAIN tree
    BY <1>1 DEF WellFormed
  <2>3. PICK S : S = NamesIn(tree)
    OBVIOUS
  <2>4. p \in Seq(S) /\ n \in S
    BY <1>3, <2>1, <2>3
  <2>5. /\ Append(p, n) # <<>> /\ Front(Append(p, n)) = p /\ Last(Append(p, n)) = n
        /\ Len(Append(p, n)) = Len(p) + 1
    BY <2>4, Extended
  <2>6. tree[p].kind = "DIR"
    BY <1>4, <2>2, <2>5
  <2>7. QED
    BY <2>1, <2>2, <2>5, <2>6
<1>6. QED
  BY <1>1, <1>2, <1>3, <1>4, <1>5

-----------------------------------------------------------------------------
(* What a step leaves as it is. *)

\* A step made, or wrote to, what is at the path and nothing else; what was
\* restored before remains so.
Touches(p) ==
  /\ tree' = tree /\ isRoot' = isRoot
  /\ Mine \subseteq Mine' /\ Mine' \subseteq Mine \cup {p}
  /\ \A q \in Mine \ {p} :
       /\ fs'[q].kind = fs[q].kind /\ fs'[q].data = fs[q].data /\ fs'[q].uid = fs[q].uid
       /\ fs'[q].mode = fs[q].mode
  /\ \A q \in DOMAIN tree : Restored(q) => Restored(q)'

(* A new entry.                                                            *)
LEMMA Making ==
  ASSUME TypeOK, NEW p \in DOMAIN tree, p \notin DOMAIN fs,
         NEW e \in Entries, fs' = With(p, e), tree' = tree
  PROVE  /\ DOMAIN fs' = DOMAIN fs \cup {p} /\ fs'[p] = e
         /\ \A q \in DOMAIN fs :
              /\ fs'[q].kind = fs[q].kind /\ fs'[q].data = fs[q].data /\ fs'[q].uid = fs[q].uid
              /\ fs'[q].mode = fs[q].mode /\ fs'[q].suid = fs[q].suid
              /\ p = <<>> \/ q # Front(p) => fs'[q] = fs[q]
         /\ \A q \in DOMAIN fs' : fs'[q] \in Entries
<1>1. DOMAIN fs' = DOMAIN fs \cup {p} /\ fs'[p] = e
  BY DEF With
<1>2. ASSUME NEW q \in DOMAIN fs
      PROVE  fs'[q] = fs[q] \/ (p # <<>> /\ q = Front(p) /\ fs'[q] = [fs[q] EXCEPT !.mtime = Now])
  BY DEF With
<1>3. \A q \in DOMAIN fs : fs[q] \in Entries
  BY DEF TypeOK
<1>4. ASSUME NEW r \in Entries
      PROVE  \A t : t = [r EXCEPT !.mtime = Now] =>
               /\ t \in Entries
               /\ t.kind = r.kind /\ t.data = r.data /\ t.uid = r.uid
               /\ t.mode = r.mode /\ t.suid = r.suid
  BY DEF Entries
<1>5. ASSUME NEW q \in DOMAIN fs
      PROVE  /\ fs'[q].kind = fs[q].kind /\ fs'[q].data = fs[q].data /\ fs'[q].uid = fs[q].uid
             /\ fs'[q].mode = fs[q].mode /\ fs'[q].suid = fs[q].suid
             /\ p = <<>> \/ q # Front(p) => fs'[q] = fs[q]
             /\ fs'[q] \in Entries
  <2>1. CASE fs'[q] = fs[q]
    BY <1>3, <2>1
  <2>2. CASE p # <<>> /\ q = Front(p) /\ fs'[q] = [fs[q] EXCEPT !.mtime = Now]
    <3>1. PICK t : t = fs'[q]
      OBVIOUS
    <3>2. PICK r \in Entries : r = fs[q]
      BY <1>3
    <3>3. t = [r EXCEPT !.mtime = Now]
      BY <2>2, <3>1, <3>2
    <3>4. QED
      BY <1>4, <2>2, <3>1, <3>2, <3>3
  <2>3. QED
    BY <1>2, <2>1, <2>2
<1>6. QED
  BY <1>1, <1>5

(* The directory that the walker is in is being made: none of it counts as *)
(* restored.                                                               *)
LEMMA UpIsOpen ==
  ASSUME TypeOK, OnPath, pc # "failed", path # <<>>
  PROVE  /\ Front(path) = Dir(Len(path)) /\ Len(path) \in 1..Len(path)
         /\ Front(path) \in Mine /\ ~Restored(Front(path))
         /\ tree[Front(path)].kind = "DIR" /\ fs[Front(path)].mode = "own"
<1>1. Len(path) \in Nat \ {0}
  BY Shape
<1>2. Front(path) = Dir(Len(path)) /\ Len(path) \in 1..Len(path)
  BY <1>1 DEF Front, Dir
<1>3. /\ Front(path) \in Mine /\ tree[Front(path)].kind = "DIR"
      /\ fs[Front(path)].mode = "own"
  BY <1>2 DEF OnPath, Made
<1>4. tree[Front(path)].mode # "own"
  BY Shape
<1>5. ~Restored(Front(path))
  BY <1>3, <1>4 DEF Restored
<1>6. QED
  BY <1>2, <1>3, <1>5

(* The walker makes an entry.                                              *)
LEMMA MakingTouches ==
  ASSUME NEW p, p = path, TypeOK, OnPath, pc # "failed", path \notin DOMAIN fs,
         NEW e \in Entries, fs' = With(path, e), UNCHANGED <<fixed, others>>
  PROVE  /\ Touches(p) /\ path \in Mine' /\ fs'[path] = e
         /\ DOMAIN fs' = DOMAIN fs \cup {path} /\ \A q \in DOMAIN fs' : fs'[q] \in Entries
<1>1. tree' = tree /\ isRoot' = isRoot /\ others' = others
  BY DEF fixed
<1>2. path \in DOMAIN tree
  BY Shape
<1>3. /\ DOMAIN fs' = DOMAIN fs \cup {path} /\ fs'[path] = e
      /\ \A q \in DOMAIN fs :
           /\ fs'[q].kind = fs[q].kind /\ fs'[q].data = fs[q].data /\ fs'[q].uid = fs[q].uid
           /\ fs'[q].mode = fs[q].mode /\ fs'[q].suid = fs[q].suid
           /\ path = <<>> \/ q # Front(path) => fs'[q] = fs[q]
      /\ \A q \in DOMAIN fs' : fs'[q] \in Entries
  BY <1>1, <1>2, Making
<1>4. path \notin others
  BY DEF TypeOK
<1>5. Mine \subseteq Mine' /\ Mine' = Mine \cup {path}
  BY <1>1, <1>3, <1>4 DEF Mine
<1>6. ASSUME NEW q \in DOMAIN tree, Restored(q), tree[q].kind # "FIFO" PROVE Restored(q)'
  <2>1. q \in Mine /\ q \in DOMAIN fs
    BY <1>6 DEF Restored, Mine
  <2>2. path = <<>> \/ q # Front(path)
    BY <1>6, UpIsOpen
  <2>3. fs'[q] = fs[q]
    BY <1>3, <2>1, <2>2
  <2>4. QED
    BY <1>1, <1>5, <1>6, <2>1, <2>3 DEF Restored, Owner, Me
<1>7. ASSUME NEW q \in DOMAIN tree, tree[q].kind = "FIFO" PROVE Restored(q)'
  BY <1>1, <1>7 DEF Restored
<1>8. Touches(p)
  BY <1>1, <1>3, <1>5, <1>6, <1>7 DEF Touches, Mine
<1>9. QED
  BY <1>3, <1>5, <1>8

(* The walker writes to the entry that it has made.                        *)
LEMMA WritingTouches ==
  ASSUME NEW p, p = path, TypeOK, path \in Mine, UNCHANGED <<fixed, others>>,
         NEW e \in Entries, fs' = [fs EXCEPT ![path] = e],
         Restored(p) => Restored(p)'
  PROVE  /\ Touches(p) /\ Mine' = Mine /\ fs'[path] = e
         /\ DOMAIN fs' = DOMAIN fs /\ \A q \in DOMAIN fs' : fs'[q] \in Entries
<1>1. tree' = tree /\ isRoot' = isRoot /\ others' = others
  BY DEF fixed
<1>2. /\ DOMAIN fs' = DOMAIN fs /\ fs'[path] = e
      /\ \A q \in DOMAIN fs \ {path} : fs'[q] = fs[q]
  BY DEF Mine
<1>3. Mine' = Mine
  BY <1>1, <1>2 DEF Mine
<1>4. \A q \in DOMAIN fs' : fs'[q] \in Entries
  BY <1>1, <1>2 DEF TypeOK
<1>5. ASSUME NEW q \in DOMAIN tree, Restored(q) PROVE Restored(q)'
  <2>1. CASE q = path
    BY <1>5, <2>1
  <2>2. CASE q # path /\ tree[q].kind # "FIFO"
    <3>1. q \in Mine /\ fs'[q] = fs[q]
      BY <1>2, <1>5, <2>2 DEF Restored, Mine
    <3>2. QED
      BY <1>1, <1>3, <1>5, <3>1 DEF Restored, Owner, Me
  <2>3. CASE tree[q].kind = "FIFO"
    BY <1>1, <2>3 DEF Restored
  <2>4. QED
    BY <2>1, <2>2, <2>3
<1>6. \A q \in Mine \ {path} : fs'[q] = fs[q]
  BY <1>2 DEF Mine
<1>7. Touches(p)
  BY <1>1, <1>3, <1>5, <1>6 DEF Touches
<1>8. QED
  BY <1>2, <1>3, <1>4, <1>7

(* What is restored is kept, and what is in the place belongs to it.       *)
LEMMA KeptTouched ==
  ASSUME TypeOK, Kept, NEW p \in DOMAIN tree, Touches(p),
         p \in Mine' => /\ tree[p].kind # "FIFO"
                        /\ p # <<>> => Front(p) \in Mine'
                        /\ fs'[p].mode # "own" =>
                             Complete(p)' /\ \A n \in Range(tree[p].names) : Restored(Append(p, n))'
  PROVE  Kept'
<1>1. tree' = tree /\ isRoot' = isRoot
  BY DEF Touches
<1>2. ASSUME NEW q \in Mine', q # p
      PROVE  /\ tree'[q].kind # "FIFO"
             /\ q # <<>> => Front(q) \in Mine'
             /\ fs'[q].mode # "own" =>
                  Complete(q)' /\ \A n \in Range(tree'[q].names) : Restored(Append(q, n))'
  <2>1. q \in Mine /\ q \in DOMAIN tree
    BY <1>2 DEF Touches, TypeOK, Mine
  <2>2. /\ fs'[q].mode = fs[q].mode /\ fs'[q].data = fs[q].data /\ fs'[q].uid = fs[q].uid
    BY <1>2, <2>1 DEF Touches
  <2>3. tree'[q].kind # "FIFO" /\ (q # <<>> => Front(q) \in Mine')
    BY <1>1, <2>1 DEF Kept, Touches
  <2>4. ASSUME fs[q].mode # "own"
        PROVE  Complete(q)' /\ \A n \in Range(tree'[q].names) : Restored(Append(q, n))'
    <3>1. Complete(q) /\ \A n \in Range(tree[q].names) : Restored(Append(q, n))
      BY <2>1, <2>4 DEF Kept
    <3>2. Complete(q)'
      BY <1>1, <1>2, <2>2, <3>1 DEF Complete, Owner, Me, Mine
    <3>3. \A n \in Range(tree[q].names) : Append(q, n) \in DOMAIN tree
      BY <2>1, Shape
    <3>4. QED
      BY <1>1, <3>1, <3>2, <3>3 DEF Touches
  <2>5. QED
    BY <2>2, <2>3, <2>4
<1>3. QED
  BY <1>1, <1>2 DEF Kept


-----------------------------------------------------------------------------
(* The stacks of the walker. *)

LEMMA Levels ==
  ASSUME TypeOK
  PROVE  /\ Len(path) \in Nat
         /\ \A k \in 1..(Len(path) + 1) : Len(Dir(k)) = k - 1
         /\ \A k \in 1..Len(path) : Dir(k) # path
         /\ Dir(Len(path) + 1) = path
         /\ pc # "failed" => DOMAIN todo \subseteq 1..(Len(path) + 1)
         /\ todo \in Seq(Seq(NamesIn(tree))) /\ DOMAIN todo = 1..Len(todo) /\ Len(todo) \in Nat
<1>1. PICK S : S = NamesIn(tree)
  OBVIOUS
<1>2. path \in Seq(S) /\ Len(path) \in Nat
  BY <1>1, Shape
<1>3. ASSUME NEW k \in 1..(Len(path) + 1) PROVE Len(Dir(k)) = k - 1
  <2>1. k - 1 \in 0..Len(path)
    BY <1>2
  <2>2. QED
    BY <1>2, <2>1, Cut DEF Dir
<1>4. Dir(Len(path) + 1) = path
  <2>1. Len(path) + 1 - 1 = Len(path)
    BY <1>2
  <2>2. QED
    BY <1>2, <2>1, SubSeqFull DEF Dir
<1>5. \A k \in 1..Len(path) : Dir(k) # path
  BY <1>2, <1>3
<1>6. todo \in Seq(Seq(S)) /\ DOMAIN todo = 1..Len(todo) /\ Len(todo) \in Nat
  BY <1>1, LenProperties DEF TypeOK
<1>7. pc # "failed" => Len(todo) <= Len(path) + 1
  <2>1. PICK m \in Nat, n \in Nat : m = Len(path) /\ n = Len(todo)
    BY <1>2, <1>6
  <2>2. CASE pc \in {"node", "blob", "lchown"}
    BY <2>1, <2>2 DEF TypeOK
  <2>3. CASE pc = "next"
    BY <2>1, <2>3 DEF TypeOK
  <2>4. CASE pc \in {"chown", "chmod", "utimes"} /\ node.kind = "DIR"
    BY <2>1, <2>4 DEF TypeOK
  <2>5. CASE pc \in {"chown", "chmod", "utimes"} /\ node.kind # "DIR"
    BY <2>1, <2>5 DEF TypeOK
  <2>6. CASE pc = "done"
    <3>1. n = 0
      BY <2>1, <2>6 DEF TypeOK
    <3>2. QED
      BY <2>1, <3>1
  <2>7. QED
    BY <2>2, <2>3, <2>4, <2>5, <2>6 DEF TypeOK
<1>8. QED
  BY <1>1, <1>2, <1>3, <1>4, <1>5, <1>6, <1>7

(* The path itself is the only child of a directory above that is on it.   *)
LEMMA ChildOnPath ==
  ASSUME TypeOK, NEW k \in 1..(Len(path) + 1), Dir(k) \in DOMAIN tree,
         NEW n \in Range(tree[Dir(k)].names), Append(Dir(k), n) = path
  PROVE  k = Len(path) /\ n = path[k]
<1>1. /\ Append(Dir(k), n) # <<>> /\ Last(Append(Dir(k), n)) = n
      /\ Len(Append(Dir(k), n)) = Len(Dir(k)) + 1
  BY Shape
<1>2. Len(Dir(k)) = k - 1 /\ Len(path) \in Nat
  BY Levels
<1>3. k = Len(path)
  BY <1>1, <1>2
<1>4. QED
  BY <1>1, <1>3 DEF Last

(* Nothing moves.                                                          *)
LEMMA StackStays ==
  ASSUME NEW p, p = path, TypeOK, ToVisit, Visited, OnPath, pc # "failed", Touches(p),
         path' = path, todo' = todo
  PROVE  ToVisit' /\ Visited' /\ OnPath'
<1>1. tree' = tree /\ isRoot' = isRoot
  BY DEF Touches
<1>2. \A k : Dir(k)' = Dir(k)
  BY DEF Dir
<1>3. DOMAIN todo \subseteq 1..(Len(path) + 1)
  BY Levels
<1>4. ASSUME NEW k \in DOMAIN todo, NEW n \in Range(todo[k]) PROVE Append(Dir(k), n) \notin Mine'
  <2>1. /\ Dir(k) \in DOMAIN tree /\ n \in Range(tree[Dir(k)].names)
        /\ (k <= Len(path) => n # path[k]) /\ Append(Dir(k), n) \notin Mine
    BY <1>4 DEF ToVisit
  <2>2. Append(Dir(k), n) # path
    <3>1. k \in 1..(Len(path) + 1)
      BY <1>3
    <3>2. Len(path) \in Nat
      BY Levels
    <3>3. SUFFICES ASSUME Append(Dir(k), n) = path PROVE FALSE
      OBVIOUS
    <3>4. k = Len(path) /\ n = path[k]
      BY <2>1, <3>1, <3>3, ChildOnPath
    <3>5. QED
      BY <2>1, <3>2, <3>4
  <2>3. QED
    BY <2>1, <2>2 DEF Touches
<1>5. ToVisit'
  BY <1>1, <1>2, <1>4 DEF ToVisit
<1>6. Visited'
  <2>1. ASSUME NEW k \in DOMAIN todo, NEW n \in Range(tree[Dir(k)].names) \ Range(todo[k]),
               k > Len(path) \/ n # path[k]
        PROVE  Restored(Append(Dir(k), n))'
    <3>1. Restored(Append(Dir(k), n))
      BY <2>1 DEF Visited
    <3>2. PICK c : c = Append(Dir(k), n)
      OBVIOUS
    <3>3. c \in DOMAIN tree
      BY <2>1, <3>2, Shape DEF ToVisit
    <3>4. Restored(c)'
      BY <3>1, <3>2, <3>3 DEF Touches
    <3>5. QED
      BY <1>2, <3>2, <3>4
  <2>2. QED
    BY <1>1, <1>2, <2>1 DEF Visited
<1>7. OnPath'
  <2>1. ASSUME NEW k \in 1..Len(path)
        PROVE  Made(Dir(k))' /\ tree'[Dir(k)].kind = "DIR" /\ fs'[Dir(k)].data = <<>>
    <3>1. PICK d : d = Dir(k)
      OBVIOUS
    <3>2. Made(d) /\ tree[d].kind = "DIR" /\ fs[d].data = <<>> /\ d # path
      BY <2>1, <3>1, Levels DEF OnPath
    <3>3. Made(d)' /\ fs'[d].data = <<>>
      BY <1>1, <3>2 DEF Touches, Made, Me
    <3>4. QED
      BY <1>1, <1>2, <3>1, <3>2, <3>3
  <2>2. QED
    BY <1>2, <2>1 DEF OnPath
<1>8. QED
  BY <1>5, <1>6, <1>7

(* The path ends one level up, at the directory, when an entry is done.    *)
LEMMA StackPops ==
  ASSUME NEW p, p = path, TypeOK, ToVisit, Visited, OnPath, pc \notin {"failed", "next", "done"},
         node.kind = "DIR" => Len(todo) = Len(path) + 1 /\ Last(todo) = <<>>,
         node.kind # "DIR" => Len(todo) = Len(path),
         Touches(p), path # <<>>, path' = Front(path),
         todo' = IF node.kind = "DIR" THEN Front(todo) ELSE todo,
         Restored(p)'
  PROVE  ToVisit' /\ Visited' /\ OnPath' /\ Made(Front(p))' /\ Len(todo') = Len(path') + 1
         /\ path' \in DOMAIN tree /\ tree[path'].kind = "DIR" /\ fs'[path'].data = <<>>
         /\ todo' \in Seq(Seq(NamesIn(tree)))
<1>1. tree' = tree /\ isRoot' = isRoot
  BY DEF Touches
<1>2. PICK S : S = NamesIn(tree)
  OBVIOUS
<1>3. /\ path \in Seq(S) /\ Len(path) \in Nat \ {0} /\ Len(path') = Len(path) - 1
      /\ path \in DOMAIN tree /\ path' \in DOMAIN tree /\ tree[path'].kind = "DIR"
      /\ path = Append(path', Last(path))
  BY <1>2, Shape
<1>4. \A k \in 1..Len(path) : Dir(k)' = Dir(k)
  <2>1. ASSUME NEW k \in 1..Len(path) PROVE SubSeq(Front(path), 1, k - 1) = SubSeq(path, 1, k - 1)
    <3>1. k - 1 \in 0..Len(path) /\ k - 1 < Len(path)
      BY <1>3
    <3>2. QED
      BY <1>3, <3>1, Cut
  <2>2. QED
    BY <2>1 DEF Dir
<1>5. /\ todo' \in Seq(Seq(S)) /\ Len(todo') = Len(path) /\ DOMAIN todo' = 1..Len(path)
      /\ \A k \in 1..Len(path) : k \in DOMAIN todo /\ todo'[k] = todo[k]
  <2>1. todo \in Seq(Seq(S)) /\ DOMAIN todo = 1..Len(todo)
    BY <1>2, Levels
  <2>2. CASE node.kind # "DIR"
    BY <1>3, <2>1, <2>2
  <2>3. CASE node.kind = "DIR"
    <3>1. PICK T : T = Seq(S)
      OBVIOUS
    <3>2. todo # <<>>
      BY <1>3, <2>3
    <3>3. /\ Front(todo) \in Seq(T) /\ Len(Front(todo)) = Len(todo) - 1
          /\ \A k \in 1..(Len(todo) - 1) : Front(todo)[k] = todo[k]
      BY <2>1, <3>1, <3>2, Ends
    <3>4. Len(todo) - 1 = Len(path) /\ \A k \in 1..Len(path) : k \in 1..Len(todo)
      BY <1>3, <2>3
    <3>5. QED
      BY <2>1, <2>3, <3>1, <3>3, <3>4, LenProperties
  <2>4. QED
    BY <2>2, <2>3
<1>6. /\ \A k \in 1..Len(path') : k \in 1..Len(path) /\ k # Len(path) /\ path'[k] = path[k]
      /\ \A k \in 1..Len(path) : k <= Len(path') <=> k # Len(path)
  <2>1. \A k \in 1..Len(path') : path'[k] = path[k]
    BY <1>3, Ends
  <2>2. QED
    BY <1>3, <2>1
<1>7. Append(Dir(Len(path)), path[Len(path)]) = path /\ Len(path) \in 1..Len(path)
  BY <1>3, UpIsOpen DEF Last
<1>8. ASSUME NEW k \in 1..Len(path)
      PROVE  /\ Dir(k) \in DOMAIN tree /\ tree[Dir(k)].kind = "DIR"
             /\ Range(todo[k]) \subseteq Range(tree[Dir(k)].names) /\ IsInjective(todo[k])
             /\ path[k] \notin Range(todo[k])
             /\ \A n \in Range(todo[k]) : Append(Dir(k), n) \notin Mine /\ Append(Dir(k), n) # path
  <2>1. k \in DOMAIN todo /\ k <= Len(path) /\ k \in 1..(Len(path) + 1)
    BY <1>3, <1>5
  <2>2. /\ Dir(k) \in DOMAIN tree /\ tree[Dir(k)].kind = "DIR"
        /\ Range(todo[k]) \subseteq Range(tree[Dir(k)].names) /\ IsInjective(todo[k])
        /\ path[k] \notin Range(todo[k])
        /\ \A n \in Range(todo[k]) : Append(Dir(k), n) \notin Mine
    BY <2>1 DEF ToVisit
  <2>3. \A n \in Range(todo[k]) : Append(Dir(k), n) # path
    BY <2>1, <2>2, ChildOnPath
  <2>4. QED
    BY <2>2, <2>3
<1>9. ToVisit'
  <2>1. ASSUME NEW k \in 1..Len(path)
        PROVE  /\ Dir(k) \in DOMAIN tree' /\ tree'[Dir(k)].kind = "DIR"
               /\ Range(todo'[k]) \subseteq Range(tree'[Dir(k)].names) /\ IsInjective(todo'[k])
               /\ k <= Len(path') => path'[k] \notin Range(todo'[k])
               /\ \A n \in Range(todo'[k]) : Append(Dir(k), n) \notin Mine'
    <3>1. todo'[k] = todo[k]
      BY <1>5
    <3>2. \A n \in Range(todo[k]) : Append(Dir(k), n) \notin Mine'
      BY <1>8 DEF Touches
    <3>3. k <= Len(path') => path'[k] = path[k]
      BY <1>3, <1>6
    <3>4. QED
      BY <1>1, <1>8, <3>1, <3>2, <3>3
  <2>2. ASSUME NEW k \in DOMAIN todo'
        PROVE  /\ Dir(k)' \in DOMAIN tree' /\ tree'[Dir(k)'].kind = "DIR"
               /\ Range(todo'[k]) \subseteq Range(tree'[Dir(k)'].names) /\ IsInjective(todo'[k])
               /\ k <= Len(path') => path'[k] \notin Range(todo'[k])
               /\ \A n \in Range(todo'[k]) : Append(Dir(k)', n) \notin Mine'
    <3>1. k \in 1..Len(path) /\ Dir(k)' = Dir(k)
      BY <1>4, <1>5
    <3>2. QED
      BY <2>1, <3>1
  <2>3. QED
    BY <2>2 DEF ToVisit
<1>10. Visited'
  <2>1. ASSUME NEW k \in 1..Len(path), NEW n \in Range(tree[Dir(k)].names) \ Range(todo[k]),
               k > Len(path') \/ n # path'[k]
        PROVE  Restored(Append(Dir(k), n))'
    <3>1. PICK c : c = Append(Dir(k), n)
      OBVIOUS
    <3>2. c \in DOMAIN tree
      BY <1>8, <2>1, <3>1, Shape
    <3>3. CASE k = Len(path) /\ n = path[k]
      <4>1. c = p
        BY <1>7, <3>1, <3>3
      <4>2. QED
        BY <1>4, <2>1, <3>1, <4>1
    <3>4. CASE ~(k = Len(path) /\ n = path[k])
      <4>1. n # path[k]
        <5>1. CASE k = Len(path)
          BY <3>4, <5>1
        <5>2. CASE k # Len(path)
          <6>1. k <= Len(path') /\ path'[k] = path[k] /\ ~(k > Len(path'))
            BY <1>3, <1>6, <5>2
          <6>2. QED
            BY <2>1, <6>1
        <5>3. QED
          BY <5>1, <5>2
      <4>2. Restored(c)
        BY <1>5, <2>1, <3>1, <4>1 DEF Visited
      <4>3. Restored(c)'
        BY <3>2, <4>2 DEF Touches
      <4>4. QED
        BY <1>4, <2>1, <3>1, <4>3
    <3>5. QED
      BY <3>3, <3>4
  <2>2. QED
    BY <1>1, <1>4, <1>5, <2>1 DEF Visited
<1>11. ASSUME NEW k \in 1..Len(path)
       PROVE  Made(Dir(k))' /\ tree'[Dir(k)].kind = "DIR" /\ fs'[Dir(k)].data = <<>>
  <2>1. PICK d : d = Dir(k)
    OBVIOUS
  <2>2. Made(d) /\ tree[d].kind = "DIR" /\ fs[d].data = <<>> /\ d # path
    BY <1>11, <2>1, Levels DEF OnPath
  <2>3. Made(d)' /\ fs'[d].data = <<>>
    BY <1>1, <2>2 DEF Touches, Made, Me
  <2>4. QED
    BY <1>1, <1>4, <2>1, <2>2, <2>3
<1>12. OnPath'
  BY <1>4, <1>6, <1>11 DEF OnPath
<1>13. Made(Front(p))' /\ fs'[path'].data = <<>>
  <2>1. PICK d : d = Front(path)
    OBVIOUS
  <2>2. d = Dir(Len(path)) /\ Made(d) /\ fs[d].data = <<>> /\ d # path
    BY <1>7, <2>1, UpIsOpen, Levels DEF OnPath
  <2>3. Made(d)' /\ fs'[d].data = <<>>
    BY <1>1, <2>2 DEF Touches, Made, Me
  <2>4. QED
    BY <2>1, <2>3
<1>14. QED
  BY <1>2, <1>3, <1>5, <1>9, <1>10, <1>12, <1>13


LEMMA HeadAndTail ==
  ASSUME NEW S, NEW s \in Seq(S), s # <<>>, IsInjective(s)
  PROVE  /\ Head(s) \in S /\ Tail(s) \in Seq(S) /\ IsInjective(Tail(s))
         /\ Range(s) = {Head(s)} \cup Range(Tail(s)) /\ Head(s) \notin Range(Tail(s))
<1>1. PICK t : t = Tail(s)
  OBVIOUS
<1>2. /\ Head(s) \in S /\ t \in Seq(S) /\ Len(t) = Len(s) - 1 /\ Len(s) \in Nat \ {0}
      /\ Head(s) = s[1] /\ \A i \in 1..Len(t) : t[i] = s[i + 1]
  BY <1>1, HeadTailProperties, EmptySeq
<1>3. DOMAIN s = 1..Len(s) /\ DOMAIN t = 1..Len(t)
  BY <1>2, LenProperties
<1>4. \A i \in DOMAIN t : i + 1 \in DOMAIN s /\ t[i] = s[i + 1] /\ i + 1 # 1
  BY <1>2, <1>3
<1>5. \A i \in DOMAIN s : i = 1 \/ (i - 1 \in DOMAIN t /\ t[i - 1] = s[i])
  BY <1>2, <1>3
<1>6. 1 \in DOMAIN s
  BY <1>2, <1>3
<1>7. IsInjective(t)
  <2>1. ASSUME NEW a \in DOMAIN t, NEW b \in DOMAIN t, t[a] = t[b] PROVE a = b
    <3>1. a + 1 = b + 1
      BY <1>4, <2>1 DEF IsInjective
    <3>2. a \in Int /\ b \in Int
      BY <1>3
    <3>3. QED
      BY <3>1, <3>2
  <2>2. QED
    BY <2>1 DEF IsInjective
<1>8. Range(s) = {Head(s)} \cup Range(t)
  <2>1. Range(s) \subseteq {Head(s)} \cup Range(t)
    BY <1>2, <1>5 DEF Range
  <2>2. Head(s) \in Range(s)
    BY <1>2, <1>6 DEF Range
  <2>3. Range(t) \subseteq Range(s)
    BY <1>4 DEF Range
  <2>4. QED
    BY <2>1, <2>2, <2>3
<1>9. Head(s) \notin Range(t)
  BY <1>2, <1>4, <1>6 DEF Range, IsInjective
<1>10. QED
  BY <1>1, <1>2, <1>7, <1>8, <1>9

(* The walker goes down to the next entry of the directory.                *)
LEMMA StackDescends ==
  ASSUME TypeOK, ToVisit, Visited, OnPath, Current, pc = "next", Last(todo) # <<>>,
         UNCHANGED <<fixed, fs, others>>,
         path' = Append(path, Head(Last(todo))),
         todo' = [todo EXCEPT ![Len(todo)] = Tail(@)]
  PROVE  /\ ToVisit' /\ Visited' /\ OnPath' /\ path' \in DOMAIN tree /\ path' \notin Mine'
         /\ todo' \in Seq(Seq(NamesIn(tree))) /\ Len(todo') = Len(path')
<1>1. tree' = tree /\ isRoot' = isRoot /\ fs' = fs /\ others' = others
  BY DEF fixed
<1>2. PICK S : S = NamesIn(tree)
  OBVIOUS
<1>3. /\ todo \in Seq(Seq(S)) /\ Len(todo) = Len(path) + 1 /\ Len(path) \in Nat
      /\ path \in Seq(S) /\ path \in DOMAIN tree
  BY <1>2, Shape DEF TypeOK
<1>4. PICK K \in Nat : K = Len(todo) /\ K = Len(path) + 1 /\ K >= 1
  BY <1>3
<1>5. PICK s \in Seq(S) : s = todo[K] /\ s # <<>> /\ Last(todo) = s
  BY <1>3, <1>4 DEF Last
<1>6. DOMAIN todo = 1..K /\ K \in DOMAIN todo
  BY <1>3, <1>4
<1>7. Dir(K) = path
  BY <1>4, Levels
<1>8. /\ Range(s) \subseteq Range(tree[path].names) /\ IsInjective(s) /\ tree[path].kind = "DIR"
      /\ \A n \in Range(s) : Append(path, n) \notin Mine
  BY <1>5, <1>6, <1>7 DEF ToVisit
<1>9. PICK n : n = Head(s)
  OBVIOUS
<1>10. /\ n \in S /\ Tail(s) \in Seq(S) /\ IsInjective(Tail(s))
       /\ Range(s) = {n} \cup Range(Tail(s)) /\ n \notin Range(Tail(s))
  BY <1>5, <1>8, <1>9, HeadAndTail
<1>11. /\ path' = Append(path, n) /\ Len(path') = K /\ path'[K] = n
       /\ \A k \in 1..Len(path) : path'[k] = path[k]
       /\ \A k \in 0..Len(path) : SubSeq(path', 1, k) = SubSeq(path, 1, k)
  BY <1>3, <1>4, <1>5, <1>9, <1>10, Extended
<1>12. \A k \in 1..K : Dir(k)' = Dir(k)
  <2>1. \A k \in 1..K : k - 1 \in 0..Len(path)
    BY <1>4
  <2>2. QED
    BY <1>11, <2>1 DEF Dir
<1>13. path' \in DOMAIN tree /\ path' \notin Mine'
  <2>1. n \in Range(s)
    BY <1>10
  <2>2. Append(path, n) \in DOMAIN tree /\ Append(path, n) \notin Mine
    BY <1>3, <1>8, <2>1, Shape
  <2>3. Mine' = Mine
    BY <1>1 DEF Mine
  <2>4. QED
    BY <1>11, <2>2, <2>3
<1>14. /\ todo' \in Seq(Seq(S)) /\ DOMAIN todo' = 1..K /\ Len(todo') = K
       /\ todo'[K] = Tail(s) /\ \A k \in 1..K : k # K => todo'[k] = todo[k]
  <2>1. PICK T : T = Seq(S)
    OBVIOUS
  <2>2. todo \in Seq(T) /\ Tail(s) \in T
    BY <1>3, <1>10, <2>1
  <2>3. todo' = [todo EXCEPT ![K] = Tail(s)]
    BY <1>4, <1>5
  <2>4. K \in 1..Len(todo)
    BY <1>4
  <2>5. todo' \in Seq(T) /\ Len(todo') = Len(todo)
    <3>1. PICK u : u = Tail(s)
      OBVIOUS
    <3>2. PICK t : t = [todo EXCEPT ![K] = u]
      OBVIOUS
    <3>3. t \in Seq(T) /\ Len(t) = Len(todo)
      BY <2>2, <2>4, <3>1, <3>2, ExceptSeq
    <3>4. QED
      BY <2>3, <3>1, <3>2, <3>3
  <2>6. QED
    BY <1>4, <1>6, <2>1, <2>3, <2>5
<1>15. \A k \in 1..K : k # K => k \in 1..Len(path) /\ k <= Len(path)
  BY <1>4
<1>16. Mine' = Mine
  BY <1>1 DEF Mine
<1>17. ToVisit'
  <2>1. ASSUME NEW k \in 1..K
        PROVE  /\ Dir(k) \in DOMAIN tree /\ tree[Dir(k)].kind = "DIR"
               /\ Range(todo'[k]) \subseteq Range(tree[Dir(k)].names) /\ IsInjective(todo'[k])
               /\ path'[k] \notin Range(todo'[k])
               /\ \A m \in Range(todo'[k]) : Append(Dir(k), m) \notin Mine
    <3>1. CASE k = K
      BY <1>3, <1>7, <1>8, <1>10, <1>11, <1>14, <3>1
    <3>2. CASE k # K
      <4>1. k \in DOMAIN todo /\ todo'[k] = todo[k] /\ path'[k] = path[k] /\ k <= Len(path)
        BY <1>6, <1>11, <1>14, <1>15, <3>2
      <4>2. QED
        BY <4>1 DEF ToVisit
    <3>3. QED
      BY <3>1, <3>2
  <2>2. ASSUME NEW k \in DOMAIN todo'
        PROVE  /\ Dir(k)' \in DOMAIN tree' /\ tree'[Dir(k)'].kind = "DIR"
               /\ Range(todo'[k]) \subseteq Range(tree'[Dir(k)'].names) /\ IsInjective(todo'[k])
               /\ k <= Len(path') => path'[k] \notin Range(todo'[k])
               /\ \A m \in Range(todo'[k]) : Append(Dir(k)', m) \notin Mine'
    <3>1. k \in 1..K /\ Dir(k)' = Dir(k)
      BY <1>12, <1>14
    <3>2. QED
      BY <1>1, <1>16, <2>1, <3>1
  <2>3. QED
    BY <2>2 DEF ToVisit
<1>18. Visited'
  <2>1. ASSUME NEW k \in 1..K, NEW m \in Range(tree[Dir(k)].names) \ Range(todo'[k]),
               m # path'[k]
        PROVE  Restored(Append(Dir(k), m))
    <3>1. CASE k = K
      <4>1. m \notin Range(Tail(s)) /\ m # n
        BY <1>11, <1>14, <2>1, <3>1
      <4>3. k > Len(path)
        BY <1>3, <1>4, <3>1
      <4>2. QED
        BY <1>5, <1>6, <1>10, <2>1, <3>1, <4>1, <4>3 DEF Visited
    <3>2. CASE k # K
      <4>1. k \in DOMAIN todo /\ todo'[k] = todo[k] /\ path'[k] = path[k]
        BY <1>6, <1>11, <1>14, <1>15, <3>2
      <4>2. QED
        BY <2>1, <4>1 DEF Visited
    <3>3. QED
      BY <3>1, <3>2
  <2>2. ASSUME NEW k \in DOMAIN todo', NEW m \in Range(tree'[Dir(k)'].names) \ Range(todo'[k]),
               k > Len(path') \/ m # path'[k]
        PROVE  Restored(Append(Dir(k), m))'
    <3>1. k \in 1..K /\ Dir(k)' = Dir(k) /\ ~(k > Len(path'))
      BY <1>11, <1>12, <1>14
    <3>2. PICK c : c = Append(Dir(k), m)
      OBVIOUS
    <3>3. Restored(c)
      BY <1>1, <2>1, <2>2, <3>1, <3>2
    <3>4. Restored(c)'
      BY <1>1, <1>16, <3>3 DEF Restored, Owner, Me
    <3>5. QED
      BY <3>1, <3>2, <3>4
  <2>3. QED
    BY <2>2 DEF Visited
<1>19. OnPath'
  <2>1. ASSUME NEW k \in 1..K
        PROVE  Made(Dir(k)) /\ tree[Dir(k)].kind = "DIR" /\ fs[Dir(k)].data = <<>>
    <3>1. CASE k = K
      BY <1>7, <3>1 DEF Current, node
    <3>2. CASE k # K
      BY <1>15, <3>2 DEF OnPath
    <3>3. QED
      BY <3>1, <3>2
  <2>2. ASSUME NEW k \in 1..Len(path')
        PROVE  Made(Dir(k))' /\ tree'[Dir(k)'].kind = "DIR" /\ fs'[Dir(k)'].data = <<>>
    <3>1. k \in 1..K /\ Dir(k)' = Dir(k)
      BY <1>11, <1>12
    <3>2. PICK d : d = Dir(k)
      OBVIOUS
    <3>3. Made(d)' /\ tree'[d].kind = "DIR" /\ fs'[d].data = <<>>
      BY <1>1, <1>16, <2>1, <3>1, <3>2 DEF Made, Me
    <3>4. QED
      BY <3>1, <3>2, <3>3
  <2>3. QED
    BY <2>2 DEF OnPath
<1>20. QED
  BY <1>2, <1>11, <1>13, <1>14, <1>17, <1>18, <1>19


(* The walker enters the directory it has made.                            *)
LEMMA StackPushes ==
  ASSUME NEW p, p = path, TypeOK, ToVisit, Visited, OnPath, Kept, pc = "node", node.kind = "DIR",
         path \notin Mine, Touches(p), path' = path, todo' = Append(todo, node.names)
  PROVE  /\ ToVisit' /\ Visited' /\ OnPath'
         /\ todo' \in Seq(Seq(NamesIn(tree))) /\ Len(todo') = Len(path') + 1
<1>1. tree' = tree /\ isRoot' = isRoot
  BY DEF Touches
<1>2. \A k : Dir(k)' = Dir(k)
  BY DEF Dir
<1>3. PICK T : T = Seq(NamesIn(tree))
  OBVIOUS
<1>4. PICK new \in T : new = node.names
  BY <1>3, Shape DEF node
<1>5. todo \in Seq(T) /\ Len(todo) = Len(path) /\ Len(path) \in Nat
  BY <1>3, Levels DEF TypeOK
<1>6. PICK K \in Nat : K = Len(path)
  BY <1>5
<1>7. /\ todo' \in Seq(T) /\ Len(todo') = K + 1 /\ todo'[K + 1] = new
      /\ \A k \in 1..K : todo'[k] = todo[k]
  BY <1>4, <1>5, <1>6, Extended
<1>8. DOMAIN todo' = 1..(K + 1) /\ DOMAIN todo = 1..K
  BY <1>5, <1>6, <1>7, LenProperties
<1>9. Dir(K + 1) = path /\ path \in DOMAIN tree
  BY <1>6, Levels, Shape
<1>10. ASSUME NEW k \in DOMAIN todo'
       PROVE  (k \in DOMAIN todo /\ todo'[k] = todo[k] /\ k <= Len(path))
              \/ (k = K + 1 /\ todo'[k] = new /\ ~(k <= Len(path)) /\ Dir(k) = path)
  BY <1>6, <1>7, <1>8, <1>9
<1>11. ToVisit'
  <2>1. ASSUME NEW k \in DOMAIN todo
        PROVE  /\ Dir(k) \in DOMAIN tree /\ tree[Dir(k)].kind = "DIR"
               /\ Range(todo[k]) \subseteq Range(tree[Dir(k)].names) /\ IsInjective(todo[k])
               /\ k <= Len(path) => path[k] \notin Range(todo[k])
               /\ \A n \in Range(todo[k]) : Append(Dir(k), n) \notin Mine'
    <3>1. /\ Dir(k) \in DOMAIN tree /\ tree[Dir(k)].kind = "DIR"
          /\ Range(todo[k]) \subseteq Range(tree[Dir(k)].names) /\ IsInjective(todo[k])
          /\ k <= Len(path) => path[k] \notin Range(todo[k])
          /\ \A n \in Range(todo[k]) : Append(Dir(k), n) \notin Mine
      BY DEF ToVisit
    <3>2. k \in 1..(Len(path) + 1)
      BY <1>6, <1>8
    <3>3. \A n \in Range(todo[k]) : Append(Dir(k), n) # path
      <4>1. SUFFICES ASSUME NEW n \in Range(todo[k]), Append(Dir(k), n) = path PROVE FALSE
        OBVIOUS
      <4>2. n \in Range(tree[Dir(k)].names)
        BY <3>1
      <4>3. k = Len(path) /\ n = path[k]
        BY <3>1, <3>2, <4>1, <4>2, ChildOnPath
      <4>4. Len(path) \in Nat
        BY <1>6
      <4>5. QED
        BY <3>1, <4>3, <4>4
    <3>4. QED
      BY <3>1, <3>3 DEF Touches
  <2>2. /\ tree[path].kind = "DIR" /\ IsInjective(new) /\ Range(new) = Range(tree[path].names)
        /\ \A n \in Range(new) : Append(path, n) \notin Mine'
    <3>1. tree[path].kind = "DIR" /\ new = tree[path].names
      BY <1>4 DEF node
    <3>2. ASSUME NEW n \in Range(new) PROVE Append(path, n) \notin Mine'
      <4>1. /\ Append(path, n) # <<>> /\ Front(Append(path, n)) = path
            /\ Len(Append(path, n)) = Len(path) + 1
        BY <1>9, <3>1, Shape
      <4>2. Append(path, n) \notin Mine
        BY <4>1 DEF Kept
      <4>3. Append(path, n) # path
        BY <1>5, <4>1
      <4>4. QED
        BY <4>2, <4>3 DEF Touches
    <3>3. QED
      BY <1>9, <3>1, <3>2, Shape
  <2>3. ASSUME NEW k \in DOMAIN todo'
        PROVE  /\ Dir(k) \in DOMAIN tree /\ tree[Dir(k)].kind = "DIR"
               /\ Range(todo'[k]) \subseteq Range(tree[Dir(k)].names) /\ IsInjective(todo'[k])
               /\ k <= Len(path) => path[k] \notin Range(todo'[k])
               /\ \A n \in Range(todo'[k]) : Append(Dir(k), n) \notin Mine'
    <3>1. CASE k \in DOMAIN todo /\ todo'[k] = todo[k]
      BY <2>1, <3>1
    <3>2. CASE k = K + 1 /\ todo'[k] = new /\ ~(k <= Len(path)) /\ Dir(k) = path
      BY <1>9, <2>2, <3>2
    <3>3. QED
      BY <1>10, <3>1, <3>2
  <2>4. QED
    BY <1>1, <1>2, <2>3 DEF ToVisit
<1>12. Visited'
  <2>1. ASSUME NEW k \in DOMAIN todo', NEW n \in Range(tree[Dir(k)].names) \ Range(todo'[k]),
               k > Len(path) \/ n # path[k]
        PROVE  Restored(Append(Dir(k), n))'
    <3>1. k \in DOMAIN todo /\ todo'[k] = todo[k]
      <4>1. new = tree[path].names
        BY <1>4 DEF node
      <4>2. QED
        BY <1>10, <2>1, <4>1
    <3>2. PICK c : c = Append(Dir(k), n)
      OBVIOUS
    <3>3. Restored(c)
      BY <2>1, <3>1, <3>2 DEF Visited
    <3>4. c \in DOMAIN tree
      BY <2>1, <3>1, <3>2, Shape DEF ToVisit
    <3>5. Restored(c)'
      BY <3>3, <3>4 DEF Touches
    <3>6. QED
      BY <1>2, <3>2, <3>5
  <2>2. QED
    BY <1>1, <1>2, <2>1 DEF Visited
<1>13. OnPath'
  <2>1. ASSUME NEW k \in 1..Len(path)
        PROVE  Made(Dir(k))' /\ tree'[Dir(k)].kind = "DIR" /\ fs'[Dir(k)].data = <<>>
    <3>1. PICK d : d = Dir(k)
      OBVIOUS
    <3>2. Made(d) /\ tree[d].kind = "DIR" /\ fs[d].data = <<>> /\ d # path
      BY <2>1, <3>1, Levels DEF OnPath
    <3>3. Made(d)' /\ fs'[d].data = <<>>
      BY <1>1, <3>2 DEF Touches, Made, Me
    <3>4. QED
      BY <1>1, <1>2, <3>1, <3>2, <3>3
  <2>2. QED
    BY <1>2, <2>1 DEF OnPath
<1>14. QED
  BY <1>3, <1>5, <1>6, <1>7, <1>11, <1>12, <1>13

-----------------------------------------------------------------------------
(* Step by step. *)

(* A walk that fails has been hindered.                                    *)
LEMMA FailStep ==
  ASSUME IInv, pc # "failed", Fail, UNCHANGED <<fixed, others>>,
         faults \/ others # {} \/ (isRoot /\ \E p \in restored : tree[p].uid > MaxInt)
  PROVE  IInv'
<1>1. /\ tree' = tree /\ isRoot' = isRoot /\ faults' = faults /\ others' = others
      /\ fs' = fs /\ path' = path /\ todo' = todo /\ blobs' = blobs /\ pc' = "failed"
  BY DEF Fail, fixed
<1>2. TypeOK'
  BY <1>1 DEF IInv, TypeOK, Entries
<1>3. ToVisit' /\ Visited' /\ OnPath' /\ Current'
  BY <1>1 DEF ToVisit, Visited, OnPath, Current
<1>4. Kept'
  BY <1>1 DEF IInv, Kept, Complete, Restored, Owner, Me, Mine
<1>5. FailsOnlyWhenHindered'
  BY <1>1 DEF FailsOnlyWhenHindered, restored
<1>6. QED
  BY <1>2, <1>3, <1>4, <1>5 DEF IInv

(* Where nobody else writes, nothing is in the way.                        *)
LEMMA Unhindered ==
  ASSUME TypeOK, OnPath, pc # "failed", others = {}
  PROVE  MayReach(path) /\ (path \notin Mine => MayCreate(path))
<1>1. ASSUME NEW q \in Ancestors(path) PROVE q \in DOMAIN fs /\ fs[q].mode = "own"
  <2>1. PICK k \in 0..(Len(path) - 1) : q = SubSeq(path, 1, k)
    BY DEF Ancestors
  <2>2. Len(path) \in Nat
    BY Levels
  <2>3. PICK j \in 1..Len(path) : j = k + 1 /\ j - 1 = k
    BY <2>2
  <2>4. q = Dir(j)
    BY <2>1, <2>3 DEF Dir
  <2>5. QED
    BY <2>4 DEF OnPath, Made, Mine
<1>2. MayReach(path)
  BY <1>1 DEF MayReach
<1>3. path # <<>> => fs[Front(path)].mode = "own"
  BY UpIsOpen
<1>4. QED
  BY <1>2, <1>3 DEF MayCreate, Mine

(* An entry that nobody has given the attributes of the backup.            *)
LEMMA FreshEntry ==
  ASSUME TypeOK, NEW kind \in Kinds
  PROVE  /\ Fresh(kind) \in Entries
         /\ Fresh(kind).kind = kind /\ Fresh(kind).data = <<>> /\ Fresh(kind).mode = "own"
         /\ Fresh(kind).uid = Me
<1>1. Me \in Nat
  BY RestoreAssumption DEF RestoreAssumption, Me
<1>2. <<>> \in Seq(BlobsIn(tree))
  OBVIOUS
<1>3. QED
  BY <1>1, <1>2 DEF Fresh, Entries


LEMMA EnterStep ==
  ASSUME IInv, Enter
  PROVE  IInv'
<1>1. pc = "node" /\ node.kind = "DIR" /\ UNCHANGED <<fixed, others>>
  BY DEF Enter
<1>2. TypeOK /\ ToVisit /\ Visited /\ OnPath /\ Current /\ Kept
  BY DEF IInv
<1>3. CASE (faults \/ ~MayCreate(path)) /\ Fail
  <2>1. path \notin Mine
    BY <1>1, <1>2 DEF Current
  <2>2. faults \/ others # {}
    BY <1>1, <1>2, <1>3, <2>1, Unhindered
  <2>3. QED
    BY <1>1, <1>3, <2>2, FailStep
<1>4. CASE /\ MayCreate(path) /\ fs' = With(path, Fresh("DIR"))
           /\ todo' = Append(todo, node.names) /\ pc' = "next" /\ UNCHANGED <<path, blobs>>
  <2>1. PICK p \in DOMAIN tree : p = path
    BY <1>2, Shape
  <2>2. PICK e \in Entries : /\ e = Fresh("DIR") /\ e.kind = "DIR" /\ e.data = <<>>
                             /\ e.mode = "own" /\ e.uid = Me
    BY <1>2, FreshEntry DEF Kinds
  <2>3. path \notin DOMAIN fs /\ path \notin Mine
    BY <1>4 DEF MayCreate, Mine
  <2>4. /\ Touches(p) /\ path \in Mine' /\ fs'[path] = e
        /\ DOMAIN fs' = DOMAIN fs \cup {path} /\ \A q \in DOMAIN fs' : fs'[q] \in Entries
    BY <1>1, <1>2, <1>4, <2>1, <2>2, <2>3, MakingTouches
  <2>5. /\ tree' = tree /\ isRoot' = isRoot /\ faults' = faults /\ others' = others
        /\ path' = path /\ blobs' = blobs
    BY <1>1, <1>4 DEF fixed
  <2>6. /\ ToVisit' /\ Visited' /\ OnPath'
        /\ todo' \in Seq(Seq(NamesIn(tree))) /\ Len(todo') = Len(path') + 1
    BY <1>1, <1>2, <1>4, <2>1, <2>3, <2>4, <2>5, StackPushes
  <2>7. Made(p)' /\ fs'[path].data = <<>>
    BY <1>1, <2>1, <2>2, <2>4, <2>5 DEF Made, Me, node
  <2>8. Current'
    BY <1>1, <1>4, <2>1, <2>5, <2>7 DEF Current, node
  <2>9. Kept'
    <3>1. p # <<>> => Front(p) \in Mine'
      <4>1. path # <<>> => Front(path) \in Mine
        BY <1>1, <1>2, UpIsOpen
      <4>2. QED
        BY <2>1, <2>4, <4>1 DEF Touches
    <3>2. tree[p].kind # "FIFO" /\ fs'[p].mode = "own"
      BY <1>1, <2>1, <2>2, <2>4 DEF node
    <3>3. QED
      BY <1>2, <2>4, <3>1, <3>2, KeptTouched
  <2>10. TypeOK'
    <3>1. DOMAIN fs' \subseteq DOMAIN tree' /\ others' \subseteq DOMAIN fs'
      BY <1>2, <2>1, <2>4, <2>5 DEF TypeOK
    <3>2. \A q \in DOMAIN fs' : fs'[q] \in Entries'
      BY <2>4, <2>5 DEF Entries
    <3>3. QED
      BY <1>2, <1>4, <2>5, <2>6, <3>1, <3>2 DEF TypeOK
  <2>11. QED
    BY <1>4, <2>6, <2>8, <2>9, <2>10 DEF IInv, FailsOnlyWhenHindered
<1>5. QED
  BY <1>3, <1>4 DEF Enter

LEMMA OpenStep ==
  ASSUME IInv, Open
  PROVE  IInv'
<1>1. pc = "node" /\ node.kind = "REG" /\ UNCHANGED <<fixed, others>>
  BY DEF Open
<1>2. TypeOK /\ ToVisit /\ Visited /\ OnPath /\ Current /\ Kept
  BY DEF IInv
<1>3. CASE (faults \/ ~MayCreate(path)) /\ Fail
  <2>1. path \notin Mine
    BY <1>1, <1>2 DEF Current
  <2>2. faults \/ others # {}
    BY <1>1, <1>2, <1>3, <2>1, Unhindered
  <2>3. QED
    BY <1>1, <1>3, <2>2, FailStep
<1>4. CASE /\ MayCreate(path) /\ fs' = With(path, Fresh("REG"))
           /\ blobs' = node.data /\ pc' = "blob" /\ UNCHANGED <<path, todo>>
  <2>1. PICK p \in DOMAIN tree : p = path
    BY <1>2, Shape
  <2>2. PICK e \in Entries : /\ e = Fresh("REG") /\ e.kind = "REG" /\ e.data = <<>>
                             /\ e.mode = "own" /\ e.uid = Me
    BY <1>2, FreshEntry DEF Kinds
  <2>3. path \notin DOMAIN fs /\ path \notin Mine
    BY <1>4 DEF MayCreate, Mine
  <2>4. /\ Touches(p) /\ path \in Mine' /\ fs'[path] = e
        /\ DOMAIN fs' = DOMAIN fs \cup {path} /\ \A q \in DOMAIN fs' : fs'[q] \in Entries
    BY <1>1, <1>2, <1>4, <2>1, <2>2, <2>3, MakingTouches
  <2>5. /\ tree' = tree /\ isRoot' = isRoot /\ faults' = faults /\ others' = others
        /\ path' = path /\ todo' = todo
    BY <1>1, <1>4 DEF fixed
  <2>6. ToVisit' /\ Visited' /\ OnPath'
    BY <1>1, <1>2, <2>1, <2>4, <2>5, StackStays
  <2>7. node.data \in Seq(BlobsIn(tree)) /\ <<>> \o node.data = node.data
    <3>1. PICK S : S = BlobsIn(tree)
      OBVIOUS
    <3>2. node.data \in Seq(S)
      BY <1>2, <2>1, <3>1, Shape DEF node
    <3>3. QED
      BY <3>1, <3>2, ConcatEmptySeq
  <2>8. Made(p)' /\ fs'[path].data \o blobs' = node.data
    BY <1>1, <1>4, <2>1, <2>2, <2>4, <2>5, <2>7 DEF Made, Me, node
  <2>9. Current'
    BY <1>1, <1>4, <2>1, <2>5, <2>8 DEF Current, node
  <2>10. Kept'
    <3>1. p # <<>> => Front(p) \in Mine'
      <4>1. path # <<>> => Front(path) \in Mine
        BY <1>1, <1>2, UpIsOpen
      <4>2. QED
        BY <2>1, <2>4, <4>1 DEF Touches
    <3>2. tree[p].kind # "FIFO" /\ fs'[p].mode = "own"
      BY <1>1, <2>1, <2>2, <2>4 DEF node
    <3>3. QED
      BY <1>2, <2>4, <3>1, <3>2, KeptTouched
  <2>11. TypeOK'
    <3>1. DOMAIN fs' \subseteq DOMAIN tree' /\ others' \subseteq DOMAIN fs'
      BY <1>2, <2>1, <2>4, <2>5 DEF TypeOK
    <3>2. \A q \in DOMAIN fs' : fs'[q] \in Entries'
      BY <2>4, <2>5 DEF Entries
    <3>3. QED
      BY <1>1, <1>2, <1>4, <2>5, <2>7, <3>1, <3>2 DEF TypeOK
  <2>12. QED
    BY <1>4, <2>6, <2>9, <2>10, <2>11 DEF IInv, FailsOnlyWhenHindered
<1>5. QED
  BY <1>3, <1>4 DEF Open

LEMMA NextEntryStep ==
  ASSUME IInv, NextEntry
  PROVE  IInv'
<1>1. pc = "next" /\ UNCHANGED <<fixed, fs, others, blobs>>
  BY DEF NextEntry
<1>2. TypeOK /\ ToVisit /\ Visited /\ OnPath /\ Current /\ Kept
  BY DEF IInv
<1>3. /\ tree' = tree /\ isRoot' = isRoot /\ faults' = faults /\ others' = others
      /\ fs' = fs /\ blobs' = blobs
  BY <1>1 DEF fixed
<1>4. Kept'
  BY <1>2, <1>3 DEF Kept, Complete, Restored, Owner, Me, Mine
<1>5. CASE Last(todo) # <<>>
  <2>1. /\ path' = Append(path, Head(Last(todo)))
        /\ todo' = [todo EXCEPT ![Len(todo)] = Tail(@)] /\ pc' = "node"
    BY <1>5 DEF NextEntry
  <2>2. /\ ToVisit' /\ Visited' /\ OnPath' /\ path' \in DOMAIN tree /\ path' \notin Mine'
        /\ todo' \in Seq(Seq(NamesIn(tree))) /\ Len(todo') = Len(path')
    BY <1>1, <1>2, <1>5, <2>1, StackDescends
  <2>3. Current'
    BY <2>1, <2>2 DEF Current
  <2>4. TypeOK'
    BY <1>2, <1>3, <2>1, <2>2 DEF TypeOK, Entries
  <2>5. QED
    BY <1>4, <2>1, <2>2, <2>3, <2>4 DEF IInv, FailsOnlyWhenHindered
<1>6. CASE Last(todo) = <<>>
  <2>1. path' = path /\ todo' = todo /\ pc' = "chown"
    BY <1>6 DEF NextEntry, After
  <2>2. ToVisit' /\ Visited' /\ OnPath'
    BY <1>1, <1>2, <1>3, <2>1 DEF ToVisit, Visited, OnPath, Restored, Made, Owner, Me, Mine, Dir
  <2>3. Made(path) /\ node.kind = "DIR" /\ fs[path].data = <<>>
    BY <1>1, <1>2 DEF Current
  <2>4. node.data = <<>>
    BY <1>2, <2>3, Shape DEF node
  <2>5. Current'
    BY <1>3, <1>6, <2>1, <2>3, <2>4 DEF Current, Made, Mine, Me, node
  <2>6. TypeOK'
    BY <1>1, <1>2, <1>3, <2>1, <2>3 DEF TypeOK, Entries, node
  <2>7. QED
    BY <1>4, <2>1, <2>2, <2>5, <2>6 DEF IInv, FailsOnlyWhenHindered
<1>7. QED
  BY <1>5, <1>6


(* Writing to an entry that has not got its mode.                          *)
LEMMA WritingStays ==
  ASSUME NEW p, p = path, TypeOK, ToVisit, Visited, OnPath, Kept, pc # "failed",
         path \in Mine, UNCHANGED <<fixed, others, path, todo>>,
         NEW e \in Entries, fs' = [fs EXCEPT ![path] = e],
         node.kind \in {"DIR", "REG"}, fs[path].mode = "own",
         e.mode # "own" =>
           /\ e.data = node.data /\ e.uid = Owner(path)
           /\ \A n \in Range(tree[p].names) : Restored(Append(p, n))
  PROVE  /\ ToVisit' /\ Visited' /\ OnPath' /\ Kept'
         /\ Mine' = Mine /\ fs'[path] = e
         /\ DOMAIN fs' = DOMAIN fs /\ \A q \in DOMAIN fs' : fs'[q] \in Entries
<1>1. /\ tree' = tree /\ isRoot' = isRoot /\ others' = others /\ path' = path /\ todo' = todo
  BY DEF fixed
<1>2. path \in DOMAIN tree /\ tree[path].mode # "own"
  BY Shape
<1>3. ~Restored(p)
  BY <1>2 DEF Restored, node
<1>4. /\ Touches(p) /\ Mine' = Mine /\ fs'[path] = e
      /\ DOMAIN fs' = DOMAIN fs /\ \A q \in DOMAIN fs' : fs'[q] \in Entries
  BY <1>3, WritingTouches
<1>5. ToVisit' /\ Visited' /\ OnPath'
  BY <1>1, <1>4, StackStays
<1>6. Kept'
  <2>1. p \in DOMAIN tree /\ tree[p].kind # "FIFO" /\ (p # <<>> => Front(p) \in Mine')
    BY <1>2, <1>4 DEF Kept, node
  <2>2. ASSUME fs'[p].mode # "own"
        PROVE  Complete(p)' /\ \A n \in Range(tree[p].names) : Restored(Append(p, n))'
    <3>1. /\ e.data = node.data /\ e.uid = Owner(path)
          /\ \A n \in Range(tree[p].names) : Restored(Append(p, n))
      BY <1>4, <2>2
    <3>2. Complete(p)'
      BY <1>1, <1>4, <3>1 DEF Complete, Owner, Me, Mine, node
    <3>3. \A n \in Range(tree[p].names) : Append(p, n) \in DOMAIN tree
      BY <2>1, Shape
    <3>4. QED
      BY <1>4, <3>1, <3>2, <3>3 DEF Touches
  <2>3. QED
    BY <1>4, <2>1, <2>2, KeptTouched
<1>7. QED
  BY <1>4, <1>5, <1>6

(* The walker is done with what is at the path, and goes back up.          *)
LEMMA DoneStep ==
  ASSUME NEW p, p = path, TypeOK, ToVisit, Visited, OnPath, pc \in {"node", "lchown", "utimes"},
         pc = "node" => node.kind = "FIFO", pc = "lchown" => node.kind = "LNK",
         pc = "utimes" /\ node.kind = "DIR" => Last(todo) = <<>>,
         UNCHANGED <<fixed, others, blobs>>, Touches(p), Done, Restored(p)', Kept',
         DOMAIN fs' \subseteq DOMAIN tree, others \subseteq DOMAIN fs',
         \A q \in DOMAIN fs' : fs'[q] \in Entries
  PROVE  IInv'
<1>1. /\ tree' = tree /\ isRoot' = isRoot /\ faults' = faults /\ others' = others
      /\ blobs' = blobs
  BY DEF fixed
<1>2. /\ todo' = IF node.kind = "DIR" THEN Front(todo) ELSE todo
      /\ path' = IF path = <<>> THEN path ELSE Front(path)
      /\ pc' = IF path = <<>> THEN "done" ELSE "next"
  BY DEF Done
<1>3. Len(path) \in Nat /\ todo \in Seq(Seq(NamesIn(tree))) /\ Len(todo) \in Nat
  BY Levels
<1>4. /\ node.kind = "DIR" => Len(todo) = Len(path) + 1 /\ Last(todo) = <<>>
      /\ node.kind # "DIR" => Len(todo) = Len(path)
  <2>1. CASE pc = "utimes"
    BY <1>3, <2>1 DEF TypeOK
  <2>2. CASE pc = "node" \/ pc = "lchown"
    BY <2>2 DEF TypeOK
  <2>3. QED
    BY <2>1, <2>2
<1>5. FailsOnlyWhenHindered'
  BY <1>2 DEF FailsOnlyWhenHindered
<1>6. CASE path = <<>>
  <2>1. node.kind = "DIR" /\ Len(path) = 0
    BY <1>6, Shape DEF node
  <2>2. todo' = <<>> /\ path' = <<>> /\ pc' = "done"
    <3>1. PICK T : T = Seq(NamesIn(tree))
      OBVIOUS
    <3>2. todo \in Seq(T) /\ todo # <<>> /\ Len(todo) = 1
      <4>1. todo \in Seq(T)
        BY <1>3, <3>1
      <4>2. PICK n \in Nat : n = Len(todo)
        BY <1>3
      <4>3. n = 1
        BY <1>4, <2>1, <4>2
      <4>4. todo # <<>>
        <5>1. Len(todo) # 0
          BY <4>2, <4>3
        <5>2. QED
          BY <5>1, EmptySeq
      <4>5. QED
        BY <4>1, <4>2, <4>3, <4>4
    <3>3. Front(todo) \in Seq(T) /\ Len(Front(todo)) = 0
      BY <3>2, Ends
    <3>4. Front(todo) = <<>>
      BY <3>3, EmptySeq
    <3>5. QED
      BY <1>2, <1>6, <2>1, <3>4
  <2>3. ToVisit' /\ Visited' /\ OnPath'
    BY <2>2 DEF ToVisit, Visited, OnPath
  <2>4. Current'
    BY <1>6, <2>2 DEF Current
  <2>5. TypeOK'
    <3>1. <<>> \in Seq(Seq(NamesIn(tree))) /\ <<>> \in DOMAIN tree
      BY Shape
    <3>2. QED
      BY <1>1, <2>2, <3>1 DEF TypeOK, Entries
  <2>6. QED
    BY <1>5, <2>3, <2>4, <2>5 DEF IInv
<1>7. CASE path # <<>>
  <2>1. path' = Front(path) /\ pc' = "next"
    BY <1>2, <1>7
  <2>2. /\ ToVisit' /\ Visited' /\ OnPath' /\ Made(Front(p))' /\ Len(todo') = Len(path') + 1
        /\ path' \in DOMAIN tree /\ tree[path'].kind = "DIR" /\ fs'[path'].data = <<>>
        /\ todo' \in Seq(Seq(NamesIn(tree)))
    BY <1>2, <1>4, <1>7, <2>1, StackPops
  <2>3. Current'
    BY <1>1, <2>1, <2>2 DEF Current, node
  <2>4. TypeOK'
    <3>1. Entries' = Entries
      BY <1>1 DEF Entries
    <3>2. /\ tree' \in Trees /\ isRoot' \in BOOLEAN /\ faults' \in BOOLEAN
          /\ blobs' \in Seq(BlobsIn(tree'))
      BY <1>1 DEF TypeOK
    <3>3. /\ DOMAIN fs' \subseteq DOMAIN tree' /\ others' \subseteq DOMAIN fs'
          /\ \A q \in DOMAIN fs' : fs'[q] \in Entries'
      BY <1>1, <3>1
    <3>4. /\ path' \in DOMAIN tree' /\ todo' \in Seq(Seq(NamesIn(tree')))
          /\ pc' = "next" /\ Len(todo') = Len(path') + 1
      BY <1>1, <2>1, <2>2
    <3>5. QED
      BY <3>2, <3>3, <3>4 DEF TypeOK
  <2>5. QED
    BY <1>5, <2>2, <2>3, <2>4 DEF IInv
<1>8. QED
  BY <1>6, <1>7


(* A blob moves from what is to be written to the end of what is written.  *)
LEMMA Moved ==
  ASSUME NEW S, NEW s \in Seq(S), NEW t \in Seq(S), t # <<>>
  PROVE  /\ Head(t) \in S /\ Tail(t) \in Seq(S) /\ Append(s, Head(t)) \in Seq(S)
         /\ Append(s, Head(t)) \o Tail(t) = s \o t
<1>1. PICK n \in Nat : n = Len(t) /\ n # 0
  BY EmptySeq, LenProperties
<1>2. Head(t) \in S /\ Tail(t) \in Seq(S) /\ Head(t) = t[1]
  BY HeadTailProperties
<1>3. 1 \in 1..Len(t) /\ Len(t) \in 1..Len(t)
  BY <1>1
<1>4. t = <<t[1]>> \o Tail(t)
  <2>1. SubSeq(t, 1, Len(t)) = <<t[1]>> \o SubSeq(t, 1 + 1, Len(t))
    BY <1>3, SubSeqRecursiveFirst
  <2>2. 1 + 1 = 2
    OBVIOUS
  <2>3. QED
    BY <2>1, <2>2, SubSeqFull, TailIsSubSeq, Zenon
<1>5. PICK h : h = Head(t)
  OBVIOUS
<1>6. PICK u : u = Tail(t)
  OBVIOUS
<1>7. h \in S /\ u \in Seq(S) /\ t = <<h>> \o u
  BY <1>2, <1>4, <1>5, <1>6
<1>8. <<h>> \in Seq(S)
  BY <1>7
<1>9. Append(s, h) = s \o <<h>>
  BY <1>7, AppendIsConcat
<1>10. (s \o <<h>>) \o u = s \o (<<h>> \o u)
  BY <1>7, <1>8, ConcatAssociative
<1>11. Append(s, h) \in Seq(S)
  BY <1>7, AppendProperties
<1>12. Append(s, h) \o u = s \o t
  BY <1>7, <1>9, <1>10, Zenon
<1>13. QED
  BY <1>5, <1>6, <1>7, <1>11, <1>12

LEMMA BlobStep ==
  ASSUME IInv, Blob
  PROVE  IInv'
<1>1. pc = "blob" /\ UNCHANGED <<fixed, others>>
  BY DEF Blob
<1>2. TypeOK /\ ToVisit /\ Visited /\ OnPath /\ Current /\ Kept
  BY DEF IInv
<1>3. /\ tree' = tree /\ isRoot' = isRoot /\ faults' = faults /\ others' = others
  BY <1>1 DEF fixed
<1>4. Made(path) /\ node.kind = "REG" /\ fs[path].data \o blobs = node.data
  BY <1>1, <1>2 DEF Current
<1>5. path \in Mine /\ path \in DOMAIN fs /\ fs[path] \in Entries /\ fs[path].mode = "own"
  BY <1>2, <1>4 DEF Made, Mine, TypeOK
<1>6. PICK S : S = BlobsIn(tree)
  OBVIOUS
<1>7. PICK r \in Entries : r = fs[path]
  BY <1>5
<1>8. r.data \in Seq(S) /\ blobs \in Seq(S)
  BY <1>2, <1>6, <1>7 DEF Entries, TypeOK
<1>9. CASE faults /\ Fail
  BY <1>1, <1>9, FailStep
<1>10. CASE /\ blobs # <<>>
            /\ fs' = [fs EXCEPT ![path].data = Append(@, Head(blobs)), ![path].mtime = Now]
            /\ blobs' = Tail(blobs) /\ UNCHANGED <<pc, path, todo>>
  <2>1. PICK h, t : h = Head(blobs) /\ t = Tail(blobs)
    OBVIOUS
  <2>2. /\ h \in S /\ t \in Seq(S)
        /\ Append(r.data, h) \in Seq(S) /\ Append(r.data, h) \o t = r.data \o blobs
    BY <1>8, <1>10, <2>1, Moved
  <2>3. PICK e \in Entries : e = [r EXCEPT !.data = Append(r.data, h), !.mtime = Now]
    BY <1>6, <2>2 DEF Entries
  <2>4. /\ e.data = Append(r.data, h) /\ e.kind = r.kind /\ e.uid = r.uid /\ e.mode = r.mode
    BY <2>3 DEF Entries
  <2>5. fs' = [fs EXCEPT ![path] = e]
    BY <1>7, <1>10, <2>1, <2>3
  <2>6. PICK p \in DOMAIN tree : p = path
    BY <1>2, Shape
  <2>7. UNCHANGED <<fixed, others, path, todo>>
    BY <1>1, <1>10
  <2>8. e.mode = "own"
    BY <1>5, <1>7, <2>4
  <2>9. /\ ToVisit' /\ Visited' /\ OnPath' /\ Kept'
        /\ Mine' = Mine /\ fs'[path] = e
        /\ DOMAIN fs' = DOMAIN fs /\ \A q \in DOMAIN fs' : fs'[q] \in Entries
    BY <1>1, <1>2, <1>4, <1>5, <2>5, <2>6, <2>7, <2>8, WritingStays
  <2>10. Made(p)'
    BY <1>3, <1>4, <1>7, <2>4, <2>6, <2>9 DEF Made, Me
  <2>11. fs'[path].data \o blobs' = node.data
    BY <1>4, <1>7, <1>10, <2>1, <2>2, <2>4, <2>9
  <2>12. Current'
    BY <1>1, <1>3, <1>4, <1>10, <2>6, <2>10, <2>11 DEF Current, node
  <2>13. TypeOK'
    <3>1. blobs' \in Seq(BlobsIn(tree'))
      BY <1>3, <1>6, <1>10, <2>1, <2>2
    <3>2. DOMAIN fs' \subseteq DOMAIN tree' /\ others' \subseteq DOMAIN fs'
      BY <1>2, <1>3, <2>9 DEF TypeOK
    <3>3. \A q \in DOMAIN fs' : fs'[q] \in Entries'
      BY <1>3, <2>9 DEF Entries
    <3>4. pc' = "blob" /\ path' = path /\ todo' = todo
      BY <1>1, <1>10
    <3>5. QED
      BY <1>1, <1>2, <1>3, <3>1, <3>2, <3>3, <3>4 DEF TypeOK
  <2>14. QED
    BY <1>1, <1>10, <2>9, <2>12, <2>13 DEF IInv, FailsOnlyWhenHindered
<1>11. CASE blobs = <<>> /\ pc' = After("close") /\ UNCHANGED <<fs, path, todo, blobs>>
  <2>1. pc' = "chown"
    BY <1>11 DEF After
  <2>2. ToVisit' /\ Visited' /\ OnPath' /\ Kept'
    BY <1>1, <1>2, <1>3, <1>11, <2>1
    DEF ToVisit, Visited, OnPath, Kept, Complete, Restored, Made, Owner, Me, Mine, Dir
  <2>3. fs[path].data = node.data
    BY <1>4, <1>7, <1>8, <1>11, ConcatEmptySeq
  <2>4. Current'
    BY <1>3, <1>4, <1>11, <2>1, <2>3 DEF Current, Made, Mine, Me, node
  <2>5. TypeOK'
    BY <1>1, <1>2, <1>3, <1>4, <1>11, <2>1 DEF TypeOK, Entries, node
  <2>6. QED
    BY <2>1, <2>2, <2>4, <2>5 DEF IInv, FailsOnlyWhenHindered
<1>12. QED
  BY <1>9, <1>10, <1>11 DEF Blob


LEMMA NodeStep ==
  ASSUME IInv, Node
  PROVE  IInv'
<1>1. pc = "node" /\ node.kind \notin {"DIR", "REG"} /\ UNCHANGED <<fixed, others>>
  BY DEF Node
<1>2. TypeOK /\ ToVisit /\ Visited /\ OnPath /\ Current /\ Kept
  BY DEF IInv
<1>3. PICK p \in DOMAIN tree : p = path
  BY <1>2, Shape
<1>4. node.kind \in {"LNK", "FIFO"} /\ path \notin Mine
  BY <1>1, <1>2, Shape DEF node, Kinds, Current
<1>5. /\ tree' = tree /\ isRoot' = isRoot /\ faults' = faults /\ others' = others
  BY <1>1 DEF fixed
<1>6. CASE node.kind = "LNK" /\ (faults \/ ~MayCreate(path)) /\ Fail
  <2>1. faults \/ others # {}
    BY <1>1, <1>2, <1>4, <1>6, Unhindered
  <2>2. QED
    BY <1>1, <1>6, <2>1, FailStep
<1>7. CASE /\ node.kind = "LNK" /\ MayCreate(path)
           /\ fs' = With(path, [Fresh("LNK") EXCEPT !.data = node.data])
           /\ pc' = "lchown" /\ UNCHANGED <<path, todo, blobs>>
  <2>1. node.data \in Seq(BlobsIn(tree))
    BY <1>2, Shape DEF node
  <2>2. PICK r \in Entries : /\ r = Fresh("LNK") /\ r.kind = "LNK"
                             /\ r.mode = "own" /\ r.uid = Me
    BY <1>2, FreshEntry DEF Kinds
  <2>3. PICK e \in Entries : e = [r EXCEPT !.data = node.data]
    BY <2>1 DEF Entries
  <2>4. e.kind = "LNK" /\ e.mode = "own" /\ e.uid = Me /\ e.data = node.data
    BY <2>2, <2>3 DEF Entries
  <2>5. path \notin DOMAIN fs
    BY <1>7 DEF MayCreate
  <2>6. fs' = With(path, e)
    BY <1>7, <2>2, <2>3
  <2>7. /\ Touches(p) /\ path \in Mine' /\ fs'[path] = e
        /\ DOMAIN fs' = DOMAIN fs \cup {path} /\ \A q \in DOMAIN fs' : fs'[q] \in Entries
    BY <1>1, <1>2, <1>3, <2>5, <2>6, MakingTouches
  <2>8. ToVisit' /\ Visited' /\ OnPath'
    BY <1>1, <1>2, <1>3, <1>7, <2>7, StackStays
  <2>9. Made(p)' /\ fs'[path].data = node.data
    BY <1>3, <1>5, <1>7, <2>4, <2>7 DEF Made, Me, node
  <2>10. Current'
    BY <1>3, <1>5, <1>7, <2>9 DEF Current, node
  <2>11. Kept'
    <3>1. p # <<>> => Front(p) \in Mine'
      <4>1. path # <<>> => Front(path) \in Mine
        BY <1>1, <1>2, UpIsOpen
      <4>2. QED
        BY <1>3, <2>7, <4>1 DEF Touches
    <3>2. tree[p].kind # "FIFO" /\ fs'[p].mode = "own"
      BY <1>3, <1>7, <2>4, <2>7 DEF node
    <3>3. QED
      BY <1>2, <2>7, <3>1, <3>2, KeptTouched
  <2>12. TypeOK'
    <3>1. DOMAIN fs' \subseteq DOMAIN tree' /\ others' \subseteq DOMAIN fs'
      BY <1>2, <1>3, <1>5, <2>7 DEF TypeOK
    <3>2. \A q \in DOMAIN fs' : fs'[q] \in Entries'
      BY <1>5, <2>7 DEF Entries
    <3>3. QED
      BY <1>1, <1>2, <1>5, <1>7, <3>1, <3>2 DEF TypeOK
  <2>13. QED
    BY <1>7, <2>8, <2>10, <2>11, <2>12 DEF IInv, FailsOnlyWhenHindered
<1>8. CASE node.kind # "LNK" /\ Done /\ UNCHANGED <<fs, blobs>>
  <2>1. node.kind = "FIFO" /\ tree[p].kind = "FIFO"
    BY <1>3, <1>4, <1>8 DEF node
  <2>2. /\ fs' = fs /\ Mine' = Mine /\ \A q : Restored(q)' <=> Restored(q)
    BY <1>5, <1>8 DEF Restored, Mine, Owner, Me
  <2>3. Touches(p)
    BY <1>5, <2>2 DEF Touches
  <2>4. Restored(p)'
    BY <1>5, <2>1 DEF Restored
  <2>5. Kept'
    BY <1>2, <1>5, <2>2 DEF Kept, Complete, Restored, Owner, Me, Mine
  <2>6. /\ DOMAIN fs' \subseteq DOMAIN tree /\ others \subseteq DOMAIN fs'
        /\ \A q \in DOMAIN fs' : fs'[q] \in Entries
    BY <1>2, <2>2 DEF TypeOK
  <2>7. UNCHANGED <<fixed, others, blobs>>
    BY <1>1, <1>8
  <2>8. QED
    BY <1>1, <1>2, <1>3, <1>8, <2>1, <2>3, <2>4, <2>5, <2>6, <2>7, DoneStep
<1>9. QED
  BY <1>6, <1>7, <1>8 DEF Node

(* An entry of root's gets the owner of the backup.                        *)
LEMMA OwnedEntry ==
  ASSUME TypeOK, path \in Mine, fs' = Owned
  PROVE  \E e \in Entries :
           /\ fs' = [fs EXCEPT ![path] = e]
           /\ e.kind = fs[path].kind /\ e.data = fs[path].data /\ e.mode = fs[path].mode
           /\ e.uid = node.uid
<1>1. path \in DOMAIN fs /\ fs[path] \in Entries
  BY DEF Mine, TypeOK
<1>2. PICK r \in Entries : r = fs[path]
  BY <1>1
<1>3. node.uid \in Nat
  BY Shape DEF node
<1>4. PICK s \in BOOLEAN : s = (r.suid /\ node.kind = "DIR")
  BY Zenon
<1>5. PICK e \in Entries : e = [r EXCEPT !.uid = node.uid, !.suid = s]
  BY <1>3, <1>4 DEF Entries
<1>6. e.kind = r.kind /\ e.data = r.data /\ e.mode = r.mode /\ e.uid = node.uid
  BY <1>5 DEF Entries
<1>7. fs' = [fs EXCEPT ![path] = e]
  BY <1>1, <1>2, <1>4, <1>5 DEF Owned
<1>8. QED
  BY <1>2, <1>6, <1>7

LEMMA LchownStep ==
  ASSUME IInv, Lchown
  PROVE  IInv'
<1>1. pc = "lchown" /\ UNCHANGED <<fixed, others>>
  BY DEF Lchown
<1>2. TypeOK /\ ToVisit /\ Visited /\ OnPath /\ Current /\ Kept
  BY DEF IInv
<1>3. PICK p \in DOMAIN tree : p = path
  BY <1>2, Shape
<1>4. /\ tree' = tree /\ isRoot' = isRoot /\ faults' = faults /\ others' = others
  BY <1>1 DEF fixed
<1>5. Made(path) /\ node.kind = "LNK" /\ fs[path].data = node.data
  BY <1>1, <1>2 DEF Current
<1>6. /\ path \in Mine /\ path \in DOMAIN fs /\ fs[path].kind = "LNK"
      /\ fs[path].mode = "own" /\ fs[path].uid = Me
  BY <1>5 DEF Made, Mine, node
<1>7. CASE isRoot /\ ChownFails /\ Fail
  <2>1. faults \/ (isRoot /\ \E q \in restored : tree[q].uid > MaxInt)
    BY <1>3, <1>5, <1>7 DEF ChownFails, restored, node
  <2>2. QED
    BY <1>1, <1>7, <2>1, FailStep
<1>8. CASE Done /\ UNCHANGED <<fs, blobs>> /\ ~isRoot
  <2>1. /\ fs' = fs /\ Mine' = Mine /\ \A q : Restored(q)' <=> Restored(q)
    BY <1>4, <1>8 DEF Restored, Mine, Owner, Me
  <2>2. Touches(p)
    BY <1>4, <2>1 DEF Touches
  <2>3. Restored(p)'
    BY <1>3, <1>4, <1>5, <1>6, <1>8, <2>1 DEF Restored, Owner, Me, node
  <2>4. Kept'
    BY <1>2, <1>4, <2>1 DEF Kept, Complete, Restored, Owner, Me, Mine
  <2>5. /\ DOMAIN fs' \subseteq DOMAIN tree /\ others \subseteq DOMAIN fs'
        /\ \A q \in DOMAIN fs' : fs'[q] \in Entries
    BY <1>2, <2>1 DEF TypeOK
  <2>6. UNCHANGED <<fixed, others, blobs>>
    BY <1>1, <1>8
  <2>7. QED
    BY <1>1, <1>2, <1>3, <1>5, <1>8, <2>2, <2>3, <2>4, <2>5, <2>6, DoneStep
<1>9. CASE isRoot /\ fs' = Owned /\ Done /\ UNCHANGED blobs
  <2>1. PICK e \in Entries :
          /\ fs' = [fs EXCEPT ![path] = e]
          /\ e.kind = fs[path].kind /\ e.data = fs[path].data /\ e.mode = fs[path].mode
          /\ e.uid = node.uid
    BY <1>2, <1>6, <1>9, OwnedEntry
  <2>2. /\ DOMAIN fs' = DOMAIN fs /\ fs'[path] = e /\ Mine' = Mine
    BY <1>4, <1>6, <2>1 DEF Mine
  <2>3. Restored(p)'
    BY <1>3, <1>4, <1>5, <1>6, <1>9, <2>1, <2>2 DEF Restored, Owner, node
  <2>4. /\ Touches(p) /\ Mine' = Mine /\ fs'[path] = e
        /\ DOMAIN fs' = DOMAIN fs /\ \A q \in DOMAIN fs' : fs'[q] \in Entries
    BY <1>1, <1>2, <1>3, <1>6, <2>1, <2>3, WritingTouches
  <2>5. Kept'
    <3>1. tree[p].kind # "FIFO" /\ (p # <<>> => Front(p) \in Mine') /\ fs'[p].mode = "own"
      BY <1>2, <1>3, <1>5, <1>6, <2>1, <2>4 DEF Kept, node
    <3>2. QED
      BY <1>2, <2>4, <3>1, KeptTouched
  <2>6. DOMAIN fs' \subseteq DOMAIN tree /\ others \subseteq DOMAIN fs'
    BY <1>2, <2>4 DEF TypeOK
  <2>7. UNCHANGED <<fixed, others, blobs>>
    BY <1>1, <1>9
  <2>8. QED
    BY <1>1, <1>2, <1>3, <1>5, <1>9, <2>3, <2>4, <2>5, <2>6, <2>7, DoneStep
<1>10. QED
  BY <1>7, <1>8, <1>9 DEF Lchown


LEMMA ChownStep ==
  ASSUME IInv, Chown
  PROVE  IInv'
<1>1. pc = "chown" /\ UNCHANGED <<fixed, others>>
  BY DEF Chown
<1>2. TypeOK /\ ToVisit /\ Visited /\ OnPath /\ Current /\ Kept
  BY DEF IInv
<1>3. PICK p \in DOMAIN tree : p = path
  BY <1>2, Shape
<1>4. /\ tree' = tree /\ isRoot' = isRoot /\ faults' = faults /\ others' = others
  BY <1>1 DEF fixed
<1>5. /\ node.kind \in {"DIR", "REG"} /\ Made(path) /\ path \in Mine
      /\ fs[path].kind = node.kind /\ fs[path].data = node.data
      /\ node.kind = "DIR" => Last(todo) = <<>>
      /\ fs[path].mode = "own" /\ fs[path].uid = Me
  BY <1>1, <1>2 DEF Current, Made
<1>6. CASE isRoot /\ ChownFails /\ Fail
  <2>1. faults \/ (isRoot /\ \E q \in restored : tree[q].uid > MaxInt)
    BY <1>3, <1>5, <1>6 DEF ChownFails, restored, node
  <2>2. QED
    BY <1>1, <1>6, <2>1, FailStep
<1>7. CASE ~isRoot /\ pc' = After(pc) /\ UNCHANGED <<fs, path, todo, blobs>>
  <2>1. pc' = "chmod"
    BY <1>1, <1>7 DEF After
  <2>2. ToVisit' /\ Visited' /\ OnPath' /\ Kept'
    BY <1>1, <1>2, <1>4, <1>7, <2>1
    DEF ToVisit, Visited, OnPath, Kept, Complete, Restored, Made, Owner, Me, Mine, Dir
  <2>3. Current'
    BY <1>4, <1>5, <1>7, <2>1 DEF Current, Mine, Me, Owner, node
  <2>4. TypeOK'
    BY <1>1, <1>2, <1>4, <1>7, <2>1 DEF TypeOK, Entries, node
  <2>5. QED
    BY <2>1, <2>2, <2>3, <2>4 DEF IInv, FailsOnlyWhenHindered
<1>8. CASE isRoot /\ fs' = Owned /\ pc' = After(pc) /\ UNCHANGED <<path, todo, blobs>>
  <2>1. pc' = "chmod"
    BY <1>1, <1>8 DEF After
  <2>2. PICK e \in Entries :
          /\ fs' = [fs EXCEPT ![path] = e]
          /\ e.kind = fs[path].kind /\ e.data = fs[path].data /\ e.mode = fs[path].mode
          /\ e.uid = node.uid
    BY <1>2, <1>5, <1>8, OwnedEntry
  <2>3. UNCHANGED <<fixed, others, path, todo>>
    BY <1>1, <1>8
  <2>4. /\ ToVisit' /\ Visited' /\ OnPath' /\ Kept'
        /\ Mine' = Mine /\ fs'[path] = e
        /\ DOMAIN fs' = DOMAIN fs /\ \A q \in DOMAIN fs' : fs'[q] \in Entries
    BY <1>1, <1>2, <1>3, <1>5, <2>2, <2>3, WritingStays
  <2>5. Current'
    BY <1>4, <1>5, <1>8, <2>1, <2>2, <2>4 DEF Current, Owner, node
  <2>6. TypeOK'
    <3>1. DOMAIN fs' \subseteq DOMAIN tree' /\ others' \subseteq DOMAIN fs'
      BY <1>2, <1>4, <2>4 DEF TypeOK
    <3>2. \A q \in DOMAIN fs' : fs'[q] \in Entries'
      BY <1>4, <2>4 DEF Entries
    <3>3. QED
      BY <1>1, <1>2, <1>4, <1>8, <2>1, <3>1, <3>2 DEF TypeOK, node
  <2>7. QED
    BY <2>1, <2>4, <2>5, <2>6 DEF IInv, FailsOnlyWhenHindered
<1>9. QED
  BY <1>6, <1>7, <1>8 DEF Chown

(* A directory that gets its mode has all its entries; a file has none.    *)
LEMMA NothingLeft ==
  ASSUME TypeOK, ToVisit, Visited, Current, pc \in {"chown", "chmod", "utimes"},
         NEW p, p = path, NEW n \in Range(tree[p].names)
  PROVE  Restored(Append(p, n))
<1>1. tree[path].kind = "DIR"
  BY Shape
<1>2. PICK m \in Nat : m = Len(path)
  BY Levels
<1>3. Len(todo) = m + 1 /\ Last(todo) = <<>>
  BY <1>1, <1>2 DEF TypeOK, Current, node
<1>4. m + 1 \in DOMAIN todo /\ todo[m + 1] = <<>> /\ Dir(m + 1) = path
  BY <1>2, <1>3, Levels DEF Last
<1>5. Range(todo[m + 1]) = {}
  BY <1>4 DEF Range
<1>6. n \in Range(tree[Dir(m + 1)].names) \ Range(todo[m + 1]) /\ m + 1 > Len(path)
  BY <1>2, <1>4, <1>5
<1>7. Restored(Append(Dir(m + 1), n))
  BY <1>4, <1>6 DEF Visited
<1>8. QED
  BY <1>4, <1>7

LEMMA ChmodStep ==
  ASSUME IInv, Chmod
  PROVE  IInv'
<1>1. pc = "chmod" /\ UNCHANGED <<fixed, others>>
  BY DEF Chmod
<1>2. TypeOK /\ ToVisit /\ Visited /\ OnPath /\ Current /\ Kept
  BY DEF IInv
<1>3. PICK p \in DOMAIN tree : p = path
  BY <1>2, Shape
<1>4. /\ tree' = tree /\ isRoot' = isRoot /\ faults' = faults /\ others' = others
  BY <1>1 DEF fixed
<1>5. /\ node.kind \in {"DIR", "REG"} /\ path \in Mine
      /\ fs[path].kind = node.kind /\ fs[path].data = node.data
      /\ node.kind = "DIR" => Last(todo) = <<>>
      /\ fs[path].mode = "own" /\ fs[path].uid = Owner(path)
  BY <1>1, <1>2 DEF Current
<1>6. CASE (faults \/ ~MayReach(path)) /\ Fail
  <2>1. faults \/ others # {}
    BY <1>1, <1>2, <1>6, Unhindered
  <2>2. QED
    BY <1>1, <1>6, <2>1, FailStep
<1>7. CASE /\ fs' = [fs EXCEPT ![path].mode = node.mode, ![path].suid = node.suid]
           /\ pc' = After(pc) /\ UNCHANGED <<path, todo, blobs>>
  <2>1. pc' = "utimes"
    BY <1>1, <1>7 DEF After
  <2>2. PICK r \in Entries : r = fs[path]
    BY <1>2, <1>5 DEF Mine, TypeOK
  <2>3. node.mode \in Modes /\ node.suid \in BOOLEAN
    BY <1>2, Shape DEF node
  <2>4. PICK e \in Entries : e = [r EXCEPT !.mode = node.mode, !.suid = node.suid]
    BY <2>3 DEF Entries
  <2>5. /\ e.kind = r.kind /\ e.data = r.data /\ e.uid = r.uid
        /\ e.mode = node.mode /\ e.suid = node.suid
    BY <2>4 DEF Entries
  <2>6. fs' = [fs EXCEPT ![path] = e]
    BY <1>5, <1>7, <2>2, <2>4 DEF Mine
  <2>7. UNCHANGED <<fixed, others, path, todo>>
    BY <1>1, <1>7
  <2>8. \A n \in Range(tree[p].names) : Restored(Append(p, n))
    BY <1>1, <1>2, <1>3, NothingLeft
  <2>9. e.data = node.data /\ e.uid = Owner(path)
    BY <1>5, <2>2, <2>5
  <2>10. /\ ToVisit' /\ Visited' /\ OnPath' /\ Kept'
         /\ Mine' = Mine /\ fs'[path] = e
         /\ DOMAIN fs' = DOMAIN fs /\ \A q \in DOMAIN fs' : fs'[q] \in Entries
    BY <1>1, <1>2, <1>3, <1>5, <2>6, <2>7, <2>8, <2>9, WritingStays
  <2>11. Current'
    BY <1>4, <1>5, <1>7, <2>1, <2>2, <2>5, <2>9, <2>10 DEF Current, Owner, Me, node
  <2>12. TypeOK'
    <3>1. DOMAIN fs' \subseteq DOMAIN tree' /\ others' \subseteq DOMAIN fs'
      BY <1>2, <1>4, <2>10 DEF TypeOK
    <3>2. \A q \in DOMAIN fs' : fs'[q] \in Entries'
      BY <1>4, <2>10 DEF Entries
    <3>3. QED
      BY <1>1, <1>2, <1>4, <1>7, <2>1, <3>1, <3>2 DEF TypeOK, node
  <2>13. QED
    BY <2>1, <2>10, <2>11, <2>12 DEF IInv, FailsOnlyWhenHindered
<1>8. QED
  BY <1>6, <1>7 DEF Chmod

LEMMA ChtimesStep ==
  ASSUME IInv, Chtimes
  PROVE  IInv'
<1>1. pc = "utimes" /\ UNCHANGED <<fixed, others>>
  BY DEF Chtimes
<1>2. TypeOK /\ ToVisit /\ Visited /\ OnPath /\ Current /\ Kept
  BY DEF IInv
<1>3. PICK p \in DOMAIN tree : p = path
  BY <1>2, Shape
<1>4. /\ tree' = tree /\ isRoot' = isRoot /\ faults' = faults /\ others' = others
  BY <1>1 DEF fixed
<1>5. /\ node.kind \in {"DIR", "REG"} /\ path \in Mine
      /\ fs[path].kind = node.kind /\ fs[path].data = node.data
      /\ node.kind = "DIR" => Last(todo) = <<>>
      /\ fs[path].mode = node.mode /\ fs[path].suid = node.suid /\ fs[path].uid = Owner(path)
  BY <1>1, <1>2 DEF Current
<1>6. CASE (faults \/ ~MayReach(path)) /\ Fail
  <2>1. faults \/ others # {}
    BY <1>1, <1>2, <1>6, Unhindered
  <2>2. QED
    BY <1>1, <1>6, <2>1, FailStep
<1>7. CASE fs' = [fs EXCEPT ![path].mtime = node.mtime] /\ Done /\ UNCHANGED blobs
  <2>1. PICK r \in Entries : r = fs[path]
    BY <1>2, <1>5 DEF Mine, TypeOK
  <2>2. node.mtime \in {tree[q].mtime : q \in DOMAIN tree}
    BY <1>3 DEF node
  <2>3. PICK e \in Entries : e = [r EXCEPT !.mtime = node.mtime]
    BY <2>2 DEF Entries
  <2>4. /\ e.kind = r.kind /\ e.data = r.data /\ e.uid = r.uid
        /\ e.mode = r.mode /\ e.suid = r.suid /\ e.mtime = node.mtime
    BY <2>3 DEF Entries
  <2>5. fs' = [fs EXCEPT ![path] = e]
    BY <1>5, <1>7, <2>1, <2>3 DEF Mine
  <2>6. /\ DOMAIN fs' = DOMAIN fs /\ fs'[path] = e /\ Mine' = Mine
    BY <1>4, <1>5, <2>5 DEF Mine
  <2>7. Restored(p)'
    BY <1>3, <1>4, <1>5, <2>1, <2>4, <2>6 DEF Restored, Owner, Me, node
  <2>8. /\ Touches(p) /\ Mine' = Mine /\ fs'[path] = e
        /\ DOMAIN fs' = DOMAIN fs /\ \A q \in DOMAIN fs' : fs'[q] \in Entries
    BY <1>1, <1>2, <1>3, <1>5, <2>5, <2>7, WritingTouches
  <2>9. Kept'
    <3>1. tree[p].kind # "FIFO" /\ (p # <<>> => Front(p) \in Mine')
      BY <1>2, <1>3, <1>5, <2>8 DEF Kept, node
    <3>2. Complete(p)'
      BY <1>3, <1>4, <1>5, <2>1, <2>4, <2>6 DEF Complete, Owner, Me, Mine, node
    <3>3. ASSUME NEW n \in Range(tree[p].names) PROVE Restored(Append(p, n))'
      <4>1. PICK c : c = Append(p, n)
        OBVIOUS
      <4>2. Restored(c) /\ c \in DOMAIN tree
        BY <1>1, <1>2, <1>3, <4>1, NothingLeft, Shape
      <4>3. Restored(c)'
        BY <2>8, <4>2 DEF Touches
      <4>4. QED
        BY <4>1, <4>3
    <3>4. QED
      BY <1>2, <2>8, <3>1, <3>2, <3>3, KeptTouched
  <2>10. DOMAIN fs' \subseteq DOMAIN tree /\ others \subseteq DOMAIN fs'
    BY <1>2, <2>8 DEF TypeOK
  <2>11. UNCHANGED <<fixed, others, blobs>>
    BY <1>1, <1>7
  <2>12. QED
    BY <1>1, <1>2, <1>3, <1>5, <1>7, <2>7, <2>8, <2>9, <2>10, <2>11, DoneStep
<1>8. QED
  BY <1>6, <1>7 DEF Chtimes

LEMMA StopStep ==
  ASSUME IInv, Stop
  PROVE  IInv'
<1>1. faults /\ pc # "failed" /\ Fail /\ UNCHANGED <<fixed, others>>
  BY DEF Stop
<1>2. QED
  BY <1>1, FailStep


LEMMA OthersStep ==
  ASSUME IInv, NEW q \in DOMAIN tree, Others(q)
  PROVE  IInv'
<1>1. TypeOK /\ ToVisit /\ Visited /\ OnPath /\ Current /\ Kept
  BY DEF IInv
<1>2. /\ tree' = tree /\ isRoot' = isRoot /\ faults' = faults /\ pc' = pc
      /\ path' = path /\ todo' = todo /\ blobs' = blobs
      /\ q \notin DOMAIN fs /\ fs' = With(q, Fresh("REG")) /\ others' = others \cup {q}
  BY DEF Others, fixed
<1>3. PICK e \in Entries : e = Fresh("REG")
  BY <1>1, FreshEntry DEF Kinds
<1>4. /\ DOMAIN fs' = DOMAIN fs \cup {q}
      /\ \A d \in DOMAIN fs :
           /\ fs'[d].kind = fs[d].kind /\ fs'[d].data = fs[d].data /\ fs'[d].uid = fs[d].uid
           /\ fs'[d].mode = fs[d].mode /\ fs'[d].suid = fs[d].suid
      /\ \A d \in DOMAIN fs' : fs'[d] \in Entries
  BY <1>1, <1>2, <1>3, Making
<1>5. Mine' = Mine /\ Mine \subseteq DOMAIN fs /\ others' # {}
  BY <1>2, <1>4 DEF Mine
<1>6. ASSUME NEW d PROVE Restored(d) => Restored(d)'
  BY <1>2, <1>4, <1>5 DEF Restored, Owner, Me
<1>7. ASSUME NEW d PROVE Made(d) => Made(d)'
  BY <1>2, <1>4, <1>5 DEF Made, Me
<1>8. \A k : Dir(k)' = Dir(k)
  BY <1>2 DEF Dir
<1>9. ToVisit'
  BY <1>1, <1>2, <1>5, <1>8 DEF ToVisit
<1>10. Visited'
  <2>1. ASSUME pc # "failed", NEW k \in DOMAIN todo,
               NEW n \in Range(tree[Dir(k)].names) \ Range(todo[k]),
               k > Len(path) \/ n # path[k]
        PROVE  Restored(Append(Dir(k), n))'
    <3>1. PICK c : c = Append(Dir(k), n)
      OBVIOUS
    <3>2. Restored(c)
      BY <1>1, <2>1, <3>1 DEF Visited
    <3>3. Restored(c)'
      BY <1>6, <3>2
    <3>4. QED
      BY <1>8, <3>1, <3>3
  <2>2. QED
    BY <1>2, <1>8, <2>1 DEF Visited
<1>11. OnPath'
  <2>1. ASSUME pc # "failed", NEW k \in 1..Len(path)
        PROVE  Made(Dir(k))' /\ tree'[Dir(k)].kind = "DIR" /\ fs'[Dir(k)].data = <<>>
    <3>1. PICK d : d = Dir(k)
      OBVIOUS
    <3>2. Made(d) /\ tree[d].kind = "DIR" /\ fs[d].data = <<>>
      BY <1>1, <2>1, <3>1 DEF OnPath
    <3>3. Made(d)' /\ fs'[d].data = <<>>
      BY <1>4, <1>7, <3>2 DEF Made, Mine
    <3>4. QED
      BY <1>2, <1>8, <3>1, <3>2, <3>3
  <2>2. QED
    BY <1>2, <1>8, <2>1 DEF OnPath
<1>12. Current'
  <2>1. PICK p \in DOMAIN tree : p = path
    BY <1>1, Shape
  <2>2. (Made(p) => Made(p)') /\ (Restored(<<>>) => Restored(<<>>)')
    BY <1>6, <1>7
  <2>3. path \in Mine => /\ fs'[path].kind = fs[path].kind /\ fs'[path].data = fs[path].data
                         /\ fs'[path].uid = fs[path].uid /\ fs'[path].mode = fs[path].mode
                         /\ fs'[path].suid = fs[path].suid
    BY <1>4, <1>5
  <2>4. Made(path) => path \in Mine
    BY DEF Made
  <2>5. Owner(path)' = Owner(path) /\ node' = node
    BY <1>2 DEF Owner, Me, node
  <2>6. CASE pc \in {"node", "next", "blob"}
    BY <1>1, <1>2, <1>5, <2>1, <2>2, <2>3, <2>4, <2>5, <2>6 DEF Current
  <2>7. CASE pc \in {"lchown", "chown"}
    BY <1>1, <1>2, <1>5, <2>1, <2>2, <2>3, <2>4, <2>5, <2>7 DEF Current
  <2>8. CASE pc \in {"chmod", "utimes"}
    BY <1>1, <1>2, <1>5, <2>1, <2>2, <2>3, <2>4, <2>5, <2>8 DEF Current
  <2>9. CASE pc \in {"done", "failed"}
    BY <1>1, <1>2, <2>2, <2>9 DEF Current
  <2>10. QED
    BY <1>1, <2>6, <2>7, <2>8, <2>9 DEF TypeOK
<1>13. Kept'
  <2>1. ASSUME NEW p \in Mine
        PROVE  /\ tree[p].kind # "FIFO"
               /\ p # <<>> => Front(p) \in Mine
               /\ fs'[p].mode # "own" =>
                    Complete(p)' /\ \A n \in Range(tree[p].names) : Restored(Append(p, n))'
    <3>1. p \in DOMAIN fs /\ p \in DOMAIN fs'
      BY <1>4, <1>5
    <3>2. Complete(p) => Complete(p)'
      BY <1>2, <1>4, <3>1 DEF Complete, Owner, Me
    <3>3. \A n : Restored(Append(p, n)) => Restored(Append(p, n))'
      <4>1. ASSUME NEW n, Restored(Append(p, n)) PROVE Restored(Append(p, n))'
        <5>1. PICK c : c = Append(p, n)
          OBVIOUS
        <5>2. Restored(c)'
          BY <1>6, <4>1, <5>1
        <5>3. QED
          BY <5>1, <5>2
      <4>2. QED
        BY <4>1
    <3>4. fs'[p].mode = fs[p].mode
      BY <1>4, <3>1
    <3>5. QED
      BY <1>1, <2>1, <3>2, <3>3, <3>4 DEF Kept
  <2>2. QED
    BY <1>2, <1>5, <2>1 DEF Kept
<1>14. TypeOK'
  <2>1. DOMAIN fs' \subseteq DOMAIN tree' /\ others' \subseteq DOMAIN fs'
    BY <1>1, <1>2, <1>4 DEF TypeOK
  <2>2. \A d \in DOMAIN fs' : fs'[d] \in Entries'
    BY <1>2, <1>4 DEF Entries
  <2>3. node' = node
    BY <1>2 DEF node
  <2>4. QED
    BY <1>1, <1>2, <2>1, <2>2, <2>3 DEF TypeOK
<1>15. FailsOnlyWhenHindered'
  BY <1>5 DEF FailsOnlyWhenHindered
<1>16. QED
  BY <1>9, <1>10, <1>11, <1>12, <1>13, <1>14, <1>15 DEF IInv

LEMMA InitStep ==
  ASSUME Init
  PROVE  IInv
<1>1. tree \in Trees /\ isRoot \in BOOLEAN /\ faults \in BOOLEAN /\ WellFormed(tree)
  BY RestoreAssumption DEF Init, RestoreAssumption
<1>2. pc = "node" /\ path = <<>> /\ todo = <<>> /\ blobs = <<>>
  BY DEF Init
<1>3. <<>> \in DOMAIN tree
  BY <1>1 DEF WellFormed
<1>4. Len(path) = 0 /\ Len(todo) = 0 /\ DOMAIN todo = {}
  BY <1>2
<1>5. Fresh("DIR") \in Entries
  <2>1. Me \in Nat
    BY RestoreAssumption DEF RestoreAssumption, Me
  <2>2. <<>> \in Seq(BlobsIn(tree))
    OBVIOUS
  <2>3. QED
    BY <2>1, <2>2 DEF Fresh, Entries, Kinds
<1>6. /\ DOMAIN fs \subseteq {<<>>} /\ others = DOMAIN fs
      /\ \A p \in DOMAIN fs : fs[p] \in Entries
  <2>1. CASE fs = <<>> /\ others = {}
    BY <2>1
  <2>2. CASE fs = [p \in {<<>>} |-> Fresh("DIR")] /\ others = {<<>>}
    <3>1. PICK z : z = <<>>
      OBVIOUS
    <3>2. PICK e \in Entries : e = Fresh("DIR")
      BY <1>5
    <3>3. fs = [x \in {z} |-> e] /\ others = {z}
      BY <2>2, <3>1, <3>2
    <3>4. DOMAIN fs = {z} /\ \A p \in DOMAIN fs : fs[p] \in Entries
      BY <3>3
    <3>5. QED
      BY <3>1, <3>3, <3>4
  <2>3. QED
    BY <2>1, <2>2 DEF Init
<1>7. Mine = {}
  BY <1>6 DEF Mine
<1>8. TypeOK
  <2>1. <<>> \in Seq(Seq(NamesIn(tree))) /\ <<>> \in Seq(BlobsIn(tree))
    OBVIOUS
  <2>2. QED
    BY <1>1, <1>2, <1>3, <1>4, <1>6, <2>1 DEF TypeOK
<1>9. ToVisit /\ Visited
  BY <1>4 DEF ToVisit, Visited
<1>10. OnPath
  BY <1>4 DEF OnPath
<1>11. Current /\ Kept /\ FailsOnlyWhenHindered
  BY <1>2, <1>7 DEF Current, Kept, FailsOnlyWhenHindered
<1>12. QED
  BY <1>8, <1>9, <1>10, <1>11 DEF IInv

LEMMA StutterStep ==
  ASSUME IInv, UNCHANGED vars
  PROVE  IInv'
<1>1. /\ tree' = tree /\ isRoot' = isRoot /\ faults' = faults /\ pc' = pc /\ fs' = fs
      /\ others' = others /\ path' = path /\ todo' = todo /\ blobs' = blobs
  BY DEF vars, fixed
<1>2. TypeOK'
  BY <1>1 DEF IInv, TypeOK, Entries, node
<1>3. ToVisit' /\ Visited' /\ OnPath'
  BY <1>1 DEF IInv, ToVisit, Visited, OnPath, Restored, Made, Owner, Me, Mine, Dir
<1>4. Current' /\ Kept'
  BY <1>1 DEF IInv, Current, Kept, Complete, Restored, Made, Owner, Me, Mine, node
<1>5. FailsOnlyWhenHindered'
  BY <1>1 DEF IInv, FailsOnlyWhenHindered, restored
<1>6. QED
  BY <1>2, <1>3, <1>4, <1>5 DEF IInv

(* The invariant holds, step by step.                                      *)
LEMMA IInvNext ==
  ASSUME IInv, [Next]_vars
  PROVE  IInv'
<1>1. CASE Walk
  BY <1>1, EnterStep, NextEntryStep, OpenStep, BlobStep, NodeStep, LchownStep,
     ChownStep, ChmodStep, ChtimesStep, StopStep
  DEF Walk
<1>2. CASE \E p \in DOMAIN tree : Others(p)
  BY <1>2, OthersStep
<1>3. CASE UNCHANGED vars
  BY <1>3, StutterStep
<1>4. QED
  BY <1>1, <1>2, <1>3 DEF Next

(***************************************************************************)
(* The stacks of the visitor and of the walker agree with each other and   *)
(* with the place: what was visited is complete, what is on the path is    *)
(* there with a mode of its own, and of what is still to visit nothing is  *)
(* there, for any backup (walker in store/decode.go, restoreVisitor).      *)
(***************************************************************************)
THEOREM RestoreInvariant == Spec => []IInv
<1>1. Init => IInv
  BY InitStep
<1>2. IInv /\ [Next]_vars => IInv'
  BY IInvNext
<1>3. QED
  BY <1>1, <1>2, PTL DEF Spec

(***************************************************************************)
(* A restore that no failing call, no other process and no user number     *)
(* beyond GetInt's hinders does not fail, whatever modes the directories   *)
(* of the backup have (Enter makes them with mode 0700, Leave sets theirs).*)
(***************************************************************************)
THEOREM OnlyHindrancesEndIt == Spec => []FailsOnlyWhenHindered
<1>1. IInv => FailsOnlyWhenHindered
  BY DEF IInv
<1>2. QED
  BY <1>1, RestoreInvariant, PTL


-----------------------------------------------------------------------------
(* From one level to the next: all of a directory, all of the backup. *)

LEMMA AllBelow ==
  ASSUME TypeOK, Kept, NEW p \in Mine, fs[p].mode # "own", NEW q \in DOMAIN tree,
         IsPrefix(p, q), tree[q].kind # "FIFO"
  PROVE  q \in Mine /\ Complete(q) /\ (tree[q].kind # "LNK" => fs[q].mode # "own")
<1> DEFINE Below(n) == {d \in DOMAIN tree : Len(d) = Len(p) + n /\ IsPrefix(p, d)}
           Whole(d) == tree[d].kind # "FIFO" =>
                         d \in Mine /\ Complete(d) /\ (tree[d].kind # "LNK" => fs[d].mode # "own")
           T == {n \in Nat : \A d \in Below(n) : Whole(d)}
<1>1. PICK S : S = NamesIn(tree)
  OBVIOUS
<1>2. p \in DOMAIN tree /\ \A d \in DOMAIN tree : d \in Seq(S) /\ Len(d) \in Nat
  BY <1>1, Shape, LenProperties DEF Mine, TypeOK
<1>3. 0 \in T
  <2>1. ASSUME NEW d \in Below(0) PROVE Whole(d)
    <3>1. Len(d) = Len(p) /\ IsPrefix(p, d) /\ d \in Seq(S) /\ p \in Seq(S)
      BY <1>2
    <3>2. d = p
      BY <3>1, SubSeqFull DEF IsPrefix
    <3>3. QED
      BY <3>2 DEF Kept
  <2>2. QED
    BY <2>1
<1>4. ASSUME NEW n \in Nat, n \in T PROVE n + 1 \in T
  <2>1. ASSUME NEW d \in Below(n + 1), tree[d].kind # "FIFO" PROVE Whole(d)
    <3>1. PICK j \in Nat, k \in Nat : j = Len(p) /\ k = Len(d)
      BY <1>2
    <3>2. k = j + (n + 1) /\ IsPrefix(p, d) /\ d \in DOMAIN tree /\ d \in Seq(S)
      BY <1>2, <3>1
    <3>3. d # <<>>
      <4>1. Len(d) # 0
        BY <3>1, <3>2
      <4>2. QED
        BY <4>1
    <3>4. PICK f, l : f = Front(d) /\ l = Last(d)
      OBVIOUS
    <3>5. /\ f \in DOMAIN tree /\ tree[f].kind = "DIR" /\ l \in Range(tree[f].names)
          /\ d = Append(f, l) /\ Len(f) = Len(d) - 1
      BY <3>2, <3>3, <3>4, Shape
    <3>6. Len(f) = Len(p) + n /\ Len(p) <= Len(f) /\ j \in 0..Len(d) /\ j < Len(d)
      BY <3>1, <3>2, <3>5
    <3>7. SubSeq(f, 1, j) = SubSeq(d, 1, j)
      BY <3>2, <3>3, <3>4, <3>6, Cut
    <3>8. IsPrefix(p, f)
      BY <3>1, <3>2, <3>6, <3>7 DEF IsPrefix
    <3>9. Whole(f)
      BY <1>4, <3>5, <3>6, <3>8
    <3>10. f \in Mine /\ fs[f].mode # "own"
      BY <3>5, <3>9
    <3>11. Restored(d)
      BY <3>5, <3>10 DEF Kept
    <3>12. tree[d].mode # "own"
      BY <3>2, Shape
    <3>13. QED
      BY <2>1, <3>11, <3>12 DEF Restored, Complete, Mine
  <2>2. \A d \in Below(n + 1) : Whole(d)
    BY <2>1
  <2>3. QED
    BY <2>2
<1>5. Nat \subseteq T
  <2> HIDE DEF T
  <2>1. QED
    BY <1>3, <1>4, Induction
<1>6. PICK n \in Nat : Len(q) = Len(p) + n
  <2>1. PICK j \in Nat, k \in Nat : j = Len(p) /\ k = Len(q)
    BY <1>2
  <2>2. j <= k
    BY <2>1 DEF IsPrefix
  <2>3. k - j \in Nat /\ k = j + (k - j)
    BY <2>2
  <2>4. QED
    BY <2>1, <2>3
<1>7. n \in T /\ q \in Below(n)
  BY <1>5, <1>6
<1>8. QED
  BY <1>7

LEMMA AllRestored ==
  ASSUME TypeOK, Kept, Restored(<<>>), NEW q \in DOMAIN tree
  PROVE  Restored(q)
<1> DEFINE T == {n \in Nat : \A d \in DOMAIN tree : Len(d) = n => Restored(d)}
<1>1. PICK S : S = NamesIn(tree)
  OBVIOUS
<1>2. \A d \in DOMAIN tree : d \in Seq(S) /\ Len(d) \in Nat
  BY <1>1, Shape, LenProperties
<1>3. 0 \in T
  <2>1. ASSUME NEW d \in DOMAIN tree, Len(d) = 0 PROVE Restored(d)
    <3>1. d = <<>>
      BY <1>2, <2>1, EmptySeq
    <3>2. QED
      BY <3>1
  <2>2. QED
    BY <2>1
<1>4. ASSUME NEW n \in Nat, n \in T PROVE n + 1 \in T
  <2>1. ASSUME NEW d \in DOMAIN tree, Len(d) = n + 1 PROVE Restored(d)
    <3>1. d # <<>>
      <4>1. Len(d) # 0
        BY <2>1
      <4>2. QED
        BY <4>1
    <3>2. PICK f, l : f = Front(d) /\ l = Last(d)
      OBVIOUS
    <3>3. /\ f \in DOMAIN tree /\ tree[f].kind = "DIR" /\ l \in Range(tree[f].names)
          /\ d = Append(f, l) /\ Len(f) = Len(d) - 1
      BY <3>1, <3>2, Shape
    <3>4. Restored(f)
      BY <1>4, <2>1, <3>3
    <3>5. tree[f].mode # "own"
      BY <3>3, Shape
    <3>6. f \in Mine /\ fs[f].mode # "own"
      BY <3>3, <3>4, <3>5 DEF Restored
    <3>7. QED
      BY <3>3, <3>6 DEF Kept
  <2>2. QED
    BY <2>1
<1>5. Nat \subseteq T
  <2> HIDE DEF T
  <2>1. QED
    BY <1>3, <1>4, Induction
<1>6. Len(q) \in T
  BY <1>2, <1>5
<1>7. QED
  BY <1>6

(***************************************************************************)
(* Wherever a restore of any backup is stopped, a file with the mode of    *)
(* the backup is complete, and a directory with the mode of the backup is  *)
(* complete all the way down (the modes of Open and Enter, and the calls   *)
(* of restoreReg and Leave in their order).                                *)
(***************************************************************************)
THEOREM PrivateAllTheWay == Spec => []PrivateUntilComplete
<1>1. IInv => PrivateUntilComplete
  <2>1. SUFFICES ASSUME IInv, NEW p \in DOMAIN fs \ others, fs[p].mode # "own",
                        NEW q \in restored, IsPrefix(p, q)
                 PROVE  Complete(q) /\ (tree[q].kind # "LNK" => fs[q].mode # "own")
    BY DEF PrivateUntilComplete
  <2>2. TypeOK /\ Kept /\ p \in Mine /\ q \in DOMAIN tree /\ tree[q].kind # "FIFO"
    BY <2>1 DEF IInv, Mine, restored
  <2>3. QED
    BY <2>1, <2>2, AllBelow
<1>2. QED
  BY <1>1, RestoreInvariant, PTL

(***************************************************************************)
(* A restore that ends well where nobody else writes has made the tree of  *)
(* the backup, of any size: every file, directory and link of it and       *)
(* nothing else, with contents, owners, modes and times                    *)
(* (restoreVisitor's Enter, Leave, Open, Blob, Close and Node).            *)
(***************************************************************************)
THEOREM RestoredAsBackedUp == Spec => []Matches
<1>1. IInv => Matches
  <2>1. SUFFICES ASSUME IInv, pc = "done", others = {}
                 PROVE  /\ DOMAIN fs = restored
                        /\ \A p \in restored :
                             /\ fs[p].kind = tree[p].kind
                             /\ fs[p].data = tree[p].data
                             /\ fs[p].uid = Owner(p)
                             /\ tree[p].kind # "LNK" =>
                                  /\ fs[p].mode = tree[p].mode /\ fs[p].suid = tree[p].suid
                                  /\ fs[p].mtime = tree[p].mtime
    BY DEF Matches
  <2>2. TypeOK /\ Kept /\ Restored(<<>>)
    BY <2>1 DEF IInv, Current
  <2>3. Mine = DOMAIN fs
    BY <2>1 DEF Mine
  <2>4. DOMAIN fs \subseteq restored
    BY <2>2, <2>3 DEF TypeOK, Kept, restored
  <2>5. ASSUME NEW p \in restored PROVE p \in DOMAIN tree /\ tree[p].kind # "FIFO" /\ Restored(p)
    BY <2>2, AllRestored DEF restored
  <2>6. QED
    BY <2>1, <2>3, <2>4, <2>5 DEF Restored
<1>2. QED
  BY <1>1, RestoreInvariant, PTL

-----------------------------------------------------------------------------
(* What belongs to others. *)

\* The walker makes an entry in its own directory, or writes to its own entry.
LEMMA OwnStep ==
  ASSUME IInv, [Next]_vars
  PROVE  \A p \in others : p \in DOMAIN fs' /\ fs'[p] = fs[p]
<1>1. TypeOK /\ OnPath /\ Current
  BY DEF IInv
<1>2. others \subseteq DOMAIN fs
  BY <1>1 DEF TypeOK
<1>3. ASSUME NEW q, q \notin DOMAIN fs, q # <<>> => Front(q) \notin others,
             NEW e, fs' = With(q, e)
      PROVE  \A p \in others : p \in DOMAIN fs' /\ fs'[p] = fs[p]
  BY <1>2, <1>3 DEF With
<1>4. ASSUME NEW e, fs' = With(path, e), MayCreate(path), pc = "node"
      PROVE  \A p \in others : p \in DOMAIN fs' /\ fs'[p] = fs[p]
  <2>1. path # <<>> => Front(path) \notin others
    BY <1>1, <1>4, UpIsOpen DEF Mine
  <2>2. QED
    BY <1>3, <1>4, <2>1 DEF MayCreate
<1>5. ASSUME NEW e, fs' = [fs EXCEPT ![path] = e], path \in Mine
      PROVE  \A p \in others : p \in DOMAIN fs' /\ fs'[p] = fs[p]
  BY <1>2, <1>5 DEF Mine
<1>6. ASSUME fs' = fs PROVE \A p \in others : p \in DOMAIN fs' /\ fs'[p] = fs[p]
  BY <1>2, <1>6
<1>7. CASE Enter
  BY <1>4, <1>6, <1>7 DEF Enter, Fail
<1>8. CASE Open
  BY <1>4, <1>6, <1>8 DEF Open, Fail
<1>9. CASE Node
  BY <1>4, <1>6, <1>9 DEF Node, Fail
<1>10. CASE NextEntry \/ Stop \/ UNCHANGED vars
  BY <1>6, <1>10 DEF NextEntry, Stop, Fail, vars
<1>11. CASE Blob
  <2>1. path \in Mine
    BY <1>1, <1>11 DEF Blob, Current, Made
  <2>2. fs' = fs \/ \E e : fs' = [fs EXCEPT ![path] = e]
    BY <1>11, <2>1 DEF Blob, Fail, Mine
  <2>3. QED
    BY <1>5, <1>6, <2>1, <2>2
<1>12. CASE Lchown \/ Chown
  <2>1. path \in Mine
    BY <1>1, <1>12 DEF Lchown, Chown, Current, Made
  <2>2. fs' = fs \/ fs' = Owned
    BY <1>12 DEF Lchown, Chown, Fail
  <2>3. fs' = fs \/ \E e : fs' = [fs EXCEPT ![path] = e]
    BY <1>1, <2>1, <2>2, OwnedEntry
  <2>4. QED
    BY <1>5, <1>6, <2>1, <2>3
<1>13. CASE Chmod \/ Chtimes
  <2>1. path \in Mine
    BY <1>1, <1>13 DEF Chmod, Chtimes, Current
  <2>2. fs' = fs \/ \E e : fs' = [fs EXCEPT ![path] = e]
    BY <1>13, <2>1 DEF Chmod, Chtimes, Fail, Mine
  <2>3. QED
    BY <1>5, <1>6, <2>1, <2>2
<1>14. ASSUME NEW q \in DOMAIN tree, Others(q)
       PROVE  \A p \in others : p \in DOMAIN fs' /\ fs'[p] = fs[p]
  BY <1>3, <1>14 DEF Others
<1>15. QED
  BY <1>7, <1>8, <1>9, <1>10, <1>11, <1>12, <1>13, <1>14 DEF Next, Walk

(***************************************************************************)
(* Nothing of what others have in the place, at any time and anywhere in   *)
(* it, is written to or changed by a restore (O_EXCL in Open, os.Mkdir in  *)
(* Enter, os.Symlink in restoreLink; the calls that write are to the path  *)
(* of an entry the restore has made).                                      *)
(***************************************************************************)
THEOREM OthersKept == Spec => NoClobber
<1>1. IInv /\ [Next]_vars => [\A p \in others : p \in DOMAIN fs' /\ fs'[p] = fs[p]]_vars
  BY OwnStep
<1>2. QED
  BY <1>1, RestoreInvariant, PTL DEF Spec, NoClobber


=============================================================================

--------------------------- MODULE Readdir_proofs ---------------------------
(***************************************************************************)
(* Why a directory is read completely, for any names, any inode numbers    *)
(* and any number of changes while it is read: IInv is inductive, and the  *)
(* sorted list holds what it says of the set.                              *)
(***************************************************************************)
EXTENDS Readdir, Selection_proofs, FiniteSetTheorems

-----------------------------------------------------------------------------
(* Sorting. *)

Sorted(s, key) == \A j, k \in DOMAIN s : j < k => key[s[j].name] <= key[s[k].name]

(* A list sorted by the key, with an entry before it that has a lesser key. *)
LEMMA SortedBefore ==
  ASSUME NEW S, NEW a \in S, NEW key, NEW n \in Nat,
         Cardinality(S) = n + 1, Cardinality(S \ {a}) = n,
         \A b \in S : key[b.name] \in Nat /\ key[a.name] <= key[b.name],
         NEW t \in SetToSeqs(S \ {a}), Sorted(t, key)
  PROVE  \E s \in SetToSeqs(S) : Sorted(s, key)
<1>1. t \in [1..n -> S \ {a}] /\ \A j, k \in 1..n : j # k => t[j] # t[k]
  BY DEF SetToSeqs
<1>2. PICK s : s = [j \in 1..(n + 1) |-> IF j = 1 THEN a ELSE t[j - 1]]
  OBVIOUS
<1>3. s \in [1..(n + 1) -> S]
  BY <1>1, <1>2
<1>4. s[1] = a /\ \A j \in 2..(n + 1) : s[j] = t[j - 1] /\ j - 1 \in 1..n /\ s[j] \in S \ {a}
  BY <1>1, <1>2
<1>5. ASSUME NEW j \in 1..(n + 1), NEW k \in 1..(n + 1), j # k PROVE s[j] # s[k]
  <2>1. CASE j = 1
    BY <1>4, <1>5, <2>1
  <2>2. CASE k = 1
    BY <1>4, <1>5, <2>2
  <2>3. CASE j # 1 /\ k # 1
    <3>1. j - 1 \in 1..n /\ k - 1 \in 1..n /\ j - 1 # k - 1
      BY <1>4, <1>5, <2>3
    <3>2. QED
      BY <1>1, <1>4, <2>3, <3>1
  <2>4. QED
    BY <2>1, <2>2, <2>3
<1>6. ASSUME NEW j \in 1..(n + 1), NEW k \in 1..(n + 1), j < k
      PROVE  key[s[j].name] <= key[s[k].name]
  <2>1. CASE j = 1
    BY <1>3, <1>4, <2>1
  <2>2. CASE j # 1
    <3>1. /\ j - 1 \in DOMAIN t /\ k - 1 \in DOMAIN t /\ j - 1 < k - 1
          /\ s[j] = t[j - 1] /\ s[k] = t[k - 1]
      BY <1>1, <1>4, <1>6, <2>2
    <3>2. QED
      BY <3>1 DEF Sorted
  <2>3. QED
    BY <2>1, <2>2
<1>7. s \in SetToSeqs(S)
  BY <1>3, <1>5 DEF SetToSeqs
<1>8. Sorted(s, key)
  BY <1>3, <1>6 DEF Sorted
<1>9. QED
  BY <1>7, <1>8

(* Whatever is finite can be sorted.                                       *)
LEMMA CanSort ==
  ASSUME NEW S, IsFiniteSet(S), NEW key, \A a \in S : key[a.name] \in Nat
  PROVE  \E s \in SetToSeqs(S) : Sorted(s, key)
<1> DEFINE Can(R) == \E s \in SetToSeqs(R) : Sorted(s, key)
           T == {n \in Nat : \A R \in SUBSET S : Cardinality(R) = n => Can(R)}
<1>1. \A R \in SUBSET S : IsFiniteSet(R) /\ Cardinality(R) \in Nat
  BY FS_Subset, FS_CardinalityType
<1>2. 0 \in T
  <2>1. SUFFICES ASSUME NEW R \in SUBSET S, Cardinality(R) = 0 PROVE Can(R)
    OBVIOUS
  <2>2. R = {}
    BY <1>1, <2>1, FS_EmptySet
  <2>3. PICK s : s = [j \in 1..0 |-> 0]
    OBVIOUS
  <2>4. s \in SetToSeqs(R) /\ Sorted(s, key)
    BY <2>1, <2>2, <2>3 DEF SetToSeqs, Sorted
  <2>5. QED
    BY <2>4
<1>3. ASSUME NEW n \in Nat, n \in T PROVE n + 1 \in T
  <2>1. SUFFICES ASSUME NEW R \in SUBSET S, Cardinality(R) = n + 1 PROVE Can(R)
    OBVIOUS
  <2>2. PICK K : K = {key[a.name] : a \in R}
    OBVIOUS
  <2>3. K \subseteq Nat /\ K # {}
    <3>1. R # {}
      BY <2>1, FS_EmptySet
    <3>2. QED
      BY <2>2, <3>1
  <2>4. PICK m \in K : \A k \in K : m <= k
    BY <2>3, Least
  <2>5. PICK a \in R : m = key[a.name]
    BY <2>2
  <2>6. Cardinality(R \ {a}) = n /\ R \ {a} \in SUBSET S
    <3>1. IsFiniteSet(R)
      BY <1>1
    <3>2. Cardinality(R \ {a}) = Cardinality(R) - 1
      BY <3>1, FS_RemoveElement
    <3>3. QED
      BY <2>1, <3>2
  <2>7. PICK t \in SetToSeqs(R \ {a}) : Sorted(t, key)
    BY <1>3, <2>6
  <2>8. \A b \in R : key[b.name] \in Nat /\ key[a.name] <= key[b.name]
    BY <2>2, <2>4, <2>5
  <2>9. QED
    BY <2>1, <2>6, <2>7, <2>8, SortedBefore
<1> HIDE DEF Can
<1>4. Nat \subseteq T
  BY <1>2, <1>3, Induction
<1>5. Can(S)
  BY <1>1, <1>4
<1>6. QED
  BY <1>5 DEF Can

LEMMA SortedByKey ==
  ASSUME NEW S, IsFiniteSet(S), NEW key, \A a \in S : key[a.name] \in Nat
  PROVE  SortedBy(S, key) \in SetToSeqs(S) /\ Sorted(SortedBy(S, key), key)
<1>1. \E s \in SetToSeqs(S) : \A j, k \in DOMAIN s : j < k => key[s[j].name] <= key[s[k].name]
  BY CanSort DEF Sorted
<1>2. QED
  BY <1>1 DEF SortedBy, Sorted

-----------------------------------------------------------------------------
(* The invariant. *)

USE ReaddirAssumption

LEMMA InitIInv == Init => IInv
<1> SUFFICES ASSUME Init PROVE IInv
  OBVIOUS
<1>1. TypeOK
  BY DEF Init, TypeOK
<1>2. FoundOnce
  BY FS_EmptySet DEF Init, FoundOnce
<1>3. NoneLost /\ SortedEntries
  BY DEF Init, NoneLost, SortedEntries
<1>4. QED
  BY <1>1, <1>2, <1>3 DEF IInv

(* Users change what is there, and what stayed only shrinks.               *)
LEMMA UsersKeep ==
  ASSUME IInv, NEW n \in Names, Link(n) \/ Unlink(n)
  PROVE  IInv'
<1>1. UNCHANGED <<pc, listed, todo, found, entries, err, fault>>
  BY DEF Link, Unlink
<1>2. TypeOK'
  <2>1. CASE Link(n)
    BY <2>1 DEF Link, IInv, TypeOK
  <2>2. CASE Unlink(n)
    BY <2>2 DEF Unlink, IInv, TypeOK
  <2>3. QED
    BY <2>1, <2>2
<1>3. FoundOnce'
  BY <1>1 DEF IInv, FoundOnce
<1>4. \A m \in stayed' : m \in stayed /\ there'[m] = there[m]
  BY DEF Link, Unlink, IInv, TypeOK
<1>5. NoneLost'
  BY <1>1, <1>4 DEF IInv, NoneLost, Entry
<1>6. SortedEntries'
  BY <1>1 DEF IInv, SortedEntries
<1>7. QED
  BY <1>2, <1>3, <1>5, <1>6 DEF IInv

LEMMA OpenKeeps == IInv /\ Open => IInv'
<1> SUFFICES ASSUME IInv, Open PROVE IInv'
  OBVIOUS
<1>1. TypeOK'
  BY DEF IInv, TypeOK, Open
<1>2. FoundOnce'
  BY DEF IInv, FoundOnce, Open
<1>3. NoneLost' /\ SortedEntries'
  BY DEF Open, NoneLost, SortedEntries
<1>4. QED
  BY <1>1, <1>2, <1>3 DEF IInv

LEMMA ReadEntryKeeps == IInv /\ ReadEntry => IInv'
<1> SUFFICES ASSUME IInv, ReadEntry PROVE IInv'
  OBVIOUS
<1>1. TypeOK'
  BY DEF IInv, TypeOK, ReadEntry, dirVars
<1>2. FoundOnce'
  BY DEF IInv, FoundOnce, ReadEntry
<1>3. NoneLost' /\ SortedEntries'
  BY DEF ReadEntry, NoneLost, SortedEntries
<1>4. QED
  BY <1>1, <1>2, <1>3 DEF IInv

(* Without a fault the list ends when it has all that stayed.              *)
LEMMA ReadEndKeeps == IInv /\ ReadEnd => IInv'
<1> SUFFICES ASSUME IInv, ReadEnd PROVE IInv'
  OBVIOUS
<1>1. TypeOK'
  BY DEF IInv, TypeOK, ReadEnd, dirVars
<1>2. FoundOnce'
  <2>1. found = {} /\ found' = {} /\ listed' = listed /\ pc' = "stat"
    BY DEF IInv, FoundOnce, ReadEnd
  <2>2. QED
    BY <2>1, FS_EmptySet DEF FoundOnce
<1>3. NoneLost' /\ SortedEntries'
  BY DEF ReadEnd, dirVars, NoneLost, SortedEntries
<1>4. QED
  BY <1>1, <1>2, <1>3 DEF IInv

(* A file that stayed is found, unless the call fails by itself.           *)
LEMMA LstatKeeps == IInv /\ Lstat => IInv'
<1> SUFFICES ASSUME IInv, Lstat PROVE IInv'
  OBVIOUS
<1>1. PICK n \in Names :
        /\ pc = "stat" /\ n \in todo /\ todo' = todo \ {n}
        /\ \/ there[n] # 0 /\ found' = found \cup {Entry(n)}
           \/ found' = found /\ (there[n] # 0 => fault')
        /\ fault => fault'
  <2>1. PICK n \in Names :
          /\ pc = "stat" /\ n \in todo /\ todo' = todo \ {n}
          /\ \/ there[n] # 0 /\ found' = found \cup {Entry(n)} /\ fault' = fault
             \/ found' = found /\ fault' = (fault \/ there[n] # 0)
    BY Zenon DEF Lstat, First, Entry
  <2>2. fault => fault'
    BY <2>1, Zenon
  <2>3. \/ there[n] # 0 /\ found' = found \cup {Entry(n)}
        \/ found' = found /\ (there[n] # 0 => fault')
    BY <2>1, Zenon
  <2>4. QED
    BY <2>1, <2>2, <2>3, Zenon
<1>2. UNCHANGED <<there, edits, stayed, pc, listed, entries>>
  BY DEF Lstat, dirVars
<1>3. TypeOK'
  BY <1>1, <1>2 DEF IInv, TypeOK
<1>4. FoundOnce'
  <2>1. IsFiniteSet(found')
    <3>1. IsFiniteSet(found)
      BY DEF IInv, FoundOnce
    <3>2. IsFiniteSet(found \cup {Entry(n)})
      BY <3>1, FS_AddElement
    <3>3. QED
      BY <1>1, <3>1, <3>2
  <2>2. \A e \in found : /\ e \in [name : listed \ todo, file : Nat]
                        /\ e.name # n /\ e \in [name : listed' \ todo', file : Nat]
    BY <1>1, <1>2 DEF IInv, FoundOnce
  <2>3. Entry(n).name = n /\ Entry(n) \in [name : listed' \ todo', file : Nat]
    <3>1. there[n] \in Nat
      BY DEF IInv, TypeOK
    <3>2. n \in listed' \ todo'
      BY <1>1, <1>2 DEF IInv, TypeOK
    <3>3. QED
      BY <3>1, <3>2 DEF Entry
  <2>4. \A a, b \in found : a.name = b.name => a = b
    BY DEF IInv, FoundOnce
  <2>5. found' \subseteq found \cup {Entry(n)}
    BY <1>1
  <2>6. QED
    BY <1>1, <1>2, <2>1, <2>2, <2>3, <2>4, <2>5 DEF FoundOnce
<1>5. NoneLost'
  <2>1. SUFFICES ASSUME ~fault', NEW m \in stayed, m \notin todo' PROVE Entry(m) \in found'
    BY <1>2 DEF NoneLost, Entry
  <2>2. ~fault /\ there[m] # 0 /\ found \subseteq found'
    BY <1>1, <2>1 DEF IInv, TypeOK
  <2>3. CASE m = n
    BY <1>1, <2>1, <2>2, <2>3
  <2>4. CASE m # n
    BY <1>1, <2>1, <2>2, <2>4 DEF IInv, NoneLost
  <2>5. QED
    BY <2>3, <2>4
<1>6. SortedEntries'
  BY <1>1, <1>2 DEF SortedEntries
<1>7. QED
  BY <1>3, <1>4, <1>5, <1>6 DEF IInv

LEMMA ReturnKeeps == IInv /\ Return => IInv'
<1> SUFFICES ASSUME IInv, Return PROVE IInv'
  OBVIOUS
<1>1. /\ pc = "stat" /\ todo = {} /\ pc' = "returned" /\ entries' = SortedBy(found, ByName)
      /\ UNCHANGED <<there, edits, stayed, listed, todo, found, fault>>
  BY DEF Return, dirVars
<1>2. TypeOK'
  BY <1>1 DEF IInv, TypeOK
<1>3. FoundOnce'
  BY <1>1 DEF IInv, FoundOnce
<1>4. NoneLost'
  BY <1>1 DEF IInv, NoneLost, Entry
<1>5. SortedEntries'
  <2>1. IsFiniteSet(found) /\ \A a \in found : a.name \in Names
    BY DEF IInv, FoundOnce, TypeOK
  <2>2. \A a \in found : ByName[a.name] = a.name /\ ByName[a.name] \in Nat
    BY <2>1 DEF ByName
  <2>3. PICK s : s = SortedBy(found, ByName)
    OBVIOUS
  <2>4. s \in SetToSeqs(found) /\ Sorted(s, ByName)
    BY <2>1, <2>2, <2>3, SortedByKey
  <2>5. \A k \in DOMAIN s : s[k] \in found
    BY <2>4 DEF SetToSeqs
  <2>6. \A j, k \in DOMAIN s : j < k => s[j].name <= s[k].name
    BY <2>2, <2>4, <2>5 DEF Sorted
  <2>7. QED
    BY <1>1, <2>3, <2>4, <2>6 DEF SortedEntries
<1>6. QED
  BY <1>2, <1>3, <1>4, <1>5 DEF IInv

(* What holds at every moment of a reading.  Names are looked for, listed  *)
(* and looked at while users change the directory: dump/dir.go, linuxdir.  *)
THEOREM ReaddirInvariant == Spec => []IInv
<1>1. Init => IInv
  BY InitIInv
<1>2. IInv /\ [Next]_vars => IInv'
  <2> SUFFICES ASSUME IInv, [Next]_vars PROVE IInv'
    OBVIOUS
  <2>1. CASE UNCHANGED vars
    BY <2>1 DEF vars, dirVars, IInv, TypeOK, FoundOnce, NoneLost, Entry, SortedEntries
  <2>2. ASSUME NEW n \in Names, Link(n) \/ Unlink(n) PROVE IInv'
    BY <2>2, UsersKeep
  <2>3. QED
    BY <2>1, <2>2, OpenKeeps, ReadEntryKeeps, ReadEndKeeps, LstatKeeps, ReturnKeeps DEF Next
<1>3. QED
  BY <1>1, <1>2, PTL DEF Spec

(* A list without repetitions has each element of the set at one place.    *)
LEMMA OncePlaced ==
  ASSUME NEW S, IsFiniteSet(S), NEW s \in SetToSeqs(S), NEW a \in S
  PROVE  Cardinality({k \in DOMAIN s : s[k] = a}) = 1
<1>1. PICK n \in Nat : n = Cardinality(S)
  BY FS_CardinalityType
<1>2. s \in [1..n -> S] /\ \A j, k \in 1..n : j # k => s[j] # s[k]
  BY <1>1 DEF SetToSeqs
<1>3. \E k \in 1..n : s[k] = a
  <2>1. s \in Injection(1..n, S)
    BY <1>2 DEF Injection, IsInjective
  <2>2. IsFiniteSet(1..n) /\ Cardinality(1..n) = n
    BY FS_Interval
  <2>3. s \in Surjection(1..n, S)
    BY <1>1, <2>1, <2>2, FS_Injection
  <2>4. QED
    BY <2>3 DEF Surjection
<1>4. PICK k \in 1..n : s[k] = a
  BY <1>3
<1>5. {j \in DOMAIN s : s[j] = a} = {k}
  BY <1>2, <1>4
<1>6. QED
  BY <1>5, FS_Singleton

(* A directory read without error or fault has each file that stayed there *)
(* once, as it is, and in the order of names.                              *)
THEOREM ReadsComplete == Spec => []Complete
<1>1. IInv => Complete
  <2> SUFFICES ASSUME IInv, pc = "returned", ~fault
               PROVE  /\ \A n \in stayed :
                           Cardinality({k \in DOMAIN entries : entries[k] = Entry(n)}) = 1
                      /\ \A j, k \in DOMAIN entries : j < k => entries[j].name < entries[k].name
    BY DEF Complete, Entry
  <2>1. IsFiniteSet(found) /\ \A a \in found : a.name \in Nat
    BY DEF IInv, FoundOnce, TypeOK
  <2>2. /\ entries \in SetToSeqs(found)
        /\ \A j, k \in DOMAIN entries : j < k => entries[j].name <= entries[k].name
    BY DEF IInv, SortedEntries
  <2>3. \A n \in stayed : Entry(n) \in found
    BY DEF IInv, NoneLost, TypeOK
  <2>4. \A n \in stayed : Cardinality({k \in DOMAIN entries : entries[k] = Entry(n)}) = 1
    BY <2>1, <2>2, <2>3, OncePlaced
  <2>5. ASSUME NEW j \in DOMAIN entries, NEW k \in DOMAIN entries, j < k
        PROVE  entries[j].name < entries[k].name
    <3>1. DOMAIN entries = 1..Cardinality(found) /\ Cardinality(found) \in Nat
      BY <2>1, <2>2, FS_CardinalityType DEF SetToSeqs
    <3>2. j # k
      BY <2>5, <3>1
    <3>3. entries[j] \in found /\ entries[k] \in found /\ entries[j] # entries[k]
      BY <2>2, <3>1, <3>2 DEF SetToSeqs
    <3>4. entries[j].name # entries[k].name
      BY <3>3 DEF IInv, FoundOnce
    <3>5. QED
      BY <2>1, <2>2, <2>5, <3>3, <3>4
  <2>6. QED
    BY <2>4, <2>5
<1>2. QED
  BY <1>1, ReaddirInvariant, PTL
=============================================================================

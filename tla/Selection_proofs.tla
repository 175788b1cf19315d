-------------------------- MODULE Selection_proofs --------------------------
(***************************************************************************)
(* What Select returns.  The induction is over the indices of one          *)
(* sequence, and put in terms of sets of numbers.                          *)
(***************************************************************************)
EXTENDS Selection, SequenceTheorems, WellFoundedInduction, TLAPS

(* Every set of numbers has a least element.                               *)
LEMMA Least ==
  ASSUME NEW T, T \subseteq Nat, T # {}
  PROVE  \E m \in T : \A k \in T : m <= k
<1> DEFINE R == OpToRel(<, Nat)
<1>1. IsWellFoundedOn(R, Nat)
  BY NatLessThanWellFounded
<1>2. \A k, m \in Nat : <<k, m>> \in R <=> k < m
  BY DEF OpToRel
<1> HIDE DEF R
<1>3. PICK m \in T : \A k \in T : ~(<<k, m>> \in R)
  BY <1>1, WFMin
<1>4. \A k \in T : ~(k < m)
  BY <1>2, <1>3
<1>5. \A k \in T : m <= k
  BY <1>4
<1>6. QED
  BY <1>5

(* A set with zero and the successor of each of its numbers has them all.  *)
LEMMA Induction ==
  ASSUME NEW T, 0 \in T, \A n \in Nat : n \in T => n + 1 \in T
  PROVE  Nat \subseteq T
<1>1. SUFFICES ASSUME Nat \ T # {} PROVE FALSE
  OBVIOUS
<1>2. PICK m \in Nat \ T : \A k \in Nat \ T : m <= k
  BY <1>1, Least
<1>3. m - 1 \in Nat /\ m - 1 + 1 = m
  OBVIOUS
<1>4. m - 1 \in T
  BY <1>2, <1>3
<1>5. QED
  BY <1>3, <1>4

(* The loop: what it has kept after each element.                          *)
LEMMA Unrolled ==
  ASSUME NEW S, NEW s \in Seq(S), NEW keep
  PROVE  \E first :
           /\ Select(s, keep) = first[Len(s)]
           /\ first[0] = <<>>
           /\ \A k \in 1..Len(s) :
                first[k] = IF s[k] \in keep THEN Append(first[k - 1], s[k]) ELSE first[k - 1]
<1> DEFINE Step(r, k) == IF s[k] \in keep THEN Append(r, s[k]) ELSE r
           Good(g, n) == g = [k \in 0..n |-> IF k = 0 THEN <<>> ELSE Step(g[k - 1], k)]
<1>1. \A n \in Nat : \E g : Good(g, n)
  <2> DEFINE T == {n \in Nat : \E g : Good(g, n)}
  <2>1. 0 \in T
    <3>1. Good([k \in 0..0 |-> <<>>], 0)
      OBVIOUS
    <3>2. QED
      BY <3>1
  <2>2. ASSUME NEW n \in Nat, n \in T PROVE n + 1 \in T
    <3>1. PICK g : Good(g, n)
      BY <2>2
    <3> DEFINE h == [k \in 0..(n + 1) |-> IF k = n + 1 THEN Step(g[n], n + 1) ELSE g[k]]
    <3>2. \A k \in 0..n : h[k] = g[k]
      OBVIOUS
    <3>3. ASSUME NEW k \in 0..(n + 1)
          PROVE  h[k] = IF k = 0 THEN <<>> ELSE Step(h[k - 1], k)
      <4>1. CASE k = n + 1
        BY <3>2, <4>1
      <4>2. CASE k \in 0..n
        <5>1. k # 0 => k - 1 \in 0..n
          BY <4>2
        <5>2. g[k] = IF k = 0 THEN <<>> ELSE Step(g[k - 1], k)
          BY <3>1, <4>2
        <5>3. QED
          BY <3>2, <4>2, <5>1, <5>2
      <4>3. QED
        BY <4>1, <4>2
    <3>4. Good(h, n + 1)
      BY <3>3
    <3> HIDE DEF h, Good
    <3>5. \E f : Good(f, n + 1)
      BY <3>4
    <3>6. QED
      BY <3>5
  <2> HIDE DEF T
  <2>3. Nat \subseteq T
    BY <2>1, <2>2, Induction
  <2>4. QED
    BY <2>3 DEF T
<1> DEFINE len == Len(s)
           first == CHOOSE g : Good(g, len)
<1>2. len \in Nat /\ Select(s, keep) = first[len]
  BY DEF Select
<1>3. Good(first, len)
  BY <1>1, <1>2
<1> HIDE DEF first
<1>4. /\ first[0] = <<>>
      /\ \A k \in 1..len : first[k] = Step(first[k - 1], k)
  <2>1. \A k \in 0..len : first[k] = IF k = 0 THEN <<>> ELSE Step(first[k - 1], k)
    BY <1>3
  <2> HIDE DEF Good, Step
  <2>2. 0 \in 0..len /\ \A k \in 1..len : k \in 0..len /\ k # 0
    BY <1>2
  <2>3. QED
    BY <2>1, <2>2
<1> HIDE DEF Good
<1>5. QED
  BY <1>2, <1>4 DEF Step

(* What is selected is in the set, and comes from the sequence.            *)
LEMMA Selected ==
  ASSUME NEW S, NEW s \in Seq(S), NEW keep
  PROVE  Select(s, keep) \in Seq(S \cap keep)
<1> DEFINE len == Len(s)
<1>1. PICK first :
        /\ Select(s, keep) = first[len]
        /\ first[0] = <<>>
        /\ \A k \in 1..len :
             first[k] = IF s[k] \in keep THEN Append(first[k - 1], s[k]) ELSE first[k - 1]
  BY Unrolled
<1>2. len \in Nat
  OBVIOUS
<1>3. \A n \in Nat : n <= len => first[n] \in Seq(S \cap keep)
  <2> DEFINE T == {n \in Nat : n <= len => first[n] \in Seq(S \cap keep)}
  <2>1. 0 \in T
    <3>1. <<>> \in Seq(S \cap keep)
      OBVIOUS
    <3>2. QED
      BY <1>1, <3>1
  <2>2. ASSUME NEW n \in Nat, n \in T PROVE n + 1 \in T
    <3>1. CASE n + 1 <= len
      <4>1. n + 1 \in 1..len /\ n + 1 - 1 = n /\ n <= len
        BY <1>2, <3>1
      <4>2. /\ first[n] \in Seq(S \cap keep)
            /\ first[n + 1] = IF s[n + 1] \in keep THEN Append(first[n], s[n + 1]) ELSE first[n]
        BY <1>1, <2>2, <4>1
      <4>3. s[n + 1] \in S
        BY <4>1
      <4>4. first[n + 1] \in Seq(S \cap keep)
        <5>1. CASE s[n + 1] \in keep
          BY <4>2, <4>3, <5>1, AppendProperties
        <5>2. CASE s[n + 1] \notin keep
          BY <4>2, <5>2
        <5>3. QED
          BY <5>1, <5>2
      <4>5. QED
        BY <4>4
    <3>2. QED
      BY <3>1
  <2> HIDE DEF T
  <2>3. Nat \subseteq T
    BY <2>1, <2>2, Induction
  <2>4. QED
    BY <2>3 DEF T
<1>4. QED
  BY <1>1, <1>2, <1>3

(* Everything of the sequence that is in the set is selected; and once, if *)
(* the sequence has it once.                                               *)
LEMMA SelectedAll ==
  ASSUME NEW S, NEW s \in Seq(S), NEW keep
  PROVE  LET t == Select(s, keep) IN
         /\ {t[k] : k \in DOMAIN t} = {s[k] : k \in DOMAIN s} \cap keep
         /\ (\A j, k \in DOMAIN s : s[j] = s[k] => j = k)
              => \A j, k \in DOMAIN t : t[j] = t[k] => j = k
<1> DEFINE len == Len(s)
           Elems(t) == {t[k] : k \in DOMAIN t}
           Once(t) == \A j, k \in DOMAIN t : t[j] = t[k] => j = k
           Some(n) == {s[k] : k \in 1..n}
<1>1. PICK first :
        /\ Select(s, keep) = first[len]
        /\ first[0] = <<>>
        /\ \A k \in 1..len :
             first[k] = IF s[k] \in keep THEN Append(first[k - 1], s[k]) ELSE first[k - 1]
  BY Unrolled
<1>2. len \in Nat /\ DOMAIN s = 1..len
  OBVIOUS
<1> DEFINE Good(n) == /\ first[n] \in Seq(S)
                      /\ Elems(first[n]) = Some(n) \cap keep
                      /\ Once(s) => Once(first[n])
<1> HIDE DEF Elems, Once
<1>3. \A n \in Nat : n <= len => Good(n)
  <2> DEFINE T == {n \in Nat : n <= len => Good(n)}
  <2>1. 0 \in T
    <3>1. <<>> \in Seq(S) /\ DOMAIN <<>> = {} /\ Some(0) = {}
      OBVIOUS
    <3>2. Elems(<<>>) = {} /\ Once(<<>>)
      BY <3>1 DEF Elems, Once
    <3>3. QED
      BY <1>1, <3>1, <3>2
  <2>2. ASSUME NEW n \in Nat, n \in T PROVE n + 1 \in T
    <3>1. CASE n + 1 <= len
      <4>1. n + 1 \in 1..len /\ n + 1 - 1 = n /\ n <= len
        BY <1>2, <3>1
      <4>2. /\ Good(n)
            /\ first[n + 1] = IF s[n + 1] \in keep THEN Append(first[n], s[n + 1]) ELSE first[n]
        BY <1>1, <2>2, <4>1
      <4>3. PICK x : x = s[n + 1] /\ x \in S
        BY <4>1
      <4>4. Some(n + 1) = Some(n) \cup {x}
        <5>1. 1..(n + 1) = (1..n) \cup {n + 1}
          BY <4>1
        <5>2. QED
          BY <4>3, <5>1
      <4>5. CASE x \notin keep
        BY <4>2, <4>3, <4>4, <4>5
      <4>6. CASE x \in keep
        <5>1. PICK t \in Seq(S) : t = first[n]
          BY <4>2
        <5>2. PICK u : u = Append(t, x)
          OBVIOUS
        <5>3. PICK m \in Nat : m = Len(t)
          BY <5>1
        <5>4. /\ u \in Seq(S) /\ DOMAIN u = 1..(m + 1) /\ DOMAIN t = 1..m
              /\ u[m + 1] = x /\ \A k \in 1..m : u[k] = t[k]
          BY <4>3, <5>1, <5>2, <5>3, AppendProperties
        <5>5. 1..(m + 1) = (1..m) \cup {m + 1}
          BY <5>3
        <5>6. Elems(u) = Elems(t) \cup {x}
          BY <5>4, <5>5 DEF Elems
        <5>7. ASSUME Once(s) PROVE Once(u)
          <6>1. x \notin Some(n)
            <7>1. \A k \in 1..n : k \in DOMAIN s /\ k # n + 1
              BY <1>2, <4>1
            <7>2. QED
              BY <1>2, <4>1, <4>3, <5>7, <7>1 DEF Once
          <6>2. x \notin Elems(t)
            BY <4>2, <5>1, <6>1
          <6>3. \A k \in 1..m : t[k] # x
            BY <5>4, <6>2 DEF Elems
          <6>4. \A j, k \in 1..m : t[j] = t[k] => j = k
            BY <4>2, <5>1, <5>4, <5>7 DEF Once
          <6>5. QED
            BY <5>4, <5>5, <6>3, <6>4 DEF Once
        <5>8. first[n + 1] = u
          BY <4>2, <4>3, <4>6, <5>1, <5>2
        <5>9. Elems(u) = Some(n + 1) \cap keep
          BY <4>2, <4>4, <4>6, <5>1, <5>6
        <5>10. QED
          BY <5>4, <5>7, <5>8, <5>9
      <4>7. QED
        BY <4>5, <4>6
    <3>2. QED
      BY <3>1
  <2> HIDE DEF T
  <2>3. Nat \subseteq T
    BY <2>1, <2>2, Induction
  <2>4. QED
    BY <2>3 DEF T
<1>4. Good(len)
  <2> HIDE DEF Good
  <2>1. QED
    BY <1>2, <1>3
<1>5. Some(len) = {s[k] : k \in DOMAIN s}
  BY <1>2
<1>6. PICK t : t = Select(s, keep) /\ t = first[len]
  BY <1>1
<1>7. Elems(t) = {s[k] : k \in DOMAIN s} \cap keep /\ (Once(s) => Once(t))
  BY <1>4, <1>5, <1>6
<1>8. QED
  BY <1>6, <1>7 DEF Elems, Once
=============================================================================

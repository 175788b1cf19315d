--------------------------- MODULE PoolFile_proofs ---------------------------
(***************************************************************************)
(* Why a pool file reads back whole and an index of it finds what is       *)
(* there, for any chunks and wherever a write is cut off.                  *)
(***************************************************************************)
EXTENDS PoolFile, Selection_proofs, FiniteSetTheorems

-----------------------------------------------------------------------------
(* The reader: Scan as the recursive definition says. *)

Reads(f) ==
  \A o \in 0 .. Len(file) + Align :
    f[o] = IF Readable(o) THEN <<ChunkRead(o)>> \o f[After(o)] ELSE <<>>

LEMMA Numbers ==
  /\ HeaderLen \in Nat \ {0} /\ Align \in Nat \ {0} /\ Bytes \in Nat \ {0} /\ Rest \in Nat \ {0}
  /\ NotPacked \in Nat
  /\ Chunks \subseteq 0 .. Bytes * Rest - 1
  /\ \A c \in Chunks : KindOf[c] \in Nat /\ DataLen[c] \in Nat /\ ZLen[c] \in Nat
  /\ \A c \in Chunks : DataLen[c] < NotPacked
  BY PoolFileAssumption DEF PoolFileAssumption

LEMMA PadBounds ==
  ASSUME NEW l \in Nat
  PROVE  Pad(l) \in 0 .. Align - 1
<1>1. PICK a \in Nat \ {0} : a = Align
  BY Numbers
<1>2. (l % a) \in 0 .. a - 1
  OBVIOUS
<1>7. PICK m \in 0 .. a - 1 : m = l % a
  BY <1>2
<1>3. PICK k \in Nat : k = a - m
  OBVIOUS
<1>4. (k % a) \in 0 .. a - 1
  OBVIOUS
<1>5. Pad(l) = k % a
  BY <1>1, <1>3, <1>7 DEF Pad
<1>6. QED
  BY <1>1, <1>4, <1>5

(* What is readable ends in the file, and the next chunk begins later.     *)
LEMMA AfterLater ==
  ASSUME NEW o \in Nat, Readable(o), HeaderAt(o).payload \in Nat, Len(file) \in Nat
  PROVE  After(o) \in 0 .. Len(file) + Align /\ o < After(o)
<1>1. PICK l \in Nat, h \in Nat \ {0}, p \in Nat, a \in Nat \ {0} :
        l = Len(file) /\ h = HeaderLen /\ p = HeaderAt(o).payload /\ a = Align
  BY Numbers
<1>2. PICK d : d = Pad(p)
  OBVIOUS
<1>3. d \in 0..(a - 1)
  BY <1>1, <1>2, PadBounds
<1>4. o + h + p <= l /\ After(o) = o + h + p + d
  BY <1>1, <1>2 DEF Readable, After
<1>5. QED
  BY <1>1, <1>3, <1>4
(* The recursion is well-founded: there is a function as Scan has it.      *)
LEMMA ScanReads ==
  ASSUME Len(file) \in Nat, \A o \in Nat : Readable(o) => HeaderAt(o).payload \in Nat
  PROVE  \E f : Reads(f) /\ Scan = f[0]
<1>1. PICK N \in Nat : N = Len(file) + Align /\ Len(file) < N
  BY Numbers
<1> DEFINE Step(f, o) == IF Readable(o) THEN <<ChunkRead(o)>> \o f[After(o)] ELSE <<>>
           Good(g, n) == g = [o \in (N - n) .. N |-> Step(g, o)]
           T == {n \in Nat : n <= N => \E g : Good(g, n)}
<1>2. ASSUME NEW o \in Nat, o <= N, Readable(o) PROVE After(o) \in (o + 1) .. N
  <2>1. After(o) \in 0 .. N /\ o < After(o)
    BY <1>1, <1>2, AfterLater
  <2>2. QED
    BY <2>1
<1>3. ~Readable(N)
  BY <1>1, Numbers DEF Readable
<1>4. 0 \in T
  <2>1. PICK g : g = [o \in (N - 0) .. N |-> <<>>]
    OBVIOUS
  <2>2. \A o \in (N - 0) .. N : ~Readable(o)
    BY <1>3
  <2>3. Good(g, 0)
    BY <2>1, <2>2
  <2>4. QED
    BY <2>3
<1>5. ASSUME NEW n \in Nat, n \in T PROVE n + 1 \in T
  <2> SUFFICES ASSUME n + 1 <= N PROVE \E g : Good(g, n + 1)
    OBVIOUS
  <2>1. PICK g : Good(g, n)
    BY <1>5
  <2>2. PICK m \in Nat : m = N - (n + 1) /\ N - n = m + 1
    OBVIOUS
  <2>3. PICK h : h = [o \in m .. N |-> IF o = m THEN Step(g, o) ELSE g[o]]
    OBVIOUS
  <2>4. \A o \in (m + 1) .. N : h[o] = g[o]
    BY <2>3
  <2>5. ASSUME NEW o \in m .. N PROVE Step(h, o) = Step(g, o)
    <3>1. CASE Readable(o)
      <4>1. After(o) \in (m + 1) .. N
        BY <1>2, <3>1
      <4>2. h[After(o)] = g[After(o)]
        BY <2>4, <4>1
      <4>3. QED
        BY <4>2
    <3>2. CASE ~Readable(o)
      BY <3>2
    <3>3. QED
      BY <3>1, <3>2
  <2>6. ASSUME NEW o \in m .. N PROVE h[o] = Step(g, o)
    <3>1. CASE o = m
      BY <2>3, <3>1
    <3>2. CASE o # m
      <4>1. o \in (N - n) .. N /\ o \in (m + 1) .. N
        BY <2>2, <3>2
      <4> HIDE DEF Step
      <4>2. g[o] = Step(g, o)
        BY <2>1, <4>1
      <4>3. QED
        BY <2>4, <4>1, <4>2
    <3>3. QED
      BY <3>1, <3>2
  <2> HIDE DEF Step
  <2>7. h = [o \in m .. N |-> Step(h, o)]
    <3>1. h = [o \in m .. N |-> h[o]]
      BY <2>3
    <3>2. \A o \in m .. N : h[o] = Step(h, o)
      BY <2>5, <2>6
    <3>3. QED
      BY <3>1, <3>2
  <2>8. Good(h, n + 1)
    BY <2>2, <2>7
  <2>9. QED
    BY <2>8
<1> HIDE DEF T
<1>6. Nat \subseteq T
  BY <1>4, <1>5, Induction
<1>7. N \in T /\ N - N = 0
  BY <1>6
<1>8. PICK g : g = [o \in 0 .. N |-> Step(g, o)]
  BY <1>7 DEF T
<1> DEFINE f == CHOOSE f : f = [o \in 0 .. Len(file) + Align |->
                                  IF Readable(o) THEN <<ChunkRead(o)>> \o f[After(o)] ELSE <<>>]
<1>9. f = [o \in 0 .. Len(file) + Align |->
             IF Readable(o) THEN <<ChunkRead(o)>> \o f[After(o)] ELSE <<>>]
  <2>1. g = [o \in 0 .. Len(file) + Align |->
               IF Readable(o) THEN <<ChunkRead(o)>> \o g[After(o)] ELSE <<>>]
    BY <1>1, <1>8
  <2>2. QED
    BY <2>1, Zenon
<1>10. Scan = f[0]
  BY DEF Scan
<1> HIDE DEF f
<1>11. Reads(f)
  BY <1>9 DEF Reads
<1>12. QED
  BY <1>10, <1>11

(* One element put before the others.                                      *)
LEMMA Prepended ==
  ASSUME NEW S, NEW x \in S, NEW s \in Seq(S)
  PROVE  /\ <<x>> \o s \in Seq(S) /\ Len(<<x>> \o s) = Len(s) + 1
         /\ (<<x>> \o s)[1] = x
         /\ \A i \in 1..Len(s) : (<<x>> \o s)[i + 1] = s[i]
<1>1. PICK t : t = <<x>> /\ t \in Seq(S) /\ Len(t) = 1 /\ t[1] = x
  <2>1. <<x>> \in Seq(S) /\ Len(<<x>>) = 1 /\ <<x>>[1] = x
    OBVIOUS
  <2>2. QED
    BY <2>1
<1>2. /\ t \o s \in Seq(S) /\ Len(t \o s) = Len(t) + Len(s)
      /\ \A i \in 1..(Len(t) + Len(s)) :
           (t \o s)[i] = IF i <= Len(t) THEN t[i] ELSE s[i - Len(t)]
  BY <1>1, ConcatProperties
<1>3. Len(s) \in Nat
  OBVIOUS
<1>4. (t \o s)[1] = x
  BY <1>1, <1>2, <1>3
<1>5. ASSUME NEW i \in 1..Len(s) PROVE (t \o s)[i + 1] = s[i]
  <2>1. i + 1 \in 1..(1 + Len(s)) /\ ~(i + 1 <= 1) /\ (i + 1) - 1 = i
    BY <1>3
  <2>2. QED
    BY <1>1, <1>2, <2>1
<1>6. QED
  BY <1>1, <1>2, <1>3, <1>4, <1>5

(* If each of these places leads to the next, and the last one nowhere,    *)
(* then they are what Scan finds.                                          *)
LEMMA ScanIs ==
  ASSUME Len(file) \in Nat, \A o \in Nat : Readable(o) => HeaderAt(o).payload \in Nat,
         NEW m \in Nat, NEW w, w[1] = 0,
         \A k \in 1..m : Readable(w[k]) /\ w[k] \in 0 .. Len(file) + Align /\ w[k + 1] = After(w[k]),
         w[m + 1] \in 0 .. Len(file) + Align, ~Readable(w[m + 1])
  PROVE  /\ Len(Scan) = m /\ DOMAIN Scan = 1..m /\ Scan \in Seq({ChunkRead(o) : o \in Nat})
         /\ \A k \in 1..m : Scan[k] = ChunkRead(w[k])
<1>1. PICK f : Reads(f) /\ Scan = f[0]
  BY ScanReads
<1>2. PICK S : S = {ChunkRead(o) : o \in Nat}
  OBVIOUS
<1> DEFINE Ahead(d) == f[w[(m + 1) - d]]
           T == {d \in Nat : d <= m =>
                   /\ Ahead(d) \in Seq(S) /\ Len(Ahead(d)) = d
                   /\ \A i \in 1..d : Ahead(d)[i] = ChunkRead(w[(m - d) + i])}
<1>3. 0 \in T
  <2>1. f[w[m + 1]] = <<>>
    BY <1>1 DEF Reads
  <2>2. (m + 1) - 0 = m + 1
    OBVIOUS
  <2>3. Ahead(0) = <<>>
    BY <2>1, <2>2
  <2>4. <<>> \in Seq(S) /\ Len(<<>>) = 0
    OBVIOUS
  <2> HIDE DEF Ahead
  <2>5. Ahead(0) \in Seq(S) /\ Len(Ahead(0)) = 0
    BY <2>3, <2>4
  <2>6. \A i \in 1..0 : FALSE
    OBVIOUS
  <2>7. QED
    BY <2>5, <2>6
<1>4. ASSUME NEW d \in Nat, d \in T PROVE d + 1 \in T
  <2> SUFFICES ASSUME d + 1 <= m
               PROVE  /\ Ahead(d + 1) \in Seq(S) /\ Len(Ahead(d + 1)) = d + 1
                      /\ \A i \in 1..(d + 1) : Ahead(d + 1)[i] = ChunkRead(w[(m - (d + 1)) + i])
    OBVIOUS
  <2>1. PICK k \in 1..m : k = m - d /\ (m + 1) - d = k + 1 /\ (m + 1) - (d + 1) = k /\ m - (d + 1) = k - 1
    OBVIOUS
  <2>2. PICK s : s = f[w[k + 1]]
    OBVIOUS
  <2>3. s \in Seq(S) /\ Len(s) = d /\ \A i \in 1..d : s[i] = ChunkRead(w[k + i])
    BY <1>4, <2>1, <2>2
  <2>4. PICK x \in S : x = ChunkRead(w[k])
    BY <1>2
  <2>5. f[w[k]] = <<x>> \o s
    <3>1. PICK o : o = w[k] /\ o \in 0 .. Len(file) + Align /\ Readable(o) /\ w[k + 1] = After(o)
      OBVIOUS
    <3>2. f[o] = <<ChunkRead(o)>> \o f[After(o)]
      BY <1>1, <3>1 DEF Reads
    <3>3. QED
      BY <2>2, <2>4, <3>1, <3>2
  <2>6. PICK t : t = <<x>> \o s
    OBVIOUS
  <2>7. /\ t \in Seq(S) /\ Len(t) = d + 1 /\ t[1] = x
        /\ \A i \in 1..d : t[i + 1] = s[i]
    BY <2>3, <2>6, Prepended
  <2>8. ASSUME NEW i \in 1..(d + 1) PROVE t[i] = ChunkRead(w[(k - 1) + i])
    <3>1. CASE i = 1
      <4>1. (k - 1) + i = k
        BY <3>1
      <4>2. QED
        BY <2>4, <2>7, <3>1, <4>1
    <3>2. CASE i # 1
      <4>1. PICK j \in 1..d : j + 1 = i /\ (k - 1) + i = k + j
        <5>1. i - 1 \in 1..d /\ (i - 1) + 1 = i /\ (k - 1) + i = k + (i - 1)
          BY <3>2
        <5>2. QED
          BY <5>1
      <4>2. QED
        BY <2>3, <2>7, <4>1
    <3>3. QED
      BY <3>1, <3>2
  <2>9. Ahead(d + 1) = t
    BY <2>1, <2>5, <2>6
  <2> HIDE DEF Ahead
  <2>10. QED
    BY <2>1, <2>7, <2>8, <2>9
<1> HIDE DEF T
<1>5. Nat \subseteq T
  BY <1>3, <1>4, Induction
<1>6. m \in T /\ (m + 1) - m = 1 /\ m - m = 0
  BY <1>5
<1>7. Ahead(m) = Scan
  BY <1>1, <1>6
<1> HIDE DEF Ahead
<1>8. /\ Scan \in Seq(S) /\ Len(Scan) = m
      /\ \A i \in 1..m : Scan[i] = ChunkRead(w[(m - m) + i])
  BY <1>6, <1>7 DEF T
<1>9. \A i \in 1..m : (m - m) + i = i
  OBVIOUS
<1>10. QED
  BY <1>2, <1>8, <1>9

-----------------------------------------------------------------------------
(* Chunks, unit by unit. *)

\* The units of a chunk, with its padding, and the i-th of them.
Span(c) == HeaderLen + Header(c).payload + Pad(Header(c).payload)

Unit(c, i) ==
  IF i <= HeaderLen THEN <<"header", Header(c), i>>
  ELSE IF i <= HeaderLen + Header(c).payload
    THEN <<"payload", c, Packed(c), i - HeaderLen>> ELSE <<"zero">>

Units ==
  {<<"header", Header(c), i>> : c \in Chunks, i \in Nat}
    \cup {<<"payload", c, Packed(c), i>> : c \in Chunks, i \in Nat} \cup {<<"zero">>}

LEMMA ChunkFacts ==
  ASSUME NEW c \in Chunks
  PROVE  /\ Header(c).payload \in Nat /\ Pad(Header(c).payload) \in 0 .. Align - 1
         /\ Span(c) \in Nat /\ HeaderLen + Header(c).payload <= Span(c)
         /\ Span(c) <= HeaderLen + Header(c).payload + Align
         /\ Header(c).oid = c /\ Header(c).kind = KindOf[c]
         /\ Header(c).data # NotPacked <=> Packed(c)
         /\ (IF Header(c).data = NotPacked THEN Header(c).payload ELSE Header(c).data) = DataLen[c]
<1>1. PICK h : h = Header(c)
  OBVIOUS
<1>2. CASE Packed(c)
  <2>1. h = [oid |-> c, kind |-> KindOf[c], payload |-> ZLen[c], data |-> DataLen[c]]
    BY <1>1, <1>2 DEF Header
  <2>2. h.payload \in Nat /\ h.data = DataLen[c] /\ h.data # NotPacked /\ h.oid = c /\ h.kind = KindOf[c]
    BY <2>1, Numbers
  <2>3. Pad(h.payload) \in 0 .. Align - 1
    BY <2>2, PadBounds
  <2>4. QED
    BY <1>1, <1>2, <2>2, <2>3, Numbers DEF Span
<1>3. CASE ~Packed(c)
  <2>1. h = [oid |-> c, kind |-> KindOf[c], payload |-> DataLen[c], data |-> NotPacked]
    BY <1>1, <1>3 DEF Header
  <2>2. h.payload \in Nat /\ h.payload = DataLen[c] /\ h.data = NotPacked /\ h.oid = c /\ h.kind = KindOf[c]
    BY <2>1, Numbers
  <2>3. Pad(h.payload) \in 0 .. Align - 1
    BY <2>2, PadBounds
  <2>4. QED
    BY <1>1, <1>3, <2>2, <2>3, Numbers DEF Span
<1>4. QED
  BY <1>2, <1>3

LEMMA UnitFacts ==
  ASSUME NEW c \in Chunks, NEW i \in Nat
  PROVE  /\ Unit(c, i) \in Units
         /\ i <= HeaderLen =>
              Head(Unit(c, i)) = "header" /\ Unit(c, i)[2] = Header(c) /\ Unit(c, i)[3] = i
<1>1. CASE i <= HeaderLen
  <2>1. Unit(c, i) = <<"header", Header(c), i>>
    BY <1>1 DEF Unit
  <2>2. Unit(c, i) \in Units
    BY <2>1 DEF Units
  <2>3. QED
    BY <2>1, <2>2
<1>2. CASE ~(i <= HeaderLen) /\ i <= HeaderLen + Header(c).payload
  <2>1. Unit(c, i) = <<"payload", c, Packed(c), i - HeaderLen>>
    BY <1>2 DEF Unit
  <2>2. i - HeaderLen \in Nat
    BY <1>2, Numbers
  <2>3. Unit(c, i) \in Units
    BY <2>1, <2>2 DEF Units
  <2>4. QED
    BY <1>2, <2>3
<1>3. CASE ~(i <= HeaderLen) /\ ~(i <= HeaderLen + Header(c).payload)
  BY <1>3 DEF Unit, Units
<1>4. QED
  BY <1>1, <1>2, <1>3

(* Where a header can be read there is one, of a chunk.                    *)
LEMMA HeaderRead ==
  ASSUME file \in Seq(Units), NEW o \in Nat, Readable(o)
  PROVE  \E c \in Chunks : HeaderAt(o) = Header(c)
<1>1. o + 1 \in 1..Len(file) /\ 1 \in 1..HeaderLen
  BY Numbers DEF Readable
<1>2. PICK u \in Units : u = file[o + 1]
  BY <1>1
<1>3. Head(u) = "header" /\ HeaderAt(o) = u[2]
  BY <1>1, <1>2 DEF Readable, HeaderAt
<1>4. CASE \E c \in Chunks, i \in Nat : u = <<"header", Header(c), i>>
  BY <1>3, <1>4
<1>5. CASE \E c \in Chunks, i \in Nat : u = <<"payload", c, Packed(c), i>>
  <2>1. PICK c \in Chunks, i \in Nat : u = <<"payload", c, Packed(c), i>>
    BY <1>5
  <2>2. Head(u) = "payload"
    BY <2>1
  <2>3. QED
    BY <1>3, <2>2
<1>6. CASE u = <<"zero">>
  <2>1. Head(u) = "zero"
    BY <1>6
  <2>2. QED
    BY <1>3, <2>1
<1>7. QED
  BY <1>4, <1>5, <1>6 DEF Units

-----------------------------------------------------------------------------
(* Chunks, one after the other. *)

\* The chunks cs begin at these places, and end at the next one.
Places(w, cs) ==
  /\ cs \in Seq(Chunks)
  /\ w[1] = 0
  /\ \A k \in 1..(Len(cs) + 1) : w[k] \in Nat
  /\ \A k \in 1..Len(cs) : w[k + 1] = w[k] + Span(cs[k])

\* The file f has of them what fits, and something of each.
Laid(f, w, cs) ==
  /\ f \in Seq(Units) /\ Len(f) <= w[Len(cs) + 1]
  /\ \A k \in 1..Len(cs) :
       /\ w[k] < Len(f)
       /\ \A i \in 1..Span(cs[k]) : w[k] + i <= Len(f) => f[w[k] + i] = Unit(cs[k], i)

\* n units more.
Grown(f, g, n) ==
  /\ g \in Seq(Units) /\ Len(g) = Len(f) + n
  /\ \A i \in 1..Len(f) : g[i] = f[i]

LEMMA LaidGrows ==
  ASSUME NEW f, NEW w, NEW cs, Places(w, cs), Laid(f, w, cs),
         NEW g, NEW n \in Nat, Grown(f, g, n), Len(f) + n <= w[Len(cs) + 1],
         \A i \in 1..n : g[Len(f) + i] = Unit(cs[Len(cs)], (Len(f) + i) - w[Len(cs)])
  PROVE  Laid(g, w, cs)
<1>1. PICK l \in Nat, m \in Nat : l = Len(f) /\ m = Len(cs)
  BY DEF Laid, Places
<1>2. g \in Seq(Units) /\ Len(g) = l + n /\ Len(g) <= w[m + 1]
  BY <1>1 DEF Grown
<1>3. ASSUME NEW k \in 1..m, NEW i \in 1..Span(cs[k]), w[k] + i <= l + n
      PROVE  g[w[k] + i] = Unit(cs[k], i)
  <2>1. /\ w[k] \in Nat /\ w[k] < l /\ Span(cs[k]) \in Nat
        /\ w[k + 1] = w[k] + Span(cs[k])
    BY <1>1, ChunkFacts DEF Places, Laid
  <2>2. CASE w[k] + i <= l
    <3>1. w[k] + i \in 1..l
      BY <2>1, <2>2
    <3>2. f[w[k] + i] = Unit(cs[k], i)
      BY <1>1, <2>2 DEF Laid
    <3>3. QED
      BY <1>1, <3>1, <3>2 DEF Grown
  <2>3. CASE ~(w[k] + i <= l)
    <3>1. k = m
      <4> SUFFICES ASSUME k # m PROVE FALSE
        OBVIOUS
      <4>1. k + 1 \in 1..m
        OBVIOUS
      <4>2. w[k + 1] < l
        BY <1>1, <4>1 DEF Laid
      <4>3. QED
        BY <2>1, <2>3, <4>2
    <3>2. PICK j \in 1..n : l + j = w[k] + i
      <4>1. (w[k] + i) - l \in 1..n /\ l + ((w[k] + i) - l) = w[k] + i
        BY <1>3, <2>1, <2>3, SMTT(30)
      <4>2. QED
        BY <4>1
    <3>3. (l + j) - w[m] = i
      BY <2>1, <3>1, <3>2
    <3>4. g[l + j] = Unit(cs[m], (l + j) - w[m])
      BY <1>1
    <3>5. QED
      BY <3>1, <3>2, <3>3, <3>4
  <2>4. QED
    BY <2>2, <2>3
<1>4. ASSUME NEW k \in 1..m PROVE w[k] < Len(g)
  <2>1. w[k] \in Nat /\ w[k] < l
    BY <1>1 DEF Places, Laid
  <2>2. QED
    BY <1>2, <2>1
<1>5. QED
  BY <1>1, <1>2, <1>3, <1>4 DEF Laid

(* The header of the next chunk, or something of it.                       *)
LEMMA LaidBegins ==
  ASSUME NEW f, NEW w, NEW cs, Places(w, cs), Laid(f, w, cs), Len(f) = w[Len(cs) + 1],
         NEW g, NEW n \in Nat \ {0}, Grown(f, g, n),
         NEW c \in Chunks, n <= Span(c), \A i \in 1..n : g[Len(f) + i] = Unit(c, i)
  PROVE  \E v : /\ Places(v, Append(cs, c)) /\ Laid(g, v, Append(cs, c))
                /\ v[Len(cs) + 1] = Len(f)
<1>1. PICK l \in Nat, m \in Nat : l = Len(f) /\ m = Len(cs)
  BY DEF Laid, Places
<1>2. PICK v : v = [k \in 1..(m + 2) |-> IF k = m + 2 THEN l + Span(c) ELSE w[k]]
  OBVIOUS
<1>3. PICK ds : ds = Append(cs, c)
  OBVIOUS
<1>4. cs \in Seq(Chunks) /\ ds \in Seq(Chunks) /\ Len(ds) = m + 1 /\ ds[m + 1] = c
      /\ \A k \in 1..m : ds[k] = cs[k]
  BY <1>1, <1>3 DEF Places
<1>5. v[m + 2] = l + Span(c) /\ \A k \in 1..(m + 1) : v[k] = w[k]
  BY <1>2
<1>6. v[m + 1] = l /\ Span(c) \in Nat
  BY <1>1, <1>5, ChunkFacts
<1>7. Places(v, ds)
  <2>1. v[1] = 0
    BY <1>1, <1>5 DEF Places
  <2>2. ASSUME NEW k \in 1..(m + 2) PROVE v[k] \in Nat
    <3>1. CASE k = m + 2
      BY <1>5, <1>6, <3>1
    <3>2. CASE k \in 1..(m + 1)
      BY <1>1, <1>5, <3>2 DEF Places
    <3>3. QED
      BY <3>1, <3>2
  <2>3. ASSUME NEW k \in 1..(m + 1) PROVE v[k + 1] = v[k] + Span(ds[k])
    <3>1. CASE k = m + 1
      BY <1>4, <1>5, <1>6, <3>1
    <3>2. CASE k \in 1..m
      <4>1. k + 1 \in 1..(m + 1)
        BY <3>2
      <4>2. QED
        BY <1>1, <1>4, <1>5, <3>2, <4>1 DEF Places
    <3>3. QED
      BY <3>1, <3>2
  <2>4. (m + 1) + 1 = m + 2
    OBVIOUS
  <2>5. QED
    BY <1>4, <2>1, <2>2, <2>3, <2>4 DEF Places
<1>8. g \in Seq(Units) /\ Len(g) = l + n /\ n <= Span(c) /\ Len(g) <= v[m + 2]
  BY <1>1, <1>5, <1>6 DEF Grown
<1>9. ASSUME NEW k \in 1..(m + 1) PROVE v[k] < l + n
  <2>1. CASE k = m + 1
    BY <1>6, <2>1
  <2>2. CASE k \in 1..m
    <3>1. w[k] \in Nat /\ w[k] < l /\ v[k] = w[k]
      BY <1>1, <1>5, <2>2 DEF Places, Laid
    <3>2. QED
      BY <3>1
  <2>3. QED
    BY <2>1, <2>2
<1>10. ASSUME NEW k \in 1..(m + 1), NEW i \in 1..Span(ds[k]), v[k] + i <= l + n
       PROVE  g[v[k] + i] = Unit(ds[k], i)
  <2>1. CASE k = m + 1
    <3>1. i \in 1..n
      BY <1>4, <1>6, <1>10, <2>1
    <3>2. QED
      BY <1>1, <1>4, <1>6, <2>1, <3>1
  <2>2. CASE k \in 1..m
    <3>1. ds[k] = cs[k] /\ v[k] = w[k] /\ v[k + 1] = w[k + 1] /\ w[k] \in Nat
          /\ w[k + 1] = w[k] + Span(cs[k]) /\ Span(cs[k]) \in Nat
      <4>1. k + 1 \in 1..(m + 1)
        BY <2>2
      <4>2. QED
        <5>1. ds[k] = cs[k] /\ v[k] = w[k] /\ v[k + 1] = w[k + 1] /\ cs[k] \in Chunks
          BY <1>1, <1>4, <1>5, <2>2, <4>1
        <5>2. w[k] \in Nat /\ w[k + 1] = w[k] + Span(cs[k])
          BY <1>1, <2>2 DEF Places
        <5>3. Span(cs[k]) \in Nat
          BY <5>1, ChunkFacts
        <5>4. QED
          BY <5>1, <5>2, <5>3
    <3>2. w[k + 1] <= l
      <4>1. CASE k = m
        BY <1>1, <4>1 DEF Laid
      <4>2. CASE k # m
        <5>1. k + 1 \in 1..m
          BY <2>2, <4>2
        <5>2. w[k + 1] < l /\ w[k + 1] \in Nat
          BY <1>1, <5>1 DEF Laid, Places
        <5>3. QED
          BY <5>2
      <4>3. QED
        BY <4>1, <4>2
    <3>3. w[k] + i \in 1..l
      BY <3>1, <3>2, SMTT(30)
    <3>4. f[w[k] + i] = Unit(cs[k], i)
      <4>1. i \in 1..Span(cs[k]) /\ w[k] + i <= Len(f)
        BY <1>1, <3>1, <3>3
      <4>2. QED
        BY <1>1, <2>2, <4>1 DEF Laid
    <3>5. QED
      BY <1>1, <3>1, <3>3, <3>4 DEF Grown
  <2>3. QED
    BY <2>1, <2>2
<1>11. Laid(g, v, ds)
  BY <1>4, <1>8, <1>9, <1>10 DEF Laid
<1>12. QED
  BY <1>1, <1>3, <1>6, <1>7, <1>11

-----------------------------------------------------------------------------
(* What is read of it. *)

Entry(o, c) ==
  [at |-> o, oid |-> c, kind |-> KindOf[c], packed |-> Packed(c),
   data |-> DataLen[c], payload |-> Payload(c)]

\* Up to here a chunk must be there to be read.
Needed(o, c) == o + HeaderLen + Header(c).payload

LEMMA HeaderLaid ==
  ASSUME NEW w, Places(w, begun), Laid(file, w, begun), NEW k \in 1..Len(begun)
  PROVE  /\ begun[k] \in Chunks /\ w[k] \in Nat /\ w[k] < Len(file) /\ Len(file) \in Nat
         /\ HeaderAt(w[k]) = Header(begun[k]) /\ After(w[k]) = w[k + 1]
         /\ w[k + 1] = w[k] + Span(begun[k]) /\ Span(begun[k]) \in Nat
         /\ Needed(w[k], begun[k]) \in Nat
<1>1. PICK c \in Chunks, o \in Nat : c = begun[k] /\ o = w[k] /\ o < Len(file)
  BY DEF Places, Laid
<1>2. Len(file) \in Nat
  BY DEF Laid
<1>3. 1 \in 1..Span(c)
  BY Numbers, ChunkFacts
<1>4. file[o + 1] = Unit(c, 1)
  BY <1>1, <1>2, <1>3 DEF Laid
<1>5. HeaderAt(o) = Header(c)
  BY <1>4, Numbers, UnitFacts DEF HeaderAt
<1>6. After(o) = o + Span(c)
  <2>1. PICK h \in Nat, p \in Nat, d \in Nat : h = HeaderLen /\ p = Header(c).payload /\ d = Pad(p)
    <3>1. HeaderLen \in Nat /\ Header(c).payload \in Nat /\ Pad(Header(c).payload) \in Nat
      BY Numbers, ChunkFacts
    <3>2. QED
      BY <3>1
  <2>2. After(o) = o + h + p + d /\ Span(c) = h + p + d
    BY <1>5, <2>1 DEF After, Span
  <2>3. QED
    BY <2>1, <2>2
<1>7. w[k + 1] = o + Span(c) /\ Span(c) \in Nat
  BY <1>1, ChunkFacts DEF Places
<1>8. Needed(o, c) \in Nat
  BY Numbers, ChunkFacts DEF Needed
<1>9. QED
  BY <1>1, <1>2, <1>5, <1>6, <1>7, <1>8

LEMMA ReadableLaid ==
  ASSUME NEW w, Places(w, begun), Laid(file, w, begun), NEW k \in 1..Len(begun)
  PROVE  Readable(w[k]) <=> Needed(w[k], begun[k]) <= Len(file)
<1>1. PICK c \in Chunks, o \in Nat : /\ c = begun[k] /\ o = w[k] /\ HeaderAt(o) = Header(c)
  BY HeaderLaid
<1>2. PICK h \in Nat, p \in Nat, l \in Nat : h = HeaderLen /\ p = Header(c).payload /\ l = Len(file)
  BY Numbers, ChunkFacts, HeaderLaid
<1>3. Readable(o) => o + h + p <= l
  BY <1>1, <1>2 DEF Readable
<1>4. ASSUME o + h + p <= l, NEW i \in 1..h
      PROVE  Head(file[o + i]) = "header" /\ file[o + i][3] = i
  <2>1. i \in 1..Span(c) /\ o + i <= l
    BY <1>2, <1>4, ChunkFacts, SMTT(30)
  <2>2. file[o + i] = Unit(c, i)
    BY <1>1, <1>2, <2>1 DEF Laid
  <2>3. QED
    BY <1>2, <2>2, UnitFacts
<1>5. o + h + p <= l => Readable(o)
  BY <1>1, <1>2, <1>4, SMTT(30) DEF Readable
<1>6. QED
  BY <1>1, <1>2, <1>3, <1>5 DEF Needed

LEMMA PayloadLaid ==
  ASSUME NEW w, Places(w, begun), Laid(file, w, begun), NEW k \in 1..Len(begun),
         NEW c \in Chunks, c = begun[k], Needed(w[k], c) <= Len(file)
  PROVE  SubSeq(file, w[k] + HeaderLen + 1, w[k] + HeaderLen + Header(c).payload) = Payload(c)
<1>1. PICK o \in Nat, h \in Nat, p \in Nat, l \in Nat :
        o = w[k] /\ h = HeaderLen /\ p = Header(c).payload /\ l = Len(file) /\ o + h + p <= l
  BY Numbers, ChunkFacts, HeaderLaid DEF Needed
<1>10. o + h + p <= l
  BY <1>1
<1>2. PICK q : q = Payload(c)
  OBVIOUS
<1>3. PICK m \in Int, n \in Int : m = o + h + 1 /\ n = o + h + p /\ (n - m) + 1 = p
  OBVIOUS
<1>4. ASSUME NEW i \in 1..p PROVE q[i] = Unit(c, h + i) /\ q[i] = file[(m + i) - 1]
  <2>1. (h + i) - h = i /\ ~(h + i <= h) /\ h + i <= h + p /\ o + (h + i) = (m + i) - 1
    BY <1>3
  <2>2. q[i] = <<"payload", c, Packed(c), i>>
    BY <1>1, <1>2 DEF Payload
  <2>3. Unit(c, h + i) = <<"payload", c, Packed(c), i>>
    BY <1>1, <2>1 DEF Unit
  <2>4. h + i \in 1..Span(c) /\ o + (h + i) <= l
    <3>1. Span(c) \in Nat /\ h + p <= Span(c)
      BY <1>1, ChunkFacts
    <3>2. PICK d \in Nat : d = Span(c)
      BY <3>1
    <3>3. QED
      BY ONLY <1>10, <3>1, <3>2, i \in 1..p, o \in Nat, h \in Nat, l \in Nat, p \in Nat
  <2>5. file[o + (h + i)] = Unit(c, h + i)
    BY <1>1, <2>4 DEF Laid
  <2>6. QED
    BY <2>1, <2>2, <2>3, <2>5
<1>5. q \in Seq(Units) /\ Len(q) = p
  <2>1. q = [i \in 1..p |-> q[i]]
    BY <1>1, <1>2 DEF Payload
  <2>2. \A i \in 1..p : q[i] \in Units
    <3>1. \A i \in 1..p : h + i \in Nat
      OBVIOUS
    <3>2. QED
      BY <1>4, <3>1, UnitFacts
  <2>3. QED
    BY <2>1, <2>2, SMTT(30)
<1>6. PICK s : s = SubSeq(file, m, n)
  OBVIOUS
<1>7. /\ s \in Seq(Units) /\ Len(s) = p
      /\ \A i \in 1..p : s[i] = file[(m + i) - 1]
  <2>1. \A i \in m..n : file[i] \in Units
    <3>1. file \in Seq(Units) /\ \A i \in m..n : i \in 1..l
      <4>1. \A i \in m..n : i \in 1..l
        BY ONLY <1>3, <1>10, o \in Nat, h \in Nat, l \in Nat, p \in Nat
      <4>2. QED
        BY <4>1 DEF Laid
    <3>2. QED
      BY <1>1, <3>1
  <2>2. /\ s \in Seq(Units) /\ Len(s) = IF m <= n THEN n - m + 1 ELSE 0
        /\ \A i \in 1 .. n - m + 1 : s[i] = file[m + i - 1]
    BY <1>6, <2>1, SubSeqProperties
  <2>3. Len(s) = p
    BY <1>3, <2>2
  <2>4. QED
    BY <1>3, <2>2, <2>3
<1>8. s = q
  BY <1>4, <1>5, <1>7, SeqEqual
<1>9. QED
  BY <1>1, <1>2, <1>3, <1>6, <1>8

LEMMA EntryRead ==
  ASSUME NEW w, Places(w, begun), Laid(file, w, begun), NEW k \in 1..Len(begun), Readable(w[k])
  PROVE  ChunkRead(w[k]) = Entry(w[k], begun[k])
<1>1. PICK c \in Chunks, o \in Nat : /\ c = begun[k] /\ o = w[k] /\ HeaderAt(o) = Header(c)
  BY HeaderLaid
<1>2. PICK h : h = Header(c)
  OBVIOUS
<1>3. /\ h.oid = c /\ h.kind = KindOf[c] /\ (h.data # NotPacked <=> Packed(c))
      /\ (IF h.data = NotPacked THEN h.payload ELSE h.data) = DataLen[c]
  BY <1>2, ChunkFacts
<1>4. SubSeq(file, o + HeaderLen + 1, o + HeaderLen + h.payload) = Payload(c)
  BY <1>1, <1>2, ReadableLaid, PayloadLaid
<1>5. PICK p \in BOOLEAN : p = (h.data # NotPacked) /\ p = Packed(c)
  <2>1. (h.data # NotPacked) \in BOOLEAN /\ (h.data # NotPacked) = Packed(c)
    BY <1>3 DEF Packed
  <2>2. QED
    BY <2>1
<1>6. ChunkRead(o) = [at |-> o, oid |-> h.oid, kind |-> h.kind, packed |-> p,
                      data |-> IF h.data = NotPacked THEN h.payload ELSE h.data,
                      payload |-> SubSeq(file, o + HeaderLen + 1, o + HeaderLen + h.payload)]
  BY <1>1, <1>2, <1>5 DEF ChunkRead
<1>7. Entry(o, c) = [at |-> o, oid |-> c, kind |-> KindOf[c], packed |-> p,
                     data |-> DataLen[c], payload |-> Payload(c)]
  BY <1>5 DEF Entry
<1>8. QED
  BY <1>1, <1>3, <1>4, <1>6, <1>7

\* Is the last chunk there to be read?
Whole(w) == Len(begun) > 0 => Needed(w[Len(begun)], begun[Len(begun)]) <= Len(file)

Count(w) == IF Whole(w) THEN Len(begun) ELSE Len(begun) - 1

\* What Scan finds.
Scanned(w) ==
  /\ Count(w) \in Nat /\ Len(Scan) = Count(w) /\ DOMAIN Scan = 1..Count(w)
  /\ Scan \in Seq({ChunkRead(o) : o \in Nat})
  /\ \A k \in 1..Count(w) : Readable(w[k]) /\ Scan[k] = Entry(w[k], begun[k])

LEMMA ScanLaid ==
  ASSUME NEW w, Places(w, begun), Laid(file, w, begun)
  PROVE  Scanned(w)
<1>1. PICK n \in Nat, l \in Nat : n = Len(begun) /\ l = Len(file)
  BY DEF Places, Laid
<1>2. \A o \in Nat : Readable(o) => HeaderAt(o).payload \in Nat
  BY HeaderRead, ChunkFacts DEF Laid
<1>3. ASSUME NEW k \in 1..n, k < n
      PROVE  Readable(w[k]) /\ w[k] \in 0 .. l + Align /\ w[k + 1] = After(w[k])
  <2>1. k + 1 \in 1..n
    BY <1>3
  <2>2. w[k] \in Nat /\ w[k + 1] \in Nat /\ w[k] < l /\ w[k + 1] < l /\ w[k + 1] = w[k] + Span(begun[k])
    BY <1>1, <2>1, HeaderLaid
  <2>3. begun[k] \in Chunks /\ Needed(w[k], begun[k]) \in Nat /\ w[k + 1] = After(w[k])
    BY <1>1, HeaderLaid
  <2>4. Needed(w[k], begun[k]) <= w[k] + Span(begun[k])
    <3>1. PICK h \in Nat, p \in Nat, s \in Nat :
            h = HeaderLen /\ p = Header(begun[k]).payload /\ s = Span(begun[k]) /\ h + p <= s
      <4>1. /\ HeaderLen \in Nat /\ Header(begun[k]).payload \in Nat /\ Span(begun[k]) \in Nat
            /\ HeaderLen + Header(begun[k]).payload <= Span(begun[k])
        BY <2>3, Numbers, ChunkFacts
      <4>2. QED
        BY <4>1
    <3>2. Needed(w[k], begun[k]) = w[k] + h + p
      BY <3>1 DEF Needed
    <3>3. QED
      BY <2>2, <3>1, <3>2
  <2>5. Needed(w[k], begun[k]) <= l
    BY <2>2, <2>3, <2>4
  <2>6. Readable(w[k])
    BY <1>1, <2>5, ReadableLaid
  <2>7. QED
    BY <1>1, <2>2, <2>3, <2>6, Numbers
<1>4. CASE ~Whole(w)
  <2>1. n \in 1..n /\ ~(Needed(w[n], begun[n]) <= l) /\ Count(w) = n - 1
    BY <1>1, <1>4 DEF Whole, Count
  <2>2. ~Readable(w[n]) /\ w[n] \in Nat /\ w[n] < l
    BY <1>1, <2>1, ReadableLaid, HeaderLaid
  <2>3. PICK m \in Nat : m = n - 1 /\ m + 1 = n
    BY <2>1
  <2>4. w[1] = 0 /\ ~Readable(w[m + 1]) /\ w[m + 1] \in 0 .. Len(file) + Align
    BY <1>1, <2>2, <2>3, Numbers DEF Places
  <2>5. ASSUME NEW k \in 1..m
        PROVE  Readable(w[k]) /\ w[k] \in 0 .. Len(file) + Align /\ w[k + 1] = After(w[k])
    <3>1. k \in 1..n /\ k < n
      BY <2>3
    <3>2. QED
      BY <1>1, <1>3, <3>1
  <2>6. /\ Len(Scan) = m /\ DOMAIN Scan = 1..m /\ Scan \in Seq({ChunkRead(o) : o \in Nat})
        /\ \A k \in 1..m : Scan[k] = ChunkRead(w[k])
    BY <1>1, <1>2, <2>4, <2>5, ScanIs
  <2>7. \A k \in 1..m : ChunkRead(w[k]) = Entry(w[k], begun[k])
    BY <1>1, <2>3, <2>5, EntryRead
  <2>8. QED
    BY <2>1, <2>3, <2>5, <2>6, <2>7 DEF Scanned
<1>5. CASE Whole(w)
  <2>1. Count(w) = n
    BY <1>1, <1>5 DEF Count
  <2>2. ASSUME NEW k \in 1..n
        PROVE  Readable(w[k]) /\ w[k] \in 0 .. l + Align /\ w[k + 1] = After(w[k])
    <3>1. CASE k < n
      BY <1>3, <3>1
    <3>2. CASE k = n
      <4>1. Needed(w[k], begun[k]) <= l
        BY <1>1, <1>5, <3>2 DEF Whole
      <4>2. w[k] \in Nat /\ w[k] < l /\ w[k + 1] = After(w[k])
        BY <1>1, HeaderLaid
      <4>3. QED
        BY <1>1, <4>1, <4>2, ReadableLaid, Numbers
    <3>3. QED
      BY <3>1, <3>2
  <2>3. w[1] = 0 /\ w[n + 1] \in Nat /\ l <= w[n + 1]
    BY <1>1 DEF Places, Laid
  <2>4. w[n + 1] <= l + Align
    <3>1. CASE n = 0
      BY <1>1, <2>3, <3>1, Numbers
    <3>2. CASE n # 0
      <4>1. n \in 1..n /\ Needed(w[n], begun[n]) <= l
        BY <1>1, <1>5, <3>2 DEF Whole
      <4>2. /\ begun[n] \in Chunks /\ w[n] \in Nat /\ w[n + 1] = w[n] + Span(begun[n])
        BY <1>1, <4>1, HeaderLaid
      <4>3. PICK h \in Nat, p \in Nat, s \in Nat, a \in Nat :
              h = HeaderLen /\ p = Header(begun[n]).payload /\ s = Span(begun[n]) /\ a = Align
              /\ s <= h + p + a
        BY <4>2, Numbers, ChunkFacts
      <4>4. Needed(w[n], begun[n]) = w[n] + h + p
        BY <4>3 DEF Needed
      <4>5. QED
        BY <4>1, <4>2, <4>3, <4>4
    <3>3. QED
      BY <3>1, <3>2
  <2>5. w[n + 1] \in 0 .. Len(file) + Align
    BY <1>1, <2>3, <2>4, Numbers
  <2>6. ~Readable(w[n + 1])
    BY <1>1, <2>3, Numbers DEF Readable
  <2>7. /\ Len(Scan) = n /\ DOMAIN Scan = 1..n /\ Scan \in Seq({ChunkRead(o) : o \in Nat})
        /\ \A k \in 1..n : Scan[k] = ChunkRead(w[k])
    BY <1>1, <1>2, <2>2, <2>3, <2>5, <2>6, ScanIs
  <2>8. \A k \in 1..n : ChunkRead(w[k]) = Entry(w[k], begun[k])
    BY <1>1, <2>2, EntryRead
  <2>9. QED
    BY <2>1, <2>2, <2>7, <2>8 DEF Scanned
<1>6. QED
  BY <1>4, <1>5

-----------------------------------------------------------------------------
(* What the writer keeps true of the file. *)

\* Between chunks the file ends where the next begins, and within one where its
\* header or its payload ends.
Stands(w) ==
  LET n == Len(begun) IN
  /\ pc \in {"idle", "index", "rename"} => Len(file) = w[n + 1]
  /\ pc \in {"payload", "pad"} => n > 0 /\ begun[n] = chunk
  /\ pc = "payload" => Len(file) = w[n] + HeaderLen
  /\ pc = "pad" => Len(file) = Needed(w[n], chunk)

Filed(w) == Places(w, begun) /\ Laid(file, w, begun) /\ Stands(w)

FileInv ==
  /\ chunk \in Chunks
  /\ pc \in {"idle", "payload", "pad", "index", "rename", "broken", "dead"}
  /\ \E w : Filed(w)

\* m of these units were written, and if that is not all, no more will be.
Written(units, next, m) ==
  /\ Grown(file, file', m)
  /\ m \in 0..Len(units)
  /\ \A i \in 1..m : file'[Len(file) + i] = units[i]
  /\ \/ m = Len(units) /\ pc' = next
     \/ pc' = "broken"

LEMMA Writes ==
  ASSUME file \in Seq(Units), NEW units \in Seq(Units), NEW next, Write(units, next)
  PROVE  \E m \in Nat : Written(units, next, m)
<1>1. PICK f : f = file'
  OBVIOUS
<1>2. CASE f = file \o units /\ pc' = next
  <2>1. Grown(file, f, Len(units))
    BY <1>2 DEF Grown
  <2>2. \A i \in 1..Len(units) : f[Len(file) + i] = units[i]
    BY <1>2
  <2>3. Len(units) \in Nat /\ Len(units) \in 0..Len(units)
    OBVIOUS
  <2>4. Written(units, next, Len(units))
    BY <1>1, <1>2, <2>1, <2>2, <2>3 DEF Written
  <2>5. QED
    BY <2>3, <2>4
<1>3. CASE /\ \E n \in 0 .. Len(units) - 1 : f = file \o SubSeq(units, 1, n)
           /\ pc' = "broken"
  <2>1. PICK n \in 0 .. Len(units) - 1 : f = file \o SubSeq(units, 1, n)
    BY <1>3
  <2>2. PICK s : s = SubSeq(units, 1, n)
    OBVIOUS
  <2>3. s \in Seq(Units) /\ Len(s) = n /\ \A i \in 1..n : s[i] = units[i]
    <3>1. \A i \in 1..n : units[i] \in Units
      OBVIOUS
    <3>2. /\ s \in Seq(Units) /\ Len(s) = IF 1 <= n THEN n - 1 + 1 ELSE 0
          /\ \A i \in 1 .. n - 1 + 1 : s[i] = units[1 + i - 1]
      BY <2>2, <3>1, SubSeqProperties
    <3>3. \A i \in 1..n : 1 + i - 1 = i /\ i \in 1 .. n - 1 + 1
      OBVIOUS
    <3>4. QED
      BY <3>2, <3>3
  <2>4. Grown(file, f, n)
    BY <2>1, <2>2, <2>3 DEF Grown
  <2>5. \A i \in 1..n : f[Len(file) + i] = units[i]
    BY <2>1, <2>2, <2>3
  <2>6. n \in 0..Len(units) /\ n \in Nat
    OBVIOUS
  <2>7. QED
    BY <1>1, <1>3, <2>4, <2>5, <2>6 DEF Written
<1>4. QED
  BY <1>1, <1>2, <1>3 DEF Write

LEMMA HeaderUnit ==
  ASSUME NEW c \in Chunks
  PROVE  /\ HeaderUnits(c) \in Seq(Units) /\ Len(HeaderUnits(c)) = HeaderLen
         /\ \A i \in 1..HeaderLen : HeaderUnits(c)[i] = Unit(c, i)
<1>1. PICK h \in Nat : h = HeaderLen
  BY Numbers
<1>2. \A i \in 1..h : Unit(c, i) = <<"header", Header(c), i>>
  BY <1>1 DEF Unit
<1>3. HeaderUnits(c) = [i \in 1..h |-> Unit(c, i)]
  BY <1>1, <1>2 DEF HeaderUnits
<1>4. \A i \in 1..h : Unit(c, i) \in Units
  BY UnitFacts
<1>5. QED
  BY <1>1, <1>3, <1>4

LEMMA PayloadUnit ==
  ASSUME NEW c \in Chunks
  PROVE  /\ Payload(c) \in Seq(Units) /\ Len(Payload(c)) = Header(c).payload
         /\ \A i \in 1..Header(c).payload : Payload(c)[i] = Unit(c, HeaderLen + i)
<1>1. PICK h \in Nat, p \in Nat : h = HeaderLen /\ p = Header(c).payload
  BY Numbers, ChunkFacts
<1>2. ASSUME NEW i \in 1..p PROVE Unit(c, h + i) = <<"payload", c, Packed(c), i>>
  <2>1. (h + i) - h = i /\ ~(h + i <= h) /\ h + i <= h + p
    OBVIOUS
  <2>2. QED
    BY <1>1, <2>1 DEF Unit
<1>3. Payload(c) = [i \in 1..p |-> Unit(c, h + i)]
  BY <1>1, <1>2 DEF Payload
<1>4. \A i \in 1..p : Unit(c, h + i) \in Units
  BY UnitFacts
<1>5. QED
  BY <1>1, <1>3, <1>4

LEMMA PaddingUnit ==
  ASSUME NEW c \in Chunks
  PROVE  /\ Padding(c) \in Seq(Units) /\ Len(Padding(c)) = Pad(Header(c).payload)
         /\ \A i \in 1..Pad(Header(c).payload) :
              Padding(c)[i] = Unit(c, (HeaderLen + Header(c).payload) + i)
<1>1. PICK h \in Nat, p \in Nat, d \in Nat :
        h = HeaderLen /\ p = Header(c).payload /\ d = Pad(Header(c).payload)
  <2>1. Pad(Header(c).payload) \in Nat /\ Header(c).payload \in Nat /\ HeaderLen \in Nat
    BY Numbers, ChunkFacts
  <2>2. QED
    BY <2>1
<1>2. ASSUME NEW i \in 1..d PROVE Unit(c, (h + p) + i) = <<"zero">>
  <2>1. ~((h + p) + i <= h) /\ ~((h + p) + i <= h + p)
    OBVIOUS
  <2>2. QED
    BY <1>1, <2>1 DEF Unit
<1>3. Padding(c) = [i \in 1..d |-> Unit(c, (h + p) + i)]
  BY <1>1, <1>2 DEF Padding
<1>4. \A i \in 1..d : Unit(c, (h + p) + i) \in Units
  BY UnitFacts
<1>5. QED
  BY <1>1, <1>3, <1>4

-----------------------------------------------------------------------------
(* The actions that write. *)

LEMMA InitFiled == Init => FileInv
<1> SUFFICES ASSUME Init PROVE FileInv
  OBVIOUS
<1>1. PICK w : w = [k \in 1..1 |-> 0]
  OBVIOUS
<1>2. w[1] = 0 /\ begun = <<>> /\ file = <<>> /\ Len(begun) = 0 /\ Len(file) = 0 /\ pc = "idle"
  BY <1>1 DEF Init
<1>3. Places(w, begun)
  BY <1>2 DEF Places
<1>4. Laid(file, w, begun)
  BY <1>2 DEF Laid
<1>5. Stands(w)
  BY <1>2 DEF Stands
<1>6. QED
  BY <1>2, <1>3, <1>4, <1>5 DEF Filed, FileInv, Init

LEMMA HeaderFiled ==
  ASSUME FileInv, NEW c \in Chunks, WriteHeader(c)
  PROVE  FileInv'
<1>1. PICK w : Filed(w)
  BY DEF FileInv
<1>2. PICK n \in Nat, l \in Nat : n = Len(begun) /\ l = Len(file) /\ l = w[n + 1]
  BY <1>1 DEF Filed, Places, Laid, Stands, WriteHeader
<1>3. PICK units \in Seq(Units) :
        /\ units = HeaderUnits(c) /\ Len(units) = HeaderLen
        /\ \A i \in 1..HeaderLen : units[i] = Unit(c, i)
  BY HeaderUnit
<1>4. file \in Seq(Units) /\ Write(units, "payload")
  BY <1>1, <1>3 DEF Filed, Laid, WriteHeader
<1>5. PICK m \in Nat : Written(units, "payload", m)
  BY <1>4, Writes
<1>6. chunk' = c /\ begun' = IF file' = file THEN begun ELSE Append(begun, c)
  BY DEF WriteHeader
<1>7. PICK h \in Nat \ {0} : h = HeaderLen /\ h <= Span(c) /\ Span(c) \in Nat
  BY Numbers, ChunkFacts
<1>8. /\ Grown(file, file', m) /\ m <= h
      /\ \A i \in 1..m : file'[l + i] = Unit(c, i)
      /\ (m = h /\ pc' = "payload") \/ pc' = "broken"
  BY <1>2, <1>3, <1>5, <1>7, SMTT(30) DEF Written
<1>9. CASE m = 0
  <2>1. file' = file
    <3>1. PICK g : g = file'
      OBVIOUS
    <3>2. g \in Seq(Units) /\ Len(g) = Len(file) /\ \A i \in 1..Len(file) : g[i] = file[i]
      BY <1>2, <1>8, <1>9, <3>1 DEF Grown
    <3>3. g = file
      BY <1>4, <3>2, SeqEqual
    <3>4. QED
      BY <3>1, <3>3
  <2>2. begun' = begun /\ pc' = "broken"
    BY <1>6, <1>7, <1>8, <1>9, <2>1
  <2>3. Filed(w)'
    BY <1>1, <2>1, <2>2 DEF Filed, Places, Laid, Stands
  <2>4. QED
    BY <1>6, <2>2, <2>3 DEF FileInv
<1>10. CASE m # 0
  <2>1. Len(file') = l + m
    BY <1>2, <1>8 DEF Grown
  <2>2. begun' = Append(begun, c)
    <3>1. file' # file
      <4>1. SUFFICES ASSUME file' = file PROVE FALSE
        OBVIOUS
      <4>2. Len(file') = l
        BY ONLY <1>2, <4>1
      <4>3. l = l + m
        BY ONLY <2>1, <4>2
      <4>4. QED
        BY <1>10, <4>3
    <3>2. QED
      BY <1>6, <3>1
  <2>3. m <= Span(c) /\ m \in Nat \ {0}
    BY <1>7, <1>8, <1>10
  <2>4. PICK v : /\ Places(v, Append(begun, c)) /\ Laid(file', v, Append(begun, c))
                 /\ v[n + 1] = l
    <3>1. Places(w, begun) /\ Laid(file, w, begun) /\ Len(file) = w[Len(begun) + 1]
      BY <1>1, <1>2 DEF Filed
    <3>2. \A i \in 1..m : file'[Len(file) + i] = Unit(c, i)
      BY <1>2, <1>8
    <3>3. PICK g : g = file'
      OBVIOUS
    <3>4. Grown(file, g, m) /\ \A i \in 1..m : g[Len(file) + i] = Unit(c, i)
      BY <1>8, <3>2, <3>3
    <3>5. \E v : /\ Places(v, Append(begun, c)) /\ Laid(g, v, Append(begun, c))
                 /\ v[Len(begun) + 1] = Len(file)
      BY ONLY <2>3, <3>1, <3>4, c \in Chunks, LaidBegins
    <3>6. QED
      BY <1>2, <3>3, <3>5
  <2>5. begun \in Seq(Chunks)
    BY <1>1 DEF Filed, Places
  <2>6. PICK ds : ds = begun'
    OBVIOUS
  <2>7. Len(ds) = n + 1 /\ ds[n + 1] = c
    BY <1>2, <2>2, <2>5, <2>6
  <2>8. Stands(v)'
    BY <1>2, <1>6, <1>7, <1>8, <2>1, <2>4, <2>6, <2>7, SMTT(30) DEF Stands
  <2>9. Filed(v)'
    BY <2>2, <2>4, <2>8 DEF Filed
  <2>10. QED
    BY <1>6, <1>8, <2>9 DEF FileInv
<1>11. QED
  BY <1>9, <1>10

\* Where the last chunk stands, as numbers.
LEMMA LastFacts ==
  ASSUME NEW w, Filed(w), pc \in {"payload", "pad"}
  PROVE  LET n == Len(begun) IN
         /\ n \in Nat /\ n > 0 /\ begun[n] = chunk /\ chunk \in Chunks
         /\ w[n] \in Nat /\ w[n + 1] = w[n] + Span(chunk)
         /\ Len(file) \in Nat /\ file \in Seq(Units)
<1>1. PICK n \in Nat : n = Len(begun)
  BY DEF Filed, Places
<1>2. n \in 1..n /\ begun[n] = chunk
  BY <1>1 DEF Filed, Stands
<1>3. chunk \in Chunks /\ w[n] \in Nat /\ w[n + 1] = w[n] + Span(chunk)
  BY <1>1, <1>2 DEF Filed, Places
<1>4. QED
  BY <1>1, <1>2, <1>3 DEF Filed, Laid

LEMMA PayloadFiled ==
  ASSUME FileInv, WritePayload
  PROVE  FileInv'
<1>1. PICK w : Filed(w)
  BY DEF FileInv
<1>2. pc = "payload" /\ chunk' = chunk /\ begun' = begun /\ Write(Payload(chunk), "pad")
  BY DEF WritePayload
<1>3. PICK n \in Nat, l \in Nat, o \in Nat, h \in Nat, p \in Nat, s \in Nat :
        /\ n = Len(begun) /\ n > 0 /\ begun[n] = chunk /\ l = Len(file) /\ o = w[n]
        /\ w[n + 1] = o + s /\ h = HeaderLen /\ p = Header(chunk).payload
        /\ s = Span(chunk) /\ h + p <= s
  <2>1. /\ Len(begun) \in Nat /\ Len(begun) > 0 /\ begun[Len(begun)] = chunk /\ chunk \in Chunks
        /\ w[Len(begun)] \in Nat /\ w[Len(begun) + 1] = w[Len(begun)] + Span(chunk)
        /\ Len(file) \in Nat
    BY <1>1, <1>2, LastFacts
  <2>2. /\ Header(chunk).payload \in Nat /\ HeaderLen \in Nat /\ Span(chunk) \in Nat
        /\ HeaderLen + Header(chunk).payload <= Span(chunk)
    BY <2>1, ChunkFacts, Numbers
  <2>3. QED
    BY <2>1, <2>2
<1>4. chunk \in Chunks /\ file \in Seq(Units) /\ l = o + h
  BY <1>1, <1>2, <1>3, LastFacts DEF Filed, Stands
<1>5. PICK units \in Seq(Units) :
        /\ units = Payload(chunk) /\ Len(units) = p
        /\ \A i \in 1..p : units[i] = Unit(chunk, h + i)
  BY <1>3, <1>4, PayloadUnit
<1>6. PICK m \in Nat : Written(units, "pad", m)
  BY <1>2, <1>4, <1>5, Writes
<1>7. PICK g : g = file'
  OBVIOUS
<1>8. /\ Grown(file, g, m) /\ m <= p
      /\ \A i \in 1..m : g[l + i] = Unit(chunk, h + i)
      /\ ((m = p /\ pc' = "pad") \/ pc' = "broken")
  <2>1. Grown(file, g, m) /\ m \in 0..p /\ ((m = p /\ pc' = "pad") \/ pc' = "broken")
    BY <1>5, <1>6, <1>7 DEF Written
  <2>2. \A i \in 1..m : g[l + i] = units[i] /\ i \in 1..p
    BY <1>3, <1>5, <1>6, <1>7, SMTT(30) DEF Written
  <2>3. \A i \in 1..m : g[l + i] = Unit(chunk, h + i)
    BY ONLY <1>5, <2>2
  <2>4. m <= p
    BY ONLY <2>1, p \in Nat, m \in Nat
  <2>5. QED
    BY ONLY <2>1, <2>3, <2>4
<1>9. Laid(g, w, begun)
  <2>1. \A i \in 1..m : (l + i) - o = h + i
    BY <1>4
  <2>2. \A i \in 1..m : g[Len(file) + i] = Unit(begun[Len(begun)], (Len(file) + i) - w[Len(begun)])
    BY <1>3, <1>8, <2>1
  <2>3. Len(file) + m <= w[Len(begun) + 1]
    <3>1. (o + h) + m <= o + s
      <4>1. m <= p /\ h + p <= s
        BY <1>3, <1>8
      <4>2. QED
        BY ONLY <4>1, o \in Nat, h \in Nat, p \in Nat, s \in Nat, m \in Nat
    <3>2. QED
      BY <1>3, <1>4, <3>1
  <2>4. Places(w, begun) /\ Laid(file, w, begun)
    BY <1>1 DEF Filed
  <2>5. QED
    BY ONLY <1>8, <2>2, <2>3, <2>4, m \in Nat, LaidGrows
<1>10. Len(g) = l + m
  BY <1>3, <1>8 DEF Grown
<1>11. Stands(w)'
  BY <1>2, <1>3, <1>4, <1>7, <1>8, <1>10 DEF Stands, Needed
<1>12. Filed(w)'
  BY <1>1, <1>2, <1>7, <1>9, <1>11 DEF Filed
<1>13. QED
  BY <1>2, <1>4, <1>8, <1>12 DEF FileInv

LEMMA PadFiled ==
  ASSUME FileInv, WritePad
  PROVE  FileInv'
<1>1. PICK w : Filed(w)
  BY DEF FileInv
<1>2. pc = "pad" /\ chunk' = chunk /\ begun' = begun /\ Write(Padding(chunk), "idle")
  BY DEF WritePad
<1>3. PICK n \in Nat, l \in Nat, o \in Nat, h \in Nat, p \in Nat, d \in Nat :
        /\ n = Len(begun) /\ n > 0 /\ begun[n] = chunk /\ l = Len(file) /\ o = w[n]
        /\ w[n + 1] = o + (h + p + d) /\ h = HeaderLen /\ p = Header(chunk).payload
        /\ d = Pad(Header(chunk).payload)
  <2>1. chunk \in Chunks /\ Pad(Header(chunk).payload) \in Nat
    BY <1>1, <1>2, LastFacts, ChunkFacts
  <2>2. Header(chunk).payload \in Nat /\ HeaderLen \in Nat
    BY <2>1, ChunkFacts, Numbers
  <2>3. QED
    BY <1>1, <1>2, <2>1, <2>2, LastFacts DEF Span
<1>4. chunk \in Chunks /\ file \in Seq(Units) /\ l = (o + h) + p
  BY <1>1, <1>2, <1>3, LastFacts DEF Filed, Stands, Needed
<1>5. PICK units \in Seq(Units) :
        /\ units = Padding(chunk) /\ Len(units) = d
        /\ \A i \in 1..d : units[i] = Unit(chunk, (h + p) + i)
  BY <1>3, <1>4, PaddingUnit
<1>6. PICK m \in Nat : Written(units, "idle", m)
  BY <1>2, <1>4, <1>5, Writes
<1>7. PICK g : g = file'
  OBVIOUS
<1>8. /\ Grown(file, g, m) /\ m <= d
      /\ \A i \in 1..m : g[l + i] = Unit(chunk, (h + p) + i)
      /\ ((m = d /\ pc' = "idle") \/ pc' = "broken")
  <2>1. Grown(file, g, m) /\ m \in 0..d /\ ((m = d /\ pc' = "idle") \/ pc' = "broken")
    BY <1>5, <1>6, <1>7 DEF Written
  <2>2. \A i \in 1..m : g[l + i] = units[i] /\ i \in 1..d
    BY <1>3, <1>5, <1>6, <1>7, SMTT(30) DEF Written
  <2>3. \A i \in 1..m : g[l + i] = Unit(chunk, (h + p) + i)
    BY ONLY <1>5, <2>2
  <2>4. m <= d
    BY ONLY <2>1, d \in Nat, m \in Nat
  <2>5. QED
    BY ONLY <2>1, <2>3, <2>4
<1>9. Laid(g, w, begun)
  <2>1. \A i \in 1..m : (l + i) - o = (h + p) + i
    BY <1>4
  <2>2. \A i \in 1..m : g[Len(file) + i] = Unit(begun[Len(begun)], (Len(file) + i) - w[Len(begun)])
    BY <1>3, <1>8, <2>1
  <2>3. Len(file) + m <= w[Len(begun) + 1]
    <3>1. ((o + h) + p) + m <= o + (h + p + d)
      BY ONLY <1>8, o \in Nat, h \in Nat, p \in Nat, d \in Nat, m \in Nat
    <3>2. QED
      BY <1>3, <1>4, <3>1
  <2>4. Places(w, begun) /\ Laid(file, w, begun)
    BY <1>1 DEF Filed
  <2>5. QED
    BY ONLY <1>8, <2>2, <2>3, <2>4, m \in Nat, LaidGrows
<1>10. Len(g) = l + m
  BY <1>3, <1>8 DEF Grown
<1>11. Stands(w)'
  <2>1. CASE m = d /\ pc' = "idle"
    <3>1. w[n + 1] = l + m
      <4>1. l = (o + h) + p /\ m = d
        BY <1>4, <2>1
      <4>2. o + (h + p + d) = l + m
        BY ONLY <4>1, o \in Nat, h \in Nat, p \in Nat, d \in Nat
      <4>3. QED
        BY <1>3, <4>2
    <3>2. Len(file') = w[Len(begun') + 1]
      BY <1>2, <1>3, <1>7, <1>10, <3>1
    <3>3. QED
      BY <2>1, <3>2 DEF Stands
  <2>2. CASE pc' = "broken"
    BY <2>2 DEF Stands
  <2>3. QED
    BY <1>8, <2>1, <2>2
<1>12. Filed(w)'
  BY <1>1, <1>2, <1>7, <1>9, <1>11 DEF Filed
<1>13. QED
  BY <1>2, <1>4, <1>8, <1>12 DEF FileInv

\* Whoever finds the end of the last chunk at the end of the file finds it whole.
LEMMA EndWhole ==
  ASSUME NEW w, Places(w, begun), Laid(file, w, begun),
         (IF Scan = <<>> THEN 0 ELSE After(Last(Scan).at)) = Len(file)
  PROVE  Whole(w) /\ Len(file) = w[Len(begun) + 1]
<1>1. PICK n \in Nat, l \in Nat : n = Len(begun) /\ l = Len(file)
  BY DEF Places, Laid
<1>8. PICK s : s = Scan
  OBVIOUS
<1>2. PICK m \in Nat : s = Scan /\ m = Count(w)
  BY <1>8, ScanLaid DEF Scanned
<1>3. Len(s) = m /\ DOMAIN s = 1..m /\ \A k \in 1..m : s[k] = Entry(w[k], begun[k])
  BY <1>2, ScanLaid DEF Scanned
<1>4. (m = n /\ Whole(w)) \/ (m = n - 1 /\ ~Whole(w))
  BY <1>1, <1>2 DEF Count
<1>5. CASE m = 0
  <2>1. s = <<>>
    <3>1. PICK S : s \in Seq(S)
      BY <1>2, ScanLaid DEF Scanned
    <3>2. QED
      BY <1>3, <1>5, <3>1
  <2>2. l = 0
    BY <1>1, <1>2, <2>1
  <2>3. n = 0
    <3>1. SUFFICES ASSUME 1 \in 1..n PROVE FALSE
      OBVIOUS
    <3>2. w[1] \in Nat /\ w[1] < l
      BY <1>1, <3>1 DEF Places, Laid
    <3>3. QED
      BY <2>2, <3>2
  <2>4. QED
    BY <1>1, <1>4, <1>5, <2>2, <2>3 DEF Places
<1>6. CASE m # 0
  <2>1. s # <<>> /\ Last(s) = s[m] /\ m \in 1..n
    BY <1>3, <1>4, <1>6 DEF Last
  <2>2. Last(s).at = w[m]
    BY <1>3, <1>6, <2>1 DEF Entry
  <2>3. After(w[m]) = w[m + 1]
    BY <1>1, <2>1, HeaderLaid
  <2>4. w[m + 1] = l
    BY <1>1, <1>2, <2>1, <2>2, <2>3
  <2>5. m = n
    <3>1. SUFFICES ASSUME m + 1 \in 1..n PROVE FALSE
      BY <1>4, <2>1
    <3>2. w[m + 1] < l
      BY <1>1, <3>1 DEF Laid
    <3>3. QED
      BY <2>4, <3>2
  <2>6. QED
    BY <1>1, <1>4, <2>4, <2>5
<1>7. QED
  BY <1>5, <1>6

\* The file itself stands still.
LEMMA StillFiled ==
  ASSUME FileInv, UNCHANGED <<file, begun, chunk>>,
         \/ pc' \in {"broken", "dead"}
         \/ pc \in {"idle", "index", "rename"} /\ pc' \in {"idle", "index", "rename"}
         \/ pc' = pc
  PROVE  FileInv'
<1>1. PICK w : Filed(w)
  BY DEF FileInv
<1>2. Stands(w)'
  BY <1>1 DEF Filed, Stands, Needed
<1>3. Filed(w)'
  BY <1>1, <1>2 DEF Filed
<1>4. QED
  BY <1>3 DEF FileInv

LEMMA RescanFiled ==
  ASSUME FileInv, Rescan
  PROVE  FileInv'
<1>1. PICK w : Filed(w)
  BY DEF FileInv
<1>2. /\ UNCHANGED <<file, begun, chunk>> /\ pc' = "idle"
      /\ (IF Scan = <<>> THEN 0 ELSE After(Last(Scan).at)) = Len(file)
  BY DEF Rescan
<1>3. Len(file) = w[Len(begun) + 1]
  BY <1>1, <1>2, EndWhole DEF Filed
<1>4. Stands(w)'
  BY <1>2, <1>3 DEF Stands
<1>5. Filed(w)'
  BY <1>1, <1>2, <1>4 DEF Filed
<1>6. QED
  BY <1>2, <1>5 DEF FileInv

LEMMA FiledNext == FileInv /\ [Next]_vars => FileInv'
<1> SUFFICES ASSUME FileInv, [Next]_vars PROVE FileInv'
  OBVIOUS
<1>1. CASE \E c \in Chunks : WriteHeader(c)
  BY <1>1, HeaderFiled
<1>2. CASE WritePayload
  BY <1>2, PayloadFiled
<1>3. CASE WritePad
  BY <1>3, PadFiled
<1>4. CASE BeginIndex
  BY <1>4, StillFiled DEF BeginIndex
<1>5. CASE WriteSection
  BY <1>5, StillFiled DEF WriteSection
<1>6. CASE RenameIndex
  BY <1>6, StillFiled DEF RenameIndex
<1>7. CASE Die
  BY <1>7, StillFiled DEF Die
<1>8. CASE Rescan
  BY <1>8, RescanFiled
<1>9. CASE UNCHANGED vars
  BY <1>9, StillFiled DEF vars
<1>10. QED
  BY <1>1, <1>2, <1>3, <1>4, <1>5, <1>6, <1>7, <1>8, <1>9 DEF Next

(* While a chunk has all its payload, or none is being written, the last   *)
(* one is whole.                                                           *)
LEMMA StandsWhole ==
  ASSUME NEW w, Filed(w), pc \in {"idle", "pad", "index", "rename"}
  PROVE  Whole(w)
<1> SUFFICES ASSUME Len(begun) > 0 PROVE Needed(w[Len(begun)], begun[Len(begun)]) <= Len(file)
  BY DEF Whole
<1>1. PICK n \in Nat, l \in Nat : n = Len(begun) /\ l = Len(file) /\ n \in 1..n
  BY DEF Filed, Places, Laid
<1>2. PICK c \in Chunks, o \in Nat : c = begun[n] /\ o = w[n] /\ w[n + 1] = o + Span(c)
  BY <1>1, HeaderLaid DEF Filed
<1>3. CASE pc = "pad"
  BY <1>1, <1>2, <1>3, HeaderLaid DEF Filed, Stands
<1>4. CASE pc # "pad"
  <2>1. l = o + Span(c)
    BY <1>1, <1>2, <1>4 DEF Filed, Stands
  <2>2. PICK h \in Nat, p \in Nat, s \in Nat :
          h = HeaderLen /\ p = Header(c).payload /\ s = Span(c) /\ h + p <= s
    <3>1. /\ HeaderLen \in Nat /\ Header(c).payload \in Nat /\ Span(c) \in Nat
          /\ HeaderLen + Header(c).payload <= Span(c)
      BY Numbers, ChunkFacts
    <3>2. QED
      BY <3>1, Zenon
  <2>3. Needed(o, c) = o + h + p
    BY <2>2 DEF Needed
  <2>4. QED
    BY <1>1, <1>2, <2>1, <2>2, <2>3
<1>5. QED
  BY <1>3, <1>4

LEMMA FiledScans == FileInv => ScansWhole
<1> SUFFICES ASSUME FileInv PROVE ScansWhole
  OBVIOUS
<1>1. PICK w : Filed(w)
  BY DEF FileInv
<1>2. PICK n \in Nat : n = Len(begun)
  BY <1>1 DEF Filed, Places
<1>3. Scanned(w)
  BY <1>1, ScanLaid DEF Filed
<1>4. PICK m \in Nat : m = Count(w) /\ ((m = n /\ Whole(w)) \/ (m = n - 1 /\ ~Whole(w)))
  <2>1. Count(w) \in Nat
    BY <1>3 DEF Scanned
  <2>2. (Count(w) = n /\ Whole(w)) \/ (Count(w) = n - 1 /\ ~Whole(w))
    BY <1>2 DEF Count
  <2>3. QED
    BY <2>1, <2>2
<1>5. Len(Scan) = m /\ DOMAIN Scan = 1..m /\ \A k \in 1..m : Scan[k] = Entry(w[k], begun[k])
  BY <1>3, <1>4 DEF Scanned
<1>6. pc \in {"idle", "pad", "index", "rename"} => m = n
  BY <1>1, <1>4, StandsWhole
<1>7. ASSUME NEW k \in 1..m PROVE Scan[k] = Entry(Scan[k].at, begun[k])
  <2>1. Scan[k].at = w[k]
    BY <1>5 DEF Entry
  <2>2. QED
    BY <1>5, <2>1
<1>8. Len(Scan) <= Len(begun) /\ Len(begun) <= Len(Scan) + 1
  BY <1>2, <1>4, <1>5
<1>9. pc \in {"idle", "pad", "index", "rename"} => Len(Scan) = Len(begun)
  BY <1>2, <1>5, <1>6
<1>10. \A k \in DOMAIN Scan :
         LET c == begun[k] IN
         Scan[k] = [at |-> Scan[k].at, oid |-> c, kind |-> KindOf[c], packed |-> Packed(c),
                    data |-> DataLen[c], payload |-> Payload(c)]
  BY <1>5, <1>7 DEF Entry
<1>11. QED
  BY <1>8, <1>9, <1>10 DEF ScansWhole

THEOREM FileInvariant == Spec => []FileInv
<1>1. QED
  BY InitFiled, FiledNext, PTL DEF Spec

(* ScansWhole: wherever writing stopped, the file reads back as the chunks *)
(* that were written, whole and in their order, for any chunks and sizes.  *)
THEOREM FileReadsBack == Spec => []ScansWhole
<1>1. QED
  BY FileInvariant, FiledScans, PTL

-----------------------------------------------------------------------------
(* Sorting numbers. *)

Rising(s) == \A j, k \in DOMAIN s : j < k => s[j] < s[k]

(* A rising sequence, with a number before it that is less than all.       *)
LEMMA RisingBefore ==
  ASSUME NEW S, NEW a \in S, NEW n \in Nat, S \subseteq Nat,
         Cardinality(S) = n + 1, Cardinality(S \ {a}) = n, \A b \in S : a <= b,
         NEW t \in SetToSeqs(S \ {a}), Rising(t)
  PROVE  \E s \in SetToSeqs(S) : Rising(s)
<1>1. t \in [1..n -> S \ {a}]
  BY DEF SetToSeqs
<1>2. PICK s : s = [j \in 1..(n + 1) |-> IF j = 1 THEN a ELSE t[j - 1]]
  OBVIOUS
<1>3. s \in [1..(n + 1) -> S]
  BY <1>1, <1>2
<1>4. s[1] = a /\ \A j \in 2..(n + 1) : s[j] = t[j - 1] /\ j - 1 \in 1..n /\ s[j] \in S \ {a}
  BY <1>1, <1>2
<1>5. ASSUME NEW j \in 1..(n + 1), NEW k \in 1..(n + 1), j < k
      PROVE  s[j] < s[k] /\ s[j] # s[k]
  <2>1. CASE j = 1
    <3>1. k \in 2..(n + 1)
      BY <1>5, <2>1
    <3>2. s[k] \in S \ {a} /\ s[j] = a
      BY <1>4, <2>1, <3>1
    <3>3. PICK x \in Nat, y \in Nat : x = a /\ y = s[k] /\ x <= y /\ x # y
      BY <3>2
    <3>4. QED
      BY <3>2, <3>3
  <2>2. CASE j # 1
    <3>1. /\ j - 1 \in DOMAIN t /\ k - 1 \in DOMAIN t /\ j - 1 < k - 1
          /\ s[j] = t[j - 1] /\ s[k] = t[k - 1]
      BY <1>1, <1>4, <1>5, <2>2
    <3>2. s[j] < s[k] /\ s[j] \in Nat /\ s[k] \in Nat
      BY <1>3, <3>1 DEF Rising
    <3>3. QED
      BY <3>2
  <2>3. QED
    BY <2>1, <2>2
<1>6. ASSUME NEW j \in 1..(n + 1), NEW k \in 1..(n + 1), j # k PROVE s[j] # s[k]
  <2>1. CASE j < k
    BY <1>5, <2>1
  <2>2. CASE k < j
    BY <1>5, <2>2
  <2>3. QED
    BY <1>6, <2>1, <2>2
<1>7. s \in SetToSeqs(S)
  BY <1>3, <1>6 DEF SetToSeqs
<1>8. Rising(s)
  BY <1>3, <1>5 DEF Rising
<1>9. QED
  BY <1>7, <1>8

LEMMA CanRise ==
  ASSUME NEW S, IsFiniteSet(S), S \subseteq Nat
  PROVE  \E s \in SetToSeqs(S) : Rising(s)
<1> DEFINE Can(R) == \E s \in SetToSeqs(R) : Rising(s)
           T == {n \in Nat : \A R \in SUBSET S : Cardinality(R) = n => Can(R)}
<1>1. \A R \in SUBSET S : IsFiniteSet(R) /\ Cardinality(R) \in Nat
  BY FS_Subset, FS_CardinalityType
<1>2. 0 \in T
  <2>1. SUFFICES ASSUME NEW R \in SUBSET S, Cardinality(R) = 0 PROVE Can(R)
    OBVIOUS
  <2>2. R = {}
    BY <1>1, <2>1, FS_EmptySet
  <2>3. PICK s : s = [j \in 1..0 |-> 0]
    OBVIOUS
  <2>4. s \in SetToSeqs(R) /\ Rising(s)
    BY <2>1, <2>2, <2>3 DEF SetToSeqs, Rising
  <2>5. QED
    BY <2>4
<1>3. ASSUME NEW n \in Nat, n \in T PROVE n + 1 \in T
  <2>1. SUFFICES ASSUME NEW R \in SUBSET S, Cardinality(R) = n + 1 PROVE Can(R)
    OBVIOUS
  <2>2. R \subseteq Nat /\ R # {}
    BY <2>1, FS_EmptySet
  <2>3. PICK a \in R : \A b \in R : a <= b
    BY <2>2, Least
  <2>4. Cardinality(R \ {a}) = n /\ R \ {a} \in SUBSET S
    <3>1. IsFiniteSet(R)
      BY <1>1
    <3>2. Cardinality(R \ {a}) = Cardinality(R) - 1
      BY <3>1, FS_RemoveElement
    <3>3. QED
      BY <2>1, <3>2
  <2>5. PICK t \in SetToSeqs(R \ {a}) : Rising(t)
    BY <1>3, <2>4
  <2>6. QED
    BY <2>1, <2>2, <2>3, <2>4, <2>5, RisingBefore
<1> HIDE DEF Can
<1>4. Nat \subseteq T
  BY <1>2, <1>3, Induction
<1>5. Can(S)
  BY <1>1, <1>4
<1>6. QED
  BY <1>5 DEF Can

\* The numbers of the set, in order.
Orders(S, t) ==
  /\ t \in Seq(S) /\ Rising(t) /\ DOMAIN t = 1..Len(t)
  /\ \A x \in S : \E j \in 1..Len(t) : t[j] = x

LEMMA AscendingSorts ==
  ASSUME NEW S, IsFiniteSet(S), S \subseteq Nat
  PROVE  Orders(S, Ascending(S))
<1>1. PICK n \in Nat : n = Cardinality(S) /\ Cardinality(1..n) = n /\ IsFiniteSet(1..n)
  <2>1. Cardinality(S) \in Nat
    BY FS_CardinalityType
  <2>2. PICK n \in Nat : n = Cardinality(S)
    BY <2>1
  <2>3. Cardinality(1..n) = n /\ IsFiniteSet(1..n)
    BY FS_Interval
  <2>4. QED
    BY <2>2, <2>3
<1>2. PICK s : s = Ascending(S) /\ s \in SetToSeqs(S) /\ Rising(s)
  <2>1. \E s \in SetToSeqs(S) : \A j, k \in DOMAIN s : j < k => s[j] < s[k]
    BY CanRise DEF Rising
  <2>2. QED
    BY <2>1 DEF Ascending, Rising
<1>3. s \in [1..n -> S] /\ \A j, k \in 1..n : j # k => s[j] # s[k]
  BY <1>1, <1>2 DEF SetToSeqs
<1>4. s \in Injection(1..n, S)
  BY <1>3 DEF Injection, IsInjective
<1>5. s \in Surjection(1..n, S)
  BY <1>1, <1>4, FS_Injection
<1>6. \A x \in S : \E j \in 1..n : s[j] = x
  BY <1>5 DEF Surjection
<1>7. s \in Seq(S) /\ Len(s) = n /\ DOMAIN s = 1..n
  BY <1>3
<1>8. QED
  BY <1>1, <1>2, <1>6, <1>7 DEF Orders

-----------------------------------------------------------------------------
(* The top of the index. *)

\* Up to m, and no further, the first byte is at most b.
Cut(keys, b, m) ==
  /\ m \in 0..Len(keys)
  /\ \A i \in 1..Len(keys) : i <= m <=> keys[i] \div Rest <= b

LEMMA CutExists ==
  ASSUME NEW keys \in Seq(Nat), Rising(keys), NEW b \in Nat
  PROVE  \E m \in Nat : Cut(keys, b, m)
<1>1. PICK n \in Nat, R \in Nat \ {0} : n = Len(keys) /\ R = Rest /\ DOMAIN keys = 1..n
  BY Numbers
<1>2. PICK T : T = {i \in 1..(n + 1) : i = n + 1 \/ ~(keys[i] \div R <= b)}
  OBVIOUS
<1>3. n + 1 \in T /\ T \subseteq Nat
  BY <1>2
<1>4. PICK l \in T : \A k \in T : l <= k
  BY <1>3, Least
<1>5. PICK m \in 0..n : m + 1 = l
  <2>1. l - 1 \in 0..n /\ (l - 1) + 1 = l
    BY <1>2
  <2>2. QED
    BY <2>1
<1>6. ASSUME NEW i \in 1..n, i <= m PROVE keys[i] \div R <= b
  <2>1. i \notin T
    BY <1>4, <1>5, <1>6
  <2>2. QED
    BY <1>2, <2>1
<1>7. ASSUME NEW i \in 1..n, ~(i <= m) PROVE ~(keys[i] \div R <= b)
  <2>1. l \in 1..n /\ ~(keys[l] \div R <= b)
    BY <1>2, <1>5, <1>7
  <2>2. CASE i = l
    BY <2>1, <2>2
  <2>3. CASE i # l
    <3>1. keys[l] < keys[i]
      BY <1>1, <1>5, <1>7, <2>1, <2>3, SMTT(30) DEF Rising
    <3>2. PICK x \in Nat, y \in Nat : x = keys[l] /\ y = keys[i]
      BY <1>1, <2>1
    <3>3. x < y => x \div R <= y \div R
      OBVIOUS
    <3>4. x \div R \in Nat /\ y \div R \in Nat
      OBVIOUS
    <3>5. QED
      BY <2>1, <3>1, <3>2, <3>3, <3>4
  <2>4. QED
    BY <2>2, <2>3
<1>8. \A i \in 1..n : i <= m <=> keys[i] \div R <= b
  BY <1>6, <1>7
<1>9. m \in Nat /\ Cut(keys, b, m)
  BY <1>1, <1>8 DEF Cut
<1>10. QED
  BY <1>9

LEMMA CutUnique ==
  ASSUME NEW keys \in Seq(Nat), NEW b, NEW m, Cut(keys, b, m), NEW o, Cut(keys, b, o)
  PROVE  o = m
<1>1. m \in 0..Len(keys) /\ o \in 0..Len(keys) /\ Len(keys) \in Nat
  BY DEF Cut
<1>2. ~(m < o)
  <2>1. SUFFICES ASSUME m < o PROVE FALSE
    OBVIOUS
  <2>2. o \in 1..Len(keys) /\ o <= o /\ ~(o <= m)
    BY <1>1, <2>1
  <2>3. QED
    BY <2>2 DEF Cut
<1>3. ~(o < m)
  <2>1. SUFFICES ASSUME o < m PROVE FALSE
    OBVIOUS
  <2>2. m \in 1..Len(keys) /\ m <= m /\ ~(m <= o)
    BY <1>1, <2>1
  <2>3. QED
    BY <2>2 DEF Cut
<1>4. QED
  BY <1>1, <1>2, <1>3

\* Where the scan for a byte stops, and what Top is said to be.
Stopped(keys, b, o) == o = Len(keys) \/ keys[o + 1] \div Rest > b

Past(keys, from, b) ==
  CHOOSE o \in from .. Len(keys) :
    Stopped(keys, b, o) /\ \A k \in from .. o - 1 : ~Stopped(keys, b, k)

LEMMA PastCuts ==
  ASSUME NEW keys \in Seq(Nat), Rising(keys), NEW b \in Nat, NEW from \in 0..Len(keys),
         \A i \in 1..Len(keys) : i <= from => keys[i] \div Rest <= b
  PROVE  Cut(keys, b, Past(keys, from, b))
<1>1. PICK n \in Nat, R \in Nat \ {0} : n = Len(keys) /\ R = Rest /\ DOMAIN keys = 1..n
  BY Numbers
<1>2. PICK m \in Nat : Cut(keys, b, m)
  BY CutExists
<1>3. m \in 0..n /\ \A i \in 1..n : i <= m <=> keys[i] \div R <= b
  BY <1>1, <1>2 DEF Cut
<1>4. \A i \in 1..n : keys[i] \div R \in Nat
  <2>1. ASSUME NEW i \in 1..n PROVE keys[i] \div R \in Nat
    <3>1. PICK x \in Nat : x = keys[i]
      BY <1>1
    <3>2. x \div R \in Nat
      OBVIOUS
    <3>3. QED
      BY <3>1, <3>2
  <2>2. QED
    BY <2>1
<1>5. \A k \in 0..n : Stopped(keys, b, k) <=> m <= k
  <2>1. ASSUME NEW k \in 0..n PROVE Stopped(keys, b, k) <=> m <= k
    <3>1. CASE k = n
      BY <1>1, <1>3, <3>1 DEF Stopped
    <3>2. CASE k # n
      <4>1. k + 1 \in 1..n
        BY <3>2
      <4>2. Stopped(keys, b, k) <=> ~(k + 1 <= m)
        <5>1. PICK q \in Nat : q = keys[k + 1] \div R
          BY <1>4, <4>1
        <5>2. (k + 1 <= m) <=> q <= b
          BY <1>3, <4>1, <5>1
        <5>3. Stopped(keys, b, k) <=> q > b
          BY <1>1, <3>2, <5>1 DEF Stopped
        <5>4. QED
          BY <5>2, <5>3
      <4>3. QED
        BY <1>3, <4>2
    <3>3. QED
      BY <3>1, <3>2
  <2>2. QED
    BY <2>1
<1>6. from <= m
  <2>1. SUFFICES ASSUME m < from PROVE FALSE
    BY <1>1, <1>3
  <2>2. from \in 1..n /\ from <= from
    BY <1>1, <1>3, <2>1
  <2>3. keys[from] \div R <= b
    BY <1>1, <2>2
  <2>4. QED
    BY <1>3, <2>1, <2>2, <2>3
<1>7. /\ m \in from .. Len(keys) /\ Stopped(keys, b, m)
      /\ \A k \in from .. m - 1 : ~Stopped(keys, b, k)
  BY <1>1, <1>3, <1>5, <1>6
<1>8. PICK o : o = Past(keys, from, b)
  OBVIOUS
<1>9. /\ o \in from .. Len(keys) /\ Stopped(keys, b, o)
      /\ \A k \in from .. o - 1 : ~Stopped(keys, b, k)
  BY <1>7, <1>8 DEF Past
<1>10. o = m
  <2>1. o \in 0..n /\ m <= o
    BY <1>1, <1>5, <1>9
  <2>2. ~(m < o)
    <3>1. SUFFICES ASSUME m < o PROVE FALSE
      OBVIOUS
    <3>2. m \in from .. o - 1
      BY <1>3, <1>6, <2>1, <3>1, <1>1
    <3>3. QED
      BY <1>7, <1>9, <3>2
  <2>3. QED
    BY <1>3, <2>1, <2>2
<1>11. QED
  BY <1>2, <1>8, <1>10

LEMMA TopCuts ==
  ASSUME NEW keys \in Seq(Nat), Rising(keys)
  PROVE  \A b \in 0 .. Bytes - 1 : Cut(keys, b, Top(keys)[b])
<1>1. PICK n \in Nat, B \in Nat \ {0} : n = Len(keys) /\ B = Bytes
  BY Numbers
<1> DEFINE Before(f, b) == IF b = 0 THEN 0 ELSE f[b - 1]
           Obeys(f) == f = [b \in 0 .. Bytes - 1 |-> Past(keys, Before(f, b), b)]
<1>2. PICK g : g = [b \in 0 .. B - 1 |-> CHOOSE m \in Nat : Cut(keys, b, m)]
  OBVIOUS
<1>3. ASSUME NEW b \in 0 .. B - 1 PROVE Cut(keys, b, g[b])
  <2>1. \E m \in Nat : Cut(keys, b, m)
    BY CutExists
  <2>2. g[b] = CHOOSE m \in Nat : Cut(keys, b, m)
    BY <1>2
  <2>3. QED
    BY <2>1, <2>2, Zenon
<1>4. ASSUME NEW f, NEW b \in 0 .. B - 1, b > 0 => Cut(keys, b - 1, f[b - 1])
      PROVE  Cut(keys, b, Past(keys, Before(f, b), b))
  <2>1. CASE b = 0
    <3>1. Before(f, b) = 0 /\ \A i \in 1..n : ~(i <= 0)
      BY <2>1
    <3>2. QED
      BY <1>1, <3>1, PastCuts
  <2>2. CASE b # 0
    <3>1. b - 1 \in Nat /\ Cut(keys, b - 1, f[b - 1]) /\ Before(f, b) = f[b - 1]
      BY <1>4, <2>2
    <3>2. f[b - 1] \in 0..n
      BY <1>1, <3>1 DEF Cut
    <3>3. ASSUME NEW i \in 1..n, i <= f[b - 1] PROVE keys[i] \div Rest <= b
      <4>1. keys[i] \div Rest <= b - 1
        BY <1>1, <3>1, <3>3 DEF Cut
      <4>2. PICK x \in Nat, R \in Nat \ {0} : x = keys[i] /\ R = Rest
        BY <1>1, Numbers
      <4>3. x \div R \in Nat
        OBVIOUS
      <4>4. QED
        BY <4>1, <4>2, <4>3
    <3>4. PICK m \in 0..Len(keys) : m = f[b - 1]
      BY <1>1, <3>2
    <3>5. \A i \in 1..Len(keys) : i <= m => keys[i] \div Rest <= b
      BY <1>1, <3>3, <3>4
    <3>6. Cut(keys, b, Past(keys, m, b))
      <4>1. b \in Nat
        OBVIOUS
      <4>2. QED
        BY ONLY <3>5, <4>1, keys \in Seq(Nat), Rising(keys), m \in 0..Len(keys), PastCuts
    <3>7. QED
      BY <3>1, <3>4, <3>6
  <2>3. QED
    BY <2>1, <2>2
<1>5. Obeys(g)
  <2>1. ASSUME NEW b \in 0 .. B - 1 PROVE g[b] = Past(keys, Before(g, b), b)
    <3>1. b > 0 => b - 1 \in 0 .. B - 1
      OBVIOUS
    <3>2. Cut(keys, b, Past(keys, Before(g, b), b))
      BY <1>3, <1>4, <3>1
    <3>3. QED
      BY <1>3, <3>2, CutUnique
  <2>2. g = [b \in 0 .. B - 1 |-> g[b]]
    BY <1>2
  <2> HIDE DEF Before
  <2>3. g = [b \in 0 .. B - 1 |-> Past(keys, Before(g, b), b)]
    BY <2>1, <2>2
  <2>4. QED
    BY <1>1, <2>3
<1>6. PICK t : t = Top(keys)
  OBVIOUS
<1>7. Obeys(t)
  <2>1. t = CHOOSE f : Obeys(f)
    BY <1>6 DEF Top, Past, Stopped
  <2> HIDE DEF Obeys
  <2>2. QED
    BY <1>5, <2>1, Zenon
<1>8. \A b \in 0 .. B - 1 : t[b] = Past(keys, Before(t, b), b)
  <2> HIDE DEF Before
  <2>1. t = [b \in 0 .. B - 1 |-> Past(keys, Before(t, b), b)]
    BY <1>1, <1>7
  <2>2. QED
    BY <2>1
<1> HIDE DEF Before, Obeys
<1> DEFINE T == {b \in Nat : b < B => Cut(keys, b, t[b])}
<1>9. 0 \in T
  <2>1. 0 \in 0 .. B - 1 /\ ~(0 > 0)
    OBVIOUS
  <2>2. Cut(keys, 0, t[0])
    BY <1>4, <1>8, <2>1
  <2>3. QED
    BY <2>2
<1>10. ASSUME NEW b \in Nat, b \in T PROVE b + 1 \in T
  <2>1. SUFFICES ASSUME b + 1 < B PROVE Cut(keys, b + 1, t[b + 1])
    OBVIOUS
  <2>2. b + 1 \in 0 .. B - 1 /\ (b + 1) - 1 = b /\ b < B
    BY <2>1
  <2>3. Cut(keys, b, t[b])
    BY <1>10, <2>2
  <2>4. QED
    BY <1>4, <1>8, <2>2, <2>3
<1> HIDE DEF T
<1>11. Nat \subseteq T
  BY <1>9, <1>10, Induction
<1>12. ASSUME NEW b \in 0 .. B - 1 PROVE Cut(keys, b, t[b])
  <2>1. b \in T /\ b < B
    BY <1>11
  <2>2. QED
    BY <2>1 DEF T
<1>13. QED
  BY <1>1, <1>6, <1>12

-----------------------------------------------------------------------------
(* The binary search. *)

Hit(f, i) == [offset |-> f[4][i], kind |-> f[5][f[6][i] + 1]]

\* What is there to be found after lo, up to hi.
Hits(f, c, lo, hi) == {Hit(f, i) : i \in {j \in (lo + 1) .. hi : f[3][j] = c}}

Middle(lo, hi) == lo + (hi - lo) \div 2

LEMMA MiddleBetween ==
  ASSUME NEW lo \in Nat, NEW hi \in Nat, lo < hi
  PROVE  Middle(lo, hi) \in lo .. (hi - 1)
<1>1. PICK d \in Nat : d = hi - lo /\ d > 0 /\ hi = lo + d
  OBVIOUS
<1>2. d \div 2 \in 0 .. d - 1
  BY <1>1
<1>3. QED
  BY <1>1, <1>2 DEF Middle

\* One step of it, when the results s for shorter ranges are there.
Looked(f, c, s, r) ==
  LET mid == Middle(r[1], r[2]) IN
  IF r[1] >= r[2] THEN {}
  ELSE IF f[3][mid + 1] > c THEN s[<<r[1], mid>>]
  ELSE IF f[3][mid + 1] < c THEN s[<<mid + 1, r[2]>>]
  ELSE {Hit(f, mid + 1)}

LEMMA LookedHits ==
  ASSUME NEW f, f[3] \in Seq(Nat), Rising(f[3]), NEW c \in Nat, NEW s,
         NEW lo \in 0..Len(f[3]), NEW hi \in 0..Len(f[3]),
         \A l, h \in 0..Len(f[3]) : h - l < hi - lo => s[<<l, h>>] = Hits(f, c, l, h)
  PROVE  Looked(f, c, s, <<lo, hi>>) = Hits(f, c, lo, hi)
<1>1. PICK keys \in Seq(Nat) : keys = f[3]
  OBVIOUS
<1>2. PICK n \in Nat : n = Len(keys) /\ DOMAIN keys = 1..n
  OBVIOUS
<1>3. PICK r : r = <<lo, hi>> /\ r[1] = lo /\ r[2] = hi
  <2>1. <<lo, hi>>[1] = lo /\ <<lo, hi>>[2] = hi
    OBVIOUS
  <2>2. QED
    BY <2>1
<1>4. CASE lo >= hi
  <2>1. Looked(f, c, s, r) = {}
    BY <1>3, <1>4 DEF Looked
  <2>2. \A j \in (lo + 1) .. hi : FALSE
    BY <1>1, <1>2, <1>4
  <2>3. Hits(f, c, lo, hi) = {}
    BY <2>2 DEF Hits
  <2>4. QED
    BY <1>3, <2>1, <2>3
<1>5. CASE lo < hi
  <2>1. lo \in Nat /\ hi \in Nat /\ hi <= n
    BY <1>1, <1>2
  <2>2. PICK mid \in Nat : mid = Middle(lo, hi) /\ lo <= mid /\ mid < hi
    <3>1. Middle(lo, hi) \in lo .. (hi - 1)
      BY <1>5, <2>1, MiddleBetween
    <3>2. QED
      BY <2>1, <3>1
  <2>3. mid + 1 \in 1..n
    BY <2>1, <2>2
  <2>4. PICK x \in Nat : x = keys[mid + 1]
    BY <1>2, <2>3
  <2>5. \A j \in 1..n : keys[j] \in Nat
    BY <1>2
  <2>6. \A j \in 1..n : (j < mid + 1 => keys[j] < x) /\ (mid + 1 < j => x < keys[j])
    BY <1>1, <1>2, <2>3, <2>4 DEF Rising
  <2>7. \A j \in (lo + 1)..hi : j \in 1..n
    BY <2>1
  <2>8. CASE x > c
    <3>1. Looked(f, c, s, r) = s[<<lo, mid>>]
      <4>1. ~(lo >= hi)
        BY <1>5, <2>1
      <4>2. QED
        BY <1>1, <1>3, <2>2, <2>4, <2>8, <4>1 DEF Looked
    <3>2. s[<<lo, mid>>] = Hits(f, c, lo, mid)
      <4>1. mid - lo < hi - lo /\ mid \in 0..n
        BY <2>1, <2>2
      <4>2. QED
        BY <1>1, <1>2, <4>1
    <3>3. ASSUME NEW j \in (lo + 1)..hi, keys[j] = c PROVE j \in (lo + 1)..mid
      <4>1. ~(mid + 1 < j) /\ j # mid + 1
        <5>1. j \in 1..n
          BY <2>7
        <5>2. PICK y \in Nat : y = keys[j] /\ y = c
          BY <2>5, <3>3, <5>1
        <5>3. (j < mid + 1 => y < x) /\ (mid + 1 < j => x < y) /\ (j = mid + 1 => y = x)
          BY <2>4, <2>6, <5>1, <5>2
        <5>4. QED
          BY <2>8, <5>2, <5>3
      <4>2. j \in Nat /\ lo + 1 <= j
        BY <2>1
      <4>3. QED
        BY ONLY <4>1, <4>2, lo \in Nat, mid \in Nat
    <3>4. \A j \in (lo + 1)..mid : j \in (lo + 1)..hi
      BY <2>1, <2>2
    <3>5. {j \in (lo + 1)..hi : f[3][j] = c} = {j \in (lo + 1)..mid : f[3][j] = c}
      BY <1>1, <3>3, <3>4
    <3>6. QED
      BY <1>3, <3>1, <3>2, <3>5 DEF Hits
  <2>9. CASE x < c
    <3>1. Looked(f, c, s, r) = s[<<mid + 1, hi>>]
      <4>1. ~(lo >= hi) /\ ~(x > c)
        BY <1>5, <2>1, <2>9
      <4>2. QED
        BY <1>1, <1>3, <2>2, <2>4, <2>9, <4>1 DEF Looked
    <3>2. s[<<mid + 1, hi>>] = Hits(f, c, mid + 1, hi)
      <4>1. hi - (mid + 1) < hi - lo /\ mid + 1 \in 0..n
        BY <2>1, <2>2
      <4>2. QED
        BY <1>1, <1>2, <4>1
    <3>3. ASSUME NEW j \in (lo + 1)..hi, keys[j] = c PROVE j \in ((mid + 1) + 1)..hi
      <4>1. ~(j < mid + 1) /\ j # mid + 1
        <5>1. j \in 1..n
          BY <2>7
        <5>2. PICK y \in Nat : y = keys[j] /\ y = c
          BY <2>5, <3>3, <5>1
        <5>3. (j < mid + 1 => y < x) /\ (mid + 1 < j => x < y) /\ (j = mid + 1 => y = x)
          BY <2>4, <2>6, <5>1, <5>2
        <5>4. QED
          BY <2>9, <5>2, <5>3
      <4>2. QED
        BY <2>1, <2>2, <4>1, SMTT(30)
    <3>4. \A j \in ((mid + 1) + 1)..hi : j \in (lo + 1)..hi
      BY <2>1, <2>2
    <3>5. {j \in (lo + 1)..hi : f[3][j] = c} = {j \in ((mid + 1) + 1)..hi : f[3][j] = c}
      BY <1>1, <3>3, <3>4
    <3>6. QED
      BY <1>3, <3>1, <3>2, <3>5 DEF Hits
  <2>10. CASE x = c
    <3>1. Looked(f, c, s, r) = {Hit(f, mid + 1)}
      <4>1. ~(lo >= hi) /\ ~(x > c) /\ ~(x < c)
        BY <1>5, <2>1, <2>10
      <4>2. QED
        BY <1>1, <1>3, <2>2, <2>4, <4>1 DEF Looked
    <3>2. ASSUME NEW j \in (lo + 1)..hi, keys[j] = c PROVE j = mid + 1
      <4>1. ~(j < mid + 1) /\ ~(mid + 1 < j)
        <5>1. j \in 1..n
          BY <2>7
        <5>2. PICK y \in Nat : y = keys[j] /\ y = c
          BY <2>5, <3>2, <5>1
        <5>3. (j < mid + 1 => y < x) /\ (mid + 1 < j => x < y) /\ (j = mid + 1 => y = x)
          BY <2>4, <2>6, <5>1, <5>2
        <5>4. QED
          BY <2>10, <5>2, <5>3
      <4>2. QED
        BY <2>1, <2>2, <4>1
    <3>3. mid + 1 \in (lo + 1)..hi /\ keys[mid + 1] = c
      BY <2>1, <2>2, <2>4, <2>10
    <3>4. PICK J : J = {j \in (lo + 1)..hi : f[3][j] = c}
      OBVIOUS
    <3>5. \A j : j \in J <=> j = mid + 1
      BY <1>1, <3>2, <3>3, <3>4
    <3>6. {Hit(f, i) : i \in J} = {Hit(f, mid + 1)}
      BY <3>5
    <3>7. QED
      BY <1>3, <3>1, <3>4, <3>6 DEF Hits
  <2>11. QED
    BY <2>4, <2>8, <2>9, <2>10
<1>6. QED
  BY <1>1, <1>2, <1>4, <1>5

Low(f, c) == IF c \div Rest = 0 THEN 0 ELSE f[2][c \div Rest - 1]

LEMMA LookupHits ==
  ASSUME NEW f, f[3] \in Seq(Nat), Rising(f[3]), NEW c \in Nat,
         Low(f, c) \in 0..Len(f[3]), f[2][c \div Rest] \in 0..Len(f[3])
  PROVE  Lookup(f, c) = Hits(f, c, Low(f, c), f[2][c \div Rest])
<1>1. PICK n \in Nat : n = Len(f[3])
  OBVIOUS
<1> DEFINE D == (0 .. Len(f[3])) \X (0 .. Len(f[3]))
           Obeys(s) == s = [r \in D |-> Looked(f, c, s, r)]
<1>2. PICK g : g = [r \in D |-> Hits(f, c, r[1], r[2])]
  OBVIOUS
<1>3. \A l, h \in 0..n : g[<<l, h>>] = Hits(f, c, l, h)
  <2>1. ASSUME NEW l \in 0..n, NEW h \in 0..n PROVE g[<<l, h>>] = Hits(f, c, l, h)
    <3>1. PICK r : r = <<l, h>> /\ r[1] = l /\ r[2] = h /\ r \in D
      <4>1. <<l, h>>[1] = l /\ <<l, h>>[2] = h /\ <<l, h>> \in D
        BY <1>1
      <4>2. QED
        BY <4>1
    <3>2. g[r] = Hits(f, c, r[1], r[2])
      BY <1>2, <3>1
    <3>3. QED
      BY <3>1, <3>2
  <2>2. QED
    BY <2>1
<1>4. Obeys(g)
  <2>1. ASSUME NEW r \in D PROVE g[r] = Looked(f, c, g, r)
    <3>1. PICK l \in 0..n, h \in 0..n : r = <<l, h>>
      BY <1>1
    <3>2. Looked(f, c, g, <<l, h>>) = Hits(f, c, l, h)
      BY <1>1, <1>3, LookedHits, SMTT(30)
    <3>3. QED
      BY <1>3, <3>1, <3>2
  <2>2. g = [r \in D |-> g[r]]
    BY <1>2
  <2>3. QED
    BY <2>1, <2>2
<1> DEFINE s == CHOOSE s : Obeys(s)
<1>5. Lookup(f, c) = s[<<Low(f, c), f[2][c \div Rest]>>]
  BY DEF Lookup, Low, Looked, Middle, Hit
<1>6. Obeys(s)
  <2> HIDE DEF Obeys
  <2>1. QED
    BY <1>4, Zenon
<1>7. \A l, h \in 0..n : s[<<l, h>>] = Looked(f, c, s, <<l, h>>)
  <2> HIDE DEF s
  <2>1. ASSUME NEW l \in 0..n, NEW h \in 0..n PROVE s[<<l, h>>] = Looked(f, c, s, <<l, h>>)
    <3>1. PICK r \in D : r = <<l, h>>
      BY <1>1
    <3>2. s[r] = Looked(f, c, s, r)
      BY <1>6
    <3>3. QED
      BY <3>1, <3>2
  <2>2. QED
    BY <2>1
<1> HIDE DEF Obeys, s
<1> DEFINE T == {d \in Nat : \A l, h \in 0..n : h - l < d => s[<<l, h>>] = Hits(f, c, l, h)}
<1>8. 0 \in T
  <2>1. ASSUME NEW l \in 0..n, NEW h \in 0..n, h - l < 0 PROVE s[<<l, h>>] = Hits(f, c, l, h)
    <3>1. PICK r : r = <<l, h>> /\ r[1] = l /\ r[2] = h
      <4>1. <<l, h>>[1] = l /\ <<l, h>>[2] = h
        OBVIOUS
      <4>2. QED
        BY <4>1
    <3>2. Looked(f, c, s, r) = {}
      <4>1. l >= h
        BY <2>1
      <4>2. QED
        BY <3>1, <4>1 DEF Looked
    <3>3. \A j \in (l + 1) .. h : FALSE
      BY <2>1
    <3>4. Hits(f, c, l, h) = {}
      BY <3>3 DEF Hits
    <3>5. QED
      BY <1>7, <3>1, <3>2, <3>4
  <2>2. QED
    BY <2>1
<1>9. ASSUME NEW d \in Nat, d \in T PROVE d + 1 \in T
  <2>1. ASSUME NEW l \in 0..n, NEW h \in 0..n, h - l < d + 1 PROVE s[<<l, h>>] = Hits(f, c, l, h)
    <3>1. \A i, k \in 0..n : k - i < h - l => s[<<i, k>>] = Hits(f, c, i, k)
      <4>1. \A i, k \in 0..n : k - i < h - l => k - i < d
        BY <2>1
      <4>2. QED
        BY <1>9, <4>1
    <3>2. Looked(f, c, s, <<l, h>>) = Hits(f, c, l, h)
      <4>1. \A i, k \in 0..Len(f[3]) : k - i < h - l => s[<<i, k>>] = Hits(f, c, i, k)
        BY <1>1, <3>1
      <4>2. l \in 0..Len(f[3]) /\ h \in 0..Len(f[3])
        BY <1>1
      <4>3. PICK t : t = s
        OBVIOUS
      <4>4. \A i, k \in 0..Len(f[3]) : k - i < h - l => t[<<i, k>>] = Hits(f, c, i, k)
        BY <4>1, <4>3
      <4>5. Looked(f, c, t, <<l, h>>) = Hits(f, c, l, h)
        BY ONLY <4>2, <4>4, f[3] \in Seq(Nat), Rising(f[3]), c \in Nat, LookedHits
      <4>6. QED
        BY <4>3, <4>5
    <3>3. QED
      BY <1>7, <3>2
  <2>2. QED
    BY <2>1
<1> HIDE DEF T
<1>10. Nat \subseteq T
  BY <1>8, <1>9, Induction
<1>11. n + 1 \in T
  BY <1>10
<1>12. \A l, h \in 0..n : h - l < n + 1
  OBVIOUS
<1>13. \A l, h \in 0..n : s[<<l, h>>] = Hits(f, c, l, h)
  BY <1>11, <1>12 DEF T
<1>14. QED
  BY <1>1, <1>5, <1>13

-----------------------------------------------------------------------------
(* What is found in an index. *)

Keyed(map) == DOMAIN map \subseteq Chunks /\ \A c \in DOMAIN map : map[c].kind = KindOf[c]

KeysOf(keys, S) ==
  /\ keys \in Seq(Nat) /\ Rising(keys) /\ DOMAIN keys = 1..Len(keys)
  /\ \A j \in 1..Len(keys) : keys[j] \in S
  /\ \A c \in S : \E j \in 1..Len(keys) : keys[j] = c

LEMMA KeysFacts ==
  ASSUME NEW map, Keyed(map)
  PROVE  KeysOf(Keys(map), DOMAIN map)
<1>1. PICK S : S = DOMAIN map
  OBVIOUS
<1>2. IsFiniteSet(S) /\ S \subseteq Nat
  <2>1. Chunks \subseteq Nat /\ IsFiniteSet(Chunks) /\ S \in SUBSET Chunks
    BY <1>1, Numbers, PoolFileAssumption DEF Keyed, PoolFileAssumption
  <2>2. QED
    BY <2>1, FS_Subset
<1>6. PICK s : s = Ascending(S)
  OBVIOUS
<1>3. s \in Seq(S) /\ Rising(s) /\ DOMAIN s = 1..Len(s) /\ \A x \in S : \E j \in 1..Len(s) : s[j] = x
  BY <1>2, <1>6, AscendingSorts DEF Orders
<1>4. s \in Seq(Nat) /\ \A j \in 1..Len(s) : s[j] \in S
  <2>1. \A j \in 1..Len(s) : s[j] \in S
    BY <1>3
  <2>2. \A j \in 1..Len(s) : s[j] \in Nat
    BY <1>2, <2>1
  <2>3. s = [j \in 1..Len(s) |-> s[j]] /\ Len(s) \in Nat
    BY <1>3
  <2>4. s \in Seq(Nat)
    BY <2>2, <2>3
  <2>5. QED
    BY <2>1, <2>4
<1>5. s = Keys(map)
  BY <1>1, <1>6 DEF Keys
<1>7. QED
  BY <1>1, <1>3, <1>4, <1>5 DEF KeysOf

LEMMA KindFacts ==
  ASSUME NEW map, Keyed(map), NEW j \in DOMAIN Keys(map)
  PROVE  KindTable(map)[KindBytes(Keys(map), map)[j] + 1] = map[Keys(map)[j]].kind
<1>1. PICK S : S = DOMAIN map /\ S \in SUBSET Chunks
  BY DEF Keyed
<1>2. PICK T : T = {map[k].kind : k \in DOMAIN map}
  OBVIOUS
<1>3. IsFiniteSet(T) /\ T \subseteq Nat
  <2>1. IsFiniteSet(S)
    BY <1>1, PoolFileAssumption, FS_Subset DEF PoolFileAssumption
  <2>2. PICK g : g = [k \in S |-> map[k].kind]
    OBVIOUS
  <2>3. g \in Surjection(S, T)
    BY <1>1, <1>2, <2>2 DEF Surjection
  <2>4. T \subseteq Nat
    BY <1>1, <1>2, Numbers DEF Keyed
  <2>5. QED
    BY <2>1, <2>3, <2>4, FS_Surjection
<1>11. PICK t : t = Ascending(T)
  OBVIOUS
<1>12. t = KindTable(map)
  BY <1>2, <1>11 DEF KindTable
<1>4. t = KindTable(map) /\ DOMAIN t = 1..Len(t) /\ t \in Seq(T) /\ \A x \in T : \E i \in 1..Len(t) : t[i] = x
  BY <1>3, <1>11, <1>12, AscendingSorts DEF Orders
<1>5. PICK c \in S : c = Keys(map)[j]
  BY <1>1, KeysFacts DEF KeysOf
<1>6. PICK x \in T : x = map[c].kind
  BY <1>1, <1>2
<1>7. \E i \in DOMAIN t : t[i] = x
  BY <1>4
<1>8. PICK i \in DOMAIN t : t[i] = x /\ KindBytes(Keys(map), map)[j] = i - 1
  <2>1. KindBytes(Keys(map), map)[j] = (CHOOSE i \in DOMAIN t : t[i] = x) - 1
    BY <1>4, <1>5, <1>6 DEF KindBytes
  <2>2. PICK a : a = CHOOSE i \in DOMAIN t : t[i] = x
    OBVIOUS
  <2>3. a \in DOMAIN t /\ t[a] = x
    BY <1>7, <2>2
  <2>4. QED
    BY <2>1, <2>2, <2>3
<1>9. (i - 1) + 1 = i
  BY <1>4
<1>10. QED
  BY <1>4, <1>5, <1>6, <1>8, <1>9

\* The chunks of the map, and what it has of each.
IndexEntry(map, c) == [offset |-> map[c].offset, kind |-> map[c].kind]

Sectioned(f, map, size) ==
  /\ Len(f) = 6 /\ f \in Seq({f[i] : i \in 1..6}) /\ f[1] = size
  /\ f[2] = Top(Keys(map)) /\ f[3] = Keys(map)
  /\ f[4] = [k \in DOMAIN Keys(map) |-> map[Keys(map)[k]].offset]
  /\ f[5] = KindTable(map) /\ f[6] = KindBytes(Keys(map), map)

LEMMA SectionsFacts ==
  ASSUME NEW map, NEW size
  PROVE  Sectioned(Sections(map, size), map, size)
<1>1. PICK a, b, c, d, e : /\ a = Top(Keys(map)) /\ b = Keys(map)
                           /\ c = [k \in DOMAIN Keys(map) |-> map[Keys(map)[k]].offset]
                           /\ d = KindTable(map) /\ e = KindBytes(Keys(map), map)
  OBVIOUS
<1>2. PICK f : f = <<size, a, b, c, d, e>>
  OBVIOUS
<1>3. f = Sections(map, size)
  BY <1>1, <1>2 DEF Sections
<1>4. Len(f) = 6 /\ f[1] = size /\ f[2] = a /\ f[3] = b /\ f[4] = c /\ f[5] = d /\ f[6] = e
  BY <1>2
<1>5. f \in Seq({f[i] : i \in 1..6})
  <2>1. PICK S : S = {f[i] : i \in 1..6}
    OBVIOUS
  <2>2. size \in S /\ a \in S /\ b \in S /\ c \in S /\ d \in S /\ e \in S
    BY <1>4, <2>1
  <2>3. f \in Seq(S)
    BY <1>2, <2>2
  <2>4. QED
    BY <2>1, <2>3
<1>6. QED
  BY <1>1, <1>3, <1>4, <1>5 DEF Sectioned

(* Each chunk of the map and no other is found.                            *)
LEMMA IndexFinds ==
  ASSUME NEW map, Keyed(map), NEW size, NEW c \in Chunks
  PROVE  Lookup(Sections(map, size), c) = {IndexEntry(map, k) : k \in DOMAIN map \cap {c}}
<1>1. PICK f : f = Sections(map, size)
  OBVIOUS
<1>19. /\ f[2] = Top(Keys(map)) /\ f[3] = Keys(map)
       /\ f[4] = [k \in DOMAIN Keys(map) |-> map[Keys(map)[k]].offset]
       /\ f[5] = KindTable(map) /\ f[6] = KindBytes(Keys(map), map)
  <2>1. Sectioned(f, map, size)
    BY <1>1, SectionsFacts
  <2>2. QED
    BY <2>1 DEF Sectioned
<1>2. PICK keys \in Seq(Nat) : keys = Keys(map) /\ keys = f[3]
  BY <1>19, KeysFacts DEF KeysOf
<1>3. PICK n \in Nat : n = Len(keys) /\ DOMAIN keys = 1..n
  OBVIOUS
<1>4. Rising(keys)
  BY <1>2, KeysFacts DEF KeysOf
<1>5. PICK R \in Nat \ {0}, B \in Nat \ {0} : R = Rest /\ B = Bytes
  BY Numbers
<1>6. c \in Nat /\ c < B * R
  BY <1>5, Numbers
<1>7. PICK b \in 0..(B - 1) : b = c \div R
  <2>1. c < R * B => c \div R < B
    BY <1>6
  <2>2. R * B = B * R
    OBVIOUS
  <2>3. c \div R \in Nat
    BY <1>6
  <2>4. QED
    BY <1>6, <2>1, <2>2, <2>3, SMTT(30)
<1>8. f[2] = Top(keys) /\ \A a \in 0..(B - 1) : Cut(keys, a, f[2][a])
  BY <1>2, <1>4, <1>5, <1>19, TopCuts
<1>9. PICK high \in 0..n : high = f[2][b] /\ \A i \in 1..n : i <= high <=> keys[i] \div R <= b
  BY <1>3, <1>5, <1>8 DEF Cut
<1>10. PICK low \in 0..n :
         low = Low(f, c) /\ \A i \in 1..n : i <= low <=> ~(b <= keys[i] \div R)
  <2>1. \A i \in 1..n : keys[i] \div R \in Nat
    <3>1. ASSUME NEW i \in 1..n PROVE keys[i] \div R \in Nat
      <4>1. PICK x \in Nat : x = keys[i]
        BY <1>3
      <4>2. x \div R \in Nat
        OBVIOUS
      <4>3. QED
        BY <4>1, <4>2
    <3>2. QED
      BY <3>1
  <2>2. CASE b = 0
    <3>1. Low(f, c) = 0
      BY <1>5, <1>7, <2>2 DEF Low
    <3>2. \A i \in 1..n : ~(i <= 0) /\ b <= keys[i] \div R
      BY <2>1, <2>2
    <3>3. QED
      BY <3>1, <3>2
  <2>3. CASE b # 0
    <3>1. b - 1 \in 0..(B - 1) /\ Low(f, c) = f[2][b - 1]
      BY <1>5, <1>7, <2>3 DEF Low
    <3>2. PICK low \in 0..n : low = f[2][b - 1] /\ \A i \in 1..n : i <= low <=> keys[i] \div R <= b - 1
      BY <1>3, <1>5, <1>8, <3>1 DEF Cut
    <3>3. \A i \in 1..n : keys[i] \div R <= b - 1 <=> ~(b <= keys[i] \div R)
      BY <2>1
    <3>4. QED
      BY <3>1, <3>2, <3>3
  <2>4. QED
    BY <2>2, <2>3
<1>11. Lookup(f, c) = Hits(f, c, low, high)
  <2>1. f[3] \in Seq(Nat) /\ Rising(f[3]) /\ Low(f, c) \in 0..Len(f[3])
        /\ f[2][c \div Rest] \in 0..Len(f[3])
    BY <1>2, <1>3, <1>4, <1>5, <1>7, <1>9, <1>10
  <2>2. Lookup(f, c) = Hits(f, c, Low(f, c), f[2][c \div Rest])
    BY <1>6, <2>1, LookupHits
  <2>3. QED
    BY <1>5, <1>7, <1>9, <1>10, <2>2
<1>12. \A j : (j \in (low + 1)..high /\ f[3][j] = c) <=> (j \in 1..n /\ keys[j] = c)
  <2>1. ASSUME NEW j \in 1..n, keys[j] = c PROVE j \in (low + 1)..high
    <3>1. keys[j] \div R = b
      BY <1>7, <2>1
    <3>2. j <= high /\ ~(j <= low)
      BY <1>9, <1>10, <3>1
    <3>3. QED
      BY <3>2
  <2>2. \A j : j \in (low + 1)..high => j \in 1..n
    OBVIOUS
  <2>3. QED
    BY <1>2, <2>1, <2>2
<1>13. ASSUME NEW j \in 1..n PROVE Hit(f, j) = IndexEntry(map, keys[j])
  <2>1. f[4][j] = map[keys[j]].offset
    BY <1>2, <1>3, <1>19
  <2>2. f[5][f[6][j] + 1] = map[keys[j]].kind
    BY <1>2, <1>3, <1>19, KindFacts, SMTT(30)
  <2>3. QED
    BY <2>1, <2>2 DEF Hit, IndexEntry
<1>14. \A x : x \in Hits(f, c, low, high) <=> \E j \in 1..n : keys[j] = c /\ x = IndexEntry(map, keys[j])
  <2>1. \A x : x \in Hits(f, c, low, high) <=> \E j : j \in (low + 1)..high /\ f[3][j] = c /\ x = Hit(f, j)
    BY DEF Hits
  <2>2. QED
    BY <1>12, <1>13, <2>1
<1>15. /\ \A j \in 1..n : keys[j] \in DOMAIN map
       /\ \A k \in DOMAIN map : \E j \in 1..n : keys[j] = k
  <2>1. KeysOf(keys, DOMAIN map)
    BY <1>2, KeysFacts
  <2>2. QED
    BY <1>3, <2>1 DEF KeysOf
<1>16. \A x : x \in Hits(f, c, low, high) <=> \E k \in DOMAIN map \cap {c} : x = IndexEntry(map, k)
  BY <1>14, <1>15
<1>17. Hits(f, c, low, high) = {IndexEntry(map, k) : k \in DOMAIN map \cap {c}}
  BY <1>16
<1>18. QED
  BY <1>1, <1>11, <1>17

-----------------------------------------------------------------------------
(* What the indexes say of the file. *)

\* At o there is the chunk c.
Found(o, c) == o \in Nat /\ Readable(o) /\ HeaderAt(o) = Header(c)

Right(map) == Keyed(map) /\ \A c \in DOMAIN map : Found(map[c].offset, c)

Stored == {s.oid : s \in Range(Scan)}

\* An index of the file as it was when it had this size.
IsIndex(parts) ==
  \E map, size :
    /\ parts = Sections(map, size) /\ Right(map)
    /\ size \in 0..Len(file)
    /\ size = Len(file) => DOMAIN map = Stored

Begun(n) == {begun[k] : k \in 1..n}

\* The RamIndex leaves out the chunk that is being written.
RamInv ==
  /\ Right(ri)
  /\ pc \in {"idle", "index", "rename"} => DOMAIN ri = Begun(Len(begun))
  /\ pc \in {"payload", "pad"} => DOMAIN ri = Begun(Len(begun) - 1)

\* What is in path.tmp is the beginning of the index to be written.
TmpInv ==
  /\ pc \in {"index", "rename"} => IsIndex(job) /\ tmp = Holding(tmp.parts)
  /\ pc = "index" =>
       /\ tmp.parts \in Seq({job[i] : i \in 1..6}) /\ Len(tmp.parts) < 6
       /\ \A i \in 1..Len(tmp.parts) : tmp.parts[i] = job[i]
  /\ pc = "rename" => tmp.parts = job

PathInv == index # None => index = Holding(index.parts) /\ IsIndex(index.parts)

IndexInv == FileInv /\ RamInv /\ TmpInv /\ PathInv

LEMMA FileGrows ==
  ASSUME FileInv, [Next]_vars
  PROVE  \E m \in Nat : Grown(file, file', m) /\ (m = 0 => file' = file)
<1>1. file \in Seq(Units) /\ chunk \in Chunks
  BY DEF FileInv, Filed, Laid
<1>2. ASSUME file' = file
      PROVE  \E m \in Nat : Grown(file, file', m) /\ (m = 0 => file' = file)
  <2>1. PICK g : g = file'
    OBVIOUS
  <2>2. Grown(file, g, 0)
    BY <1>1, <1>2, <2>1 DEF Grown
  <2>3. QED
    BY <1>2, <2>1, <2>2
<1>3. ASSUME NEW units \in Seq(Units), NEW next, Write(units, next)
      PROVE  \E m \in Nat : Grown(file, file', m) /\ (m = 0 => file' = file)
  <2>1. PICK m \in Nat : Written(units, next, m)
    BY <1>1, <1>3, Writes
  <2>2. PICK g : g = file'
    OBVIOUS
  <2>3. Grown(file, g, m)
    BY <2>1, <2>2 DEF Written
  <2>4. m = 0 => g = file
    <3>1. SUFFICES ASSUME m = 0 PROVE g = file
      OBVIOUS
    <3>2. g \in Seq(Units) /\ Len(g) = Len(file) /\ \A i \in 1..Len(file) : g[i] = file[i]
      BY <1>1, <2>3, <3>1 DEF Grown
    <3>3. QED
      BY <1>1, <3>2, SeqEqual
  <2>5. QED
    BY <2>2, <2>3, <2>4
<1>4. CASE \E c \in Chunks : WriteHeader(c)
  <2>1. PICK c \in Chunks : WriteHeader(c)
    BY <1>4
  <2>2. HeaderUnits(c) \in Seq(Units) /\ Write(HeaderUnits(c), "payload")
    BY <2>1, HeaderUnit DEF WriteHeader
  <2>3. QED
    BY <1>3, <2>2
<1>5. CASE WritePayload
  <2>1. Payload(chunk) \in Seq(Units) /\ Write(Payload(chunk), "pad")
    BY <1>1, <1>5, PayloadUnit DEF WritePayload
  <2>2. QED
    BY <1>3, <2>1
<1>6. CASE WritePad
  <2>1. Padding(chunk) \in Seq(Units) /\ Write(Padding(chunk), "idle")
    BY <1>1, <1>6, PaddingUnit DEF WritePad
  <2>2. QED
    BY <1>3, <2>1
<1>7. CASE BeginIndex \/ WriteSection \/ RenameIndex \/ Die \/ Rescan \/ UNCHANGED vars
  <2>1. file' = file
    BY <1>7 DEF BeginIndex, WriteSection, RenameIndex, Die, Rescan, vars
  <2>2. QED
    BY <1>2, <2>1
<1>8. QED
  BY <1>4, <1>5, <1>6, <1>7 DEF Next

(* What could be read can be read when the file has grown.                 *)
LEMMA FoundKept ==
  ASSUME file \in Seq(Units), NEW n \in Nat, Grown(file, file', n),
         NEW o, NEW c \in Chunks, Found(o, c)
  PROVE  Found(o, c)'
<1>1. PICK g : g = file'
  OBVIOUS
<1>2. PICK l \in Nat, h \in Nat \ {0}, p \in Nat, q \in Nat :
        /\ l = Len(file) /\ h = HeaderLen /\ p = Header(c).payload /\ q = o
  <2>1. /\ Len(file) \in Nat /\ HeaderLen \in Nat \ {0} /\ Header(c).payload \in Nat
        /\ o \in Nat
    BY Numbers, ChunkFacts DEF Found
  <2>2. QED
    BY <2>1
<1>3. Len(g) = l + n /\ \A i \in 1..l : g[i] = file[i]
  BY <1>1, <1>2 DEF Grown
<1>4. /\ q + h <= l /\ q + h + p <= l
      /\ \A k \in 1..h : Head(file[q + k]) = "header" /\ file[q + k][3] = k
      /\ file[q + 1][2] = Header(c)
  BY <1>2 DEF Found, Readable, HeaderAt
<1>5. \A k \in 1..h : g[q + k] = file[q + k]
  <2>1. \A k \in 1..h : q + k \in 1..l
    BY <1>4
  <2>2. QED
    BY <1>3, <2>1
<1>6. g[q + 1] = file[q + 1]
  BY <1>5
<1>7. HeaderAt(o)' = Header(c)
  BY <1>1, <1>2, <1>4, <1>6 DEF HeaderAt
<1>8. Readable(o)'
  <2>1. q + h <= Len(g) /\ q + h + p <= Len(g)
    BY <1>3, <1>4
  <2>2. \A k \in 1..h : Head(g[q + k]) = "header" /\ g[q + k][3] = k
    BY <1>4, <1>5
  <2>3. QED
    BY <1>1, <1>2, <1>7, <2>1, <2>2 DEF Readable
<1>9. QED
  BY <1>2, <1>7, <1>8 DEF Found

LEMMA RightKept ==
  ASSUME FileInv, [Next]_vars, NEW map, Right(map)
  PROVE  Right(map)'
<1>1. file \in Seq(Units)
  BY DEF FileInv, Filed, Laid
<1>2. PICK m \in Nat : Grown(file, file', m)
  BY FileGrows
<1>3. Keyed(map) /\ DOMAIN map \subseteq Chunks
  BY DEF Right, Keyed
<1>4. ASSUME NEW c \in DOMAIN map PROVE Found(map[c].offset, c)'
  <2>1. PICK o : o = map[c].offset
    OBVIOUS
  <2>2. Found(o, c) /\ c \in Chunks
    BY <1>3, <2>1 DEF Right
  <2>3. Found(o, c)'
    BY <1>1, <1>2, <2>2, FoundKept
  <2>4. QED
    BY <2>1, <2>3
<1>5. QED
  BY <1>3, <1>4 DEF Right

LEMMA IndexKept ==
  ASSUME FileInv, [Next]_vars, NEW parts, IsIndex(parts)
  PROVE  IsIndex(parts)'
<1>1. file \in Seq(Units)
  BY DEF FileInv, Filed, Laid
<1>2. PICK m \in Nat : Grown(file, file', m) /\ (m = 0 => file' = file)
  BY FileGrows
<1>3. PICK map, size :
        /\ parts = Sections(map, size) /\ Right(map)
        /\ size \in 0..Len(file)
        /\ size = Len(file) => DOMAIN map = Stored
  BY DEF IsIndex
<1>4. Right(map)'
  BY <1>3, RightKept
<1>5. PICK l \in Nat : l = Len(file) /\ Len(file') = l + m
  BY <1>1, <1>2 DEF Grown
<1>6. size \in 0..Len(file')
  BY <1>3, <1>5
<1>7. size = Len(file') => DOMAIN map = Stored'
  <2>1. CASE m = 0
    <3>1. file' = file
      BY <1>2, <2>1
    <3>2. Stored' = Stored
      BY <3>1 DEF Stored, Scan, Readable, ChunkRead, After, HeaderAt
    <3>3. QED
      BY <1>3, <3>1, <3>2
  <2>2. CASE m # 0
    <3>1. size # Len(file')
      BY <1>3, <1>5, <2>2
    <3>2. QED
      BY <3>1
  <2>3. QED
    BY <2>1, <2>2
<1>8. QED
  BY <1>3, <1>4, <1>6, <1>7 DEF IsIndex

LEMMA StoredIs ==
  ASSUME NEW w, Places(w, begun), Laid(file, w, begun)
  PROVE  /\ Stored = Begun(Count(w))
         /\ \A s \in Range(Scan) : s.oid \in Chunks /\ Found(s.at, s.oid) /\ s.kind = KindOf[s.oid]
<1>1. PICK m \in Nat, n \in Nat : m = Count(w) /\ n = Len(begun) /\ m <= n
  <2>1. Count(w) \in Nat /\ Len(begun) \in Nat
    <3>1. Scanned(w)
      BY ScanLaid
    <3>2. Count(w) \in Nat
      BY <3>1 DEF Scanned
    <3>3. Len(begun) \in Nat
      BY DEF Places
    <3>4. QED
      BY <3>2, <3>3
  <2>2. Count(w) <= Len(begun)
    BY <2>1 DEF Count
  <2>3. QED
    BY <2>1, <2>2
<1>2. PICK z : z = Scan
  OBVIOUS
<1>3. DOMAIN z = 1..m /\ \A k \in 1..m : Readable(w[k]) /\ z[k] = Entry(w[k], begun[k])
  BY <1>1, <1>2, ScanLaid DEF Scanned
<1>4. Range(z) = {z[k] : k \in 1..m}
  BY <1>3 DEF Range
<1>5. ASSUME NEW k \in 1..m
      PROVE  /\ z[k].oid = begun[k] /\ z[k].oid \in Chunks /\ Found(z[k].at, z[k].oid)
             /\ z[k].kind = KindOf[z[k].oid]
  <2>1. z[k].at = w[k] /\ z[k].oid = begun[k] /\ z[k].kind = KindOf[begun[k]]
    BY <1>3 DEF Entry
  <2>2. begun[k] \in Chunks /\ Found(w[k], begun[k])
    BY <1>1, <1>3, HeaderLaid DEF Found
  <2>3. QED
    BY <2>1, <2>2
<1>6. {s.oid : s \in Range(z)} = {begun[k] : k \in 1..m}
  BY <1>4, <1>5
<1>7. Stored = Begun(m)
  BY <1>2, <1>6 DEF Stored, Begun
<1>8. QED
  BY <1>1, <1>2, <1>4, <1>5, <1>7

LEMMA StoredWhole ==
  ASSUME FileInv, pc \in {"idle", "index", "rename"}
  PROVE  Stored = Begun(Len(begun))
<1>1. PICK w : Filed(w)
  BY DEF FileInv
<1>2. Count(w) = Len(begun)
  BY <1>1, StandsWhole DEF Count
<1>3. QED
  BY <1>1, <1>2, StoredIs DEF Filed

LEMMA HeaderRam ==
  ASSUME IndexInv, [Next]_vars, NEW c \in Chunks, WriteHeader(c)
  PROVE  RamInv'
<1>1. Right(ri)'
  <2>1. PICK map : map = ri
    OBVIOUS
  <2>2. Right(map)'
    BY <2>1, RightKept DEF IndexInv, RamInv
  <2>3. ri' = map
    BY <2>1 DEF WriteHeader
  <2>4. QED
    BY <2>2, <2>3
<1>2. file \in Seq(Units) /\ begun \in Seq(Chunks)
  BY DEF IndexInv, FileInv, Filed, Laid, Places
<1>3. PICK n \in Nat : n = Len(begun)
  BY <1>2
<1>4. DOMAIN ri = Begun(n) /\ ri' = ri
  BY <1>3 DEF IndexInv, RamInv, WriteHeader
<1>5. PICK m \in Nat : Written(HeaderUnits(c), "payload", m)
  BY <1>2, HeaderUnit, Writes DEF WriteHeader
<1>6. CASE pc' = "broken"
  BY <1>1, <1>6 DEF RamInv
<1>7. CASE pc' # "broken"
  <2>1. m = HeaderLen /\ pc' = "payload"
    BY <1>5, <1>7, HeaderUnit DEF Written
  <2>2. file' # file
    <3>1. PICK g : g = file'
      OBVIOUS
    <3>2. Len(g) = Len(file) + m
      BY <1>5, <3>1 DEF Written, Grown
    <3>3. g # file
      BY <1>2, <2>1, <3>2, Numbers
    <3>4. QED
      BY <3>1, <3>3
  <2>3. begun' = Append(begun, c)
    BY <2>2 DEF WriteHeader
  <2>4. PICK ds : ds = begun'
    OBVIOUS
  <2>5. Len(ds) = n + 1 /\ \A k \in 1..n : ds[k] = begun[k]
    BY <1>2, <1>3, <2>3, <2>4
  <2>6. (n + 1) - 1 = n
    OBVIOUS
  <2>7. {ds[k] : k \in 1..(Len(ds) - 1)} = {begun[k] : k \in 1..n}
    BY <2>5, <2>6
  <2>8. DOMAIN ri' = Begun(Len(begun) - 1)'
    BY <1>4, <2>4, <2>7 DEF Begun
  <2>9. QED
    BY <1>1, <2>1, <2>8 DEF RamInv
<1>8. QED
  BY <1>6, <1>7

LEMMA PayloadRam ==
  ASSUME IndexInv, [Next]_vars, WritePayload
  PROVE  RamInv'
<1>1. PICK map : map = ri
  OBVIOUS
<1>2. Right(map)'
  BY <1>1, RightKept DEF IndexInv, RamInv
<1>3. ri' = map /\ begun' = begun /\ pc' \in {"pad", "broken"} /\ pc = "payload"
  BY <1>1 DEF WritePayload, Write
<1>4. DOMAIN map = Begun(Len(begun) - 1)
  BY <1>1, <1>3 DEF IndexInv, RamInv
<1>5. (Begun(Len(begun) - 1))' = Begun(Len(begun) - 1)
  BY <1>3 DEF Begun
<1>6. QED
  BY <1>2, <1>3, <1>4, <1>5 DEF RamInv

LEMMA PadRam ==
  ASSUME IndexInv, [Next]_vars, WritePad
  PROVE  RamInv'
<1>1. PICK map : map = ri
  OBVIOUS
<1>2. Right(map) /\ Right(map)'
  BY <1>1, RightKept DEF IndexInv, RamInv
<1>3. begun' = begun /\ pc' \in {"idle", "broken"} /\ pc = "pad"
  BY DEF WritePad, Write
<1>4. CASE pc' = "broken"
  <2>1. ri' = map
    BY <1>1, <1>4 DEF WritePad
  <2>2. QED
    BY <1>2, <1>4, <2>1 DEF RamInv
<1>5. CASE pc' = "idle"
  <2>1. PICK w : Filed(w)
    BY DEF IndexInv, FileInv
  <2>2. PICK n \in Nat : /\ n = Len(begun) /\ n \in 1..n /\ begun[n] = chunk /\ chunk \in Chunks
                         /\ w[n] \in Nat
    BY <1>3, <2>1, LastFacts
  <2>3. Places(w, begun) /\ Laid(file, w, begun) /\ Len(file) = Needed(w[n], chunk)
    BY <1>3, <2>1, <2>2 DEF Filed, Stands
  <2>4. Readable(w[n]) /\ HeaderAt(w[n]) = Header(chunk)
    <3>1. Needed(w[n], begun[n]) <= Len(file)
      <4>1. Len(file) \in Nat
        BY <2>3 DEF Laid
      <4>2. QED
        BY <2>2, <2>3, <4>1
    <3>2. Readable(w[n])
      BY <2>2, <2>3, <3>1, ReadableLaid
    <3>3. HeaderAt(w[n]) = Header(begun[n])
      BY <2>2, <2>3, HeaderLaid
    <3>4. QED
      BY <2>2, <3>2, <3>3
  <2>5. PICK o \in Nat : o = w[n] /\ o = Len(file) - HeaderLen - Header(chunk).payload
    <3>1. PICK h \in Nat, p \in Nat, o \in Nat :
            h = HeaderLen /\ p = Header(chunk).payload /\ o = w[n] /\ Len(file) = o + h + p
      <4>1. HeaderLen \in Nat /\ Header(chunk).payload \in Nat /\ w[n] \in Nat
        BY <2>2, Numbers, ChunkFacts
      <4>2. Len(file) = w[n] + HeaderLen + Header(chunk).payload
        BY <2>3 DEF Needed
      <4>3. QED
        BY <4>1, <4>2
    <3>2. (o + h + p) - h - p = o
      OBVIOUS
    <3>3. QED
      BY <3>1, <3>2
  <2>6. Found(o, chunk)
    BY <2>4, <2>5 DEF Found
  <2>7. file \in Seq(Units) /\ \E m \in Nat : Grown(file, file', m)
    BY <2>3, FileGrows DEF Laid, IndexInv
  <2>8. Found(o, chunk)'
    <3>1. PICK c \in Chunks : c = chunk
      BY <2>2
    <3>2. Found(o, c)'
      BY <2>6, <2>7, <3>1, FoundKept
    <3>3. chunk' = c
      BY <3>1 DEF WritePad
    <3>4. QED
      BY <3>2, <3>3
  <2>9. PICK c \in Chunks : c = chunk /\ chunk' = c
    BY <2>2 DEF WritePad
  <2>10. PICK next : next = [d \in DOMAIN map \cup {c} |->
                               IF d = c THEN [offset |-> o, kind |-> KindOf[d]] ELSE map[d]]
    OBVIOUS
  <2>11. ri' = next
    BY <1>1, <1>5, <2>5, <2>9, <2>10 DEF WritePad
  <2>12. Keyed(next)
    BY <1>2, <2>10 DEF Right, Keyed
  <2>13. ASSUME NEW d \in DOMAIN next PROVE Found(next[d].offset, d)'
    <3>1. CASE d = c
      <4>1. next[d].offset = o
        BY <2>10, <3>1
      <4>2. QED
        BY <2>8, <2>9, <3>1, <4>1
    <3>2. CASE d # c
      <4>1. next[d] = map[d] /\ d \in DOMAIN map
        BY <2>10, <3>2
      <4>2. QED
        BY <1>2, <4>1 DEF Right
    <3>3. QED
      BY <3>1, <3>2
  <2>14. Right(next)'
    BY <2>12, <2>13 DEF Right
  <2>15. DOMAIN map = Begun(n - 1)
    BY <1>1, <1>3, <2>2 DEF IndexInv, RamInv
  <2>16. DOMAIN next = Begun(n)
    <3>1. DOMAIN next = Begun(n - 1) \cup {begun[n]}
      BY <2>2, <2>9, <2>10, <2>15
    <3>2. \A k : k \in 1..n <=> (k \in 1..(n - 1) \/ k = n)
      BY <2>2
    <3>3. QED
      BY <3>1, <3>2 DEF Begun
  <2>17. (Begun(Len(begun)))' = Begun(n)
    BY <1>3, <2>2 DEF Begun
  <2>18. QED
    BY <1>5, <2>11, <2>14, <2>16, <2>17 DEF RamInv
<1>6. QED
  BY <1>3, <1>4, <1>5

LEMMA DieRam ==
  ASSUME IndexInv, Die
  PROVE  RamInv'
<1>1. PICK map : map = <<>>
  OBVIOUS
<1>2. DOMAIN map = {}
  BY <1>1
<1>3. Right(map)'
  BY <1>2 DEF Right, Keyed
<1>4. ri' = map /\ pc' = "dead"
  BY <1>1 DEF Die
<1>5. QED
  BY <1>3, <1>4 DEF RamInv

LEMMA RescanRam ==
  ASSUME IndexInv, [Next]_vars, Rescan
  PROVE  RamInv'
<1>1. PICK w : Filed(w)
  BY DEF IndexInv, FileInv
<1>2. Places(w, begun) /\ Laid(file, w, begun)
  BY <1>1 DEF Filed
<1>3. Stored = Begun(Len(begun))
  <2>1. Whole(w)
    BY <1>2, EndWhole DEF Rescan
  <2>2. Count(w) = Len(begun)
    BY <2>1 DEF Count
  <2>3. QED
    BY <1>2, <2>2, StoredIs
<1>4. PICK z : z = Range(Scan)
  OBVIOUS
<1>5. \A s \in z : s.oid \in Chunks /\ Found(s.at, s.oid) /\ s.kind = KindOf[s.oid]
  BY <1>2, <1>4, StoredIs
<1>6. PICK S : S = {s.oid : s \in z} /\ S = Stored
  BY <1>4 DEF Stored
<1>7. PICK next : next = [c \in S |-> LET s == CHOOSE s \in z : s.oid = c
                                      IN [offset |-> s.at, kind |-> s.kind]]
  OBVIOUS
<1>8. ri' = next /\ pc' = "idle" /\ begun' = begun
  BY <1>4, <1>6, <1>7 DEF Rescan
<1>9. ASSUME NEW c \in S
      PROVE  c \in Chunks /\ next[c].kind = KindOf[c] /\ Found(next[c].offset, c)
  <2>1. PICK r : r = CHOOSE s \in z : s.oid = c
    OBVIOUS
  <2>2. \E t \in z : t.oid = c
    BY <1>6
  <2>3. r \in z /\ r.oid = c
    BY <2>1, <2>2
  <2>4. next[c] = [offset |-> r.at, kind |-> r.kind]
    BY <1>7, <2>1
  <2>5. QED
    BY <1>5, <2>3, <2>4
<1>10. DOMAIN next = S
  BY <1>7
<1>11. Right(next)
  BY <1>9, <1>10 DEF Right, Keyed
<1>12. Right(next)'
  BY <1>11, RightKept DEF IndexInv
<1>13. (Begun(Len(begun)))' = Begun(Len(begun))
  BY <1>8 DEF Begun
<1>14. QED
  BY <1>3, <1>6, <1>8, <1>10, <1>12, <1>13 DEF RamInv

\* The index itself, the file and the RamIndex stand still.
LEMMA StillRam ==
  ASSUME IndexInv, [Next]_vars, ri' = ri, begun' = begun,
         \/ pc \in {"idle", "index", "rename"} /\ pc' \in {"idle", "index", "rename"}
         \/ pc' = pc
  PROVE  RamInv'
<1>1. PICK map : map = ri
  OBVIOUS
<1>2. Right(map)'
  BY <1>1, RightKept DEF IndexInv, RamInv
<1>3. (Begun(Len(begun)))' = Begun(Len(begun)) /\ (Begun(Len(begun) - 1))' = Begun(Len(begun) - 1)
  BY DEF Begun
<1>4. ri' = map
  BY <1>1
<1>5. pc' \in {"idle", "index", "rename"} => DOMAIN map = Begun(Len(begun))
  BY <1>1 DEF IndexInv, RamInv
<1>6. pc' \in {"payload", "pad"} => DOMAIN map = Begun(Len(begun) - 1)
  BY <1>1 DEF IndexInv, RamInv
<1>7. QED
  BY <1>2, <1>3, <1>4, <1>5, <1>6 DEF RamInv

LEMMA RamNext == IndexInv /\ [Next]_vars => RamInv'
<1> SUFFICES ASSUME IndexInv, [Next]_vars PROVE RamInv'
  OBVIOUS
<1>1. CASE \E c \in Chunks : WriteHeader(c)
  BY <1>1, HeaderRam
<1>2. CASE WritePayload
  BY <1>2, PayloadRam
<1>3. CASE WritePad
  BY <1>3, PadRam
<1>4. CASE BeginIndex
  BY <1>4, StillRam DEF BeginIndex
<1>5. CASE WriteSection
  BY <1>5, StillRam DEF WriteSection
<1>6. CASE RenameIndex
  BY <1>6, StillRam DEF RenameIndex
<1>7. CASE Die
  BY <1>7, DieRam
<1>8. CASE Rescan
  BY <1>8, RescanRam
<1>9. CASE UNCHANGED vars
  BY <1>9, StillRam DEF vars
<1>10. QED
  BY <1>1, <1>2, <1>3, <1>4, <1>5, <1>6, <1>7, <1>8, <1>9 DEF Next

LEMMA BeginTmp ==
  ASSUME IndexInv, [Next]_vars, BeginIndex
  PROVE  TmpInv'
<1>1. CASE /\ tmp' = Holding(<<>>)
           /\ job' = Sections(ri, Len(file))
           /\ pc' = "index"
  <2>1. PICK map, size, j : map = ri /\ size = Len(file) /\ j = Sections(map, size)
    OBVIOUS
  <2>2. Len(file) \in Nat /\ DOMAIN ri = Begun(Len(begun)) /\ Right(ri)
    BY DEF IndexInv, RamInv, FileInv, Filed, Laid, BeginIndex
  <2>3. DOMAIN map = Stored
    BY <2>1, <2>2, StoredWhole DEF IndexInv, BeginIndex
  <2>4. size \in 0..Len(file)
    BY <2>1, <2>2
  <2>5. IsIndex(j)
    BY <2>1, <2>2, <2>3, <2>4 DEF IsIndex
  <2>6. IsIndex(j)'
    BY <2>5, IndexKept DEF IndexInv
  <2>7. job' = j
    BY <1>1, <2>1
  <2>8. PICK e : e = <<>> /\ e \in Seq({j[i] : i \in 1..6}) /\ Len(e) = 0
    <3>1. <<>> \in Seq({j[i] : i \in 1..6}) /\ Len(<<>>) = 0
      OBVIOUS
    <3>2. QED
      BY <3>1
  <2>9. tmp' = Holding(e) /\ Holding(e).parts = e
    BY <1>1, <2>8 DEF Holding
  <2>10. \A i \in 1..Len(e) : e[i] = j[i]
    BY <2>8
  <2>11. Len(e) < 6
    BY <2>8
  <2>12. pc' = "index"
    BY <1>1
  <2>13. QED
    BY <2>6, <2>7, <2>8, <2>9, <2>10, <2>11, <2>12 DEF TmpInv
<1>2. CASE pc' = pc
  BY <1>2 DEF BeginIndex, TmpInv
<1>3. QED
  BY <1>1, <1>2 DEF BeginIndex

LEMMA SectionTmp ==
  ASSUME IndexInv, [Next]_vars, WriteSection
  PROVE  TmpInv'
<1>1. PICK j, p : j = job /\ p = tmp.parts
  OBVIOUS
<1>2. PICK S : S = {j[i] : i \in 1..6}
  OBVIOUS
<1>3. /\ pc = "index" /\ job' = j /\ IsIndex(j)
      /\ p \in Seq(S) /\ Len(p) < 6 /\ \A i \in 1..Len(p) : p[i] = j[i]
  BY <1>1, <1>2 DEF WriteSection, IndexInv, TmpInv
<1>4. IsIndex(j)'
  BY <1>3, IndexKept DEF IndexInv
<1>5. Len(j) = 6 /\ j \in Seq(S)
  <2>1. PICK map, size : j = Sections(map, size)
    BY <1>3 DEF IsIndex
  <2>2. Sectioned(j, map, size)
    BY <2>1, SectionsFacts
  <2>3. QED
    BY <1>2, <2>2 DEF Sectioned
<1>6. CASE pc' = "idle"
  BY <1>6 DEF TmpInv
<1>7. CASE /\ tmp' = Holding(Append(p, j[Len(p) + 1]))
           /\ pc' = IF Len(tmp'.parts) = Len(j) THEN "rename" ELSE pc
  <2>1. PICK l \in Nat : l = Len(p) /\ l + 1 \in 1..6
    <3>1. Len(p) \in Nat /\ Len(p) + 1 \in 1..6
      BY <1>3
    <3>2. QED
      BY <3>1
  <2>2. PICK x \in S : x = j[l + 1]
    BY <1>2, <2>1
  <2>3. PICK q : q = Append(p, x)
    OBVIOUS
  <2>4. q \in Seq(S) /\ Len(q) = l + 1 /\ q[l + 1] = x /\ \A i \in 1..l : q[i] = p[i]
    BY <1>3, <2>1, <2>2, <2>3
  <2>5. \A i \in 1..(l + 1) : q[i] = j[i]
    <3>1. ASSUME NEW i \in 1..(l + 1) PROVE q[i] = j[i]
      <4>1. i = l + 1 \/ i \in 1..l
        OBVIOUS
      <4>2. QED
        BY <1>3, <2>1, <2>2, <2>4, <4>1
    <3>2. QED
      BY <3>1
  <2>6. tmp' = Holding(q) /\ tmp'.parts = q
    BY <1>7, <2>1, <2>2, <2>3 DEF Holding
  <2>7. CASE l + 1 = 6
    <3>1. q = j
      BY <1>5, <2>4, <2>5, <2>7, SeqEqual
    <3>2. pc' = "rename"
      BY <1>5, <1>7, <2>4, <2>6, <2>7
    <3>3. QED
      BY <1>3, <1>4, <2>6, <3>1, <3>2 DEF TmpInv
  <2>8. CASE l + 1 # 6
    <3>1. pc' = "index" /\ Len(q) < 6
      <4>1. Len(q) # 6 /\ Len(q) < 6
        BY <2>1, <2>4, <2>8
      <4>2. Len(tmp'.parts) # Len(j)
        BY <1>5, <2>6, <4>1
      <4>3. QED
        BY <1>3, <1>7, <4>1, <4>2
    <3>2. \A i \in 1..Len(q) : q[i] = j[i]
      BY <2>4, <2>5
    <3>3. QED
      BY <1>2, <1>3, <1>4, <2>4, <2>6, <3>1, <3>2 DEF TmpInv
  <2>9. QED
    BY <2>7, <2>8
<1>8. QED
  BY <1>1, <1>6, <1>7 DEF WriteSection

LEMMA TmpNext == IndexInv /\ [Next]_vars => TmpInv'
<1> SUFFICES ASSUME IndexInv, [Next]_vars PROVE TmpInv'
  OBVIOUS
<1>1. CASE BeginIndex
  BY <1>1, BeginTmp
<1>2. CASE WriteSection
  BY <1>2, SectionTmp
<1>3. CASE UNCHANGED vars
  <2>1. PICK j : j = job
    OBVIOUS
  <2>2. IsIndex(j) => IsIndex(j)'
    BY IndexKept DEF IndexInv
  <2>3. job' = j /\ tmp' = tmp /\ pc' = pc
    BY <1>3, <2>1 DEF vars
  <2>4. QED
    BY <2>1, <2>2, <2>3 DEF TmpInv, IndexInv
<1>4. CASE \/ \E c \in Chunks : WriteHeader(c)
           \/ WritePayload \/ WritePad \/ RenameIndex \/ Die \/ Rescan
  <2>1. pc' \notin {"index", "rename"}
    BY <1>4 DEF WriteHeader, WritePayload, WritePad, RenameIndex, Die, Rescan, Write
  <2>2. QED
    BY <2>1 DEF TmpInv
<1>5. QED
  BY <1>1, <1>2, <1>3, <1>4 DEF Next

LEMMA PathNext == IndexInv /\ [Next]_vars => PathInv'
<1> SUFFICES ASSUME IndexInv, [Next]_vars PROVE PathInv'
  OBVIOUS
<1>1. PICK x : x = index
  OBVIOUS
<1>2. CASE index' = index
  <2>1. x # None => x = Holding(x.parts) /\ IsIndex(x.parts)
    BY <1>1 DEF IndexInv, PathInv
  <2>2. PICK p : p = x.parts
    OBVIOUS
  <2>3. IsIndex(p) => IsIndex(p)'
    BY IndexKept DEF IndexInv
  <2>4. index' = x
    BY <1>1, <1>2
  <2>5. QED
    BY <2>1, <2>2, <2>3, <2>4 DEF PathInv
<1>3. CASE RenameIndex /\ index' = tmp
  <2>1. PICK y, p : y = tmp /\ p = y.parts
    OBVIOUS
  <2>2. IsIndex(p) /\ y = Holding(p)
    BY <1>3, <2>1 DEF IndexInv, TmpInv, RenameIndex
  <2>3. IsIndex(p)'
    BY <2>2, IndexKept DEF IndexInv
  <2>4. index' = y
    BY <1>3, <2>1
  <2>5. QED
    BY <2>1, <2>2, <2>3, <2>4 DEF PathInv
<1>4. index' = index \/ (RenameIndex /\ index' = tmp)
  BY DEF Next, vars, WriteHeader, WritePayload, WritePad, BeginIndex, WriteSection, RenameIndex,
         Die, Rescan
<1>5. QED
  BY <1>2, <1>3, <1>4

LEMMA InitIndex == Init => IndexInv
<1> SUFFICES ASSUME Init PROVE IndexInv
  OBVIOUS
<1>1. ri = <<>> /\ DOMAIN ri = {} /\ begun = <<>> /\ Len(begun) = 0 /\ pc = "idle" /\ index = None
  BY DEF Init
<1>2. RamInv
  BY <1>1 DEF RamInv, Right, Keyed, Begun
<1>3. TmpInv /\ PathInv
  BY <1>1 DEF TmpInv, PathInv
<1>4. QED
  BY <1>2, <1>3, InitFiled DEF IndexInv

THEOREM IndexInvariant == Spec => []IndexInv
<1>1. IndexInv /\ [Next]_vars => IndexInv'
  BY FiledNext, RamNext, TmpNext, PathNext DEF IndexInv
<1>2. QED
  BY <1>1, InitIndex, PTL DEF Spec

LEMMA InvCovers == IndexInv => IndexCovers
<1> SUFFICES ASSUME IndexInv, index # None PROVE IndexCovers
  BY DEF IndexCovers
<1>1. PICK f : f = index.parts
  OBVIOUS
<1>2. index = Holding(f) /\ IsIndex(f)
  BY <1>1 DEF IndexInv, PathInv
<1>3. PICK map, size :
        /\ f = Sections(map, size) /\ Right(map)
        /\ size = Len(file) => DOMAIN map = Stored
  BY <1>2 DEF IsIndex
<1>4. Sectioned(f, map, size)
  BY <1>3, SectionsFacts
<1>5. Len(f) = 6 /\ f[1] = size
  BY <1>4 DEF Sectioned
<1>6. Complete(index)
  BY <1>1, <1>2, <1>5 DEF Complete, Holding
<1>7. ASSUME NEW c \in Chunks
      PROVE  LET found == Lookup(index.parts, c) IN
             /\ index.parts[1] = Len(file) => (found # {} <=> \E s \in Range(Scan) : s.oid = c)
             /\ \A v \in found : /\ Readable(v.offset)
                                 /\ ChunkRead(v.offset).oid = c
                                 /\ v.kind = KindOf[c]
  <2>1. PICK found : found = Lookup(f, c)
    OBVIOUS
  <2>2. found = {IndexEntry(map, k) : k \in DOMAIN map \cap {c}}
    BY <1>3, <2>1, IndexFinds DEF Right
  <2>3. f[1] = Len(file) => (found # {} <=> \E s \in Range(Scan) : s.oid = c)
    <3>1. SUFFICES ASSUME DOMAIN map = Stored
                   PROVE  found # {} <=> \E s \in Range(Scan) : s.oid = c
      BY <1>3, <1>5
    <3>2. found # {} <=> c \in DOMAIN map
      BY <2>2
    <3>3. c \in Stored <=> \E s \in Range(Scan) : s.oid = c
      BY DEF Stored
    <3>4. QED
      BY <3>1, <3>2, <3>3
  <2>4. ASSUME NEW v \in found
        PROVE  Readable(v.offset) /\ ChunkRead(v.offset).oid = c /\ v.kind = KindOf[c]
    <3>1. c \in DOMAIN map /\ v = IndexEntry(map, c)
      BY <2>2
    <3>2. PICK o : o = map[c].offset
      OBVIOUS
    <3>3. v.offset = o /\ v.kind = KindOf[c]
      BY <1>3, <3>1, <3>2 DEF IndexEntry, Right, Keyed
    <3>4. Found(o, c)
      BY <1>3, <3>1, <3>2 DEF Right
    <3>5. ChunkRead(o).oid = HeaderAt(o).oid
      BY DEF ChunkRead
    <3>6. HeaderAt(o).oid = c
      BY <3>4, ChunkFacts DEF Found
    <3>7. QED
      BY <3>3, <3>4, <3>5, <3>6 DEF Found
  <2>5. QED
    BY <1>1, <2>1, <2>3, <2>4
<1>8. QED
  BY <1>6, <1>7 DEF IndexCovers

(* IndexCovers: the file at path is missing or a complete index, which     *)
(* leads to the chunks of the file it was written for and to nothing else. *)
THEOREM IndexLeads == Spec => []IndexCovers
<1>1. QED
  BY IndexInvariant, InvCovers, PTL
=============================================================================

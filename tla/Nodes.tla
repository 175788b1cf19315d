-------------------------------- MODULE Nodes --------------------------------
(***************************************************************************)
(* The nodes of a backup as bytes: property maps (store/props.go) and the  *)
(* times in them (store/time.go, encodeProps of godump/dump).              *)
(*                                                                         *)
(* A node is a chunk like any other and named by its content, so the same  *)
(* properties must give the same bytes, though Go hands out the keys of a  *)
(* map in a different order each time; and bytes of one map must never be  *)
(* those of another.  Characters are numbers below Base: digits, then the  *)
(* point, the minus, and whatever else.                                    *)
(***************************************************************************)
EXTENDS Integers, Sequences, SequencesExt, Functions

CONSTANTS
  NodeKinds,  \* kinds of nodes
  Keys,       \* names of properties
  Texts,      \* their values
  CtimeKey,   \* the one that holds a time
  Seconds,    \* times are a pair of seconds
  Base,       \* 256, the values of a byte
  Ten,        \* 10, the values of a digit
  Width       \* 9, the digits of the nanoseconds

Point == Ten
Minus == Ten + 1

Times == Seconds \X (0 .. Ten ^ Width - 1)

ASSUME NodesAssumption ==
  /\ Ten \in 2 .. Base - 2 /\ Width \in Nat \ {0}
  /\ \A t \in NodeKinds \cup Keys \cup Texts : Range(t) \subseteq 0 .. Base - 1
  /\ \A t \in NodeKinds \cup Keys : Len(t) < Base
  /\ \A t \in Texts : Len(t) < Base * Base
  /\ CtimeKey \in Keys /\ Seconds \subseteq Int

VARIABLES
  kind,    \* PropertyMap.Kind
  props,   \* PropertyMap.Props
  time,    \* history: the ctime, when it is among them
  bytes    \* what Encode returned, empty before

nodeVars == <<kind, props, time, bytes>>

-----------------------------------------------------------------------------
(* Times. *)

Decimal ==
  LET digits[n \in Nat] ==
        IF n < Ten THEN <<n>> ELSE Append(digits[n \div Ten], n % Ten)
  IN digits

Repeat(n, c) == [k \in 1 .. n |-> c]

\* Mutant: the nanoseconds are not filled up with zeros.
FormatBare(t) ==
  (IF t[1] < 0 THEN <<Minus>> \o Decimal[-t[1]] ELSE Decimal[t[1]])
    \o <<Point>> \o Decimal[t[2]]

\* "%d.%09d"
Format(t) ==
  (IF t[1] < 0 THEN <<Minus>> \o Decimal[-t[1]] ELSE Decimal[t[1]])
    \o <<Point>> \o Repeat(Width - Len(Decimal[t[2]]), 0) \o Decimal[t[2]]

(* What may fail returns the set of its results: empty for an error. *)

\* strconv.ParseInt, of digits and an optional sign.
ParseInt(text) ==
  LET signed == text # <<>> /\ Head(text) = Minus
      digits == IF signed THEN Tail(text) ELSE text
      value  == FoldLeft(LAMBDA n, d : n * Ten + d, 0, digits)
  IN IF digits = <<>> \/ ~(Range(digits) \subseteq 0 .. Ten - 1) THEN {}
     ELSE {IF signed THEN -value ELSE value}

\* A fraction of fewer digits than Width counts from the left.
DecodeTimestamp(text) ==
  LET points == {k \in DOMAIN text : text[k] = Point}
      At(k) ==
        {<<sec, nsec * Ten ^ (Width - (Len(text) - k))>> :
           sec \in ParseInt(SubSeq(text, 1, k - 1)),
           nsec \in ParseInt(SubSeq(text, k + 1, Len(text)))}
  IN IF points = {} THEN {<<sec, 0>> : sec \in ParseInt(text)}
     ELSE UNION {At(k) : k \in {k \in points : points = {k} /\ Len(text) - k <= Width}}

-----------------------------------------------------------------------------
(* Property maps. *)

\* sort.Strings
Before(a, b) ==
  LET common == {k \in DOMAIN a \cap DOMAIN b : a[k] # b[k]}
      first  == CHOOSE k \in common : \A l \in common : k <= l
  IN IF common = {} THEN Len(a) < Len(b) ELSE a[first] < b[first]

\* writeString8 and writeString16: the length in one byte or in two.
String8(text)  == <<Len(text)>> \o text
String16(text) == <<Len(text) \div Base, Len(text) % Base>> \o text

Entries(keys, map) ==
  FlattenSeq([k \in DOMAIN keys |-> String8(keys[k]) \o String16(map[keys[k]])])

\* Mutant: the keys are taken as the map hands them out.
EncodingUnsorted(knd, map, keys) == String8(knd) \o Entries(keys, map)

\* Encode, when the map hands out its keys in the order given.
Encoding(knd, map, keys) == String8(knd) \o Entries(SortSeq(keys, Before), map)

\* Orders in which a map may hand out its keys.
Orders(map) == SetToSeqs(DOMAIN map)

\* Mutant: the bytes of a length are swapped.
Length16Swapped(data, k) == data[k] + Base * data[k + 1]

Length16(data, k) == Base * data[k] + data[k + 1]

\* decodeProp: the kind, then properties up to the end of the data; of two values
\* of a property, the later.
Decode(data) ==
  LET Fits(k) == k < Len(data) + 1 /\ k + data[k] <= Len(data)
      from[k \in 1 .. Len(data) + 1] ==
        LET v   == k + data[k] + 1
            end == v + 1 + Length16(data, v)
            map == SubSeq(data, k + 1, v - 1) :> SubSeq(data, v + 2, end)
        IN IF k = Len(data) + 1 THEN {<<>>}
           ELSE IF ~Fits(k) \/ v + 1 > Len(data) \/ end > Len(data) THEN {}
           ELSE {rest @@ map : rest \in from[end + 1]}
  IN IF ~Fits(1) THEN {}
     ELSE {[kind |-> SubSeq(data, 2, 1 + data[1]), props |-> map] : map \in from[2 + data[1]]}

-----------------------------------------------------------------------------
NodesInit ==
  /\ kind \in NodeKinds
  /\ props = <<>> /\ time = <<>>
  /\ bytes = <<>>

\* encodeProps and its callers.
SetProp(key, text) ==
  /\ bytes = <<>> /\ key \notin DOMAIN props \cup {CtimeKey}
  /\ props' = props @@ (key :> text)
  /\ UNCHANGED <<kind, time, bytes>>

SetTime(t) ==
  /\ bytes = <<>> /\ CtimeKey \notin DOMAIN props
  /\ props' = props @@ (CtimeKey :> Format(t))
  /\ time' = t
  /\ UNCHANGED <<kind, bytes>>

Encode ==
  /\ bytes = <<>>
  /\ \E keys \in Orders(props) : bytes' = Encoding(kind, props, keys)
  /\ UNCHANGED <<kind, props, time>>

NodesNext ==
  \/ \E key \in Keys, text \in Texts : SetProp(key, text)
  \/ \E t \in Times : SetTime(t)
  \/ Encode

-----------------------------------------------------------------------------
(* Properties. *)

\* props.go:91: "the same properties will always encode the same way", whatever
\* the order in which a map hands out its keys: equal nodes have equal names.
SameEncoding ==
  bytes # <<>> => \A keys \in Orders(props) : Encoding(kind, props, keys) = bytes

\* decodeProp yields the map that was encoded, so two maps never share a name;
\* data that was cut short is refused, or shows some of the properties as they
\* were, and never others.
ReadsBack ==
  bytes # <<>> =>
    /\ Decode(bytes) = {[kind |-> kind, props |-> props]}
    /\ \A n \in 0 .. Len(bytes) - 1 : \A d \in Decode(SubSeq(bytes, 1, n)) :
         /\ d.kind = kind
         /\ \A key \in DOMAIN d.props : key \in DOMAIN props /\ d.props[key] = props[key]

\* The ctime that a regeneration takes from a node is the one the dump saw, to
\* the nanosecond and before 1970 too; otherwise no row of it would ever match.
TimesExact ==
  bytes # <<>> /\ time # <<>> =>
    \A d \in Decode(bytes) : DecodeTimestamp(d.props[CtimeKey]) = {time}
=============================================================================

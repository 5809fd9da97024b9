--------------------------- MODULE SequenceFacts ---------------------------
(***************************************************************************)
(* Queues as sets of elements: what appending, receiving and building a    *)
(* short list of operations do to the range of a sequence; and induction   *)
(* over the naturals, stated with sets. The proofs of the other modules    *)
(* use queues only through these facts.                                    *)
(***************************************************************************)
EXTENDS Integers, Sequences, Functions, FiniteSetsExt, SequenceTheorems, WellFoundedInduction, TLAPS

\* Appending adds one element.
LEMMA RangeAppend ==
  ASSUME NEW S, NEW s \in Seq(S), NEW e \in S
  PROVE  /\ Append(s, e) \in Seq(S)
         /\ Range(Append(s, e)) = Range(s) \cup {e}
         /\ Len(Append(s, e)) = Len(s) + 1
<1>1. /\ Append(s, e) \in Seq(S)
      /\ Len(Append(s, e)) = Len(s) + 1
      /\ \A i \in 1 .. Len(s) : Append(s, e)[i] = s[i]
      /\ Append(s, e)[Len(s) + 1] = e
  BY AppendProperties
<1>2. Len(s) \in Nat
  BY LenProperties
<1>3. Range(Append(s, e)) = {Append(s, e)[i] : i \in 1 .. (Len(s) + 1)}
  BY <1>1, RangeEquality
<1>4. Range(s) = {s[i] : i \in 1 .. Len(s)}
  BY RangeEquality
<1> QED BY <1>1, <1>2, <1>3, <1>4

\* A non-empty sequence is its head and its tail.
LEMMA RangeTail ==
  ASSUME NEW S, NEW s \in Seq(S), s # <<>>
  PROVE  /\ Head(s) \in S
         /\ Tail(s) \in Seq(S)
         /\ Range(s) = {Head(s)} \cup Range(Tail(s))
         /\ Len(Tail(s)) = Len(s) - 1
<1>1. /\ Head(s) \in S /\ Head(s) = s[1]
      /\ Tail(s) \in Seq(S)
      /\ Len(Tail(s)) = Len(s) - 1
      /\ \A i \in 1 .. Len(Tail(s)) : Tail(s)[i] = s[i + 1]
  BY HeadTailProperties
<1>2. Len(s) \in Nat /\ Len(s) > 0
  BY LenProperties, EmptySeq
<1>3. Range(Tail(s)) = {Tail(s)[i] : i \in 1 .. Len(Tail(s))}
  BY <1>1, RangeEquality
<1>4. Range(s) = {s[i] : i \in 1 .. Len(s)}
  BY RangeEquality
<1>5. ASSUME NEW x \in Range(s) PROVE x \in {Head(s)} \cup Range(Tail(s))
  <2>1. PICK i \in 1 .. Len(s) : x = s[i]
    BY <1>4, <1>5
  <2>2. CASE i = 1
    BY <2>1, <2>2, <1>1
  <2>3. CASE i # 1
    <3>1. i - 1 \in 1 .. Len(Tail(s)) /\ Tail(s)[i - 1] = s[i]
      BY <2>3, <1>1, <1>2
    <3> QED BY <3>1, <2>1, <1>3
  <2> QED BY <2>2, <2>3
<1>6. ASSUME NEW x \in {Head(s)} \cup Range(Tail(s)) PROVE x \in Range(s)
  BY <1>1, <1>2, <1>3, <1>4, <1>6
<1> QED BY <1>1, <1>5, <1>6

\* The short sequences a handler builds.
LEMMA RangeNone == ASSUME NEW S PROVE <<>> \in Seq(S) /\ Range(<<>>) = {}
BY DEF Range

LEMMA RangeOne ==
  ASSUME NEW S, NEW a \in S
  PROVE  <<a>> \in Seq(S) /\ Range(<<a>>) = {a}
BY DEF Range

LEMMA RangeTwo ==
  ASSUME NEW S, NEW a \in S, NEW b \in S
  PROVE  <<a, b>> \in Seq(S) /\ Range(<<a, b>>) = {a, b}
BY DEF Range

LEMMA RangeThree ==
  ASSUME NEW S, NEW a \in S, NEW b \in S, NEW c \in S
  PROVE  <<a, b, c>> \in Seq(S) /\ Range(<<a, b, c>>) = {a, b, c}
BY DEF Range

\* Putting one operation in front of others.
LEMMA RangePrefix ==
  ASSUME NEW S, NEW a \in S, NEW s \in Seq(S)
  PROVE  <<a>> \o s \in Seq(S) /\ Range(<<a>> \o s) = {a} \cup Range(s)
<1>1. <<a>> \in Seq(S) /\ Range(<<a>>) = {a}
  BY RangeOne
<1>2. <<a>> \o s \in Seq(S)
  BY <1>1, ConcatProperties
<1> DEFINE t == <<a>>
<1>3. Range(t \o s) = Range(t) \cup Range(s)
  <2>1. t \in Seq(S)
    BY <1>1
  <2> HIDE DEF t
  <2> QED BY <2>1, RangeConcatenation
<1> QED BY <1>1, <1>2, <1>3

-----------------------------------------------------------------------------
(* Naturals.                                                               *)

\* The order of the naturals is well-founded.
LEMMA NatLessWellFounded == IsWellFoundedOn({ss \in Nat \X Nat : ss[1] < ss[2]}, Nat)
  BY NatLessThanWellFounded DEF OpToRel

\* A set of naturals that has an element has a least one.
LEMMA NatLeast ==
  ASSUME NEW S \in SUBSET Nat, S # {}
  PROVE  \E x \in S : \A y \in S : x <= y
<1> DEFINE R == {ss \in Nat \X Nat : ss[1] < ss[2]}
<1>1. IsWellFoundedOn(R, Nat)
  BY NatLessWellFounded
<1> HIDE DEF R
<1>2. PICK x \in S : \A y \in S : ~ (<<y, x>> \in R)
  BY <1>1, WFMin
<1>3. ASSUME NEW y \in S PROVE x <= y
  <2>1. CASE y < x
    <3>1. <<y, x>> \in R BY <2>1 DEF R
    <3> QED BY <3>1, <1>2
  <2> QED BY <2>1
<1> QED BY <1>3

\* Min of the community modules finds it.
LEMMA MinNat ==
  ASSUME NEW S \in SUBSET Nat, S # {}
  PROVE  Min(S) \in S /\ \A y \in S : Min(S) <= y
BY NatLeast DEF Min

\* Induction: the set of the naturals that satisfy a formula is all of them.
LEMMA SetInduction ==
  ASSUME NEW T, 0 \in T, \A n \in Nat : n \in T => n + 1 \in T
  PROVE  Nat \subseteq T
<1> SUFFICES ASSUME Nat \ T # {} PROVE FALSE
  OBVIOUS
<1>1. PICK m \in Nat \ T : \A k \in Nat \ T : m <= k
  BY NatLeast
<1>2. m - 1 \in Nat /\ m - 1 \in T
  BY <1>1
<1> QED BY <1>2

\* Where the elements of a sequence are after one more.
LEMMA AppendAt ==
  ASSUME NEW S, NEW q \in Seq(S), NEW m \in S
  PROVE  /\ Append(q, m) \in Seq(S) /\ Len(q) \in Nat /\ Len(Append(q, m)) = Len(q) + 1
         /\ \A k \in 1 .. Len(Append(q, m)) :
              \/ k \in 1 .. Len(q) /\ Append(q, m)[k] = q[k]
              \/ k = Len(q) + 1 /\ Append(q, m)[k] = m
<1>1. /\ Append(q, m) \in Seq(S) /\ Len(Append(q, m)) = Len(q) + 1
      /\ \A k \in 1 .. Len(q) : Append(q, m)[k] = q[k]
      /\ Append(q, m)[Len(q) + 1] = m
  BY AppendProperties
<1>2. Len(q) \in Nat BY LenProperties
<1>3. ASSUME NEW k \in 1 .. Len(Append(q, m))
      PROVE  \/ k \in 1 .. Len(q) /\ Append(q, m)[k] = q[k]
             \/ k = Len(q) + 1 /\ Append(q, m)[k] = m
  <2>1. k \in 1 .. Len(q) \/ k = Len(q) + 1 BY <1>1, <1>2
  <2> QED BY <1>1, <2>1
<1> QED BY <1>1, <1>2, <1>3

\* Where they are when the first has been taken.
LEMMA TailAt ==
  ASSUME NEW S, NEW q \in Seq(S), q # <<>>
  PROVE  /\ Tail(q) \in Seq(S) /\ Len(q) \in Nat /\ Len(Tail(q)) = Len(q) - 1
         /\ Head(q) \in S /\ Head(q) = q[1] /\ 1 \in 1 .. Len(q)
         /\ \A k \in 1 .. Len(Tail(q)) : k + 1 \in 1 .. Len(q) /\ Tail(q)[k] = q[k + 1]
<1>1. /\ Tail(q) \in Seq(S) /\ Len(Tail(q)) = Len(q) - 1 /\ Head(q) \in S /\ Head(q) = q[1]
      /\ \A k \in 1 .. Len(Tail(q)) : Tail(q)[k] = q[k + 1]
  BY HeadTailProperties
<1>2. Len(q) \in Nat /\ Len(q) > 0 BY LenProperties, EmptySeq
<1> QED BY <1>1, <1>2

\* A sequence over a set is one over a larger set; one with an element is not empty.
LEMMA SeqSuperset ==
  ASSUME NEW S, NEW T, S \subseteq T
  PROVE  Seq(S) \subseteq Seq(T)
<1>1. ASSUME NEW s \in Seq(S) PROVE s \in Seq(T)
  <2>1. Len(s) \in Nat /\ s = [i \in 1 .. Len(s) |-> s[i]] /\ \A i \in 1 .. Len(s) : s[i] \in S
    BY SeqDef, LenProperties, ElementOfSeq
  <2>2. \A i \in 1 .. Len(s) : s[i] \in T
    BY <2>1
  <2> QED BY <2>1, <2>2, IsASeq
<1> QED BY <1>1

LEMMA LenOneNotEmpty == ASSUME NEW s, Len(s) = 1 PROVE s # <<>>
OBVIOUS

-----------------------------------------------------------------------------
(* Remainders.                                                             *)

\* What a remainder is, and that it is the only one.
LEMMA ModRange ==
  ASSUME NEW C \in Nat \ {0}, NEW x \in Int
  PROVE  x % C \in 0 .. (C - 1) /\ x \div C \in Int /\ x = (x \div C) * C + (x % C)
OBVIOUS

LEMMA ModUnique ==
  ASSUME NEW C \in Nat \ {0}, NEW k \in Int, NEW l \in Int,
         NEW r \in 0 .. (C - 1), NEW s \in 0 .. (C - 1), k * C + r = l * C + s
  PROVE  r = s
<1>1. (k - l) * C = s - r
  OBVIOUS
<1>2. k - l < 1
  <2> SUFFICES ASSUME k - l >= 1 PROVE FALSE
    OBVIOUS
  <2>1. (k - l) * C >= C OBVIOUS
  <2> QED BY <1>1, <2>1
<1>3. l - k < 1
  <2> SUFFICES ASSUME l - k >= 1 PROVE FALSE
    OBVIOUS
  <2>1. (l - k) * C >= C OBVIOUS
  <2>2. (l - k) * C = r - s BY <1>1
  <2> QED BY <2>1, <2>2
<1> QED BY <1>1, <1>2, <1>3

\* The difference of two numbers on the circle is that of their places.
LEMMA ModDifference ==
  ASSUME NEW C \in Nat \ {0}, NEW x \in Int, NEW y \in Int
  PROVE  ((x % C) - (y % C)) % C = (x - y) % C
<1> DEFINE d == (x % C) - (y % C)
           q == (x \div C) - (y \div C)
<1>1. /\ x % C \in Int /\ x \div C \in Int /\ x = (x \div C) * C + (x % C)
      /\ y % C \in Int /\ y \div C \in Int /\ y = (y \div C) * C + (y % C)
  BY ModRange
<1>2. d \in Int /\ q \in Int
  BY <1>1
<1>3. x - y = q * C + d
  <2>1. q * C = (x \div C) * C - (y \div C) * C
    BY <1>1
  <2> QED BY <1>1, <2>1
<1> HIDE DEF d, q
<1>4. /\ d % C \in 0 .. (C - 1) /\ d \div C \in Int /\ d = (d \div C) * C + (d % C)
  BY <1>2, ModRange
<1>5. /\ (x - y) % C \in 0 .. (C - 1) /\ (x - y) \div C \in Int
      /\ x - y = ((x - y) \div C) * C + ((x - y) % C)
  <2>1. x - y \in Int OBVIOUS
  <2> QED BY <2>1, ModRange
<1>6. (q + (d \div C)) * C + (d % C) = ((x - y) \div C) * C + ((x - y) % C)
  <2>1. (q + (d \div C)) * C = q * C + (d \div C) * C
    BY <1>2, <1>4
  <2> QED BY <1>2, <1>3, <1>4, <1>5, <2>1
<1>7. d % C = (x - y) % C
  <2>1. q + (d \div C) \in Int
    BY <1>2, <1>4
  <2> QED BY <2>1, <1>4, <1>5, <1>6, ModUnique
<1> QED BY <1>7 DEF d

\* Places less than half a circle apart.
LEMMA ModNear ==
  ASSUME NEW C \in Nat \ {0}, NEW x \in Int, -C < x, x < C
  PROVE  x % C = IF x < 0 THEN x + C ELSE x
<1>1. /\ x % C \in 0 .. (C - 1) /\ x \div C \in Int /\ x = (x \div C) * C + (x % C)
  BY ModRange
<1>2. CASE x < 0
  <2>1. (x \div C) * C + (x % C) = (-1) * C + (x + C)
    BY <1>1
  <2>2. x + C \in 0 .. (C - 1)
    BY <1>2
  <2>3. x % C = x + C
    BY <1>1, <2>1, <2>2, ModUnique
  <2> QED BY <1>2, <2>3
<1>3. CASE ~ (x < 0)
  <2>1. (x \div C) * C + (x % C) = 0 * C + x
    BY <1>1
  <2>2. x \in 0 .. (C - 1)
    BY <1>3
  <2>3. x % C = x
    BY <1>1, <2>1, <2>2, ModUnique
  <2> QED BY <1>3, <2>3
<1> QED BY <1>2, <1>3
=============================================================================

--------------------------- MODULE PositionsProofs ---------------------------
(***************************************************************************)
(* What Only returns, and the last write of a key in a sequence of writes. *)
(* There is no induction over data: that S has a k-th position is shown by *)
(* the first k for which it would have none.                               *)
(***************************************************************************)
EXTENDS Positions, TLAPS, FiniteSetTheorems, WellFoundedInduction, SequenceTheorems

UpTo(S, p) == {q \in S : q <= p}

\* A nonempty set of natural numbers has a first one.
LEMMA FirstOfSet ==
    ASSUME NEW T, T \subseteq Nat, T # {}
    PROVE  \E x \in T : \A y \in T : x <= y
<1>1. PICK x \in T : \A y \in T : ~(<<y, x>> \in OpToRel(<, Nat))
  BY WFMin, NatLessThanWellFounded
<1>2. \A y \in T : ~(y < x)
  BY <1>1 DEF OpToRel
<1> QED
  BY <1>2

\* A nonempty set of positions has a last one.
LEMMA LastOfPositions ==
    ASSUME NEW b \in Nat, NEW T, T \subseteq 0 .. b, T # {}
    PROVE  \E x \in T : \A y \in T : y <= x
<1> DEFINE D == {b - y : y \in T}
<1>1. D \subseteq Nat /\ D # {}
  <2>1. \A y \in T : b - y \in Nat
    OBVIOUS
  <2>2. PICK y \in T : TRUE
    OBVIOUS
  <2>3. b - y \in D
    OBVIOUS
  <2> QED
    BY <2>1, <2>3
<1>2. PICK d \in D : \A e \in D : ~(<<e, d>> \in OpToRel(<, Nat))
  BY <1>1, WFMin, NatLessThanWellFounded
<1>3. \A e \in D : ~(e < d)
  BY <1>1, <1>2 DEF OpToRel
<1>4. PICK x \in T : d = b - x
  OBVIOUS
<1>5. \A y \in T : y <= x
  BY <1>3, <1>4
<1> QED
  BY <1>5

\* Positions are counted off: no two have the same count.
LEMMA CountIsPosition ==
    ASSUME NEW n \in Nat, NEW S, S \subseteq 1 .. n, NEW x \in S, NEW y \in S,
           Cardinality(UpTo(S, x)) = Cardinality(UpTo(S, y))
    PROVE  x = y
<1>1. IsFiniteSet(1 .. n)
  BY FS_Interval
<1>2. ASSUME NEW a \in S, NEW b \in S, a < b,
             Cardinality(UpTo(S, a)) = Cardinality(UpTo(S, b))
      PROVE  FALSE
  <2>0. /\ \A q \in UpTo(S, b) : q \in 1 .. n
        /\ \A q \in UpTo(S, a) : q \in UpTo(S, b)
    BY <1>2 DEF UpTo
  <2>1. UpTo(S, b) \in SUBSET (1 .. n) /\ UpTo(S, a) \in SUBSET UpTo(S, b)
    BY <2>0, Zenon
  <2>2. IsFiniteSet(UpTo(S, b))
    BY <1>1, <2>1, FS_Subset
  <2>3. UpTo(S, a) = UpTo(S, b)
    BY <1>2, <2>1, <2>2, FS_Subset
  <2>4. b \in UpTo(S, b) /\ b \notin UpTo(S, a)
    BY <1>2 DEF UpTo
  <2> QED
    BY <2>3, <2>4
<1>3. x < y \/ y < x \/ x = y
  OBVIOUS
<1> QED
  BY <1>2, <1>3

\* Every count up to the size of S is that of a position.
LEMMA PositionOfCount ==
    ASSUME NEW n \in Nat, NEW S, S \subseteq 1 .. n, NEW k \in 1 .. Cardinality(S)
    PROVE  \E x \in S : Cardinality(UpTo(S, x)) = k
<1>1. IsFiniteSet(S) /\ Cardinality(S) \in Nat /\ S \subseteq Nat
  <2>1. IsFiniteSet(1 .. n) /\ S \in SUBSET (1 .. n)
    BY FS_Interval
  <2>2. IsFiniteSet(S)
    BY <2>1, FS_Subset, Zenon
  <2>3. Cardinality(S) \in Nat
    BY <2>2, FS_CardinalityType, Zenon
  <2> QED
    BY <2>2, <2>3
<1> DEFINE Missing == {c \in 1 .. Cardinality(S) : \A x \in S : Cardinality(UpTo(S, x)) # c}
<1>2. SUFFICES ASSUME Missing # {} PROVE FALSE
  OBVIOUS
<1>3. PICK c \in Missing : \A d \in Missing : c <= d
  <2>1. Missing \subseteq Nat
    BY <1>1
  <2> HIDE DEF Missing
  <2> QED
    BY <1>2, <2>1, FirstOfSet
<1>4. /\ c \in 1 .. Cardinality(S) /\ c \in Nat
      /\ \A x \in S : Cardinality(UpTo(S, x)) # c
  BY <1>1
\* The positions before: none, or those up to the position of count c - 1.
<1>5. \E U \in SUBSET S : /\ Cardinality(U) = c - 1
                          /\ \A y \in S \ U : \A z \in U : z < y
  <2>1. CASE c = 1
    BY <2>1, FS_EmptySet
  <2>2. CASE c # 1
    <3>1. c - 1 \in 1 .. Cardinality(S) /\ c - 1 \notin Missing
      BY <1>1, <1>3, <1>4, <2>2
    <3>2. PICK x \in S : Cardinality(UpTo(S, x)) = c - 1
      BY <3>1
    <3>3. \A y \in S \ UpTo(S, x) : \A z \in UpTo(S, x) : z < y
      BY <1>1 DEF UpTo
    <3>4. UpTo(S, x) \in SUBSET S
      BY DEF UpTo
    <3> QED
      BY <3>2, <3>3, <3>4
  <2> QED
    BY <2>1, <2>2
<1>6. PICK U \in SUBSET S : /\ Cardinality(U) = c - 1
                            /\ \A y \in S \ U : \A z \in U : z < y
  BY <1>5
<1>7. IsFiniteSet(U) /\ S \ U # {}
  <2>1. IsFiniteSet(U)
    BY <1>1, FS_Subset
  <2>2. c - 1 # Cardinality(S)
    BY <1>1, <1>4
  <2>3. U # S
    BY <1>6, <2>2
  <2> QED
    BY <2>1, <2>3, Zenon
<1>8. PICK y \in S \ U : \A z \in S \ U : y <= z
  <2>1. S \ U \subseteq Nat
    BY <1>1
  <2> QED
    BY <1>7, <2>1, FirstOfSet
<1>9. UpTo(S, y) = U \cup {y}
  <2>1. ASSUME NEW q \in S
        PROVE  q <= y <=> q \in U \/ q = y
    <3>1. q \in Nat /\ y \in Nat
      BY <1>1
    <3>2. q \in U => q < y
      BY <1>6, <1>8
    <3>3. q \notin U => y <= q
      BY <1>8
    <3> QED
      BY <3>1, <3>2, <3>3
  <2>2. U \cup {y} \subseteq S
    OBVIOUS
  <2> QED
    BY <2>1, <2>2, Zenon DEF UpTo
<1>10. Cardinality(UpTo(S, y)) = c
  BY <1>4, <1>6, <1>7, <1>8, <1>9, FS_AddElement
<1> QED
  BY <1>4, <1>8, <1>10

\* Nth finds its position.
LEMMA NthIs ==
    ASSUME NEW n \in Nat, NEW S, S \subseteq 1 .. n, NEW k \in 1 .. Cardinality(S)
    PROVE  Nth(S, k) \in S /\ Cardinality(UpTo(S, Nth(S, k))) = k
<1> DEFINE Count(x) == Cardinality({q \in S : q <= x}) = k
<1>1. \A x \in S : Cardinality(UpTo(S, x)) = k <=> Count(x)
  BY DEF UpTo
<1>2. \E x \in S : Count(x)
  <2>1. \E x \in S : Cardinality(UpTo(S, x)) = k
    BY PositionOfCount, Zenon
  <2> HIDE DEF Count
  <2> QED
    BY <1>1, <2>1
<1>3. Nth(S, k) = CHOOSE x \in S : Count(x)
  BY Zenon DEF Nth
<1> HIDE DEF Count
<1>4. Nth(S, k) \in S /\ Count(Nth(S, k))
  BY <1>2, <1>3, Zenon
<1> QED
  BY <1>1, <1>4, Zenon

\* Only returns as many elements of s as S has positions; if these begin with
\* the first p, it begins with the first p elements.
LEMMA OnlyIs ==
    ASSUME NEW T, NEW s \in Seq(T), NEW S, S \subseteq 1 .. Len(s),
           NEW p \in 0 .. Len(s), 1 .. p \subseteq S
    PROVE  /\ Only(s, S) \in Seq(T) /\ Len(Only(s, S)) = Cardinality(S)
           /\ Cardinality(S) \in Nat /\ p <= Cardinality(S)
           /\ \A k \in 1 .. p : Only(s, S)[k] = s[k]
<1>1. Len(s) \in Nat /\ p \in Nat /\ S \in SUBSET (1 .. Len(s)) /\ 1 .. p \in SUBSET S
  OBVIOUS
<1>2. IsFiniteSet(S) /\ Cardinality(S) \in Nat
  <2>1. IsFiniteSet(1 .. Len(s))
    BY <1>1, FS_Interval
  <2>2. IsFiniteSet(S)
    BY <1>1, <2>1, FS_Subset, Zenon
  <2> QED
    BY <2>2, FS_CardinalityType, Zenon
<1>3. Cardinality(1 .. p) = p
  BY <1>1, FS_Interval
<1>4. p <= Cardinality(S)
  BY <1>1, <1>2, <1>3, FS_Subset
<1>5. ASSUME NEW k \in 1 .. Cardinality(S)
      PROVE  s[Nth(S, k)] \in T
  <2>1. Nth(S, k) \in 1 .. Len(s)
    BY <1>1, NthIs
  <2> QED
    BY <2>1
<1>6. Only(s, S) \in [1 .. Cardinality(S) -> T]
  BY <1>5 DEF Only
<1>7. Only(s, S) \in Seq(T) /\ Len(Only(s, S)) = Cardinality(S)
  BY <1>2, <1>6
<1>8. ASSUME NEW k \in 1 .. p
      PROVE  Only(s, S)[k] = s[k]
  <2>1. k \in S /\ k \in 1 .. Cardinality(S) /\ k \in Nat
    BY <1>1, <1>2, <1>4
  <2>2. UpTo(S, k) = 1 .. k
    <3>1. ASSUME NEW q \in S
          PROVE  q <= k <=> q \in 1 .. k
      BY <1>1, <2>1
    <3>2. ASSUME NEW q \in 1 .. k
          PROVE  q \in S
      <4>1. q \in 1 .. p
        BY <1>1, <2>1
      <4> QED
        BY <4>1
    <3> QED
      BY <3>1, <3>2, Zenon DEF UpTo
  <2>3. Cardinality(UpTo(S, k)) = k
    BY <2>1, <2>2, FS_Interval
  <2>4. Nth(S, k) \in S /\ Cardinality(UpTo(S, Nth(S, k))) = k
    BY <1>1, <2>1, NthIs
  <2>5. Nth(S, k) = k
    BY <1>1, <2>1, <2>3, <2>4, CountIsPosition
  <2> QED
    BY <2>1, <2>5 DEF Only
<1> QED
  BY <1>2, <1>4, <1>7, <1>8

\* The first p positions give the first p elements.
LEMMA OnlyPrefix ==
    ASSUME NEW T, NEW s \in Seq(T), NEW p \in 0 .. Len(s)
    PROVE  /\ Only(s, 1 .. p) \in Seq(T) /\ Len(Only(s, 1 .. p)) = p
           /\ \A k \in 1 .. p : Only(s, 1 .. p)[k] = s[k]
<1>1. 1 .. p \subseteq 1 .. Len(s) /\ p \in Nat
  OBVIOUS
<1>2. Cardinality(1 .. p) = p
  BY <1>1, FS_Interval
<1>3. /\ Only(s, 1 .. p) \in Seq(T) /\ Len(Only(s, 1 .. p)) = Cardinality(1 .. p)
      /\ \A k \in 1 .. p : Only(s, 1 .. p)[k] = s[k]
  BY <1>1, OnlyIs
<1> QED
  BY <1>2, <1>3

\* Without position c, the elements behind it move up by one.
LEMMA OnlyBut ==
    ASSUME NEW T, NEW s \in Seq(T), NEW c \in 1 .. Len(s)
    PROVE  LET u == Only(s, (1 .. Len(s)) \ {c})
           IN  /\ u \in Seq(T) /\ Len(u) = Len(s) - 1
               /\ \A k \in 1 .. Len(s) - 1 : u[k] = IF k < c THEN s[k] ELSE s[k + 1]
<1> DEFINE S == (1 .. Len(s)) \ {c}
<1>1. /\ Len(s) \in Nat /\ c \in Nat /\ S \subseteq 1 .. Len(s)
      /\ c - 1 \in 0 .. Len(s) /\ 1 .. c - 1 \subseteq S
  OBVIOUS
<1>2. Cardinality(S) = Len(s) - 1
  <2>1. IsFiniteSet(1 .. Len(s)) /\ Cardinality(1 .. Len(s)) = Len(s)
    BY <1>1, FS_Interval
  <2> QED
    BY <2>1, FS_RemoveElement
<1> HIDE DEF S
<1>3. /\ Only(s, S) \in Seq(T) /\ Len(Only(s, S)) = Len(s) - 1
      /\ \A k \in 1 .. c - 1 : Only(s, S)[k] = s[k]
  <2>1. /\ Only(s, S) \in Seq(T) /\ Len(Only(s, S)) = Cardinality(S)
        /\ \A k \in 1 .. c - 1 : Only(s, S)[k] = s[k]
    BY <1>1, OnlyIs
  <2> QED
    BY <1>2, <2>1
<1>4. ASSUME NEW k \in 1 .. Len(s) - 1, k >= c
      PROVE  Only(s, S)[k] = s[k + 1]
  <2>1. k \in Nat /\ k + 1 \in S /\ k \in 1 .. Cardinality(S)
    BY <1>1, <1>2, <1>4 DEF S
  <2>2. UpTo(S, k + 1) = (1 .. k + 1) \ {c}
    <3>1. ASSUME NEW q
          PROVE  q \in S /\ q <= k + 1 <=> q \in 1 .. k + 1 /\ q # c
      BY <1>1, <2>1 DEF S
    <3> QED
      BY <3>1, Zenon DEF UpTo
  <2>3. Cardinality((1 .. k + 1) \ {c}) = k
    <3>1. IsFiniteSet(1 .. k + 1) /\ Cardinality(1 .. k + 1) = k + 1
      BY <2>1, FS_Interval
    <3>2. c \in 1 .. k + 1
      BY <1>1, <1>4
    <3>3. Cardinality((1 .. k + 1) \ {c}) = Cardinality(1 .. k + 1) - 1
      BY <3>1, <3>2, FS_RemoveElement, Zenon
    <3> QED
      BY <2>1, <3>1, <3>3
  <2>4. Nth(S, k) \in S /\ Cardinality(UpTo(S, Nth(S, k))) = k
    BY <1>1, <2>1, NthIs
  <2>5. Nth(S, k) = k + 1
    BY <1>1, <2>1, <2>2, <2>3, <2>4, CountIsPosition
  <2> QED
    BY <2>1, <2>5 DEF Only
<1>5. ASSUME NEW k \in 1 .. Len(s) - 1
      PROVE  Only(s, S)[k] = IF k < c THEN s[k] ELSE s[k + 1]
  <2>1. CASE k < c
    <3>1. k \in 1 .. c - 1
      BY <1>1, <2>1
    <3> QED
      BY <1>3, <2>1, <3>1
  <2>2. CASE k >= c /\ ~(k < c)
    BY <1>4, <2>2
  <2> QED
    BY <1>1, <2>1, <2>2
<1> QED
  BY <1>3, <1>5 DEF S

-----------------------------------------------------------------------------
(* The last write of a key in a sequence of writes.                        *)

Writes(s, k) == {q \in DOMAIN s : s[q].key = k}

LastWrite(s, k) ==
    s[CHOOSE q \in Writes(s, k) : \A p \in Writes(s, k) : p <= q].value

\* It is the write that no later one follows.
LEMMA LastWriteIs ==
    ASSUME NEW T, NEW s \in Seq(T), NEW k, NEW x \in Writes(s, k),
           \A p \in Writes(s, k) : p <= x
    PROVE  LastWrite(s, k) = s[x].value
<1> DEFINE y == CHOOSE q \in Writes(s, k) : \A p \in Writes(s, k) : p <= q
<1>1. y \in Writes(s, k) /\ \A p \in Writes(s, k) : p <= y
  OBVIOUS
<1>2. x \in Nat /\ y \in Nat
  BY <1>1 DEF Writes
<1>3. x <= y /\ y <= x
  BY <1>1
<1>4. x = y
  <2> HIDE DEF y
  <2> QED
    BY <1>2, <1>3
<1> QED
  BY <1>4 DEF LastWrite

LEMMA LastWriteExists ==
    ASSUME NEW T, NEW s \in Seq(T), NEW k, Writes(s, k) # {}
    PROVE  \E x \in Writes(s, k) : \A p \in Writes(s, k) : p <= x
<1>1. Writes(s, k) \subseteq 0 .. Len(s) /\ Len(s) \in Nat
  BY DEF Writes
<1> QED
  BY <1>1, LastOfPositions

\* Later writes hide earlier ones, key by key.
LEMMA LastWriteAppend ==
    ASSUME NEW T, NEW s \in Seq(T), NEW t \in Seq(T), NEW k
    PROVE  /\ Writes(s \o t, k) = {} <=> Writes(s, k) = {} /\ Writes(t, k) = {}
           /\ Writes(t, k) # {} => LastWrite(s \o t, k) = LastWrite(t, k)
           /\ Writes(t, k) = {} /\ Writes(s, k) # {}
              => LastWrite(s \o t, k) = LastWrite(s, k)
<1> DEFINE u == s \o t
<1>1. /\ u \in Seq(T) /\ Len(u) = Len(s) + Len(t) /\ Len(s) \in Nat /\ Len(t) \in Nat
      /\ DOMAIN u = 1 .. Len(s) + Len(t) /\ DOMAIN s = 1 .. Len(s) /\ DOMAIN t = 1 .. Len(t)
      /\ \A q \in 1 .. Len(s) : u[q] = s[q]
      /\ \A q \in 1 .. Len(t) : u[Len(s) + q] = t[q]
  <2>1. /\ u \in Seq(T) /\ Len(u) = Len(s) + Len(t)
        /\ \A q \in 1 .. Len(s) + Len(t) :
              u[q] = IF q <= Len(s) THEN s[q] ELSE t[q - Len(s)]
    BY ConcatProperties
  <2>2. /\ Len(s) \in Nat /\ Len(t) \in Nat
        /\ DOMAIN s = 1 .. Len(s) /\ DOMAIN t = 1 .. Len(t)
    BY LenProperties
  <2>3. DOMAIN u = 1 .. Len(u)
    BY <2>1, LenProperties
  <2> HIDE DEF u
  <2>4. \A q \in 1 .. Len(s) : q \in 1 .. Len(s) + Len(t) /\ q <= Len(s)
    BY <2>2
  <2>5. \A q \in 1 .. Len(t) : /\ Len(s) + q \in 1 .. Len(s) + Len(t)
                               /\ ~(Len(s) + q <= Len(s)) /\ Len(s) + q - Len(s) = q
    BY <2>2
  <2>6. \A q \in 1 .. Len(s) : u[q] = s[q]
    BY <2>1, <2>4
  <2>7. \A q \in 1 .. Len(t) : u[Len(s) + q] = t[q]
    BY <2>1, <2>5
  <2> QED
    BY <2>1, <2>2, <2>3, <2>6, <2>7
<1> HIDE DEF u
<1>2. \A q \in Writes(s, k) : q \in Writes(u, k)
  BY <1>1 DEF Writes
<1>3. \A q \in Writes(t, k) : Len(s) + q \in Writes(u, k)
  BY <1>1 DEF Writes
<1>4. \A q \in Writes(u, k) : \/ q \in Writes(s, k)
                              \/ q - Len(s) \in Writes(t, k) /\ q > Len(s)
  <2> SUFFICES ASSUME NEW q \in Writes(u, k), q \notin Writes(s, k)
               PROVE  q - Len(s) \in Writes(t, k) /\ q > Len(s)
    OBVIOUS
  <2>1. q \in 1 .. Len(s) + Len(t) /\ u[q].key = k
    BY <1>1 DEF Writes
  <2>2. ~(q \in 1 .. Len(s))
    BY <1>1, <2>1 DEF Writes
  <2>3. q - Len(s) \in 1 .. Len(t) /\ q > Len(s) /\ Len(s) + (q - Len(s)) = q
    BY <1>1, <2>1, <2>2
  <2>4. u[q] = t[q - Len(s)]
    BY <1>1, <2>3
  <2> QED
    BY <1>1, <2>1, <2>3, <2>4 DEF Writes
<1>5. Writes(u, k) = {} <=> Writes(s, k) = {} /\ Writes(t, k) = {}
  BY <1>2, <1>3, <1>4
<1>6. ASSUME Writes(t, k) # {}
      PROVE  LastWrite(u, k) = LastWrite(t, k)
  <2>1. PICK x \in Writes(t, k) : \A p \in Writes(t, k) : p <= x
    BY <1>6, LastWriteExists
  <2>2. x \in 1 .. Len(t)
    BY <1>1 DEF Writes
  <2>3. ASSUME NEW p \in Writes(u, k)
        PROVE  p <= Len(s) + x
    <3>1. p \in Nat
      BY <1>1 DEF Writes
    <3>2. CASE p \in Writes(s, k)
      BY <1>1, <2>2, <3>2 DEF Writes
    <3>3. CASE p - Len(s) \in Writes(t, k)
      <4>1. p - Len(s) <= x
        BY <2>1, <3>3
      <4> QED
        BY <1>1, <2>2, <3>1, <4>1
    <3> QED
      BY <1>4, <3>2, <3>3
  <2>4. LastWrite(u, k) = u[Len(s) + x].value
    <3>1. Len(s) + x \in Writes(u, k)
      BY <1>3
    <3> QED
      BY <1>1, <2>3, <3>1, LastWriteIs
  <2>5. LastWrite(t, k) = t[x].value
    BY <2>1, LastWriteIs
  <2> QED
    BY <1>1, <2>2, <2>4, <2>5
<1>7. ASSUME Writes(t, k) = {}, Writes(s, k) # {}
      PROVE  LastWrite(u, k) = LastWrite(s, k)
  <2>1. PICK x \in Writes(s, k) : \A p \in Writes(s, k) : p <= x
    BY <1>7, LastWriteExists
  <2>2. \A p \in Writes(u, k) : p <= x
    BY <1>4, <1>7, <2>1
  <2>3. LastWrite(u, k) = u[x].value
    BY <1>1, <1>2, <2>2, LastWriteIs
  <2>4. LastWrite(s, k) = s[x].value
    BY <2>1, LastWriteIs
  <2> QED
    BY <1>1, <2>3, <2>4 DEF Writes
<1> QED
  BY <1>5, <1>6, <1>7 DEF u

=============================================================================

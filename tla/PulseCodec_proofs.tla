---------------------------- MODULE PulseCodec_proofs ----------------------------
(***************************************************************************)
(* What a pulse is played as and known by, for any packets.  The lists of  *)
(* the codec are followed entry by entry: a set of numbers that has zero   *)
(* and, with each number, the next has them all.                           *)
(***************************************************************************)
EXTENDS PulseCodec, WellFoundedInduction, SequenceTheorems, TLAPS

\* Rounding to the nearest: off by half the divisor at most.
LEMMA RoundFacts ==
  ASSUME NEW n \in Nat, NEW d \in Nat, d > 0
  PROVE  /\ RoundHalfToEven(n, d) \in Nat
         /\ 2 * (d * RoundHalfToEven(n, d)) <= 2 * n + d
         /\ 2 * (d * RoundHalfToEven(n, d)) >= 2 * n - d
<1> DEFINE q == n \div d
           m == n % d
           r == RoundHalfToEven(n, d)
<1>1. q \in Int /\ m \in Int /\ m >= 0 /\ m < d /\ n = d * q + m
  OBVIOUS
<1>2. r = q \/ r = q + 1
  BY DEF RoundHalfToEven
<1>3. r = q => 2 * m <= d
  BY <1>1 DEF RoundHalfToEven
<1>4. r = q + 1 => 2 * m >= d
  BY <1>1 DEF RoundHalfToEven
<1>5. q >= 0
  OBVIOUS
<1>6. d * (q + 1) = d * q + d
  BY <1>1
<1> HIDE DEF q, m, r
<1>7. CASE r = q
  BY ONLY <1>1, <1>3, <1>5, <1>7, n \in Nat, d \in Nat DEF r
<1>8. CASE r = q + 1
  <2>1. d * r = n - m + d
    BY ONLY <1>1, <1>6, <1>8, n \in Nat, d \in Nat
  <2> QED
    BY ONLY <1>1, <1>4, <1>5, <1>8, <2>1, n \in Nat, d \in Nat DEF r
<1> QED
  BY <1>2, <1>7, <1>8

-------------------------------------------------------------------------------
(* Induction over the naturals, for a set given by a property, and the     *)
(* functions defined along them.                                           *)

\* A set that has zero and, with each number, the next has all of them.
LEMMA SetInduction ==
  ASSUME NEW T, 0 \in T, \A n \in Nat : n \in T => n + 1 \in T
  PROVE  Nat \subseteq T
<1> DEFINE U == {n \in Nat : n \notin T}
<1> SUFFICES ASSUME U # {} PROVE FALSE
  OBVIOUS
<1>1. U \subseteq Nat
  OBVIOUS
<1>2. \E x \in U : \A y \in U : ~ (<<y, x>> \in OpToRel(<, Nat))
  <2> HIDE DEF U
  <2> QED
    BY <1>1, NatLessThanWellFounded, WFMin
<1>3. PICK x \in U : \A y \in U : ~ (y < x)
  BY <1>1, <1>2 DEF OpToRel
<1>4. x # 0 /\ x - 1 \in Nat /\ x - 1 \notin U
  BY <1>3
<1> QED
  BY <1>4, <1>3

\* The least and the greatest of some positions.
LEMMA Extremes ==
  ASSUME NEW n \in Nat, NEW S \in SUBSET (1 .. n), S # {}
  PROVE  /\ Min(S) \in S /\ \A j \in S : Min(S) <= j
         /\ Max(S) \in S /\ \A j \in S : Max(S) >= j
<1> DEFINE T == {m \in Nat : m <= n /\ S \cap (1 .. m) # {} => \E i \in S : \A j \in S : i <= j}
           U == {m \in Nat : m <= n /\ S \cap (n - m .. n) # {} => \E i \in S : \A j \in S : i >= j}
<1>1. n \in T
  <2>1. 0 \in T
    OBVIOUS
  <2>2. ASSUME NEW m \in Nat, m \in T PROVE m + 1 \in T
    <3>1. SUFFICES ASSUME m + 1 <= n, S \cap (1 .. m + 1) # {}, S \cap (1 .. m) = {}
                   PROVE  \E i \in S : \A j \in S : i <= j
      BY <2>2
    <3>2. m + 1 \in S /\ \A j \in S : m + 1 <= j
      BY <3>1
    <3> QED
      BY <3>2
  <2> HIDE DEF T
  <2> QED
    BY <2>1, <2>2, SetInduction
<1>2. n \in U
  <2>1. 0 \in U
    OBVIOUS
  <2>2. ASSUME NEW m \in Nat, m \in U PROVE m + 1 \in U
    <3>1. SUFFICES ASSUME m + 1 <= n, S \cap (n - (m + 1) .. n) # {}, S \cap (n - m .. n) = {}
                   PROVE  \E i \in S : \A j \in S : i >= j
      BY <2>2
    <3>2. n - (m + 1) \in S /\ \A j \in S : n - (m + 1) >= j
      BY <3>1
    <3> QED
      BY <3>2
  <2> HIDE DEF U
  <2> QED
    BY <2>1, <2>2, SetInduction
<1>3. S \cap (1 .. n) # {} /\ S \cap (n - n .. n) # {}
  <2>1. \A i \in S : i \in 1 .. n /\ i \in n - n .. n
    OBVIOUS
  <2> QED
    BY <2>1
<1>4. (\E i \in S : \A j \in S : i <= j) /\ (\E i \in S : \A j \in S : i >= j)
  BY <1>1, <1>2, <1>3
<1> QED
  BY <1>4 DEF Min, Max

\* f is base first and then, step by step, what next makes of its last value.
IsDefinedBy(f, n, base, next) ==
  f[0] = base /\ \A i \in 1 .. n : f[i] = next[<<i, f[i - 1]>>]

\* A function may be defined by its first value and a step from each to the next.
LEMMA Recursion ==
  ASSUME NEW V, NEW base \in V, NEW n \in Nat, NEW next \in [(1 .. n) \X V -> V]
  PROVE  \E f \in [0 .. n -> V] : IsDefinedBy(f, n, base, next)
<1> DEFINE Upto(m) == \E f \in [0 .. m -> V] :
                        f[0] = base /\ \A i \in 1 .. m : f[i] = next[<<i, f[i - 1]>>]
           T == {m \in Nat : m <= n => Upto(m)}
<1>1. 0 \in T
  <2> DEFINE g == [i \in 0 .. 0 |-> base]
  <2>1. g \in [0 .. 0 -> V] /\ g[0] = base /\ \A i \in 1 .. 0 : g[i] = next[<<i, g[i - 1]>>]
    OBVIOUS
  <2> HIDE DEF g
  <2>2. Upto(0)
    BY <2>1
  <2> QED
    BY <2>2
<1>2. ASSUME NEW m \in Nat, m \in T PROVE m + 1 \in T
  <2>1. SUFFICES ASSUME m + 1 <= n, Upto(m) PROVE Upto(m + 1)
    BY <1>2
  <2>2. PICK f \in [0 .. m -> V] :
               f[0] = base /\ \A i \in 1 .. m : f[i] = next[<<i, f[i - 1]>>]
    BY <2>1
  <2> DEFINE g == [i \in 0 .. m + 1 |-> IF i = m + 1 THEN next[<<m + 1, f[m]>>] ELSE f[i]]
  <2>3. g \in [0 .. m + 1 -> V]
    BY <2>1, <2>2
  <2>4. g[0] = base
    BY <2>2
  <2>5. ASSUME NEW i \in 1 .. m + 1 PROVE g[i] = next[<<i, g[i - 1]>>]
    <3>1. CASE i = m + 1
      <4>1. i - 1 = m /\ g[m] = f[m] /\ g[i] = next[<<m + 1, f[m]>>]
        BY <3>1
      <4> QED
        BY <3>1, <4>1
    <3>2. CASE i # m + 1
      <4>1. i \in 1 .. m /\ i - 1 \in 0 .. m /\ i - 1 # m + 1
        BY <2>5, <3>2
      <4>2. g[i] = f[i] /\ g[i - 1] = f[i - 1]
        BY <3>2, <4>1
      <4> QED
        BY <2>2, <4>1, <4>2
    <3> QED
      BY <3>1, <3>2
  <2> HIDE DEF g
  <2> QED
    BY <2>3, <2>4, <2>5
<1> HIDE DEF T
<1>3. n \in T
  BY <1>1, <1>2, SetInduction
<1> QED
  BY <1>3 DEF T, IsDefinedBy

-------------------------------------------------------------------------------
(* Widths.                                                                 *)

\* The width of a timing, and when it is its value.
LEMMA MagnitudeFacts ==
  ASSUME NEW x \in Int
  PROVE  /\ Magnitude(x) \in Nat /\ (Magnitude(x) = 0 <=> x = 0)
         /\ (x >= 0 => Magnitude(x) = x) /\ (x < 0 => Magnitude(x) = -x)
BY DEF Magnitude

\* f has the widths of every prefix of t.
IsWidths(f, t) ==
  /\ f \in [0 .. Len(t) -> Seq(Nat)]
  /\ f[0] = <<>>
  /\ \A i \in 1 .. Len(t) :
       f[i] = IF t[i] = 0 THEN f[i - 1] ELSE Append(f[i - 1], Magnitude(t[i]))

\* The widths of a list are built up as Widths says.
LEMMA WidthsFacts ==
  ASSUME NEW t \in Seq(Int)
  PROVE  \E f : IsWidths(f, t) /\ Widths(t) = f[Len(t)]
<1> DEFINE n == Len(t)
           upTo == CHOOSE f : f = [i \in 0 .. n |->
                     IF i = 0 THEN <<>>
                     ELSE IF t[i] = 0 THEN f[i - 1] ELSE Append(f[i - 1], Magnitude(t[i]))]
           next == [p \in (1 .. n) \X Seq(Nat) |->
                      IF t[p[1]] = 0 THEN p[2] ELSE Append(p[2], Magnitude(t[p[1]]))]
<1>1. n \in Nat /\ \A i \in 1 .. n : t[i] \in Int /\ Magnitude(t[i]) \in Nat
  BY MagnitudeFacts
<1>2. next \in [(1 .. n) \X Seq(Nat) -> Seq(Nat)]
  <2>1. ASSUME NEW p \in (1 .. n) \X Seq(Nat)
        PROVE  (IF t[p[1]] = 0 THEN p[2] ELSE Append(p[2], Magnitude(t[p[1]]))) \in Seq(Nat)
    BY <1>1, <2>1
  <2> QED
    BY <2>1
<1>3. <<>> \in Seq(Nat)
  OBVIOUS
<1>4. PICK f \in [0 .. n -> Seq(Nat)] :
             f[0] = <<>> /\ \A i \in 1 .. n : f[i] = next[<<i, f[i - 1]>>]
  <2> DEFINE V == Seq(Nat)
             base == <<>>
  <2>1. n \in Nat /\ base \in V /\ next \in [(1 .. n) \X V -> V]
    BY <1>1, <1>2, <1>3
  <2> HIDE DEF next, n, V, base
  <2>2. \E f \in [0 .. n -> V] : IsDefinedBy(f, n, base, next)
    BY ONLY <2>1, Recursion
  <2> QED
    BY ONLY <2>2 DEF V, base, IsDefinedBy
<1>5. \A i \in 1 .. n : f[i] = IF t[i] = 0 THEN f[i - 1] ELSE Append(f[i - 1], Magnitude(t[i]))
  <2>1. ASSUME NEW i \in 1 .. n
        PROVE  f[i] = IF t[i] = 0 THEN f[i - 1] ELSE Append(f[i - 1], Magnitude(t[i]))
    <3>1. i - 1 \in 0 .. n
      BY <1>1, <2>1
    <3>2. f[i - 1] \in Seq(Nat)
      BY <1>4, <3>1
    <3>3. <<i, f[i - 1]>> \in (1 .. n) \X Seq(Nat)
      BY <3>2
    <3> HIDE DEF n
    <3>4. f[i] = next[<<i, f[i - 1]>>]
      BY <1>4
    <3> QED
      BY ONLY <3>3, <3>4
  <2> QED
    BY <2>1
<1>6. f = [i \in 0 .. n |->
             IF i = 0 THEN <<>>
             ELSE IF t[i] = 0 THEN f[i - 1] ELSE Append(f[i - 1], Magnitude(t[i]))]
  <2> HIDE DEF next, n
  <2>1. f = [i \in 0 .. n |-> f[i]]
    BY <1>4
  <2>2. \A i \in 0 .. n : i # 0 => i \in 1 .. n
    BY <1>1
  <2> QED
    BY <1>4, <1>5, <2>1, <2>2
<1>7. upTo = [i \in 0 .. n |->
                IF i = 0 THEN <<>>
                ELSE IF t[i] = 0 THEN upTo[i - 1] ELSE Append(upTo[i - 1], Magnitude(t[i]))]
  <2> HIDE DEF next, n
  <2> QED
    BY <1>6
<1>8. Widths(t) = upTo[n]
  BY DEF Widths
<1> HIDE DEF upTo, next, n
<1>9. /\ DOMAIN upTo = 0 .. n /\ upTo[0] = <<>>
      /\ \A i \in 1 .. n :
           upTo[i] = IF t[i] = 0 THEN upTo[i - 1] ELSE Append(upTo[i - 1], Magnitude(t[i]))
  <2>1. /\ 0 \in 0 .. n
        /\ \A i \in 1 .. n : i \in 0 .. n /\ i # 0
    BY <1>1
  <2> QED
    BY <1>7, <2>1
<1> DEFINE T == {i \in Nat : i <= n => upTo[i] \in Seq(Nat)}
<1>10. 0 \in T
  BY <1>3, <1>9
<1>11. ASSUME NEW i \in Nat, i \in T PROVE i + 1 \in T
  <2>1. SUFFICES ASSUME i + 1 <= n PROVE upTo[i + 1] \in Seq(Nat)
    OBVIOUS
  <2>2. upTo[i] \in Seq(Nat) /\ i + 1 \in 1 .. n
    BY <1>1, <1>11, <2>1
  <2>3. upTo[i + 1] = IF t[i + 1] = 0 THEN upTo[i] ELSE Append(upTo[i], Magnitude(t[i + 1]))
    BY <1>9, <2>2
  <2> QED
    BY <1>1, <2>2, <2>3
<1>12. Nat \subseteq T
  <2> HIDE DEF T
  <2> QED
    BY <1>10, <1>11, SetInduction
<1>13. upTo \in [0 .. n -> Seq(Nat)]
  <2>1. \A i \in 0 .. n : upTo[i] \in Seq(Nat)
    BY <1>1, <1>12
  <2>2. upTo = [i \in 0 .. n |-> upTo[i]]
    BY <1>7
  <2> QED
    BY <2>1, <2>2
<1> QED
  BY <1>8, <1>9, <1>13 DEF IsWidths, n

\* The widths of two lists agree as far as the lists do.
LEMMA WidthsAgree ==
  ASSUME NEW t \in Seq(Int), NEW u \in Seq(Int), NEW m \in Nat, m <= Len(t), m <= Len(u),
         \A i \in 1 .. m : t[i] = u[i],
         NEW f, IsWidths(f, t), NEW g, IsWidths(g, u)
  PROVE  f[m] = g[m]
<1> DEFINE T == {i \in Nat : i <= m => f[i] = g[i]}
<1>1. 0 \in T
  BY DEF IsWidths
<1>2. ASSUME NEW i \in Nat, i \in T PROVE i + 1 \in T
  <2>1. SUFFICES ASSUME i + 1 <= m PROVE f[i + 1] = g[i + 1]
    OBVIOUS
  <2>2. i + 1 \in 1 .. Len(t) /\ i + 1 \in 1 .. Len(u) /\ i + 1 \in 1 .. m /\ f[i] = g[i]
    BY <1>2, <2>1
  <2>3. /\ f[i + 1] = IF t[i + 1] = 0 THEN f[i] ELSE Append(f[i], Magnitude(t[i + 1]))
        /\ g[i + 1] = IF u[i + 1] = 0 THEN g[i] ELSE Append(g[i], Magnitude(u[i + 1]))
    <3>1. i + 1 - 1 = i
      OBVIOUS
    <3> QED
      BY <2>2, <3>1 DEF IsWidths
  <2> QED
    BY <2>2, <2>3
<1>3. Nat \subseteq T
  <2> HIDE DEF T
  <2> QED
    BY <1>1, <1>2, SetInduction
<1> QED
  BY <1>3

\* Widths are a list of numbers, empty for the empty list.
LEMMA WidthsType ==
  ASSUME NEW t \in Seq(Int)
  PROVE  Widths(t) \in Seq(Nat) /\ (t = <<>> => Widths(t) = <<>>)
<1>1. PICK f : IsWidths(f, t) /\ Widths(t) = f[Len(t)]
  BY WidthsFacts
<1>2. Len(t) \in 0 .. Len(t) /\ (t = <<>> => Len(t) = 0)
  OBVIOUS
<1> QED
  BY <1>1, <1>2 DEF IsWidths

\* One more timing adds its width, unless it is zero.
LEMMA WidthsAppend ==
  ASSUME NEW t \in Seq(Int), NEW x \in Int
  PROVE  Widths(Append(t, x)) = IF x = 0 THEN Widths(t) ELSE Append(Widths(t), Magnitude(x))
<1> DEFINE n == Len(t)
           u == Append(t, x)
<1>1. n \in Nat /\ u \in Seq(Int) /\ Len(u) = n + 1 /\ u[n + 1] = x /\ \A i \in 1 .. n : u[i] = t[i]
  OBVIOUS
<1>2. PICK f : IsWidths(f, t) /\ Widths(t) = f[n]
  BY WidthsFacts
<1> HIDE DEF n, u
<1>3. PICK g : IsWidths(g, u) /\ Widths(u) = g[n + 1]
  BY <1>1, WidthsFacts
<1>4. g[n] = f[n]
  <2>1. n <= Len(t) /\ n <= Len(u) /\ \A i \in 1 .. n : t[i] = u[i]
    BY <1>1 DEF n
  <2>2. IsWidths(f, t) /\ IsWidths(g, u) /\ u \in Seq(Int) /\ n \in Nat
    BY ONLY <1>1, <1>2, <1>3
  <2>3. f[n] = g[n]
    BY ONLY <2>1, <2>2, t \in Seq(Int), WidthsAgree
  <2> QED
    BY ONLY <2>3
<1>5. g[n + 1] = IF x = 0 THEN g[n] ELSE Append(g[n], Magnitude(x))
  <2>1. n + 1 \in 1 .. Len(u) /\ n + 1 - 1 = n
    BY <1>1
  <2> QED
    BY <1>1, <1>3, <2>1 DEF IsWidths
<1> QED
  BY <1>2, <1>3, <1>4, <1>5 DEF u

\* A prefix and the next entry make the next prefix.
LEMMA NextPrefix ==
  ASSUME NEW S, NEW u \in Seq(S), NEW m \in Nat, m + 1 <= Len(u)
  PROVE  /\ SubSeq(u, 1, m) \in Seq(S) /\ Len(SubSeq(u, 1, m)) = m
         /\ u[m + 1] \in S
         /\ SubSeq(u, 1, m + 1) = Append(SubSeq(u, 1, m), u[m + 1])
OBVIOUS

\* Appending to the second of two lists appends to both.
LEMMA ConcatAppend ==
  ASSUME NEW S, NEW a \in Seq(S), NEW b \in Seq(S), NEW x \in S
  PROVE  a \o b \in Seq(S) /\ a \o Append(b, x) = Append(a \o b, x)
<1>1. a \o b \in Seq(S) /\ <<x>> \in Seq(S)
  BY ConcatProperties
<1>2. Append(b, x) = b \o <<x>> /\ Append(a \o b, x) = (a \o b) \o <<x>>
  BY <1>1, AppendIsConcat
<1> QED
  BY <1>1, <1>2, ConcatAssociative

\* The widths of two lists in a row are those of the one and then of the other.
LEMMA WidthsConcat ==
  ASSUME NEW t \in Seq(Int), NEW u \in Seq(Int)
  PROVE  Widths(t \o u) = Widths(t) \o Widths(u)
<1> DEFINE upTo(m) == SubSeq(u, 1, m)
           T == {m \in Nat : m <= Len(u) => Widths(t \o upTo(m)) = Widths(t) \o Widths(upTo(m))}
<1>1. 0 \in T
  <2>1. upTo(0) = <<>> /\ <<>> \in Seq(Int)
    OBVIOUS
  <2>2. Widths(<<>>) = <<>> /\ Widths(t) \in Seq(Nat)
    BY <2>1, WidthsType
  <2>3. t \o <<>> = t /\ Widths(t) \o <<>> = Widths(t)
    BY <2>2, ConcatEmptySeq
  <2> QED
    BY <2>1, <2>2, <2>3
<1>2. ASSUME NEW m \in Nat, m \in T PROVE m + 1 \in T
  <2> SUFFICES ASSUME m + 1 <= Len(u)
               PROVE  Widths(t \o upTo(m + 1)) = Widths(t) \o Widths(upTo(m + 1))
    OBVIOUS
  <2> DEFINE a == upTo(m)
             x == u[m + 1]
  <2>1. a \in Seq(Int) /\ x \in Int /\ upTo(m + 1) = Append(a, x)
    BY NextPrefix
  <2>2. Widths(t \o a) = Widths(t) \o Widths(a)
    BY <1>2
  <2> HIDE DEF a, x
  <2>3. t \o a \in Seq(Int) /\ t \o Append(a, x) = Append(t \o a, x)
    <3>1. t \in Seq(Int) /\ a \in Seq(Int) /\ x \in Int
      BY <2>1
    <3> QED
      BY ONLY <3>1, ConcatAppend
  <2>4. /\ Widths(t) \in Seq(Nat) /\ Widths(a) \in Seq(Nat)
        /\ Widths(Append(a, x)) = IF x = 0 THEN Widths(a) ELSE Append(Widths(a), Magnitude(x))
        /\ Widths(Append(t \o a, x))
             = IF x = 0 THEN Widths(t \o a) ELSE Append(Widths(t \o a), Magnitude(x))
    BY <2>1, <2>3, WidthsType, WidthsAppend
  <2>5. Magnitude(x) \in Nat
    BY <2>1, MagnitudeFacts
  <2>6. Widths(t) \o Append(Widths(a), Magnitude(x)) = Append(Widths(t) \o Widths(a), Magnitude(x))
    BY ONLY <2>4, <2>5, ConcatAppend, SMTT(30)
  <2> QED
    BY <2>1, <2>2, <2>3, <2>4, <2>6
<1>3. Nat \subseteq T
  <2> HIDE DEF T
  <2> QED
    BY <1>1, <1>2, SetInduction
<1>4. upTo(Len(u)) = u /\ Len(u) \in Nat
  OBVIOUS
<1>5. Len(u) \in T
  <2> HIDE DEF T
  <2> QED
    BY <1>3, <1>4
<1>6. Widths(t \o upTo(Len(u))) = Widths(t) \o Widths(upTo(Len(u)))
  BY <1>4, <1>5
<1> HIDE DEF upTo
<1> QED
  BY <1>4, <1>6

\* What has no zeros loses nothing.
LEMMA WidthsOfNonzero ==
  ASSUME NEW u \in Seq(Int), \A i \in 1 .. Len(u) : u[i] # 0
  PROVE  Widths(u) = [i \in 1 .. Len(u) |-> Magnitude(u[i])]
<1> DEFINE upTo(m) == SubSeq(u, 1, m)
           T == {m \in Nat : m <= Len(u) => Widths(upTo(m)) = [i \in 1 .. m |-> Magnitude(u[i])]}
<1>1. 0 \in T
  <2>1. upTo(0) = <<>> /\ <<>> \in Seq(Int)
    OBVIOUS
  <2>2. Widths(<<>>) = <<>>
    BY <2>1, WidthsType
  <2>3. [i \in 1 .. 0 |-> Magnitude(u[i])] = <<>>
    OBVIOUS
  <2> QED
    BY <2>1, <2>2, <2>3
<1>2. ASSUME NEW m \in Nat, m \in T PROVE m + 1 \in T
  <2> SUFFICES ASSUME m + 1 <= Len(u)
               PROVE  Widths(upTo(m + 1)) = [i \in 1 .. m + 1 |-> Magnitude(u[i])]
    OBVIOUS
  <2>1. upTo(m) \in Seq(Int) /\ u[m + 1] \in Int /\ upTo(m + 1) = Append(upTo(m), u[m + 1])
    BY NextPrefix
  <2>2. u[m + 1] # 0 /\ \A i \in 1 .. m + 1 : Magnitude(u[i]) \in Nat
    BY MagnitudeFacts
  <2>3. Widths(upTo(m + 1)) = Append(Widths(upTo(m)), Magnitude(u[m + 1]))
    BY <2>1, <2>2, WidthsAppend
  <2>4. Widths(upTo(m)) = [i \in 1 .. m |-> Magnitude(u[i])]
    BY <1>2
  <2>5. Append([i \in 1 .. m |-> Magnitude(u[i])], Magnitude(u[m + 1]))
          = [i \in 1 .. m + 1 |-> Magnitude(u[i])]
    BY <2>2
  <2> QED
    BY <2>3, <2>4, <2>5
<1>3. Nat \subseteq T
  <2> HIDE DEF T
  <2> QED
    BY <1>1, <1>2, SetInduction
<1>4. upTo(Len(u)) = u /\ Len(u) \in Nat
  OBVIOUS
<1>5. Len(u) \in T
  <2> HIDE DEF T
  <2> QED
    BY <1>3, <1>4
<1>6. Widths(upTo(Len(u))) = [i \in 1 .. Len(u) |-> Magnitude(u[i])]
  BY <1>4, <1>5
<1> HIDE DEF upTo
<1> QED
  BY <1>4, <1>6

-------------------------------------------------------------------------------
(* What is dropped at the ends.                                            *)

\* A position that no other precedes, or follows, is the least, or the greatest.
LEMMA ExtremesAre ==
  ASSUME NEW n \in Nat, NEW S \in SUBSET (1 .. n), NEW i \in S
  PROVE  /\ (\A j \in S : i <= j) => Min(S) = i
         /\ (\A j \in S : i >= j) => Max(S) = i
<1>1. S # {}
  OBVIOUS
<1>2. Min(S) \in S /\ (\A j \in S : Min(S) <= j) /\ Max(S) \in S /\ \A j \in S : Max(S) >= j
  BY <1>1, Extremes
<1>3. Min(S) \in 1 .. n /\ Max(S) \in 1 .. n /\ i \in 1 .. n
  BY <1>2
<1>4. ASSUME \A j \in S : i <= j PROVE Min(S) = i
  <2>1. i <= Min(S) /\ Min(S) <= i
    BY <1>2, <1>4
  <2> QED
    BY ONLY <2>1, <1>3, n \in Nat
<1>5. ASSUME \A j \in S : i >= j PROVE Max(S) = i
  <2>1. i >= Max(S) /\ Max(S) >= i
    BY <1>2, <1>5
  <2> QED
    BY ONLY <2>1, <1>3, n \in Nat
<1> QED
  BY <1>4, <1>5

\* What is left when the ends are dropped, entry by entry.
LEMMA StrippedFacts ==
  ASSUME NEW S, NEW s \in Seq(S), NEW kept \in SUBSET (1 .. Len(s)), kept # {}
  PROVE  /\ Min(kept) \in kept /\ Max(kept) \in kept /\ Min(kept) <= Max(kept)
         /\ \A i \in kept : Min(kept) <= i /\ i <= Max(kept)
         /\ Stripped(s, kept) \in Seq(S)
         /\ Len(Stripped(s, kept)) = Max(kept) - Min(kept) + 1
         /\ \A i \in 1 .. Max(kept) - Min(kept) + 1 : Stripped(s, kept)[i] = s[Min(kept) + i - 1]
<1> DEFINE a == Min(kept)
           b == Max(kept)
<1>1. a \in kept /\ (\A i \in kept : a <= i) /\ b \in kept /\ \A i \in kept : b >= i
  <2>1. Len(s) \in Nat /\ kept \in SUBSET (1 .. Len(s)) /\ kept # {}
    OBVIOUS
  <2> QED
    BY ONLY <2>1, Extremes
<1> HIDE DEF a, b
<1>2. a \in 1 .. Len(s) /\ b \in 1 .. Len(s) /\ a <= b
  BY <1>1
<1>3. Stripped(s, kept) = SubSeq(s, a, b)
  BY DEF Stripped, a, b
<1>4. /\ SubSeq(s, a, b) \in Seq(S) /\ Len(SubSeq(s, a, b)) = b - a + 1
      /\ \A i \in 1 .. b - a + 1 : SubSeq(s, a, b)[i] = s[a + i - 1]
  BY <1>2
<1> QED
  BY <1>1, <1>2, <1>3, <1>4 DEF a, b

\* Where a list of widths is no gap, and what is left of it without the gaps at its ends.
Busy(w) == {i \in DOMAIN w : w[i] < GapThreshold}
Trimmed(w) == Stripped(w, Busy(w))

\* Gaps before and after make no difference.
LEMMA TrimmedInside ==
  ASSUME NEW a \in Seq(Nat), NEW x \in Seq(Nat), NEW b \in Seq(Nat),
         \A i \in 1 .. Len(a) : ~(a[i] < GapThreshold),
         \A i \in 1 .. Len(b) : ~(b[i] < GapThreshold)
  PROVE  Trimmed(a \o x \o b) = Trimmed(x)
<1> DEFINE w == a \o x \o b
           la == Len(a)
           lx == Len(x)
           lb == Len(b)
<1>1. la \in Nat /\ lx \in Nat /\ lb \in Nat
  OBVIOUS
<1>2. /\ w \in Seq(Nat) /\ Len(w) = la + lx + lb
      /\ \A i \in 1 .. la : w[i] = a[i]
      /\ \A i \in 1 .. lx : w[la + i] = x[i]
      /\ \A i \in 1 .. lb : w[la + lx + i] = b[i]
  OBVIOUS
<1>3. DOMAIN w = 1 .. la + lx + lb /\ DOMAIN x = 1 .. lx
  BY <1>2
<1> HIDE DEF w, la, lx, lb
<1>4. ASSUME NEW i \in Busy(x) PROVE la + i \in Busy(w)
  BY <1>1, <1>2, <1>3, SMTT(30) DEF Busy
<1>5. ASSUME NEW i \in Busy(w) PROVE i - la \in Busy(x)
  <2>1. i \in 1 .. la + lx + lb /\ w[i] < GapThreshold
    BY <1>3 DEF Busy
  <2>2. CASE i <= la
    <3>1. i \in 1 .. la
      BY ONLY <1>1, <2>1, <2>2
    <3>2. w[i] = a[i]
      BY ONLY <1>2, <3>1
    <3>3. ~(a[i] < GapThreshold)
      BY <3>1 DEF la
    <3> QED
      BY ONLY <2>1, <3>2, <3>3
  <2>3. CASE i > la /\ i <= la + lx
    <3>1. i - la \in 1 .. lx /\ la + (i - la) = i
      BY <1>1, <2>1, <2>3
    <3> QED
      BY <1>2, <1>3, <2>1, <3>1 DEF Busy
  <2>4. CASE i > la + lx
    <3>1. i - (la + lx) \in 1 .. lb /\ la + lx + (i - (la + lx)) = i
      BY <1>1, <2>1, <2>4
    <3> QED
      BY <1>2, <2>1, <3>1 DEF lb
  <2>5. i <= la \/ (i > la /\ i <= la + lx) \/ i > la + lx
    BY ONLY <1>1, <2>1
  <2> QED
    BY <2>2, <2>3, <2>4, <2>5
<1>6. Busy(x) \in SUBSET (1 .. lx) /\ Busy(w) \in SUBSET (1 .. la + lx + lb)
  BY <1>3 DEF Busy
<1>7. CASE Busy(x) = {}
  <2>1. Busy(w) = {}
    BY <1>5, <1>7
  <2> QED
    BY <1>7, <2>1 DEF Trimmed, Stripped, w
<1>8. CASE Busy(x) # {}
  <2> DEFINE first == Min(Busy(x))
             last == Max(Busy(x))
  <2>1. /\ first \in Busy(x) /\ last \in Busy(x) /\ first <= last
        /\ \A i \in Busy(x) : first <= i /\ i <= last
        /\ Trimmed(x) \in Seq(Nat) /\ Len(Trimmed(x)) = last - first + 1
        /\ \A i \in 1 .. last - first + 1 : Trimmed(x)[i] = x[first + i - 1]
    BY <1>6, <1>8, StrippedFacts DEF Trimmed, lx
  <2> HIDE DEF first, last
  <2>2. first \in 1 .. lx /\ last \in 1 .. lx
    BY <1>6, <2>1
  <2>3. la + first \in Busy(w) /\ la + last \in Busy(w)
    BY <1>4, <2>1
  <2>4. \A j \in Busy(w) : la + first <= j /\ la + last >= j
    <3> SUFFICES ASSUME NEW j \in Busy(w) PROVE la + first <= j /\ la + last >= j
      OBVIOUS
    <3>1. j - la \in Busy(x) /\ j \in Int
      BY <1>5, <1>6
    <3> QED
      BY <1>1, <2>1, <2>2, <3>1
  <2>5. la + lx + lb \in Nat
    BY <1>1
  <2>6. Min(Busy(w)) = la + first /\ Max(Busy(w)) = la + last
    BY <1>6, <2>3, <2>4, <2>5, ExtremesAre
  <2>7. Busy(w) # {} /\ 1 .. Len(w) = 1 .. la + lx + lb
    BY <1>2, <2>3
  <2>8. /\ Trimmed(w) \in Seq(Nat)
        /\ Len(Trimmed(w)) = Max(Busy(w)) - Min(Busy(w)) + 1
        /\ \A i \in 1 .. Max(Busy(w)) - Min(Busy(w)) + 1 : Trimmed(w)[i] = w[Min(Busy(w)) + i - 1]
    <3>1. w \in Seq(Nat) /\ Busy(w) \in SUBSET (1 .. Len(w)) /\ Busy(w) # {}
      BY <1>2, <1>6, <2>7
    <3> QED
      BY ONLY <3>1, StrippedFacts DEF Trimmed
  <2>9. (la + last) - (la + first) + 1 = last - first + 1
    BY <1>1, <2>2
  <2>10. ASSUME NEW i \in 1 .. last - first + 1 PROVE Trimmed(w)[i] = Trimmed(x)[i]
    <3>1. first + i - 1 \in 1 .. lx /\ la + first + i - 1 = la + (first + i - 1)
      BY <1>1, <2>2
    <3>2. i \in 1 .. Max(Busy(w)) - Min(Busy(w)) + 1
      BY ONLY <2>6, <2>9, <2>10
    <3>3. Trimmed(w)[i] = w[la + first + i - 1]
      BY ONLY <2>6, <2>8, <3>2
    <3> QED
      BY ONLY <1>2, <2>1, <2>10, <3>1, <3>3
  <2>11. Len(Trimmed(w)) = Len(Trimmed(x))
    BY <2>1, <2>6, <2>8, <2>9
  <2> HIDE DEF Trimmed
  <2>12. Trimmed(w) = Trimmed(x)
    BY <2>1, <2>8, <2>10, <2>11, SeqEqual
  <2> QED
    BY <2>12 DEF w
<1> QED
  BY <1>7, <1>8

-------------------------------------------------------------------------------
(* The transmit boundary.                                                  *)

\* Two lists in a row, entry by entry.
LEMMA ConcatFacts ==
  ASSUME NEW S, NEW a \in Seq(S), NEW b \in Seq(S), NEW la, NEW lb, la = Len(a), lb = Len(b)
  PROVE  /\ a \o b \in Seq(S) /\ Len(a \o b) = la + lb
         /\ \A i \in 1 .. la : (a \o b)[i] = a[i]
         /\ \A i \in 1 .. lb : (a \o b)[la + i] = b[i]
OBVIOUS

\* The first entries of a list, and those after them.
LEMMA EndFacts ==
  ASSUME NEW S, NEW s \in Seq(S), NEW k \in 0 .. Len(s)
  PROVE  /\ SubSeq(s, 1, k) \in Seq(S) /\ Len(SubSeq(s, 1, k)) = k
         /\ \A i \in 1 .. k : SubSeq(s, 1, k)[i] = s[i]
         /\ SubSeq(s, k + 1, Len(s)) \in Seq(S) /\ Len(SubSeq(s, k + 1, Len(s))) = Len(s) - k
         /\ \A i \in 1 .. Len(s) - k : SubSeq(s, k + 1, Len(s))[i] = s[k + i]
OBVIOUS

\* What is assumed of the thresholds, one by one.
LEMMA CodecConstants ==
  /\ IdleTrim \in Nat \ {0} /\ TerminatorSpace \in Nat \ {0} /\ GapThreshold \in Nat \ {0}
  /\ HashBin \in Nat \ {0}
  /\ IdleTrim <= TerminatorSpace /\ GapThreshold <= TerminatorSpace
  /\ TerminatorSpace <= 65535
BY CodecAssumption, ThresholdAssumption

\* Where t is not idle.
Kept(t) == {i \in DOMAIN t : Magnitude(t[i]) <= IdleTrim}

\* t is a, then what the trim leaves of it, then b.
LEMMA TrimIdleSplits ==
  ASSUME NEW t \in Seq(Int), Kept(t) # {}
  PROVE  \E a \in Seq(Int), b \in Seq(Int) :
           /\ t = a \o TrimIdle(t) \o b
           /\ \A i \in 1 .. Len(a) : i \in DOMAIN t /\ a[i] = t[i] /\ Magnitude(a[i]) > IdleTrim
           /\ \A i \in 1 .. Len(b) :
                \E j \in DOMAIN t : b[i] = t[j] /\ Magnitude(b[i]) > IdleTrim
<1> DEFINE first == Min(Kept(t))
           last == Max(Kept(t))
           n == Len(t)
           a == SubSeq(t, 1, first - 1)
           b == SubSeq(t, last + 1, n)
           m == TrimIdle(t)
<1>1. n \in Nat /\ DOMAIN t = 1 .. n /\ Kept(t) \in SUBSET (1 .. n)
  BY DEF Kept
<1>2. /\ first \in Kept(t) /\ last \in Kept(t) /\ first <= last
      /\ \A i \in Kept(t) : first <= i /\ i <= last
      /\ m \in Seq(Int) /\ Len(m) = last - first + 1
      /\ \A i \in 1 .. last - first + 1 : m[i] = t[first + i - 1]
  <2>1. t \in Seq(Int) /\ Kept(t) \in SUBSET (1 .. Len(t)) /\ Kept(t) # {}
    BY <1>1
  <2>2. m = Stripped(t, Kept(t))
    BY DEF TrimIdle, Kept
  <2> HIDE DEF m
  <2> QED
    BY ONLY <2>1, <2>2, StrippedFacts
<1> HIDE DEF first, last, m
<1>3. first \in 1 .. n /\ last \in 1 .. n
  BY <1>1, <1>2
<1>4. /\ a \in Seq(Int) /\ Len(a) = first - 1 /\ \A i \in 1 .. first - 1 : a[i] = t[i]
      /\ b \in Seq(Int) /\ Len(b) = n - last /\ \A i \in 1 .. n - last : b[i] = t[last + i]
  <2>1. first - 1 \in 0 .. Len(t) /\ last \in 0 .. Len(t) /\ t \in Seq(Int)
    BY <1>1, <1>3
  <2> QED
    BY ONLY <2>1, EndFacts DEF a, b, n
<1> HIDE DEF a, b, n
<1>5. \A i \in 1 .. n : i < first \/ i > last => Magnitude(t[i]) > IdleTrim
  <2>1. ASSUME NEW i \in 1 .. n, i < first \/ i > last PROVE Magnitude(t[i]) > IdleTrim
    <3>1. i \notin Kept(t)
      BY <1>2, <1>3, <2>1
    <3>2. Magnitude(t[i]) \in Nat
      BY <1>1, MagnitudeFacts
    <3> QED
      BY <1>1, <3>1, <3>2, CodecConstants DEF Kept
  <2> QED
    BY <2>1
<1>6. t = a \o m \o b
  <2>1. a \o m \in Seq(Int) /\ Len(a \o m) = last
        /\ (\A i \in 1 .. first - 1 : (a \o m)[i] = t[i])
        /\ \A i \in first .. last : (a \o m)[i] = t[i]
    <3>1. a \o m \in Seq(Int) /\ Len(a \o m) = (first - 1) + (last - first + 1)
          /\ (\A i \in 1 .. first - 1 : (a \o m)[i] = a[i])
          /\ \A i \in 1 .. last - first + 1 : (a \o m)[(first - 1) + i] = m[i]
      BY ONLY <1>2, <1>4, ConcatFacts, SMTT(30)
    <3>2. (first - 1) + (last - first + 1) = last
      BY <1>1, <1>3
    <3>3. ASSUME NEW i \in first .. last PROVE (a \o m)[i] = t[i]
      <4>1. i - first + 1 \in 1 .. last - first + 1 /\ (first - 1) + (i - first + 1) = i
            /\ first + (i - first + 1) - 1 = i
        BY <1>1, <1>3
      <4> QED
        BY <1>2, <3>1, <4>1, ZenonT(60)
    <3> QED
      BY <1>4, <3>1, <3>2, <3>3
  <2>2. /\ (a \o m) \o b \in Seq(Int) /\ Len((a \o m) \o b) = last + (n - last)
        /\ \A i \in 1 .. last : ((a \o m) \o b)[i] = (a \o m)[i]
        /\ \A i \in 1 .. n - last : ((a \o m) \o b)[last + i] = b[i]
    <3> DEFINE am == a \o m
               lb == n - last
    <3>1. am \in Seq(Int) /\ b \in Seq(Int) /\ last = Len(am) /\ lb = Len(b)
      BY <1>4, <2>1
    <3> HIDE DEF am, lb
    <3>2. /\ am \o b \in Seq(Int) /\ Len(am \o b) = last + lb
          /\ \A i \in 1 .. last : (am \o b)[i] = am[i]
          /\ \A i \in 1 .. lb : (am \o b)[last + i] = b[i]
      BY ONLY <3>1, ConcatFacts
    <3> QED
      BY ONLY <3>2 DEF am, lb
  <2>3. last + (n - last) = n
    BY <1>1, <1>3
  <2>4. ASSUME NEW i \in 1 .. n PROVE ((a \o m) \o b)[i] = t[i]
    <3>1. CASE i <= last
      <4>1. i \in 1 .. last /\ (i \in 1 .. first - 1 \/ i \in first .. last)
        BY <1>1, <1>3, <3>1
      <4> QED
        BY <2>1, <2>2, <4>1
    <3>2. CASE i > last
      <4>1. i - last \in 1 .. n - last /\ last + (i - last) = i
        BY <1>1, <1>3, <3>2
      <4> QED
        BY <1>4, <2>2, <4>1, ZenonT(60)
    <3>3. i <= last \/ i > last
      BY <1>1, <1>3
    <3> QED
      BY <3>1, <3>2, <3>3
  <2>5. Len(t) = n
    BY DEF n
  <2> QED
    BY <2>2, <2>3, <2>4, <2>5, SeqEqual
<1>7. \A i \in 1 .. Len(a) : i \in DOMAIN t /\ a[i] = t[i] /\ Magnitude(a[i]) > IdleTrim
  BY <1>1, <1>3, <1>4, <1>5
<1>8. ASSUME NEW i \in 1 .. Len(b)
      PROVE  \E j \in DOMAIN t : b[i] = t[j] /\ Magnitude(b[i]) > IdleTrim
  <2>1. last + i \in DOMAIN t /\ last + i > last
    BY <1>1, <1>3, <1>4
  <2> QED
    BY <1>1, <1>4, <1>5, <2>1
<1> QED
  BY <1>4, <1>6, <1>7, <1>8 DEF m

\* What is prepared is the trimmed timings, with a terminator unless they end on a space.
LEMMA PreparedIs ==
  ASSUME NEW t \in Seq(Int), Kept(t) # {}
  PROVE  /\ TrimIdle(t) \in Seq(Int) /\ Len(TrimIdle(t)) \in Nat \ {0}
         /\ Magnitude(TrimIdle(t)[Len(TrimIdle(t))]) <= IdleTrim
         /\ Prepared(t) = IF TrimIdle(t)[Len(TrimIdle(t))] >= 0
                          THEN Append(TrimIdle(t), -TerminatorSpace) ELSE TrimIdle(t)
<1> DEFINE m == TrimIdle(t)
           n == Len(m)
           first == Min(Kept(t))
           last == Max(Kept(t))
<1>1. /\ first \in Kept(t) /\ last \in Kept(t) /\ first <= last
      /\ m \in Seq(Int) /\ n = last - first + 1
      /\ \A i \in 1 .. last - first + 1 : m[i] = t[first + i - 1]
  <2>1. t \in Seq(Int) /\ Kept(t) \in SUBSET (1 .. Len(t)) /\ Kept(t) # {}
    BY DEF Kept
  <2>2. m = Stripped(t, Kept(t))
    BY DEF TrimIdle, Kept
  <2> HIDE DEF m
  <2> QED
    BY ONLY <2>1, <2>2, StrippedFacts DEF n, first, last
<1> HIDE DEF first, last
<1>2. first \in 1 .. Len(t) /\ last \in 1 .. Len(t) /\ Magnitude(t[last]) <= IdleTrim
  BY <1>1 DEF Kept
<1> HIDE DEF m, n
<1>3. n \in Nat \ {0} /\ n \in 1 .. last - first + 1 /\ first + n - 1 = last
  BY <1>1, <1>2
<1>4. m[n] = t[last] /\ m[n] \in Int /\ Magnitude(m[n]) <= IdleTrim
  BY <1>1, <1>2, <1>3
<1>5. m # <<>>
  BY <1>3 DEF n
<1>6. m[n] < 0 => Larger(m[n], -TerminatorSpace) = m[n]
  BY <1>4, CodecConstants, MagnitudeFacts DEF Larger
<1>7. [m EXCEPT ![n] = m[n]] = m
  BY <1>1, <1>3
<1>8. Prepared(t) = IF m[n] >= 0 THEN Append(m, -TerminatorSpace) ELSE m
  <2>1. Prepared(t) = IF m[n] >= 0 THEN Append(m, -TerminatorSpace)
                      ELSE [m EXCEPT ![n] = Larger(m[n], -TerminatorSpace)]
    BY <1>5 DEF Prepared, Terminated, Last, m, n
  <2> QED
    BY ONLY <1>4, <1>6, <1>7, <2>1
<1> QED
  BY <1>1, <1>3, <1>4, <1>8 DEF n, m

\* Nothing is prepared of what is idle throughout.
LEMMA NothingPrepared ==
  ASSUME NEW t \in Seq(Int), Kept(t) = {}
  PROVE  Prepared(t) = <<>>
BY DEF Prepared, Terminated, TrimIdle, Stripped, Kept

\* A list with one more entry, and the list again.
LEMMA FrontOfAppend ==
  ASSUME NEW S, NEW s \in Seq(S), NEW x \in S
  PROVE  /\ Front(Append(s, x)) = s
         /\ Append(s, x) \in Seq(S) /\ Len(Append(s, x)) = Len(s) + 1
         /\ Append(s, x)[Len(s) + 1] = x /\ \A i \in 1 .. Len(s) : Append(s, x)[i] = s[i]
<1> DEFINE u == Append(s, x)
           n == Len(s)
<1>1. u \in Seq(S) /\ Len(u) = n + 1 /\ u[n + 1] = x /\ \A i \in 1 .. n : u[i] = s[i]
  OBVIOUS
<1>2. n \in Nat /\ n = (n + 1) - 1
  OBVIOUS
<1> HIDE DEF u, n
<1>3. Front(u) = SubSeq(u, 1, n)
  BY <1>1, <1>2 DEF Front
<1>4. n \in 0 .. Len(u)
  BY <1>1, <1>2
<1>5. SubSeq(u, 1, n) \in Seq(S) /\ Len(SubSeq(u, 1, n)) = n
      /\ \A i \in 1 .. n : SubSeq(u, 1, n)[i] = u[i]
  BY <1>1, <1>4, EndFacts
<1>6. n = Len(s)
  BY DEF n
<1>7. SubSeq(u, 1, n) = s
  BY <1>1, <1>5, <1>6, SeqEqual
<1> QED
  BY <1>1, <1>3, <1>6, <1>7 DEF u, n

\* What is prepared plays the signal of t and ends on a space that fits 16 bits.
LEMMA PreparedPlays ==
  ASSUME NEW t \in Seq(Int), Prepared(t) # <<>>
  PROVE  /\ Front(Prepared(t)) = Signal(t)
         /\ Last(Prepared(t)) < 0 /\ ~IsLong(Last(Prepared(t)))
<1> DEFINE m == TrimIdle(t)
           n == Len(m)
           first == Min(Kept(t))
           last == Max(Kept(t))
<1>1. Kept(t) # {}
  BY NothingPrepared
<1>2. /\ m \in Seq(Int) /\ n \in Nat \ {0} /\ Magnitude(m[n]) <= IdleTrim
      /\ Prepared(t) = IF m[n] >= 0 THEN Append(m, -TerminatorSpace) ELSE m
  BY <1>1, PreparedIs
<1>3. first \in 1 .. Len(t) /\ last \in 1 .. Len(t) /\ first <= last
  <2>1. Len(t) \in Nat /\ Kept(t) \in SUBSET (1 .. Len(t)) /\ Kept(t) # {}
    BY <1>1 DEF Kept
  <2>2. first \in Kept(t) /\ last \in Kept(t) /\ first <= last
    BY ONLY <2>1, Extremes DEF first, last
  <2> QED
    BY <2>1, <2>2
<1>4. m = SubSeq(t, first, last)
  BY <1>1 DEF TrimIdle, Stripped, Kept
<1>5. Signal(t) = SubSeq(t, first, IF t[last] < 0 THEN last - 1 ELSE last)
  BY DEF Signal, Kept
<1> HIDE DEF m, n, first, last
<1>6. n = last - first + 1 /\ \A i \in 1 .. n : m[i] = t[first + i - 1]
  BY <1>3, <1>4 DEF n
<1>7. m[n] = t[last] /\ m[n] \in Int
  <2>1. n \in 1 .. n /\ first + n - 1 = last /\ last \in 1 .. Len(t)
    BY <1>2, <1>3, <1>6
  <2> QED
    BY <1>6, <2>1
<1>8. CASE m[n] >= 0
  <2>1. Prepared(t) = Append(m, -TerminatorSpace) /\ -TerminatorSpace \in Int /\ ~(t[last] < 0)
    BY <1>2, <1>7, <1>8, CodecConstants
  <2>2. Front(Append(m, -TerminatorSpace)) = m
        /\ Last(Append(m, -TerminatorSpace)) = -TerminatorSpace
    BY <1>2, <2>1, FrontOfAppend DEF Last
  <2>3. -TerminatorSpace < 0 /\ ~IsLong(-TerminatorSpace)
    BY CodecConstants DEF IsLong, Magnitude
  <2> QED
    BY <1>4, <1>5, <2>1, <2>2, <2>3
<1>9. CASE m[n] < 0
  <2>1. Prepared(t) = m /\ t[last] < 0
    BY <1>2, <1>7, <1>9
  <2>2. Last(m) = m[n] /\ Front(m) = SubSeq(m, 1, n - 1)
    BY DEF Last, Front, n
  <2>3. ~IsLong(m[n])
    <3>1. Magnitude(m[n]) \in Nat /\ Magnitude(m[n]) <= IdleTrim
      BY ONLY <1>2, <1>7, MagnitudeFacts
    <3>2. IdleTrim \in Nat /\ TerminatorSpace \in Nat /\ IdleTrim <= TerminatorSpace /\ TerminatorSpace <= 65535
      BY ONLY CodecConstants
    <3>3. Magnitude(m[n]) <= 65535
      BY ONLY <3>1, <3>2
    <3> QED
      BY ONLY <3>1, <3>3 DEF IsLong
  <2>4. SubSeq(m, 1, n - 1) = SubSeq(t, first, last - 1)
    <3>1. n - 1 \in 0 .. Len(m) /\ n - 1 = last - first
      BY <1>2, <1>3, <1>6 DEF n
    <3>2. SubSeq(m, 1, n - 1) \in Seq(Int) /\ Len(SubSeq(m, 1, n - 1)) = n - 1
          /\ \A i \in 1 .. n - 1 : SubSeq(m, 1, n - 1)[i] = m[i]
      BY <1>2, <3>1, EndFacts
    <3>3. SubSeq(t, first, last - 1) \in Seq(Int) /\ Len(SubSeq(t, first, last - 1)) = last - first
          /\ \A i \in 1 .. last - first : SubSeq(t, first, last - 1)[i] = t[first + i - 1]
      BY <1>3, SMTT(30)
    <3>4. ASSUME NEW i \in 1 .. n - 1
          PROVE  SubSeq(m, 1, n - 1)[i] = SubSeq(t, first, last - 1)[i]
      <4>1. i \in 1 .. n /\ i \in 1 .. last - first
        BY <1>2, <3>1
      <4> QED
        BY ONLY <1>6, <3>2, <3>3, <4>1, <3>4
    <3> DEFINE u == SubSeq(m, 1, n - 1)
               v == SubSeq(t, first, last - 1)
    <3>5. u \in Seq(Int) /\ v \in Seq(Int) /\ Len(u) = Len(v) /\ \A i \in 1 .. Len(u) : u[i] = v[i]
      BY <3>1, <3>2, <3>3, <3>4
    <3> HIDE DEF u, v
    <3>6. u = v
      BY ONLY <3>5, SeqEqual
    <3> QED
      BY ONLY <3>6 DEF u, v
  <2> QED
    BY <1>5, <1>9, <2>1, <2>2, <2>3, <2>4
<1> QED
  BY <1>7, <1>8, <1>9

\* The hash is taken of the widths between the gaps at the ends.
LEMMA SanitizedIs ==
  ASSUME NEW t \in Seq(Int)
  PROVE  Sanitized(t) = Trimmed(Widths(t))
BY DEF Sanitized, Trimmed, Busy

\* What is prepared has the widths of t between its gaps, unless an end was idle and
\* no gap.
LEMMA SanitizedPrepared ==
  ASSUME NEW t \in Seq(Int), Kept(t) # {},
         \A i \in DOMAIN t : Magnitude(t[i]) \notin IdleTrim + 1 .. GapThreshold - 1
  PROVE  Prepared(t) \in Seq(Int) /\ Sanitized(Prepared(t)) = Sanitized(t)
<1> DEFINE m == TrimIdle(t)
           n == Len(m)
           OnlyGaps(w) == \A i \in 1 .. Len(w) : ~(w[i] < GapThreshold)
<1>1. /\ m \in Seq(Int) /\ n \in Nat \ {0}
      /\ Prepared(t) = IF m[n] >= 0 THEN Append(m, -TerminatorSpace) ELSE m
  BY PreparedIs
<1>2. PICK a \in Seq(Int), b \in Seq(Int) :
         /\ t = a \o m \o b
         /\ \A i \in 1 .. Len(a) : i \in DOMAIN t /\ a[i] = t[i] /\ Magnitude(a[i]) > IdleTrim
         /\ \A i \in 1 .. Len(b) : \E j \in DOMAIN t : b[i] = t[j] /\ Magnitude(b[i]) > IdleTrim
  BY TrimIdleSplits
<1> HIDE DEF m, n
<1>3. ASSUME NEW i \in DOMAIN t, Magnitude(t[i]) > IdleTrim
      PROVE  t[i] # 0 /\ ~(Magnitude(t[i]) < GapThreshold)
  <2>1. Magnitude(t[i]) \in Nat /\ (t[i] = 0 => Magnitude(t[i]) = 0)
    BY <1>3, MagnitudeFacts
  <2>2. Magnitude(t[i]) \notin IdleTrim + 1 .. GapThreshold - 1
    BY <1>3
  <2> QED
    BY ONLY <2>1, <2>2, <1>3, CodecConstants
<1>4. (\A i \in 1 .. Len(a) : a[i] # 0 /\ ~(Magnitude(a[i]) < GapThreshold))
      /\ \A i \in 1 .. Len(b) : b[i] # 0 /\ ~(Magnitude(b[i]) < GapThreshold)
  BY <1>2, <1>3
<1>5. ASSUME NEW u \in Seq(Int),
             \A i \in 1 .. Len(u) : u[i] # 0 /\ ~(Magnitude(u[i]) < GapThreshold)
      PROVE  Widths(u) \in Seq(Nat) /\ OnlyGaps(Widths(u))
  <2>1. Widths(u) = [i \in 1 .. Len(u) |-> Magnitude(u[i])] /\ Widths(u) \in Seq(Nat)
    BY <1>5, WidthsOfNonzero, WidthsType
  <2>2. Len(Widths(u)) = Len(u)
    BY <2>1
  <2> QED
    BY <1>5, <2>1, <2>2
<1>6. /\ Widths(a) \in Seq(Nat) /\ OnlyGaps(Widths(a))
      /\ Widths(b) \in Seq(Nat) /\ OnlyGaps(Widths(b))
      /\ Widths(m) \in Seq(Nat)
  BY <1>1, <1>4, <1>5, WidthsType
<1>7. Widths(t) = Widths(a) \o Widths(m) \o Widths(b)
  <2>1. a \o m \in Seq(Int)
    BY <1>1, ConcatProperties
  <2>2. /\ Widths((a \o m) \o b) = Widths(a \o m) \o Widths(b)
        /\ Widths(a \o m) = Widths(a) \o Widths(m)
    BY <1>1, <2>1, WidthsConcat
  <2> QED
    BY <1>2, <2>2
<1>8. Trimmed(Widths(t)) = Trimmed(Widths(m))
  <2> HIDE DEF OnlyGaps
  <2> DEFINE wa == Widths(a)
             wm == Widths(m)
             wb == Widths(b)
  <2>1. wa \in Seq(Nat) /\ wm \in Seq(Nat) /\ wb \in Seq(Nat)
        /\ (\A i \in 1 .. Len(wa) : ~(wa[i] < GapThreshold))
        /\ \A i \in 1 .. Len(wb) : ~(wb[i] < GapThreshold)
    BY <1>6 DEF OnlyGaps
  <2> HIDE DEF wa, wm, wb
  <2>2. Trimmed(wa \o wm \o wb) = Trimmed(wm)
    BY ONLY <2>1, TrimmedInside
  <2> QED
    BY <1>7, <2>2 DEF wa, wm, wb
<1>9. Trimmed(Widths(Append(m, -TerminatorSpace))) = Trimmed(Widths(m))
  <2> DEFINE wm == Widths(m)
             wt == <<TerminatorSpace>>
             none == <<>>
  <2>1. /\ -TerminatorSpace \in Int /\ -TerminatorSpace # 0
        /\ Magnitude(-TerminatorSpace) = TerminatorSpace
    BY CodecConstants DEF Magnitude
  <2>2. Widths(Append(m, -TerminatorSpace)) = Append(wm, TerminatorSpace)
    BY <1>1, <2>1, WidthsAppend
  <2>3. Append(wm, TerminatorSpace) = none \o wm \o wt
    <3>1. none \o wm = wm /\ Append(wm, TerminatorSpace) = wm \o wt
      BY <1>6, CodecConstants, ConcatEmptySeq, AppendIsConcat
    <3> QED
      BY <3>1
  <2>4. /\ none \in Seq(Nat) /\ wm \in Seq(Nat) /\ wt \in Seq(Nat)
        /\ (\A i \in 1 .. Len(none) : ~(none[i] < GapThreshold))
        /\ \A i \in 1 .. Len(wt) : ~(wt[i] < GapThreshold)
    BY <1>6, CodecConstants
  <2> HIDE DEF wm, wt, none
  <2>5. Trimmed(none \o wm \o wt) = Trimmed(wm)
    BY ONLY <2>4, TrimmedInside
  <2> QED
    BY <2>2, <2>3, <2>5 DEF wm
<1>10. Append(m, -TerminatorSpace) \in Seq(Int)
  BY <1>1, CodecConstants
<1> QED
  BY <1>1, <1>8, <1>9, <1>10, SanitizedIs

-------------------------------------------------------------------------------
(* What is learned.                                                        *)

\* The ticks of b from its i-th byte on, if after are those from the next ones.
TicksFrom(b, i, after) ==
  IF b[i] = 0 /\ i + 2 <= Len(b) THEN <<256 * b[i + 1] + b[i + 2]>> \o after[3]
  ELSE <<b[i]>> \o after[1]

\* f has the ticks of every end of b.
IsTicks(f, b) ==
  /\ f = [i \in 1 .. Len(b) + 1 |-> f[i]]
  /\ f[Len(b) + 1] = <<>>
  /\ \A i \in 1 .. Len(b) :
       f[i] = IF b[i] = 0 /\ i + 2 <= Len(b)
              THEN <<256 * b[i + 1] + b[i + 2]>> \o f[i + 3]
              ELSE <<b[i]>> \o f[i + 1]

\* Ticks are numbers.
LEMMA TicksFromType ==
  ASSUME NEW b \in Seq(Nat), NEW i \in 1 .. Len(b),
         NEW after \in Seq(Nat) \X Seq(Nat) \X Seq(Nat)
  PROVE  TicksFrom(b, i, after) \in Seq(Nat)
<1>1. after[3] \in Seq(Nat) /\ after[1] \in Seq(Nat)
  OBVIOUS
<1>2. Len(b) \in Nat /\ \A j \in 1 .. Len(b) : b[j] \in Nat
  OBVIOUS
<1>3. i + 2 <= Len(b) => i + 1 \in 1 .. Len(b) /\ i + 2 \in 1 .. Len(b)
  BY <1>2
<1>4. <<b[i]>> \in Seq(Nat) /\ (i + 2 <= Len(b) => <<256 * b[i + 1] + b[i + 2]>> \in Seq(Nat))
  <2>1. b[i] \in Nat /\ (i + 2 <= Len(b) => 256 * b[i + 1] + b[i + 2] \in Nat)
    <3>1. b[i] \in Nat /\ (i + 2 <= Len(b) => b[i + 1] \in Nat /\ b[i + 2] \in Nat)
      BY <1>2, <1>3
    <3>2. \A x, y \in Nat : 256 * x + y \in Nat
      OBVIOUS
    <3> QED
      BY <3>1, <3>2
  <2> QED
    BY ONLY <2>1
<1> QED
  BY <1>1, <1>4, ConcatProperties DEF TicksFrom

\* There are ticks of every end of a buffer.
LEMMA TicksExist ==
  ASSUME NEW b \in Seq(Nat)
  PROVE  \E f : IsTicks(f, b)
<1> DEFINE n == Len(b)
           V == Seq(Nat) \X Seq(Nat) \X Seq(Nat)
           base == <<<<>>, <<>>, <<>>>>
           next == [p \in (1 .. n) \X V |->
                      <<TicksFrom(b, n + 1 - p[1], p[2]), p[2][1], p[2][2]>>]
<1>1. n \in Nat /\ base \in V
  <2>1. <<>> \in Seq(Nat) /\ n \in Nat
    OBVIOUS
  <2> QED
    BY ONLY <2>1 DEF base, V
<1>2. ASSUME NEW p \in (1 .. n) \X V
      PROVE  <<TicksFrom(b, n + 1 - p[1], p[2]), p[2][1], p[2][2]>> \in V
  <2>1. p[1] \in 1 .. n /\ p[2] \in V /\ n + 1 - p[1] \in 1 .. Len(b)
    BY <1>1, SMTT(30)
  <2>2. TicksFrom(b, n + 1 - p[1], p[2]) \in Seq(Nat)
    BY <2>1, TicksFromType
  <2> QED
    BY <2>1, <2>2
<1>3. next \in [(1 .. n) \X V -> V]
  BY <1>2
<1>4. PICK h \in [0 .. n -> V] : h[0] = base /\ \A k \in 1 .. n : h[k] = next[<<k, h[k - 1]>>]
  <2> HIDE DEF next, n, V, base
  <2>1. \E h \in [0 .. n -> V] : IsDefinedBy(h, n, base, next)
    BY ONLY <1>1, <1>3, Recursion
  <2> QED
    BY ONLY <2>1 DEF IsDefinedBy
<1>5. ASSUME NEW k \in 1 .. n
      PROVE  /\ k - 1 \in 0 .. n /\ k \in 0 .. n
             /\ h[k][1] = TicksFrom(b, n + 1 - k, h[k - 1])
             /\ h[k][2] = h[k - 1][1] /\ h[k][3] = h[k - 1][2]
  <2>1. k - 1 \in 0 .. n /\ k \in 0 .. n
    BY <1>1
  <2>2. h[k - 1] \in V
    BY <1>4, <2>1
  <2> HIDE DEF V, n
  <2>3. <<k, h[k - 1]>> \in (1 .. n) \X V /\ <<k, h[k - 1]>>[1] = k /\ <<k, h[k - 1]>>[2] = h[k - 1]
    BY <2>2
  <2>4. h[k] = <<TicksFrom(b, n + 1 - k, h[k - 1]), h[k - 1][1], h[k - 1][2]>>
    <3> HIDE DEF next
    <3>1. h[k] = next[<<k, h[k - 1]>>]
      BY <1>4
    <3> QED
      BY ONLY <2>3, <3>1 DEF next
  <2> QED
    BY ONLY <2>1, <2>4
<1> DEFINE f == [i \in 1 .. n + 1 |-> h[n + 1 - i][1]]
<1>6. f = [i \in 1 .. n + 1 |-> f[i]] /\ f[n + 1] = <<>>
  <2>1. n + 1 \in 1 .. n + 1 /\ n + 1 - (n + 1) = 0
    BY <1>1
  <2>2. f[n + 1] = h[0][1]
    BY <2>1
  <2> QED
    BY <1>4, <2>2
<1>7. ASSUME NEW i \in 1 .. n
      PROVE  f[i] = IF b[i] = 0 /\ i + 2 <= n
                    THEN <<256 * b[i + 1] + b[i + 2]>> \o f[i + 3]
                    ELSE <<b[i]>> \o f[i + 1]
  <2> DEFINE k == n + 1 - i
  <2>1. k \in 1 .. n /\ n + 1 - k = i /\ i \in 1 .. n + 1 /\ i + 1 \in 1 .. n + 1
        /\ n + 1 - (i + 1) = k - 1
    BY <1>1
  <2>2. f[i] = h[k][1] /\ f[i + 1] = h[k - 1][1]
    BY <2>1
  <2>3. h[k][1] = TicksFrom(b, i, h[k - 1])
    BY <1>5, <2>1
  <2>4. ASSUME i + 2 <= n PROVE h[k - 1][3] = f[i + 3]
    <3>1. /\ k - 1 \in 1 .. n /\ k - 1 - 1 \in 1 .. n /\ i + 3 \in 1 .. n + 1
          /\ n + 1 - (i + 3) = k - 1 - 1 - 1
      BY <1>1, <2>4, SMTT(30)
    <3>2. h[k - 1][3] = h[k - 1 - 1][2] /\ h[k - 1 - 1][2] = h[k - 1 - 1 - 1][1]
      BY <1>5, <3>1
    <3> QED
      BY <3>1, <3>2
  <2> HIDE DEF f, k
  <2> QED
    BY <2>2, <2>3, <2>4 DEF TicksFrom
<1> HIDE DEF f
<1> QED
  BY <1>6, <1>7 DEF IsTicks

\* They are the ones that Ticks has.
LEMMA TicksAre ==
  ASSUME NEW b \in Seq(Nat)
  PROVE  \E f : IsTicks(f, b) /\ Ticks(b) = f[1]
<1> DEFINE n == Len(b)
           from == CHOOSE f : f = [i \in 1 .. n + 1 |->
                     IF i > n THEN <<>>
                     ELSE IF b[i] = 0 /\ i + 2 <= n
                     THEN <<256 * b[i + 1] + b[i + 2]>> \o f[i + 3]
                     ELSE <<b[i]>> \o f[i + 1]]
<1>1. n \in Nat
  OBVIOUS
<1>2. PICK f : IsTicks(f, b)
  BY TicksExist
<1>3. Ticks(b) = from[1]
  BY DEF Ticks
<1> HIDE DEF n
<1>4. f = [i \in 1 .. n + 1 |->
             IF i > n THEN <<>>
             ELSE IF b[i] = 0 /\ i + 2 <= n
             THEN <<256 * b[i + 1] + b[i + 2]>> \o f[i + 3]
             ELSE <<b[i]>> \o f[i + 1]]
  <2>1. ASSUME NEW i \in 1 .. n + 1
        PROVE  f[i] = IF i > n THEN <<>>
                      ELSE IF b[i] = 0 /\ i + 2 <= n
                      THEN <<256 * b[i + 1] + b[i + 2]>> \o f[i + 3]
                      ELSE <<b[i]>> \o f[i + 1]
    <3>1. (i > n /\ i = n + 1) \/ (~(i > n) /\ i \in 1 .. n)
      BY <1>1
    <3> QED
      BY <1>2, <3>1 DEF IsTicks, n
  <2> QED
    BY <1>2, <2>1 DEF IsTicks, n
<1>5. from = [i \in 1 .. n + 1 |->
                IF i > n THEN <<>>
                ELSE IF b[i] = 0 /\ i + 2 <= n
                THEN <<256 * b[i + 1] + b[i + 2]>> \o from[i + 3]
                ELSE <<b[i]>> \o from[i + 1]]
  BY <1>4
<1> HIDE DEF from
<1>6. from = [i \in 1 .. n + 1 |-> from[i]] /\ from[n + 1] = <<>>
  <2>1. n + 1 \in 1 .. n + 1 /\ n + 1 > n
    BY <1>1
  <2> QED
    BY <1>5, <2>1
<1>7. ASSUME NEW i \in 1 .. n
      PROVE  from[i] = IF b[i] = 0 /\ i + 2 <= n
                       THEN <<256 * b[i + 1] + b[i + 2]>> \o from[i + 3]
                       ELSE <<b[i]>> \o from[i + 1]
  <2>1. i \in 1 .. n + 1 /\ ~(i > n)
    BY <1>1
  <2> QED
    BY <1>5, <2>1
<1> QED
  BY <1>3, <1>6, <1>7 DEF IsTicks, n

\* The ticks of a buffer are a list of numbers.
LEMMA TicksType ==
  ASSUME NEW b \in Seq(Nat)
  PROVE  Ticks(b) \in Seq(Nat)
<1> DEFINE n == Len(b)
<1>1. PICK f : IsTicks(f, b) /\ Ticks(b) = f[1]
  BY TicksAre
<1> DEFINE T == {k \in Nat : \A j \in 0 .. k : j <= n => f[n + 1 - j] \in Seq(Nat)}
<1>2. n \in Nat
  OBVIOUS
<1>3. 0 \in T
  <2>1. f[n + 1] = <<>> /\ <<>> \in Seq(Nat)
    BY <1>1, <1>2 DEF IsTicks
  <2>2. \A j \in 0 .. 0 : n + 1 - j = n + 1
    BY <1>2
  <2> QED
    BY <2>1, <2>2
<1>4. ASSUME NEW k \in Nat, k \in T PROVE k + 1 \in T
  <2> SUFFICES ASSUME k + 1 <= n PROVE f[n + 1 - (k + 1)] \in Seq(Nat)
    <3>1. \A j \in 0 .. k + 1 : j \in 0 .. k \/ j = k + 1
      OBVIOUS
    <3> QED
      BY <1>4, <3>1
  <2> DEFINE i == n + 1 - (k + 1)
             after == <<f[i + 1], <<>>, IF i + 2 <= n THEN f[i + 3] ELSE <<>>>>
  <2>1. i \in 1 .. n /\ i + 1 = n + 1 - k /\ k \in 0 .. k /\ k <= n
    BY <1>2
  <2>2. f[i + 1] \in Seq(Nat)
    BY <1>4, <2>1
  <2>3. ASSUME i + 2 <= n PROVE f[i + 3] \in Seq(Nat)
    <3>1. k - 2 \in 0 .. k /\ k - 2 <= n /\ i + 3 = n + 1 - (k - 2)
      BY <1>2, <2>3
    <3> QED
      BY <1>4, <3>1
  <2> HIDE DEF i
  <2>4. after \in Seq(Nat) \X Seq(Nat) \X Seq(Nat)
    <3>1. <<>> \in Seq(Nat) /\ (IF i + 2 <= n THEN f[i + 3] ELSE <<>>) \in Seq(Nat)
      BY <2>3
    <3> QED
      BY ONLY <2>2, <3>1
  <2>5. f[i] = TicksFrom(b, i, after)
    BY <1>1, <2>1 DEF IsTicks, TicksFrom
  <2>6. i \in 1 .. Len(b)
    BY <2>1
  <2>7. TicksFrom(b, i, after) \in Seq(Nat)
    <3> HIDE DEF after
    <3> QED
      BY <2>4, <2>6, TicksFromType
  <2> QED
    BY <2>5, <2>7 DEF i
<1>5. Nat \subseteq T
  <2> HIDE DEF T
  <2> QED
    BY <1>3, <1>4, SetInduction
<1>6. n \in T /\ n \in 0 .. n /\ n + 1 - n = 1
  BY <1>2, <1>5
<1>7. f[n + 1 - n] \in Seq(Nat)
  BY <1>2, <1>6
<1> QED
  BY <1>1, <1>6, <1>7

\* A list of bytes is one of numbers.
LEMMA BytesAreNumbers ==
  ASSUME NEW b \in Seq(0 .. 255)
  PROVE  b \in Seq(Nat)
<1> DEFINE Byte == 0 .. 255
<1>1. Byte \subseteq Nat /\ b \in Seq(Byte)
  OBVIOUS
<1> HIDE DEF Byte
<1>2. Len(b) \in Nat /\ b \in [1 .. Len(b) -> Byte]
  BY ONLY <1>1
<1>3. b \in [1 .. Len(b) -> Nat]
  BY ONLY <1>1, <1>2
<1> QED
  BY ONLY <1>2, <1>3

\* Widths with the signs of their positions are timings, as many.
LEMMA SignedType ==
  ASSUME NEW w \in Seq(Nat)
  PROVE  Signed(w) \in Seq(Int) /\ Len(Signed(w)) = Len(w)
<1> DEFINE n == Len(w)
<1>1. n \in Nat /\ DOMAIN w = 1 .. n /\ \A i \in 1 .. n : w[i] \in Nat
  OBVIOUS
<1>2. Signed(w) = [i \in 1 .. n |-> IF i % 2 = 1 THEN w[i] ELSE -w[i]]
  BY <1>1 DEF Signed
<1>3. \A i \in 1 .. n : (IF i % 2 = 1 THEN w[i] ELSE -w[i]) \in Int
  BY <1>1
<1> HIDE DEF n
<1>4. Signed(w) \in [1 .. n -> Int]
  BY <1>2, <1>3
<1> QED
  BY <1>1, <1>4 DEF n

\* The packed ticks of a packet are its body.
LEMMA PackedTicksOfPacket ==
  ASSUME NEW body \in Seq(Nat), NEW filler \in Seq(Nat)
  PROVE  PackedTicks(Packet(body, filler)) = body
<1> DEFINE n == Len(body)
           head == <<38, 0, n % 256, n \div 256>>
           p == head \o body \o filler
<1>1. n \in Nat /\ n % 256 \in Nat /\ n \div 256 \in Nat /\ (n % 256) + 256 * (n \div 256) = n
  OBVIOUS
<1>2. head \in Seq(Nat) /\ Len(head) = 4 /\ head[3] = n % 256 /\ head[4] = n \div 256
  BY <1>1
<1> HIDE DEF head
<1>3. /\ head \o body \in Seq(Nat) /\ Len(head \o body) = 4 + n
      /\ \A i \in 1 .. 4 : (head \o body)[i] = head[i]
      /\ \A i \in 1 .. n : (head \o body)[4 + i] = body[i]
  <2> DEFINE four == 4
  <2>1. head \in Seq(Nat) /\ body \in Seq(Nat) /\ four = Len(head) /\ n = Len(body)
    BY <1>2
  <2> HIDE DEF n, four
  <2>2. /\ head \o body \in Seq(Nat) /\ Len(head \o body) = four + n
        /\ \A i \in 1 .. four : (head \o body)[i] = head[i]
        /\ \A i \in 1 .. n : (head \o body)[four + i] = body[i]
    BY ONLY <2>1, ConcatFacts
  <2> QED
    BY ONLY <2>2 DEF four
<1>4. /\ p \in Seq(Nat) /\ Len(p) = 4 + n + Len(filler)
      /\ \A i \in 1 .. 4 + n : p[i] = (head \o body)[i]
  <2> DEFINE hb == head \o body
             k == 4 + n
             lf == Len(filler)
  <2>1. hb \in Seq(Nat) /\ filler \in Seq(Nat) /\ k = Len(hb) /\ lf = Len(filler)
    BY <1>3
  <2> HIDE DEF hb, k, lf
  <2>2. hb \o filler \in Seq(Nat) /\ Len(hb \o filler) = k + lf
        /\ \A i \in 1 .. k : (hb \o filler)[i] = hb[i]
    BY ONLY <2>1, ConcatFacts
  <2> QED
    BY ONLY <2>2 DEF hb, k, lf
<1> HIDE DEF p, n
<1>5. p[3] + 256 * p[4] = n
  <2>1. 3 \in 1 .. 4 + n /\ 4 \in 1 .. 4 + n /\ 3 \in 1 .. 4 /\ 4 \in 1 .. 4
    BY <1>1
  <2> QED
    BY <1>1, <1>2, <1>3, <1>4, <2>1, ZenonT(60)
<1>6. SubSeq(p, 5, 4 + n) = body
  <2>1. Len(filler) \in Nat /\ 4 + n <= Len(p)
    BY <1>1, <1>4
  <2>2. SubSeq(p, 5, 4 + n) \in Seq(Nat) /\ Len(SubSeq(p, 5, 4 + n)) = n
        /\ \A i \in 1 .. n : SubSeq(p, 5, 4 + n)[i] = p[4 + i]
    BY <1>1, <1>4, <2>1
  <2>3. \A i \in 1 .. n : 4 + i \in 1 .. 4 + n
    BY <1>1
  <2>4. \A i \in 1 .. n : SubSeq(p, 5, 4 + n)[i] = body[i]
    BY <1>3, <1>4, <2>2, <2>3
  <2>5. n = Len(body)
    BY DEF n
  <2> QED
    BY <2>2, <2>4, <2>5, SeqEqual
<1>7. p[3] \in Nat /\ p[4] \in Nat /\ 4 + p[3] + 256 * p[4] = 4 + n
  <2>1. 3 \in 1 .. 4 + n /\ 4 \in 1 .. 4 + n /\ 3 \in 1 .. 4 /\ 4 \in 1 .. 4
    BY <1>1
  <2>2. p[3] = n % 256 /\ p[4] = n \div 256
    BY <1>2, <1>3, <1>4, <2>1, ZenonT(60)
  <2> QED
    BY ONLY <1>1, <1>5, <2>2
<1>8. Packet(body, filler) = p
  BY DEF Packet, p, head, n
<1> QED
  BY <1>6, <1>7, <1>8 DEF PackedTicks

\* Widths made of ticks are numbers.
LEMMA RoundedType ==
  ASSUME NEW w \in Seq(Nat), NEW c \in Nat, NEW d \in Nat, d > 0
  PROVE  [i \in DOMAIN w |-> RoundHalfToEven(w[i] * c, d)] \in Seq(Nat)
<1>1. Len(w) \in Nat /\ DOMAIN w = 1 .. Len(w) /\ \A i \in 1 .. Len(w) : w[i] \in Nat
  OBVIOUS
<1>2. \A x \in Nat : x * c \in Nat
  OBVIOUS
<1>3. \A i \in 1 .. Len(w) : RoundHalfToEven(w[i] * c, d) \in Nat
  BY <1>1, <1>2, RoundFacts
<1>4. [i \in 1 .. Len(w) |-> RoundHalfToEven(w[i] * c, d)] \in [1 .. Len(w) -> Nat]
  BY <1>3
<1> QED
  BY <1>1, <1>4

\* What is learned of a packet is a list of timings.
LEMMA DecodedType ==
  ASSUME NEW body \in Bodies, NEW filler \in {<<>>, <<0, 0>>}
  PROVE  DecodeIr(Packet(body, filler)) \in Seq(Int) /\ DecodeRf(Packet(body, filler)) \in Seq(Int)
<1> DEFINE ticks == Ticks(body)
<1>1. body \in Seq(Nat) /\ filler \in Seq(Nat)
  <2>1. body \in Seq(0 .. 255)
    BY CodecAssumption
  <2>2. <<>> \in Seq(Nat) /\ <<0, 0>> \in Seq(Nat)
    OBVIOUS
  <2> QED
    BY <2>1, <2>2, BytesAreNumbers
<1>2. PackedTicks(Packet(body, filler)) = body /\ ticks \in Seq(Nat)
  BY <1>1, PackedTicksOfPacket, TicksType
<1> HIDE DEF ticks
<1>3. [i \in DOMAIN ticks |-> RoundHalfToEven(ticks[i] * 8192, 269)] \in Seq(Nat)
      /\ [i \in DOMAIN ticks |-> RoundHalfToEven(ticks[i] * 3284, 100)] \in Seq(Nat)
  <2>1. ticks \in Seq(Nat) /\ 8192 \in Nat /\ 269 \in Nat /\ 269 > 0
        /\ 3284 \in Nat /\ 100 \in Nat /\ 100 > 0
    BY <1>2
  <2> QED
    BY ONLY <2>1, RoundedType
<1>4. /\ DecodeIr(Packet(body, filler))
           = Signed([i \in DOMAIN ticks |-> RoundHalfToEven(ticks[i] * 8192, 269)])
      /\ DecodeRf(Packet(body, filler))
           = Signed([i \in DOMAIN ticks |-> RoundHalfToEven(ticks[i] * 3284, 100)])
  BY <1>2 DEF DecodeIr, DecodeRf, BroadlinkToLirc, ticks
<1> QED
  BY <1>3, <1>4, SignedType

-------------------------------------------------------------------------------
(* Pronto hex.                                                             *)

\* A word of 16 bits takes four digits, and they are its value.
LEMMA HexFacts ==
  ASSUME NEW w \in Nat, w <= 65535
  PROVE  /\ Hex(w) \in Seq(Nat) /\ Len(Hex(w)) = 4
         /\ 4096 * Hex(w)[1] + 256 * Hex(w)[2] + 16 * Hex(w)[3] + Hex(w)[4] = w
<1> DEFINE Fits(n) == w < 16 ^ n /\ (n = 4 \/ w >= 16 ^ (n - 1))
           n == CHOOSE n \in 4 .. 6 : Fits(n)
<1>1. /\ 16 ^ 4 = 65536 /\ 16 ^ 5 = 1048576
      /\ 16 ^ 3 = 4096 /\ 16 ^ 2 = 256 /\ 16 ^ 1 = 16 /\ 16 ^ 0 = 1
  OBVIOUS
<1>2. Fits(4)
  BY <1>1
<1>3. ~Fits(5) /\ ~Fits(6)
  <2>1. 5 - 1 = 4 /\ 6 - 1 = 5 /\ 5 # 4 /\ 6 # 4
    OBVIOUS
  <2>2. ~(w >= 65536) /\ ~(w >= 1048576)
    OBVIOUS
  <2> QED
    BY ONLY <1>1, <2>1, <2>2
<1>4. n = 4
  <2> HIDE DEF Fits
  <2>1. n \in 4 .. 6 /\ Fits(n)
    BY <1>2
  <2> QED
    BY <1>3, <2>1
<1>5. Hex(w) = [i \in 1 .. n |-> (w \div 16 ^ (n - i)) % 16]
  BY DEF Hex
<1> HIDE DEF n
<1>6. Hex(w) = [i \in 1 .. 4 |-> (w \div 16 ^ (4 - i)) % 16]
  BY ONLY <1>4, <1>5
<1>7. /\ Hex(w)[1] = (w \div 4096) % 16 /\ Hex(w)[2] = (w \div 256) % 16
      /\ Hex(w)[3] = (w \div 16) % 16 /\ Hex(w)[4] = w % 16
  <2>1. 4 - 1 = 3 /\ 4 - 2 = 2 /\ 4 - 3 = 1 /\ 4 - 4 = 0 /\ w \div 1 = w
    OBVIOUS
  <2>2. 1 \in 1 .. 4 /\ 2 \in 1 .. 4 /\ 3 \in 1 .. 4 /\ 4 \in 1 .. 4
    OBVIOUS
  <2> QED
    BY ONLY <1>1, <1>6, <2>1, <2>2
<1>8. /\ (w \div 4096) % 16 \in Nat /\ (w \div 256) % 16 \in Nat
      /\ (w \div 16) % 16 \in Nat /\ w % 16 \in Nat
  OBVIOUS
<1>9. Hex(w) \in [1 .. 4 -> Nat]
  <2>1. \A i \in 1 .. 4 : i = 1 \/ i = 2 \/ i = 3 \/ i = 4
    OBVIOUS
  <2>2. \A i \in 1 .. 4 : Hex(w)[i] \in Nat
    BY ONLY <1>7, <1>8, <2>1
  <2>3. Hex(w) = [i \in 1 .. 4 |-> Hex(w)[i]]
    BY ONLY <1>6
  <2> QED
    BY ONLY <2>2, <2>3
<1>10. 4096 * ((w \div 4096) % 16) + 256 * ((w \div 256) % 16)
         + 16 * ((w \div 16) % 16) + (w % 16) = w
  OBVIOUS
<1>11. Hex(w) \in Seq(Nat) /\ Len(Hex(w)) = 4
  BY <1>9, SMTT(30)
<1> QED
  BY ONLY <1>7, <1>10, <1>11

\* f has the words of ss put together, up to each of them.
IsFlattened(f, ss) ==
  /\ f = [i \in 1 .. Len(ss) |-> f[i]]
  /\ f[1] = ss[1]
  /\ \A i \in 2 .. Len(ss) : f[i] = f[i - 1] \o ss[i]

\* There are the lists that are put together up to each.
LEMMA FlattenExists ==
  ASSUME NEW ss \in Seq(Seq(Nat)), Len(ss) > 0
  PROVE  \E f : IsFlattened(f, ss)
<1> DEFINE n == Len(ss)
           V == Seq(Nat)
           m == n - 1
           base == ss[1]
           next == [p \in (1 .. m) \X V |-> p[2] \o ss[p[1] + 1]]
<1>1. n \in Nat /\ m \in Nat /\ base \in V /\ \A i \in 1 .. n : ss[i] \in V
  OBVIOUS
<1>2. next \in [(1 .. m) \X V -> V]
  <2>1. ASSUME NEW p \in (1 .. m) \X V PROVE p[2] \o ss[p[1] + 1] \in V
    <3>1. p[2] \in V /\ p[1] + 1 \in 1 .. n
      BY <1>1
    <3>2. ss[p[1] + 1] \in V
      BY <1>1, <3>1
    <3> QED
      BY <3>1, <3>2, ConcatProperties
  <2> QED
    BY <2>1
<1>3. PICK h \in [0 .. m -> V] : h[0] = base /\ \A k \in 1 .. m : h[k] = next[<<k, h[k - 1]>>]
  <2> HIDE DEF next, m, V, base
  <2>1. \E h \in [0 .. m -> V] : IsDefinedBy(h, m, base, next)
    BY ONLY <1>1, <1>2, Recursion
  <2> QED
    BY ONLY <2>1 DEF IsDefinedBy
<1> DEFINE f == [i \in 1 .. n |-> h[i - 1]]
<1>4. f[1] = ss[1]
  <2>1. 1 \in 1 .. n /\ 1 - 1 = 0
    BY <1>1
  <2> QED
    BY <1>3, <2>1
<1>5. ASSUME NEW i \in 2 .. n PROVE f[i] = f[i - 1] \o ss[i]
  <2> DEFINE k == i - 1
  <2>1. i \in 1 .. n /\ i - 1 \in 1 .. n /\ k \in 1 .. m /\ k - 1 \in 0 .. m /\ k + 1 = i
    BY <1>1
  <2>2. h[k - 1] \in V
    BY <1>3, <2>1
  <2>3. f[i] = h[k] /\ f[i - 1] = h[k - 1]
    BY <2>1
  <2> HIDE DEF m, V, k, f
  <2>4. <<k, h[k - 1]>> \in (1 .. m) \X V
    BY <2>1, <2>2
  <2>5. h[k] = next[<<k, h[k - 1]>>]
    <3> HIDE DEF next
    <3> QED
      BY <1>3, <2>1
  <2>6. h[k] = h[k - 1] \o ss[k + 1]
    BY ONLY <2>4, <2>5
  <2> QED
    BY ONLY <2>1, <2>3, <2>6
<1>6. f = [i \in 1 .. n |-> f[i]]
  OBVIOUS
<1> HIDE DEF f
<1> QED
  BY <1>4, <1>5, <1>6 DEF IsFlattened

\* FlattenSeq has the last of them.
LEMMA FlattenIs ==
  ASSUME NEW ss \in Seq(Seq(Nat)), Len(ss) > 0
  PROVE  \E f : IsFlattened(f, ss) /\ FlattenSeq(ss) = f[Len(ss)]
<1> DEFINE n == Len(ss)
           flatten == CHOOSE f : f = [i \in 1 .. n |-> IF i = 1 THEN ss[i] ELSE f[i - 1] \o ss[i]]
<1>1. n \in Nat /\ n > 0 /\ n # 0
  OBVIOUS
<1>2. PICK f : IsFlattened(f, ss)
  BY FlattenExists
<1>3. FlattenSeq(ss) = flatten[n]
  BY <1>1 DEF FlattenSeq
<1> HIDE DEF n
<1>4. \A i \in 1 .. n : i = 1 \/ (i # 1 /\ i \in 2 .. n)
  BY <1>1
<1>5. f = [i \in 1 .. n |-> IF i = 1 THEN ss[i] ELSE f[i - 1] \o ss[i]]
  <2>1. ASSUME NEW i \in 1 .. n PROVE f[i] = IF i = 1 THEN ss[i] ELSE f[i - 1] \o ss[i]
    BY <1>2, <1>4, <2>1 DEF IsFlattened, n
  <2>2. f = [i \in 1 .. n |-> f[i]]
    BY <1>2 DEF IsFlattened, n
  <2> QED
    BY <2>1, <2>2
<1>6. flatten = [i \in 1 .. n |-> IF i = 1 THEN ss[i] ELSE flatten[i - 1] \o ss[i]]
  BY <1>5
<1> HIDE DEF flatten
<1>7. flatten = [i \in 1 .. n |-> flatten[i]]
  BY <1>6
<1>8. flatten[1] = ss[1]
  <2>1. 1 \in 1 .. n
    BY <1>1
  <2> QED
    BY <1>6, <2>1
<1>9. ASSUME NEW i \in 2 .. n PROVE flatten[i] = flatten[i - 1] \o ss[i]
  <2>1. i \in 1 .. n /\ i # 1
    BY <1>1
  <2> QED
    BY <1>6, <2>1
<1> QED
  BY <1>3, <1>7, <1>8, <1>9 DEF IsFlattened, n

\* Words of four digits each, put together: the k-th of the j-th is in its place.
AreWords(s, ss, n) ==
  /\ s \in Seq(Nat) /\ Len(s) = 4 * n
  /\ \A j \in 1 .. n, k \in 1 .. 4 : s[4 * (j - 1) + k] = ss[j][k]

\* One more word leaves those before it where they are.
LEMMA OneMoreWord ==
  ASSUME NEW ss \in Seq(Seq(Nat)), NEW n \in Nat, n + 1 <= Len(ss), Len(ss[n + 1]) = 4,
         NEW s, AreWords(s, ss, n)
  PROVE  AreWords(s \o ss[n + 1], ss, n + 1)
<1> DEFINE w == ss[n + 1]
           len == 4 * n
           four == 4
           u == s \o w
<1>1. n + 1 \in 1 .. Len(ss)
  OBVIOUS
<1>2. w \in Seq(Nat) /\ s \in Seq(Nat) /\ len = Len(s) /\ four = Len(w)
  BY <1>1 DEF AreWords
<1>3. len + four = 4 * (n + 1) /\ len \in Nat /\ four = 4
  OBVIOUS
<1> HIDE DEF w, len, four
<1>4. /\ u \in Seq(Nat) /\ Len(u) = len + four
      /\ \A i \in 1 .. len : u[i] = s[i]
      /\ \A i \in 1 .. four : u[len + i] = w[i]
  BY ONLY <1>2, ConcatFacts DEF u
<1> HIDE DEF u
<1>5. ASSUME NEW j \in 1 .. n + 1, NEW k \in 1 .. 4
      PROVE  u[4 * (j - 1) + k] = ss[j][k]
  <2>1. CASE j = n + 1
    <3>1. 4 * (j - 1) + k = len + k /\ k \in 1 .. four
      BY <1>3, <2>1 DEF len
    <3> QED
      BY <1>4, <2>1, <3>1 DEF w
  <2>2. CASE j # n + 1
    <3>1. j \in 1 .. n /\ 4 * (j - 1) + k \in 1 .. len
      BY <1>3, <2>2 DEF len
    <3>2. s[4 * (j - 1) + k] = ss[j][k]
      BY <3>1 DEF AreWords
    <3> QED
      BY <1>4, <3>1, <3>2
  <2> QED
    BY <2>1, <2>2
<1>6. AreWords(u, ss, n + 1)
  BY <1>3, <1>4, <1>5 DEF AreWords
<1> QED
  BY <1>6 DEF u, w

\* All the words, put together.
LEMMA FlattenWords ==
  ASSUME NEW ss \in Seq(Seq(Nat)), Len(ss) > 0, \A j \in 1 .. Len(ss) : Len(ss[j]) = 4
  PROVE  AreWords(FlattenSeq(ss), ss, Len(ss))
<1> DEFINE n == Len(ss)
<1>1. n \in Nat /\ n > 0 /\ \A j \in 1 .. n : ss[j] \in Seq(Nat) /\ Len(ss[j]) = 4
  OBVIOUS
<1>2. PICK f : IsFlattened(f, ss) /\ FlattenSeq(ss) = f[n]
  BY FlattenIs
<1> DEFINE T == {i \in Nat : i + 1 <= n => AreWords(f[i + 1], ss, i + 1)}
<1> HIDE DEF n
<1>3. 0 \in T
  <2>1. f[1] = ss[1] /\ ss[1] \in Seq(Nat) /\ Len(ss[1]) = 4
    <3>1. f[1] = ss[1]
      BY <1>2 DEF IsFlattened
    <3>2. 1 \in 1 .. n
      BY <1>1
    <3> QED
      BY ONLY <1>1, <3>1, <3>2
  <2>2. \A j \in 1 .. 1, k \in 1 .. 4 : j = 1 /\ 4 * (j - 1) + k = k
    OBVIOUS
  <2>3. AreWords(f[1], ss, 1)
    BY <2>1, <2>2 DEF AreWords
  <2>4. 0 + 1 = 1
    OBVIOUS
  <2> QED
    BY <2>3, <2>4
<1>4. ASSUME NEW i \in Nat, i \in T PROVE i + 1 \in T
  <2> SUFFICES ASSUME (i + 1) + 1 <= n PROVE AreWords(f[(i + 1) + 1], ss, (i + 1) + 1)
    OBVIOUS
  <2> DEFINE m == i + 1
  <2>1. m \in Nat /\ m + 1 \in 2 .. n /\ m + 1 \in 1 .. n /\ m + 1 - 1 = m /\ m <= n
    BY <1>1
  <2>2. AreWords(f[m], ss, m)
    BY <1>4, <2>1
  <2> HIDE DEF m, T
  <2>3. f[m + 1] = f[m] \o ss[m + 1]
    <3>1. \A j \in 2 .. n : f[j] = f[j - 1] \o ss[j]
      BY <1>2 DEF IsFlattened, n
    <3> DEFINE j == m + 1
    <3>2. j \in 2 .. n /\ j - 1 = m
      BY <2>1
    <3> HIDE DEF j
    <3>3. f[j] = f[m] \o ss[j]
      BY ONLY <3>1, <3>2
    <3> QED
      BY ONLY <3>3 DEF j
  <2>4. m \in Nat /\ m + 1 <= Len(ss) /\ Len(ss[m + 1]) = 4 /\ ss \in Seq(Seq(Nat))
    BY <1>1, <2>1 DEF n
  <2>5. AreWords(f[m] \o ss[m + 1], ss, m + 1)
    BY ONLY <2>2, <2>4, OneMoreWord
  <2> QED
    BY <2>3, <2>5 DEF m
<1>5. Nat \subseteq T
  <2> HIDE DEF T
  <2> QED
    BY <1>3, <1>4, SetInduction
<1>6. n - 1 \in Nat /\ (n - 1) + 1 = n
  BY <1>1
<1>7. AreWords(f[n], ss, n)
  BY <1>5, <1>6
<1> QED
  BY <1>2, <1>7 DEF n

\* Timings that fit 16 bits each make words of four digits, and are read back as they
\* were, but for the signs.
LEMMA ProntoFacts ==
  ASSUME NEW t \in Seq(Int), \A i \in 1 .. Len(t) : ~IsLong(t[i])
  PROVE  /\ IsPronto(ProntoHex(t))
         /\ ProntoTimings(ProntoHex(t)) = Signed([i \in 1 .. Len(t) |-> Magnitude(t[i])])
<1> DEFINE n == Len(t)
           Word(i) == IF i <= 4 THEN 0 ELSE Magnitude(t[i - 4])
           ss == [i \in 1 .. 4 + n |-> Hex(Word(i))]
           hex == FlattenSeq(ss)
           words == ProntoWords(hex)
<1>1. n \in Nat /\ \A i \in 1 .. n : t[i] \in Int
  OBVIOUS
<1>2. ProntoHex(t) = hex
  <2>1. \A i : Hex(Word(i)) = IF i <= 4 THEN Hex(0) ELSE Hex(Magnitude(t[i - 4]))
    OBVIOUS
  <2>2. ss = [i \in 1 .. 4 + n |-> IF i <= 4 THEN Hex(0) ELSE Hex(Magnitude(t[i - 4]))]
    BY <2>1
  <2> HIDE DEF ss
  <2> QED
    BY <2>2 DEF ProntoHex
<1>3. ASSUME NEW i \in 1 .. 4 + n PROVE Word(i) \in Nat /\ Word(i) <= 65535
  <2>1. CASE i <= 4
    BY <2>1
  <2>2. CASE i > 4
    <3>1. i - 4 \in 1 .. n /\ ~(i <= 4)
      BY <1>1, <2>2
    <3>2. Magnitude(t[i - 4]) \in Nat /\ ~(Magnitude(t[i - 4]) > 65535)
      BY <1>1, <3>1, MagnitudeFacts DEF IsLong
    <3> QED
      BY <3>1, <3>2
  <2> QED
    BY <1>1, <2>1, <2>2
<1> HIDE DEF Word
<1>4. ASSUME NEW i \in 1 .. 4 + n
      PROVE  /\ ss[i] \in Seq(Nat) /\ Len(ss[i]) = 4
             /\ 4096 * ss[i][1] + 256 * ss[i][2] + 16 * ss[i][3] + ss[i][4] = Word(i)
  BY <1>3, HexFacts
<1>5. ss \in Seq(Seq(Nat)) /\ Len(ss) = 4 + n /\ 4 + n > 0
  <2>1. ss \in [1 .. 4 + n -> Seq(Nat)] /\ 4 + n \in Nat
    BY <1>1, <1>4
  <2> HIDE DEF ss
  <2> QED
    BY <1>1, <2>1
<1> HIDE DEF ss, n
<1>6. AreWords(hex, ss, 4 + n)
  <2>1. ss \in Seq(Seq(Nat)) /\ Len(ss) > 0 /\ \A j \in 1 .. Len(ss) : Len(ss[j]) = 4
    BY <1>4, <1>5
  <2> QED
    BY <1>5, <2>1, FlattenWords
<1> HIDE DEF hex
<1>7. Len(hex) = 4 * (4 + n) /\ Len(hex) % 4 = 0 /\ Len(hex) \div 4 = 4 + n
  BY <1>1, <1>6 DEF AreWords
<1>8. words = [i \in 1 .. 4 + n |->
                 4096 * hex[4 * i - 3] + 256 * hex[4 * i - 2] + 16 * hex[4 * i - 1] + hex[4 * i]]
  BY <1>7 DEF ProntoWords
<1> HIDE DEF words
<1>9. ASSUME NEW i \in 1 .. 4 + n PROVE words[i] = Word(i)
  <2>1. /\ 4 * (i - 1) + 1 = 4 * i - 3 /\ 4 * (i - 1) + 2 = 4 * i - 2
        /\ 4 * (i - 1) + 3 = 4 * i - 1 /\ 4 * (i - 1) + 4 = 4 * i
    BY <1>1
  <2>2. 1 \in 1 .. 4 /\ 2 \in 1 .. 4 /\ 3 \in 1 .. 4 /\ 4 \in 1 .. 4
    OBVIOUS
  <2>3. /\ hex[4 * (i - 1) + 1] = ss[i][1] /\ hex[4 * (i - 1) + 2] = ss[i][2]
        /\ hex[4 * (i - 1) + 3] = ss[i][3] /\ hex[4 * (i - 1) + 4] = ss[i][4]
    BY <1>6, <2>2 DEF AreWords
  <2>4. words[i] = 4096 * hex[4 * i - 3] + 256 * hex[4 * i - 2] + 16 * hex[4 * i - 1] + hex[4 * i]
    BY <1>8
  <2>5. /\ hex[4 * i - 3] = ss[i][1] /\ hex[4 * i - 2] = ss[i][2]
        /\ hex[4 * i - 1] = ss[i][3] /\ hex[4 * i] = ss[i][4]
    BY ONLY <2>1, <2>3
  <2>6. words[i] = 4096 * ss[i][1] + 256 * ss[i][2] + 16 * ss[i][3] + ss[i][4]
    BY ONLY <2>4, <2>5
  <2>7. 4096 * ss[i][1] + 256 * ss[i][2] + 16 * ss[i][3] + ss[i][4] = Word(i)
    BY <1>4
  <2> QED
    BY ONLY <2>6, <2>7
<1>10. words \in Seq(Nat) /\ Len(words) = 4 + n
  <2>1. words = [i \in 1 .. 4 + n |-> words[i]] /\ \A i \in 1 .. 4 + n : words[i] \in Nat
    BY <1>3, <1>8, <1>9
  <2>2. words \in [1 .. 4 + n -> Nat] /\ 4 + n \in Nat
    BY <1>1, <2>1
  <2> QED
    BY <1>1, <2>2
<1>11. SubSeq(words, 5, 4 + n) = [i \in 1 .. n |-> Magnitude(t[i])]
  <2>1. SubSeq(words, 5, 4 + n) = [i \in 1 .. n |-> words[4 + i]]
    <3>1. 4 \in 0 .. Len(words) /\ Len(words) - 4 = n
      BY <1>1, <1>10
    <3> DEFINE s == SubSeq(words, 4 + 1, Len(words))
    <3>2. s \in Seq(Nat) /\ Len(s) = n /\ \A i \in 1 .. n : s[i] = words[4 + i]
      <4> DEFINE four == 4
      <4>1. words \in Seq(Nat) /\ four \in 0 .. Len(words) /\ Len(words) - four = n
        BY <1>10, <3>1
      <4> HIDE DEF four, s
      <4>2. /\ SubSeq(words, four + 1, Len(words)) \in Seq(Nat)
            /\ Len(SubSeq(words, four + 1, Len(words))) = Len(words) - four
            /\ \A i \in 1 .. Len(words) - four :
                 SubSeq(words, four + 1, Len(words))[i] = words[four + i]
        BY ONLY <4>1, EndFacts
      <4> QED
        BY ONLY <4>1, <4>2 DEF s, four
    <3>3. s = SubSeq(words, 5, 4 + n)
      <4>1. 4 + 1 = 5
        OBVIOUS
      <4> QED
        BY <1>10, <4>1
    <3> HIDE DEF s
    <3>4. s = [i \in 1 .. n |-> s[i]]
      BY <3>2
    <3> QED
      BY <3>2, <3>3, <3>4
  <2>2. ASSUME NEW i \in 1 .. n PROVE words[4 + i] = Magnitude(t[i])
    <3>1. 4 + i \in 1 .. 4 + n /\ ~(4 + i <= 4) /\ 4 + i - 4 = i
      BY <1>1
    <3> QED
      BY <1>9, <3>1 DEF Word
  <2> QED
    BY <2>1, <2>2
<1>12. ProntoTimings(hex) = Signed([i \in 1 .. n |-> Magnitude(t[i])])
  BY <1>7, <1>11 DEF ProntoTimings, words
<1> QED
  BY <1>2, <1>7, <1>12 DEF IsPronto, n

\* Every entry of what is prepared is one of t, in its order, or the terminator.
LEMMA PreparedEntries ==
  ASSUME NEW t \in Seq(Int), Kept(t) # {}
  PROVE  \E first \in 1 .. Len(t), last \in 1 .. Len(t) :
           /\ first = Min(Kept(t)) /\ first <= last
           /\ Prepared(t) \in Seq(Int)
           /\ \A i \in 1 .. last - first + 1 : Prepared(t)[i] = t[first + i - 1]
           /\ IF t[last] >= 0
              THEN /\ Len(Prepared(t)) = last - first + 2
                   /\ Prepared(t)[last - first + 2] = -TerminatorSpace
              ELSE Len(Prepared(t)) = last - first + 1
<1> DEFINE m == TrimIdle(t)
           first == Min(Kept(t))
           last == Max(Kept(t))
           n == last - first + 1
<1>1. /\ first \in Kept(t) /\ last \in Kept(t) /\ first <= last
      /\ Len(m) = n /\ \A i \in 1 .. n : m[i] = t[first + i - 1]
  <2>1. t \in Seq(Int) /\ Kept(t) \in SUBSET (1 .. Len(t)) /\ Kept(t) # {}
    BY DEF Kept
  <2>2. m = Stripped(t, Kept(t))
    BY DEF TrimIdle, Kept
  <2> HIDE DEF m
  <2> QED
    BY ONLY <2>1, <2>2, StrippedFacts DEF first, last, n
<1>2. first \in 1 .. Len(t) /\ last \in 1 .. Len(t)
  BY <1>1 DEF Kept
<1>3. /\ m \in Seq(Int)
      /\ Prepared(t) = IF m[Len(m)] >= 0 THEN Append(m, -TerminatorSpace) ELSE m
  BY PreparedIs
<1> HIDE DEF m, first, last
<1>4. n \in 1 .. n /\ first + n - 1 = last /\ n + 1 = last - first + 2
  BY <1>1, <1>2
<1> HIDE DEF n
<1>5. m[Len(m)] = t[last]
  BY <1>1, <1>4
<1>6. CASE t[last] >= 0
  <2>1. Prepared(t) = Append(m, -TerminatorSpace) /\ -TerminatorSpace \in Int
    BY <1>3, <1>5, <1>6, CodecConstants
  <2>2. /\ Append(m, -TerminatorSpace) \in Seq(Int) /\ Len(Append(m, -TerminatorSpace)) = n + 1
        /\ Append(m, -TerminatorSpace)[n + 1] = -TerminatorSpace
        /\ \A i \in 1 .. n : Append(m, -TerminatorSpace)[i] = m[i]
    <3> DEFINE x == -TerminatorSpace
    <3>1. m \in Seq(Int) /\ x \in Int
      BY <1>3, <2>1
    <3> HIDE DEF x
    <3>2. /\ Append(m, x) \in Seq(Int) /\ Len(Append(m, x)) = Len(m) + 1
          /\ Append(m, x)[Len(m) + 1] = x /\ \A i \in 1 .. Len(m) : Append(m, x)[i] = m[i]
      BY ONLY <3>1, FrontOfAppend
    <3> QED
      BY ONLY <1>1, <3>2 DEF x
  <2> QED
    BY <1>1, <1>2, <1>4, <1>6, <2>1, <2>2, ZenonT(60) DEF first, n
<1>7. CASE ~(t[last] >= 0)
  <2>1. Prepared(t) = m
    BY <1>3, <1>5, <1>7
  <2> QED
    BY <1>1, <1>2, <1>3, <1>7, <2>1 DEF first, n
<1> QED
  BY <1>6, <1>7

\* The terminator is a space of 16 bits.
LEMMA TerminatorFits ==
  -TerminatorSpace \in Int /\ -TerminatorSpace < 0 /\ ~IsLong(-TerminatorSpace)
BY CodecConstants DEF IsLong, Magnitude

\* If every entry of t fits 16 bits, so does every one that is prepared.
LEMMA PreparedFits ==
  ASSUME NEW t \in Seq(Int), \A i \in DOMAIN t : ~IsLong(t[i])
  PROVE  Prepared(t) \in Seq(Int) /\ \A i \in 1 .. Len(Prepared(t)) : ~IsLong(Prepared(t)[i])
<1>1. CASE Kept(t) = {}
  <2>1. Prepared(t) = <<>> /\ <<>> \in Seq(Int) /\ Len(<<>>) = 0
    BY <1>1, NothingPrepared
  <2> QED
    BY <2>1
<1>2. CASE Kept(t) # {}
  <2> DEFINE p == Prepared(t)
  <2>1. PICK first \in 1 .. Len(t), last \in 1 .. Len(t) :
           /\ first = Min(Kept(t)) /\ first <= last
           /\ p \in Seq(Int)
           /\ \A i \in 1 .. last - first + 1 : p[i] = t[first + i - 1]
           /\ IF t[last] >= 0
              THEN Len(p) = last - first + 2 /\ p[last - first + 2] = -TerminatorSpace
              ELSE Len(p) = last - first + 1
    BY <1>2, PreparedEntries
  <2> HIDE DEF p
  <2>2. ASSUME NEW i \in 1 .. Len(p) PROVE ~IsLong(p[i])
    <3>1. CASE i \in 1 .. last - first + 1
      <4>1. first + i - 1 \in DOMAIN t
        BY <2>1, <3>1
      <4> QED
        BY <2>1, <3>1, <4>1
    <3>2. CASE i \notin 1 .. last - first + 1
      <4>1. i = last - first + 2 /\ p[last - first + 2] = -TerminatorSpace
        <5>1. first \in Nat /\ last \in Nat /\ first <= last
          BY <2>1
        <5>2. CASE t[last] >= 0
          <6>1. Len(p) = last - first + 2 /\ p[last - first + 2] = -TerminatorSpace
            BY <2>1, <5>2
          <6> QED
            BY ONLY <2>2, <3>2, <5>1, <6>1
        <5>3. CASE ~(t[last] >= 0)
          <6>1. Len(p) = last - first + 1
            BY <2>1, <5>3
          <6> QED
            BY ONLY <2>2, <3>2, <5>1, <6>1
        <5> QED
          BY <5>2, <5>3
      <4> QED
        BY <4>1, TerminatorFits
    <3> QED
      BY <3>1, <3>2
  <2> QED
    BY <2>1, <2>2 DEF p
<1> QED
  BY <1>1, <1>2

\* What fits Pronto hex is prepared as marks and spaces in turn, from a mark, all of
\* which fit 16 bits.
LEMMA PreparedAlternates ==
  ASSUME NEW t \in Seq(Int), FitsPronto(t)
  PROVE  /\ Prepared(t) \in Seq(Int)
         /\ \A i \in 1 .. Len(Prepared(t)) :
              /\ ~IsLong(Prepared(t)[i])
              /\ IF i % 2 = 1 THEN Prepared(t)[i] > 0 ELSE Prepared(t)[i] < 0
<1> DEFINE p == Prepared(t)
<1>1. /\ t # <<>> /\ Magnitude(t[1]) <= IdleTrim
      /\ \A i \in 1 .. Len(t) : IF i % 2 = 1 THEN t[i] > 0 ELSE t[i] < 0
      /\ \A i \in DOMAIN Signal(t) : ~IsLong(Signal(t)[i])
  <2>1. DOMAIN t = 1 .. Len(t)
    OBVIOUS
  <2> QED
    BY <2>1 DEF FitsPronto, Alternates
<1>2. 1 \in Kept(t) /\ Kept(t) \in SUBSET (1 .. Len(t)) /\ Len(t) \in Nat
  <2>1. 1 \in 1 .. Len(t) /\ DOMAIN t = 1 .. Len(t) /\ Len(t) \in Nat
    BY <1>1
  <2> QED
    BY <1>1, <2>1 DEF Kept
<1>3. Min(Kept(t)) = 1
  <2>1. \A j \in Kept(t) : 1 <= j
    BY <1>2
  <2> QED
    BY ONLY <1>2, <2>1, ExtremesAre
<1>4. PICK first \in 1 .. Len(t), last \in 1 .. Len(t) :
         /\ first = Min(Kept(t)) /\ first <= last
         /\ p \in Seq(Int)
         /\ \A i \in 1 .. last - first + 1 : p[i] = t[first + i - 1]
         /\ IF t[last] >= 0
            THEN Len(p) = last - first + 2 /\ p[last - first + 2] = -TerminatorSpace
            ELSE Len(p) = last - first + 1
  BY <1>2, PreparedEntries
<1>5. p # <<>> /\ Front(p) = Signal(t) /\ ~IsLong(Last(p))
  <2>1. p # <<>>
    BY <1>4, SMTT(30)
  <2> QED
    BY <2>1, PreparedPlays
<1> HIDE DEF p
<1>6. /\ first = 1 /\ last - first + 1 = last /\ last - first + 2 = last + 1
      /\ \A i \in 1 .. last : 1 + i - 1 = i
  BY <1>3, <1>4
<1>7. ASSUME NEW i \in 1 .. Len(p) PROVE ~IsLong(p[i])
  <2>1. CASE i = Len(p)
    BY <1>5, <2>1 DEF Last
  <2>2. CASE i # Len(p)
    <3>1. Len(p) - 1 \in 0 .. Len(p) /\ i \in 1 .. Len(p) - 1
      <4>1. Len(p) \in Nat
        BY <1>4
      <4> QED
        BY ONLY <4>1, <1>7, <2>2
    <3>2. /\ SubSeq(p, 1, Len(p) - 1) \in Seq(Int) /\ Len(SubSeq(p, 1, Len(p) - 1)) = Len(p) - 1
          /\ \A j \in 1 .. Len(p) - 1 : SubSeq(p, 1, Len(p) - 1)[j] = p[j]
      <4> DEFINE k == Len(p) - 1
      <4>1. p \in Seq(Int) /\ k \in 0 .. Len(p)
        BY <1>4, <3>1
      <4> HIDE DEF k
      <4>2. /\ SubSeq(p, 1, k) \in Seq(Int) /\ Len(SubSeq(p, 1, k)) = k
            /\ \A j \in 1 .. k : SubSeq(p, 1, k)[j] = p[j]
        BY ONLY <4>1, EndFacts
      <4> QED
        BY ONLY <4>2 DEF k
    <3>3. i \in DOMAIN Front(p) /\ Front(p)[i] = p[i]
      BY <3>1, <3>2 DEF Front
    <3> QED
      BY <1>1, <1>5, <3>3
  <2> QED
    BY <2>1, <2>2
<1>8. ASSUME NEW i \in 1 .. Len(p) PROVE IF i % 2 = 1 THEN p[i] > 0 ELSE p[i] < 0
  <2>1. CASE i \in 1 .. last
    <3>1. p[i] = t[i] /\ i \in 1 .. Len(t)
      <4>1. p[i] = t[first + i - 1] /\ first + i - 1 = i
        BY <1>4, <1>6, <2>1
      <4> QED
        BY <1>2, <1>4, <2>1, <4>1
    <3> QED
      BY <1>1, <3>1
  <2>2. CASE i \notin 1 .. last
    <3>1. t[last] >= 0 /\ i = last + 1 /\ p[last + 1] = -TerminatorSpace
      BY <1>2, <1>4, <1>6, <1>8, <2>2
    <3>2. last % 2 = 1
      <4>1. t[last] \in Int /\ (IF last % 2 = 1 THEN t[last] > 0 ELSE t[last] < 0)
        BY <1>1, <1>4
      <4> QED
        BY <3>1, <4>1
    <3>3. i % 2 # 1
      BY <1>2, <3>1, <3>2
    <3> QED
      BY <3>1, <3>3, TerminatorFits
  <2> QED
    BY <2>1, <2>2
<1> QED
  BY <1>4, <1>7, <1>8 DEF p

\* Signs that are those of the positions are restored.
LEMMA SignedMagnitudes ==
  ASSUME NEW p \in Seq(Int),
         \A i \in 1 .. Len(p) : IF i % 2 = 1 THEN p[i] > 0 ELSE p[i] < 0
  PROVE  Signed([i \in 1 .. Len(p) |-> Magnitude(p[i])]) = p
<1> DEFINE n == Len(p)
           w == [i \in 1 .. n |-> Magnitude(p[i])]
<1>1. n \in Nat /\ p = [i \in 1 .. n |-> p[i]] /\ \A i \in 1 .. n : p[i] \in Int
  OBVIOUS
<1> HIDE DEF n
<1>2. Signed(w) = [i \in 1 .. n |-> IF i % 2 = 1 THEN Magnitude(p[i]) ELSE -Magnitude(p[i])]
  BY DEF Signed
<1>3. ASSUME NEW i \in 1 .. n
      PROVE  (IF i % 2 = 1 THEN Magnitude(p[i]) ELSE -Magnitude(p[i])) = p[i]
  <2>1. p[i] \in Int /\ IF i % 2 = 1 THEN p[i] > 0 ELSE p[i] < 0
    BY <1>1 DEF n
  <2> QED
    BY <2>1 DEF Magnitude
<1>4. Signed(w) = [i \in 1 .. n |-> p[i]]
  BY <1>2, <1>3
<1> QED
  BY <1>1, <1>4 DEF n

\* Pronto hex gives back what was prepared, if it fits there.
LEMMA ProntoGivesBack ==
  ASSUME NEW t \in Seq(Int), FitsPronto(t)
  PROVE  ProntoTimings(ProntoHex(Prepared(t))) = Prepared(t)
<1> DEFINE p == Prepared(t)
<1>1. /\ p \in Seq(Int) /\ \A i \in 1 .. Len(p) : ~IsLong(p[i])
      /\ \A i \in 1 .. Len(p) : IF i % 2 = 1 THEN p[i] > 0 ELSE p[i] < 0
  BY PreparedAlternates
<1> HIDE DEF p
<1>2. ProntoTimings(ProntoHex(p)) = Signed([i \in 1 .. Len(p) |-> Magnitude(p[i])])
  BY <1>1, ProntoFacts
<1>3. Signed([i \in 1 .. Len(p) |-> Magnitude(p[i])]) = p
  BY <1>1, SignedMagnitudes
<1> QED
  BY <1>2, <1>3 DEF p

-------------------------------------------------------------------------------
(* What was handed comes from what was learned.                            *)

\* Timings that were handed are those prepared of what was learned, as they are or by way
\* of Pronto hex, and what was refused is no Pronto hex.
HandedIsLearned ==
  /\ learned \in Seq(Int)
  /\ transport = "none" => handed = Idle
  /\ handed.is = "timings" =>
       \/ handed.sender = "timings" /\ handed.value = Prepared(learned)
       \/ handed.sender = "pronto" /\ handed.value = ProntoTimings(ProntoHex(Prepared(learned)))
  /\ handed.is = "refused" => ~IsPronto(ProntoHex(Prepared(learned)))

\* What an emitter was handed last comes from the one command that was learned.
THEOREM HandedIsLearnedAlways == CodecSpec => []HandedIsLearned
<1>1. CodecInit => HandedIsLearned
  BY DEF CodecInit, HandedIsLearned, NotLearned, Idle
<1>2. ASSUME HandedIsLearned, [CodecStep]_codecVars PROVE HandedIsLearned'
  <2> USE <1>2 DEF HandedIsLearned
  <2>1. CASE Learn
    <3>1. learned' \in Seq(Int)
      BY <2>1, DecodedType DEF Learn
    <3>2. handed' = Idle /\ transport' # "none"
      BY <2>1 DEF Learn
    <3> QED
      BY <3>1, <3>2 DEF Idle
  <2>2. CASE SendTimings
    BY <2>2 DEF SendTimings, Hand
  <2>3. CASE SendPronto
    BY <2>3 DEF SendPronto, Hand
  <2>4. CASE SendBuffer
    BY <2>4 DEF SendBuffer, Hand
  <2>5. CASE UNCHANGED codecVars
    BY <2>5 DEF codecVars
  <2> QED
    BY <2>1, <2>2, <2>3, <2>4, <2>5 DEF CodecStep
<1> QED
  BY <1>1, <1>2, PTL DEF CodecSpec

\* Where it comes from says what is played.
LEMMA PlaysFromHanded ==
  ASSUME HandedIsLearned
  PROVE  PlaysWhatWasLearned
<1>1. learned \in Seq(Int)
  BY DEF HandedIsLearned
<1>2. ASSUME handed.is = "timings", handed.value # <<>>,
             handed.sender = "pronto" => FitsPronto(learned)
      PROVE  /\ Front(handed.value) = Signal(learned)
             /\ Last(handed.value) < 0 /\ ~IsLong(Last(handed.value))
  <2>1. handed.value = Prepared(learned)
    BY <1>1, <1>2, ProntoGivesBack DEF HandedIsLearned
  <2>2. Prepared(learned) # <<>>
    BY <1>2, <2>1
  <2> QED
    BY <1>1, <2>1, <2>2, PreparedPlays
<1>3. ASSUME handed.is = "refused" PROVE \E i \in DOMAIN learned : IsLong(learned[i])
  <2>1. SUFFICES ASSUME \A i \in DOMAIN learned : ~IsLong(learned[i])
                 PROVE  IsPronto(ProntoHex(Prepared(learned)))
    BY <1>3 DEF HandedIsLearned
  <2>2. /\ Prepared(learned) \in Seq(Int)
        /\ \A i \in 1 .. Len(Prepared(learned)) : ~IsLong(Prepared(learned)[i])
    BY <1>1, <2>1, PreparedFits
  <2> QED
    BY <2>2, ProntoFacts
<1> QED
  BY <1>2, <1>3 DEF PlaysWhatWasLearned

\* An emitter plays the marks and the spaces that were captured, of whatever packet and
\* whichever way they took, if they fit it.
THEOREM PlaysWhatWasLearnedAlways == CodecSpec => []PlaysWhatWasLearned
<1>1. HandedIsLearned => PlaysWhatWasLearned
  BY PlaysFromHanded
<1> QED
  BY <1>1, HandedIsLearnedAlways, PTL

\* What the hash is taken of are numbers.
LEMMA SanitizedType ==
  ASSUME NEW t \in Seq(Int)
  PROVE  Sanitized(t) \in Seq(Nat)
<1> DEFINE w == Widths(t)
           kept == {i \in DOMAIN w : w[i] < GapThreshold}
<1>1. w \in Seq(Nat)
  BY WidthsType
<1>2. Sanitized(t) = Stripped(w, kept)
  BY DEF Sanitized
<1> HIDE DEF w
<1>3. CASE kept = {}
  BY <1>2, <1>3 DEF Stripped
<1>4. CASE kept # {}
  <2>1. kept \in SUBSET (1 .. Len(w))
    BY <1>1
  <2> HIDE DEF kept
  <2>2. Stripped(w, kept) \in Seq(Nat)
    BY ONLY <1>1, <1>4, <2>1, StrippedFacts
  <2> QED
    BY <1>2, <2>2
<1> QED
  BY <1>3, <1>4

\* Where it comes from says what it is known by.
LEMMA RecognisedFromHanded ==
  ASSUME HandedIsLearned
  PROVE  ReplayIsRecognised
<1> SUFFICES ASSUME handed.is = "timings", handed.sender = "pronto" => FitsPronto(learned),
                    Len(Sanitized(learned)) >= 2,
                    \A i \in DOMAIN learned :
                      Magnitude(learned[i]) \notin IdleTrim + 1 .. GapThreshold - 1
             PROVE  MatchTier(learned, handed.value) = 2
  BY DEF ReplayIsRecognised
<1>1. learned \in Seq(Int)
  BY DEF HandedIsLearned
<1>2. handed.value = Prepared(learned)
  BY <1>1, ProntoGivesBack DEF HandedIsLearned
<1>3. Kept(learned) # {}
  <2> SUFFICES ASSUME Kept(learned) = {} PROVE Len(Sanitized(learned)) = 0
    OBVIOUS
  <2>1. ASSUME NEW i \in 1 .. Len(learned)
        PROVE  learned[i] # 0 /\ ~(Magnitude(learned[i]) < GapThreshold)
    <3>1. learned[i] \in Int /\ i \in DOMAIN learned
      BY <1>1
    <3>2. ~(Magnitude(learned[i]) <= IdleTrim)
          /\ Magnitude(learned[i]) \notin IdleTrim + 1 .. GapThreshold - 1
      BY <3>1 DEF Kept
    <3>3. Magnitude(learned[i]) \in Nat /\ (learned[i] = 0 => Magnitude(learned[i]) = 0)
      BY <3>1, MagnitudeFacts
    <3> QED
      BY ONLY <3>2, <3>3, CodecConstants
  <2>2. Widths(learned) = [i \in 1 .. Len(learned) |-> Magnitude(learned[i])]
    BY <1>1, <2>1, WidthsOfNonzero
  <2>3. {i \in DOMAIN Widths(learned) : Widths(learned)[i] < GapThreshold} = {}
    BY <2>1, <2>2
  <2>4. Sanitized(learned) = <<>>
    BY <2>3 DEF Sanitized, Stripped
  <2> QED
    BY <2>4
<1>4. Sanitized(handed.value) = Sanitized(learned)
  BY <1>1, <1>2, <1>3, SanitizedPrepared
<1>5. ByteHash(learned) # NoHash /\ ByteHash(handed.value) = ByteHash(learned)
  <2> DEFINE s == Sanitized(learned)
             hash == [i \in DOMAIN s |-> HashBin * RoundHalfToEven(s[i], HashBin)]
  <2>1. ByteHash(learned) = hash /\ ByteHash(handed.value) = hash
    <3>1. ~(Len(s) < 2)
      <4>1. s \in Seq(Nat)
        BY <1>1, SanitizedType
      <4> QED
        BY <4>1
    <3> QED
      BY <1>4, <3>1 DEF ByteHash
  <2>2. hash # <<>>
    <3>1. DOMAIN s # {}
      <4>1. s \in Seq(Nat)
        BY <1>1, SanitizedType
      <4>2. Len(s) >= 2
        OBVIOUS
      <4> HIDE DEF s
      <4>3. DOMAIN s = 1 .. Len(s) /\ 1 \in 1 .. Len(s)
        BY <4>1, <4>2
      <4> QED
        BY <4>3
    <3> HIDE DEF s
    <3>2. DOMAIN hash = DOMAIN s
      OBVIOUS
    <3>3. DOMAIN <<>> = {}
      OBVIOUS
    <3> HIDE DEF hash
    <3> QED
      BY ONLY <3>1, <3>2, <3>3
  <2> QED
    BY <2>1, <2>2 DEF NoHash
<1> QED
  BY <1>5 DEF MatchTier

\* What is played has the byte hash of what was learned, and the sniffer knows it again.
THEOREM ReplayIsRecognisedAlways == CodecSpec => []ReplayIsRecognised
<1>1. HandedIsLearned => ReplayIsRecognised
  BY RecognisedFromHanded
<1> QED
  BY <1>1, HandedIsLearnedAlways, PTL

==================================================================================

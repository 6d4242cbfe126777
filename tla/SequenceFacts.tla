---------------------------- MODULE SequenceFacts ----------------------------
(***************************************************************************)
(* Induction over the natural numbers, stated for a set, and what the      *)
(* operators on sequences that the modules use keep of their arguments.    *)
(*                                                                         *)
(* The induction theorems of the library take a predicate as a parameter,  *)
(* which the provers cannot instantiate.  A set of numbers is a constant   *)
(* they can: the numbers a predicate holds for are all of Nat, because the *)
(* least number outside of that set has a predecessor in it.               *)
(***************************************************************************)
EXTENDS Naturals, Sequences, SequencesExt, FiniteSetTheorems, SequenceTheorems,
        FunctionTheorems, WellFoundedInduction, TLAPS

LEMMA NatOrder == \E R : /\ IsWellFoundedOn(R, Nat)
                         /\ \A x, y \in Nat : <<x, y>> \in R <=> x < y
<1>1. \A x, y \in Nat : <<x, y>> \in OpToRel(<, Nat) <=> x < y
  BY DEF OpToRel
<1>. QED
  BY <1>1, NatLessThanWellFounded

\* Numbers have a least one.
LEMMA LeastOf ==
  ASSUME NEW T, T \subseteq Nat, T # {}
  PROVE  \E n \in T : \A m \in T : n <= m
<1>1. PICK R : /\ IsWellFoundedOn(R, Nat)
               /\ \A x, y \in Nat : <<x, y>> \in R <=> x < y
  BY NatOrder
<1>2. \E n \in T : \A m \in T : ~(<<m, n>> \in R)
  <2>1. IsWellFoundedOn(R, Nat)
    BY <1>1
  <2>. QED
    BY <2>1, WFMin, Zenon
<1>3. PICK n \in T : \A m \in T : ~(<<m, n>> \in R)
  BY <1>2
<1>4. ASSUME NEW m \in T PROVE n <= m
  <2>1. n \in Nat /\ m \in Nat /\ ~(m < n)
    BY <1>1, <1>3, <1>4
  <2>. QED
    BY <2>1
<1>. QED
  BY <1>4

\* What holds of 0, and of n + 1 when it holds of n, holds of every number.
LEMMA SetInduction ==
  ASSUME NEW S, 0 \in S, \A n \in Nat : n \in S => n + 1 \in S
  PROVE  \A n \in Nat : n \in S
<1>. SUFFICES ASSUME {n \in Nat : n \notin S} # {} PROVE FALSE
  OBVIOUS
<1>1. PICK n \in {k \in Nat : k \notin S} : \A m \in {k \in Nat : k \notin S} : n <= m
  BY LeastOf
<1>2. n \in Nat /\ n # 0 /\ n - 1 \in Nat /\ (n - 1) + 1 = n
  BY <1>1
<1>3. n - 1 \in S
  BY <1>1, <1>2
<1>. QED
  BY <1>1, <1>2, <1>3

\* The same up to a bound.
LEMMA SetInductionUpTo ==
  ASSUME NEW m \in Nat, NEW S, 0 \in S, \A n \in 1..m : n - 1 \in S => n \in S
  PROVE  m \in S
<1>. DEFINE T == {n \in Nat : n <= m => n \in S}
<1>1. 0 \in T
  OBVIOUS
<1>2. ASSUME NEW n \in Nat, n \in T PROVE n + 1 \in T
  <2>1. CASE n + 1 <= m
    <3>1. n + 1 \in 1..m /\ (n + 1) - 1 = n /\ n \in S
      BY <1>2, <2>1
    <3>. QED
      BY <3>1
  <2>2. CASE ~(n + 1 <= m)
    BY <2>2
  <2>. QED
    BY <2>1, <2>2
<1>3. \A n \in Nat : n \in T
  <2>. HIDE DEF T
  <2>. QED
    BY <1>1, <1>2, SetInduction
<1>. QED
  BY <1>3

\* What is computed from the previous value up to a bound exists: a recursive
\* function of this form satisfies its own equation.
Computes(f, m, S, base, next) ==
  /\ f \in [0..m -> S]
  /\ f[0] = base
  /\ \A n \in 1..m : f[n] = next[<<n, f[n - 1]>>]

LEMMA Recursion ==
  ASSUME NEW m \in Nat, NEW S, NEW base \in S, NEW next \in [(1..m) \X S -> S]
  PROVE  \E f : Computes(f, m, S, base, next)
<1>. DEFINE Ok(f, n) == f[0] = base /\ \A k \in 1..n : f[k] = next[<<k, f[k - 1]>>]
            T == {n \in 0..m : \E f \in [0..n -> S] : Ok(f, n)}
<1>1. 0 \in T
  <2>1. [k \in 0..0 |-> base] \in [0..0 -> S] /\ Ok([k \in 0..0 |-> base], 0)
    OBVIOUS
  <2>2. \E f \in [0..0 -> S] : Ok(f, 0)
    BY <2>1
  <2>. HIDE DEF Ok
  <2>. QED
    BY <2>2
<1>2. ASSUME NEW n \in 1..m, n - 1 \in T PROVE n \in T
  <2>1. PICK f \in [0..(n - 1) -> S] : Ok(f, n - 1)
    BY <1>2
  <2>. DEFINE x == next[<<n, f[n - 1]>>]
              g == [k \in 0..n |-> IF k = n THEN x ELSE f[k]]
  <2>2. n - 1 \in 0..(n - 1) /\ f[n - 1] \in S
    BY <2>1
  <2>3. x \in S
    BY <2>2
  <2>4. \A k \in 0..n : k # n => k \in 0..(n - 1)
    OBVIOUS
  <2>5. g \in [0..n -> S]
    BY <2>1, <2>3, <2>4
  <2>6. \A k \in 1..n : g[k] = next[<<k, g[k - 1]>>]
    <3>1. TAKE k \in 1..n
    <3>2. CASE k = n
      <4>1. g[k - 1] = f[n - 1] /\ g[k] = x
        BY <3>2
      <4>. QED
        BY <3>2, <4>1
    <3>3. CASE k # n
      <4>1. k \in 1..(n - 1) /\ g[k] = f[k] /\ g[k - 1] = f[k - 1]
        BY <3>1, <3>3
      <4>. QED
        BY <2>1, <4>1
    <3>. QED
      BY <3>2, <3>3
  <2>7. g[0] = base
    BY <2>1
  <2>8. Ok(g, n)
    BY <2>6, <2>7
  <2>. HIDE DEF g, Ok
  <2>. QED
    BY <2>5, <2>8
<1>3. m \in T
  <2>. HIDE DEF T
  <2>. QED
    BY <1>1, <1>2, SetInductionUpTo
<1>4. PICK f \in [0..m -> S] : Ok(f, m)
  BY <1>3
<1>. QED
  BY <1>4 DEF Computes

LEMMA MinOf ==
  ASSUME NEW T, T \subseteq Nat, T # {}
  PROVE  Min(T) \in T /\ \A m \in T : Min(T) <= m
BY LeastOf DEF Min

LEMMA MaxOf ==
  ASSUME NEW b \in Nat, NEW T, T \subseteq 0..b, T # {}
  PROVE  Max(T) \in T /\ \A m \in T : m <= Max(T)
<1>. DEFINE U == {b - n : n \in T}
<1>1. U \subseteq Nat /\ U # {}
  <2>1. ASSUME NEW n \in T PROVE b - n \in Nat
    BY n \in 0..b
  <2>2. PICK n \in T : TRUE
    OBVIOUS
  <2>3. b - n \in U
    OBVIOUS
  <2>. QED
    BY <2>1, <2>3
<1>2. PICK u \in U : \A v \in U : u <= v
  <2>. HIDE DEF U
  <2>. QED
    BY <1>1, LeastOf
<1>3. PICK n \in T : u = b - n
  BY <1>2
<1>4. ASSUME NEW m \in T PROVE n >= m
  <2>1. b - m \in U /\ m \in Int /\ n \in Int
    BY <1>3
  <2>. QED
    BY <1>2, <1>3, <2>1
<1>5. \E x \in T : \A y \in T : x >= y
  BY <1>4
<1>6. Max(T) \in T /\ \A y \in T : Max(T) >= y
  BY <1>5 DEF Max
<1>. QED
  BY <1>6
-----------------------------------------------------------------------------
LEMMA ToSetOf ==
  ASSUME NEW S, NEW s \in Seq(S)
  PROVE  ToSet(s) = {s[i] : i \in 1..Len(s)} /\ ToSet(s) \subseteq S
BY DEF ToSet

LEMMA ToSetEmpty == ToSet(<<>>) = {}
BY DEF ToSet

LEMMA ToSetConcat ==
  ASSUME NEW S, NEW s \in Seq(S), NEW t \in Seq(S)
  PROVE  s \o t \in Seq(S) /\ ToSet(s \o t) = ToSet(s) \cup ToSet(t)
<1>. DEFINE u == s \o t
<1>1. /\ u \in Seq(S) /\ Len(u) = Len(s) + Len(t)
      /\ Len(s) \in Nat /\ Len(t) \in Nat
      /\ \A i \in 1..(Len(s) + Len(t)) :
           u[i] = IF i <= Len(s) THEN s[i] ELSE t[i - Len(s)]
  BY ConcatProperties, LenProperties
<1>2. /\ ToSet(s) = {s[i] : i \in 1..Len(s)}
      /\ ToSet(t) = {t[i] : i \in 1..Len(t)}
  BY ToSetOf
<1>3. ToSet(u) = {u[i] : i \in 1..Len(u)}
  BY <1>1, ToSetOf
<1>. HIDE DEF u
<1>4. ASSUME NEW i \in 1..Len(u) PROVE u[i] \in ToSet(s) \cup ToSet(t)
  <2>1. CASE i <= Len(s)
    BY <1>1, <1>2, <2>1
  <2>2. CASE ~(i <= Len(s))
    <3>1. i - Len(s) \in 1..Len(t) /\ u[i] = t[i - Len(s)]
      BY <1>1, <2>2
    <3>. QED
      BY <1>2, <3>1
  <2>. QED
    BY <2>1, <2>2
<1>5. ASSUME NEW i \in 1..Len(s) PROVE s[i] \in ToSet(u)
  <2>1. i \in 1..Len(u) /\ u[i] = s[i]
    BY <1>1
  <2>. QED
    BY <1>3, <2>1
<1>6. ASSUME NEW i \in 1..Len(t) PROVE t[i] \in ToSet(u)
  <2>1. Len(s) + i \in 1..Len(u) /\ u[Len(s) + i] = t[i]
    BY <1>1
  <2>. QED
    BY <1>3, <2>1
<1>7. ToSet(u) \subseteq ToSet(s) \cup ToSet(t)
  BY <1>3, <1>4
<1>8. ToSet(s) \subseteq ToSet(u) /\ ToSet(t) \subseteq ToSet(u)
  BY <1>2, <1>5, <1>6
<1>9. u \in Seq(S) /\ ToSet(u) = ToSet(s) \cup ToSet(t)
  BY <1>1, <1>7, <1>8
<1>. QED
  BY <1>9 DEF u

LEMMA ToSetAppend ==
  ASSUME NEW S, NEW s \in Seq(S), NEW x \in S
  PROVE  Append(s, x) \in Seq(S) /\ ToSet(Append(s, x)) = ToSet(s) \cup {x}
<1>1. <<x>> \in Seq(S) /\ Append(s, x) = s \o <<x>> /\ Append(s, x) \in Seq(S)
  BY AppendIsConcat, AppendProperties
<1>2. ToSet(<<x>>) = {x}
  BY DEF ToSet
<1>3. ToSet(s \o <<x>>) = ToSet(s) \cup ToSet(<<x>>)
  BY <1>1, ToSetConcat
<1>. QED
  BY <1>1, <1>2, <1>3

\* An enumeration of a finite set has its elements, each once.
LEMMA SetToSeqOf ==
  ASSUME NEW S, IsFiniteSet(S)
  PROVE  /\ SetToSeq(S) \in Seq(S)
         /\ ToSet(SetToSeq(S)) = S
         /\ Len(SetToSeq(S)) = Cardinality(S)
         /\ IsInjective(SetToSeq(S))
<1>. DEFINE n == Cardinality(S)
            f == SetToSeq(S)
<1>1. n \in Nat /\ ExistsBijection(1..n, S)
  BY FS_CardinalityType
<1>2. PICK g : g \in Bijection(1..n, S)
  BY <1>1, Fun_ExistsBij
<1>3. g \in [1..n -> S] /\ IsInjective(g)
  BY <1>2, Fun_BijectionProperties DEF Injection
<1>4. f \in [1..n -> S] /\ IsInjective(f)
  BY <1>3 DEF SetToSeq
<1>5. IsFiniteSet(1..n) /\ Cardinality(1..n) = n
  BY <1>1, FS_Interval
<1>6. f \in Injection(1..n, S)
  BY <1>4 DEF Injection
<1>7. f \in Surjection(1..n, S)
  BY <1>5, <1>6, FS_Injection
<1>8. \A x \in S : \E k \in 1..n : f[k] = x
  BY <1>7 DEF Surjection
<1>. HIDE DEF f
<1>9. f \in Seq(S) /\ Len(f) = n /\ DOMAIN f = 1..n
  BY <1>1, <1>4
<1>10. ToSet(f) = S
  BY <1>4, <1>8, <1>9 DEF ToSet
<1>. QED
  BY <1>4, <1>9, <1>10 DEF f

\* Flattening appends one part after the other.
LEMMA FlattenSteps ==
  ASSUME NEW S, NEW ss \in Seq(Seq(S))
  PROVE  \E f \in [0..Len(ss) -> Seq(S)] :
           /\ f[0] = <<>>
           /\ \A k \in 1..Len(ss) : f[k] = f[k - 1] \o ss[k]
           /\ FlattenSeq(ss) = f[Len(ss)]
<1>1. Len(ss) \in Nat /\ \A k \in 1..Len(ss) : ss[k] \in Seq(S)
  BY LenProperties, ElementOfSeq
<1>2. <<>> \in Seq(S)
  BY EmptySeq
<1>3. CASE Len(ss) = 0
  <2>1. ss = <<>>
    BY <1>3, EmptySeq
  <2>2. FlattenSeq(ss) = <<>>
    BY <1>3, <2>1 DEF FlattenSeq
  <2>. DEFINE f == [k \in 0..Len(ss) |-> <<>>]
  <2>3. f \in [0..Len(ss) -> Seq(S)]
    BY <1>2
  <2>4. f[0] = <<>> /\ FlattenSeq(ss) = f[Len(ss)]
    BY <1>3, <2>2
  <2>5. \A k \in 1..Len(ss) : f[k] = f[k - 1] \o ss[k]
    BY <1>3
  <2>. HIDE DEF f
  <2>. QED
    BY <2>3, <2>4, <2>5
<1>4. CASE Len(ss) # 0
  <2>. DEFINE flat ==
         CHOOSE f : f = [k \in 1..Len(ss) |-> IF k = 1 THEN ss[k] ELSE f[k - 1] \o ss[k]]
  <2>0. FlattenSeq(ss) = flat[Len(ss)]
    BY <1>4 DEF FlattenSeq
  <2>1. flat = [k \in 1..Len(ss) |-> IF k = 1 THEN ss[k] ELSE flat[k - 1] \o ss[k]]
    <3>. DEFINE next == [p \in (1..Len(ss)) \X Seq(S) |-> p[2] \o ss[p[1]]]
    <3>1. next \in [(1..Len(ss)) \X Seq(S) -> Seq(S)]
      BY <1>1, ConcatProperties
    <3>. HIDE DEF next
    <3>3. PICK g : Computes(g, Len(ss), Seq(S), <<>>, next)
      BY <1>1, <1>2, <3>1, Recursion
    <3>4. ASSUME NEW k \in 1..Len(ss)
          PROVE  g[k] = IF k = 1 THEN ss[k] ELSE g[k - 1] \o ss[k]
      <4>1. k \in 0..Len(ss) /\ k # 0 /\ k - 1 \in 0..Len(ss)
        BY <1>1
      <4>2. g[k - 1] \in Seq(S) /\ ss[k] \in Seq(S) /\ g[k] = next[<<k, g[k - 1]>>]
        BY <1>1, <3>3, <4>1 DEF Computes
      <4>3. g[k] = g[k - 1] \o ss[k]
        BY <4>2 DEF next
      <4>4. CASE k = 1
        <5>1. g[k - 1] = <<>>
          BY <3>3, <4>1, <4>4 DEF Computes
        <5>. QED
          BY <4>2, <4>3, <4>4, <5>1, ConcatEmptySeq
      <4>. QED
        BY <4>3, <4>4
    <3>. DEFINE h == [k \in 1..Len(ss) |-> g[k]]
    <3>5. ASSUME NEW k \in 1..Len(ss)
          PROVE  h[k] = IF k = 1 THEN ss[k] ELSE h[k - 1] \o ss[k]
      BY <1>1, <3>4
    <3>6. h = [k \in 1..Len(ss) |-> IF k = 1 THEN ss[k] ELSE h[k - 1] \o ss[k]]
      BY <3>5
    <3>. HIDE DEF h
    <3>. QED
      BY <3>6
  <2>. HIDE DEF flat
  <2>2. \A k \in 1..Len(ss) : flat[k] = IF k = 1 THEN ss[k] ELSE flat[k - 1] \o ss[k]
    BY <2>1
  <2>. DEFINE f == [k \in 0..Len(ss) |-> IF k = 0 THEN <<>> ELSE flat[k]]
              Good == {k \in 0..Len(ss) : f[k] \in Seq(S)}
  <2>3. f[0] = <<>> /\ 0 \in Good
    BY <1>1, <1>2
  <2>9. \A k \in 1..Len(ss) : f[k] = flat[k]
    OBVIOUS
  <2>4. ASSUME NEW k \in 1..Len(ss), f[k - 1] \in Seq(S)
        PROVE  f[k] = f[k - 1] \o ss[k] /\ f[k] \in Seq(S)
    <3>0. k \in 0..Len(ss) /\ k # 0 /\ k - 1 \in 0..Len(ss) /\ ss[k] \in Seq(S)
      BY <1>1
    <3>. HIDE DEF f
    <3>1. CASE k = 1
      <4>1. f[k] = ss[k] /\ f[k - 1] = <<>>
        BY <2>2, <2>3, <2>9, <3>0, <3>1
      <4>. QED
        BY <3>0, <4>1, ConcatEmptySeq
    <3>2. CASE k # 1
      <4>0. k - 1 \in 1..Len(ss)
        BY <1>1, <3>2
      <4>1. k - 1 \in 1..Len(ss) /\ flat[k] = flat[k - 1] \o ss[k]
        BY <2>2, <3>2, <4>0
      <4>2. f[k] = f[k - 1] \o ss[k]
        BY <2>9, <4>1
      <4>. QED
        BY <2>4, <3>0, <4>2, ConcatProperties
    <3>. QED
      BY <3>1, <3>2
  <2>5. \A m \in 0..Len(ss) : m \in Good
    <3>. SUFFICES ASSUME NEW m \in 0..Len(ss) PROVE m \in Good
      OBVIOUS
    <3>1. ASSUME NEW k \in 1..m, k - 1 \in Good PROVE k \in Good
      <4>1. k \in 1..Len(ss) /\ k \in 0..Len(ss)
        BY <1>1
      <4>2. f[k - 1] \in Seq(S)
        BY <3>1
      <4>3. f[k] \in Seq(S)
        BY <2>4, <4>1, <4>2
      <4>. QED
        BY <4>1, <4>3
    <3>2. m \in Nat
      BY <1>1
    <3>. HIDE DEF Good
    <3>. QED
      BY <2>3, <3>1, <3>2, SetInductionUpTo
  <2>6. f \in [0..Len(ss) -> Seq(S)]
    BY <2>5
  <2>7. ASSUME NEW k \in 1..Len(ss) PROVE f[k] = f[k - 1] \o ss[k]
    <3>1. k - 1 \in Good
      BY <1>1, <2>5
    <3>. QED
      BY <2>4, <3>1
  <2>8. FlattenSeq(ss) = f[Len(ss)]
    BY <1>1, <1>4, <2>0
  <2>. QED
    BY <2>3, <2>6, <2>7, <2>8
<1>. QED
  BY <1>3, <1>4

\* Flattening keeps every element of every part, and nothing else.
LEMMA FlattenSeqOf ==
  ASSUME NEW S, NEW ss \in Seq(Seq(S))
  PROVE  /\ FlattenSeq(ss) \in Seq(S)
         /\ ToSet(FlattenSeq(ss)) = UNION {ToSet(ss[k]) : k \in 1..Len(ss)}
<1>1. Len(ss) \in Nat /\ \A k \in 1..Len(ss) : ss[k] \in Seq(S)
  BY LenProperties, ElementOfSeq
<1>2. PICK flat \in [0..Len(ss) -> Seq(S)] :
        /\ flat[0] = <<>>
        /\ \A k \in 1..Len(ss) : flat[k] = flat[k - 1] \o ss[k]
        /\ FlattenSeq(ss) = flat[Len(ss)]
  BY FlattenSteps
<1>. DEFINE Good == {k \in 0..Len(ss) : ToSet(flat[k]) = UNION {ToSet(ss[j]) : j \in 1..k}}
<1>3. 0 \in Good
  BY <1>1, <1>2, ToSetEmpty
<1>4. ASSUME NEW k \in 1..Len(ss), k - 1 \in Good PROVE k \in Good
  <2>1. /\ k \in 0..Len(ss) /\ k - 1 \in 0..Len(ss)
        /\ flat[k - 1] \in Seq(S) /\ ss[k] \in Seq(S)
        /\ ToSet(flat[k - 1]) = UNION {ToSet(ss[j]) : j \in 1..(k - 1)}
    BY <1>1, <1>4
  <2>2. flat[k] = flat[k - 1] \o ss[k]
    BY <1>2
  <2>3. ToSet(flat[k]) = ToSet(flat[k - 1]) \cup ToSet(ss[k])
    BY <2>1, <2>2, ToSetConcat
  <2>4. 1..k = (1..(k - 1)) \cup {k}
    BY <1>1
  <2>5. UNION {ToSet(ss[j]) : j \in 1..k}
          = (UNION {ToSet(ss[j]) : j \in 1..(k - 1)}) \cup ToSet(ss[k])
    BY <2>4
  <2>. QED
    BY <2>1, <2>3, <2>5
<1>5. Len(ss) \in Good
  <2>. HIDE DEF Good
  <2>. QED
    BY <1>1, <1>3, <1>4, SetInductionUpTo
<1>. QED
  BY <1>1, <1>2, <1>5

\* The image of a finite set under a function is finite.
LEMMA ImageFinite ==
  ASSUME NEW S, IsFiniteSet(S), NEW f, DOMAIN f = S, f = [x \in S |-> f[x]]
  PROVE  IsFiniteSet({f[x] : x \in S})
<1>. DEFINE T == {f[x] : x \in S}
<1>1. f \in [S -> T] /\ \A t \in T : \E s \in S : f[s] = t
  OBVIOUS
<1>2. f \in Surjection(S, T)
  BY <1>1 DEF Surjection
<1>. HIDE DEF T
<1>3. IsFiniteSet(T)
  BY <1>2, FS_Surjection
<1>. QED
  BY <1>3 DEF T

-----------------------------------------------------------------------------
LEMMA FlattenAppend ==
  ASSUME NEW S, NEW ss \in Seq(Seq(S)), NEW x \in Seq(S)
  PROVE  FlattenSeq(Append(ss, x)) = FlattenSeq(ss) \o x
<1>. DEFINE tt == Append(ss, x)
<1>1. /\ tt \in Seq(Seq(S)) /\ Len(tt) = Len(ss) + 1 /\ Len(ss) \in Nat
      /\ \A k \in 1..Len(ss) : tt[k] = ss[k]
      /\ tt[Len(ss) + 1] = x
  BY AppendProperties, LenProperties
<1>. HIDE DEF tt
<1>2. PICK f \in [0..Len(ss) -> Seq(S)] :
        /\ f[0] = <<>>
        /\ \A k \in 1..Len(ss) : f[k] = f[k - 1] \o ss[k]
        /\ FlattenSeq(ss) = f[Len(ss)]
  BY FlattenSteps
<1>3. PICK g \in [0..Len(tt) -> Seq(S)] :
        /\ g[0] = <<>>
        /\ \A k \in 1..Len(tt) : g[k] = g[k - 1] \o tt[k]
        /\ FlattenSeq(tt) = g[Len(tt)]
  BY <1>1, FlattenSteps
<1>. DEFINE Good == {k \in 0..Len(ss) : g[k] = f[k]}
<1>4. 0 \in Good
  BY <1>1, <1>2, <1>3
<1>5. ASSUME NEW k \in 1..Len(ss), k - 1 \in Good PROVE k \in Good
  <2>1. k \in 1..Len(tt) /\ k \in 0..Len(ss) /\ g[k - 1] = f[k - 1] /\ tt[k] = ss[k]
    BY <1>1, <1>5
  <2>. QED
    BY <1>2, <1>3, <2>1
<1>6. Len(ss) \in Good
  <2>. HIDE DEF Good
  <2>. QED
    BY <1>1, <1>4, <1>5, SetInductionUpTo
<1>7. Len(tt) \in 1..Len(tt) /\ Len(tt) - 1 = Len(ss)
  BY <1>1
<1>8. FlattenSeq(tt) = g[Len(ss)] \o x
  BY <1>1, <1>3, <1>7
<1>. QED
  BY <1>2, <1>6, <1>8 DEF tt

LEMMA Associative ==
  ASSUME NEW S
  PROVE  \A s, t, u \in Seq(S) : (s \o t) \o u = s \o (t \o u)
BY ConcatAssociative

LEMMA FlattenPrepend ==
  ASSUME NEW S, NEW ss \in Seq(Seq(S)), NEW x \in Seq(S)
  PROVE  /\ <<x>> \o ss \in Seq(Seq(S))
         /\ FlattenSeq(<<x>> \o ss) = x \o FlattenSeq(ss)
<1>0. \A s, t, u \in Seq(S) : (s \o t) \o u = s \o (t \o u)
  BY Associative
<1>. DEFINE tt == <<x>> \o ss
<1>1. /\ tt \in Seq(Seq(S)) /\ Len(tt) = Len(ss) + 1 /\ Len(ss) \in Nat
      /\ \A k \in 1..Len(ss) : tt[k + 1] = ss[k] /\ ss[k] \in Seq(S)
      /\ tt[1] = x
  <2>1. <<x>> \in Seq(Seq(S)) /\ Len(<<x>>) = 1 /\ <<x>>[1] = x
    OBVIOUS
  <2>2. Len(ss) \in Nat
    BY LenProperties
  <2>3. /\ tt \in Seq(Seq(S)) /\ Len(tt) = 1 + Len(ss)
        /\ \A i \in 1..(1 + Len(ss)) : tt[i] = IF i <= 1 THEN <<x>>[i] ELSE ss[i - 1]
    BY <2>1, ConcatProperties
  <2>. HIDE DEF tt
  <2>4. ASSUME NEW k \in 1..Len(ss) PROVE tt[k + 1] = ss[k] /\ ss[k] \in Seq(S)
    <3>1. k + 1 \in 1..(1 + Len(ss)) /\ ~(k + 1 <= 1) /\ (k + 1) - 1 = k
      BY <2>2
    <3>. QED
      BY <2>3, <3>1, ElementOfSeq
  <2>5. tt[1] = x
    BY <2>1, <2>2, <2>3
  <2>. QED
    BY <2>2, <2>3, <2>4, <2>5
<1>. HIDE DEF tt
<1>2. PICK f \in [0..Len(ss) -> Seq(S)] :
        /\ f[0] = <<>>
        /\ \A k \in 1..Len(ss) : f[k] = f[k - 1] \o ss[k]
        /\ FlattenSeq(ss) = f[Len(ss)]
  BY FlattenSteps
<1>3. PICK g \in [0..Len(tt) -> Seq(S)] :
        /\ g[0] = <<>>
        /\ \A k \in 1..Len(tt) : g[k] = g[k - 1] \o tt[k]
        /\ FlattenSeq(tt) = g[Len(tt)]
  BY <1>1, FlattenSteps
<1>. DEFINE Good == {k \in 0..Len(ss) : g[k + 1] = x \o f[k]}
<1>4. 0 \in Good
  <2>1. g[1] = g[1 - 1] \o tt[1] /\ 1 - 1 = 0
    BY <1>1, <1>3
  <2>2. g[1] = x /\ x \o f[0] = x
    BY <1>1, <1>2, <1>3, <2>1, ConcatEmptySeq
  <2>. QED
    BY <1>1, <2>2
<1>5. ASSUME NEW k \in 1..Len(ss), k - 1 \in Good PROVE k \in Good
  <2>1. /\ k + 1 \in 1..Len(tt) /\ k \in 0..Len(ss) /\ k - 1 \in 0..Len(ss)
        /\ (k - 1) + 1 = k /\ (k + 1) - 1 = k
    BY <1>1
  <2>2. g[k] = x \o f[k - 1] /\ tt[k + 1] = ss[k] /\ f[k - 1] \in Seq(S) /\ ss[k] \in Seq(S)
    BY <1>1, <1>5, <2>1
  <2>3. g[k + 1] = g[k] \o tt[k + 1]
    BY <1>3, <2>1
  <2>4. g[k + 1] = (x \o f[k - 1]) \o ss[k]
    BY <2>2, <2>3
  <2>5. (x \o f[k - 1]) \o ss[k] = x \o (f[k - 1] \o ss[k])
    <3>. DEFINE u == f[k - 1]
                v == ss[k]
    <3>1. x \in Seq(S) /\ u \in Seq(S) /\ v \in Seq(S)
      BY <2>2
    <3>. HIDE DEF u, v
    <3>2. (x \o u) \o v = x \o (u \o v)
      BY <1>0, <3>1
    <3>. QED
      BY <3>2 DEF u, v
  <2>6. f[k] = f[k - 1] \o ss[k]
    BY <1>2
  <2>. QED
    BY <2>1, <2>4, <2>5, <2>6
<1>6. Len(ss) \in Good
  <2>. HIDE DEF Good
  <2>. QED
    BY <1>1, <1>4, <1>5, SetInductionUpTo
<1>7. FlattenSeq(tt) = x \o FlattenSeq(ss)
  BY <1>1, <1>2, <1>3, <1>6
<1>. QED
  BY <1>1, <1>7 DEF tt

\* A text that was made shorter, or left alone.
Shrunk(s, t) == s = t \/ Len(s) < Len(t)

LEMMA ShrunkConcat ==
  ASSUME NEW S, NEW s \in Seq(S), NEW t \in Seq(S), NEW x \in Seq(S), NEW y \in Seq(S),
         Shrunk(s, t), Shrunk(x, y)
  PROVE  Shrunk(s \o x, t \o y)
<1>1. /\ Len(s \o x) = Len(s) + Len(x) /\ Len(t \o y) = Len(t) + Len(y)
      /\ Len(s) \in Nat /\ Len(t) \in Nat /\ Len(x) \in Nat /\ Len(y) \in Nat
  BY ConcatProperties, LenProperties
<1>2. CASE s = t /\ x = y
  BY <1>2 DEF Shrunk
<1>3. CASE ~(s = t /\ x = y)
  <2>1. \/ Len(s) < Len(t) /\ (x = y \/ Len(x) < Len(y))
        \/ s = t /\ Len(x) < Len(y)
    BY <1>3 DEF Shrunk
  <2>2. Len(s) + Len(x) < Len(t) + Len(y)
    BY <1>1, <2>1
  <2>. QED
    BY <1>1, <2>2 DEF Shrunk
<1>. QED
  BY <1>2, <1>3

LEMMA ShrunkOmit ==
  ASSUME NEW S, NEW s \in Seq(S), NEW t \in Seq(S), NEW y \in Seq(S), Shrunk(s, t)
  PROVE  Shrunk(s, t \o y)
<1>1. Len(t \o y) = Len(t) + Len(y) /\ Len(s) \in Nat /\ Len(t) \in Nat /\ Len(y) \in Nat
  BY ConcatProperties, LenProperties
<1>2. CASE y = <<>>
  BY <1>2, ConcatEmptySeq
<1>3. CASE y # <<>>
  <2>1. Len(y) > 0
    BY <1>1, <1>3, EmptySeq
  <2>2. Len(s) <= Len(t)
    BY <1>1 DEF Shrunk
  <2>. QED
    BY <1>1, <2>1, <2>2 DEF Shrunk
<1>. QED
  BY <1>2, <1>3

\* Parts made shorter make the whole shorter.
LEMMA FlattenShrunk ==
  ASSUME NEW S, NEW ss \in Seq(Seq(S)), NEW tt \in Seq(Seq(S)), Len(tt) = Len(ss),
         \A k \in 1..Len(ss) : Shrunk(tt[k], ss[k])
  PROVE  Shrunk(FlattenSeq(tt), FlattenSeq(ss))
<1>1. /\ Len(ss) \in Nat
      /\ \A k \in 1..Len(ss) : tt[k] \in Seq(S) /\ ss[k] \in Seq(S)
  BY LenProperties, ElementOfSeq
<1>2. PICK f \in [0..Len(ss) -> Seq(S)] :
        /\ f[0] = <<>>
        /\ \A k \in 1..Len(ss) : f[k] = f[k - 1] \o ss[k]
        /\ FlattenSeq(ss) = f[Len(ss)]
  BY FlattenSteps
<1>3. PICK g \in [0..Len(tt) -> Seq(S)] :
        /\ g[0] = <<>>
        /\ \A k \in 1..Len(tt) : g[k] = g[k - 1] \o tt[k]
        /\ FlattenSeq(tt) = g[Len(tt)]
  BY FlattenSteps
<1>. DEFINE Good == {k \in 0..Len(ss) : Shrunk(g[k], f[k])}
<1>4. 0 \in Good
  BY <1>1, <1>2, <1>3 DEF Shrunk
<1>5. ASSUME NEW k \in 1..Len(ss), k - 1 \in Good PROVE k \in Good
  <2>1. k \in 0..Len(ss) /\ k - 1 \in 0..Len(ss)
    BY <1>1
  <2>2. /\ Shrunk(g[k - 1], f[k - 1]) /\ Shrunk(tt[k], ss[k])
        /\ g[k - 1] \in Seq(S) /\ f[k - 1] \in Seq(S) /\ tt[k] \in Seq(S) /\ ss[k] \in Seq(S)
    BY <1>1, <1>5, <2>1
  <2>3. Shrunk(g[k - 1] \o tt[k], f[k - 1] \o ss[k])
    BY <2>2, ShrunkConcat
  <2>4. f[k] = f[k - 1] \o ss[k] /\ g[k] = g[k - 1] \o tt[k]
    BY <1>2, <1>3
  <2>. QED
    BY <2>1, <2>3, <2>4
<1>6. Len(ss) \in Good
  <2>. HIDE DEF Good
  <2>. QED
    BY <1>1, <1>4, <1>5, SetInductionUpTo
<1>. QED
  BY <1>2, <1>3, <1>6

LEMMA LengthSum ==
  ASSUME NEW a \in Nat, NEW b \in Nat, NEW c \in Nat, NEW d \in Nat, a <= c, b <= d
  PROVE  a + b <= c + d /\ (a < c \/ b < d => a + b < c + d)
OBVIOUS

\* One part that is shorter makes the whole strictly so.
LEMMA FlattenLess ==
  ASSUME NEW S, NEW ss \in Seq(Seq(S)), NEW tt \in Seq(Seq(S)), Len(tt) = Len(ss),
         \A k \in 1..Len(ss) : Shrunk(tt[k], ss[k]),
         NEW j \in 1..Len(ss), Len(tt[j]) < Len(ss[j])
  PROVE  Len(FlattenSeq(tt)) < Len(FlattenSeq(ss))
<1>1. /\ Len(ss) \in Nat
      /\ \A k \in 1..Len(ss) : tt[k] \in Seq(S) /\ ss[k] \in Seq(S)
  BY LenProperties, ElementOfSeq
<1>2. PICK f \in [0..Len(ss) -> Seq(S)] :
        /\ f[0] = <<>>
        /\ \A k \in 1..Len(ss) : f[k] = f[k - 1] \o ss[k]
        /\ FlattenSeq(ss) = f[Len(ss)]
  BY FlattenSteps
<1>3. PICK g \in [0..Len(tt) -> Seq(S)] :
        /\ g[0] = <<>>
        /\ \A k \in 1..Len(tt) : g[k] = g[k - 1] \o tt[k]
        /\ FlattenSeq(tt) = g[Len(tt)]
  BY FlattenSteps
<1>. DEFINE Good == {k \in 0..Len(ss) : /\ Len(g[k]) <= Len(f[k])
                                        /\ k >= j => Len(g[k]) < Len(f[k])}
<1>4. 0 \in Good
  BY <1>1, <1>2, <1>3, EmptySeq
<1>5. ASSUME NEW k \in 1..Len(ss), k - 1 \in Good PROVE k \in Good
  <2>1. k \in 0..Len(ss) /\ k - 1 \in 0..Len(ss) /\ k \in Int /\ j \in Int
    BY <1>1
  <2>2. /\ Shrunk(tt[k], ss[k])
        /\ g[k - 1] \in Seq(S) /\ f[k - 1] \in Seq(S) /\ tt[k] \in Seq(S) /\ ss[k] \in Seq(S)
    BY <1>1, <2>1
  <2>3. /\ Len(g[k - 1] \o tt[k]) = Len(g[k - 1]) + Len(tt[k])
        /\ Len(f[k - 1] \o ss[k]) = Len(f[k - 1]) + Len(ss[k])
        /\ Len(g[k - 1]) \in Nat /\ Len(tt[k]) \in Nat
        /\ Len(f[k - 1]) \in Nat /\ Len(ss[k]) \in Nat
    BY <2>2, ConcatProperties, LenProperties
  <2>4. f[k] = f[k - 1] \o ss[k] /\ g[k] = g[k - 1] \o tt[k]
    BY <1>2, <1>3
  <2>5. /\ Len(g[k - 1]) <= Len(f[k - 1])
        /\ k - 1 >= j => Len(g[k - 1]) < Len(f[k - 1])
    BY <1>5
  <2>6. Len(tt[k]) <= Len(ss[k]) /\ (k = j => Len(tt[k]) < Len(ss[k]))
    BY <2>2, <2>3 DEF Shrunk
  <2>7. /\ Len(g[k]) <= Len(f[k])
        /\ k >= j => Len(g[k]) < Len(f[k])
    <3>1. Len(g[k]) = Len(g[k - 1]) + Len(tt[k]) /\ Len(f[k]) = Len(f[k - 1]) + Len(ss[k])
      BY <2>3, <2>4
    <3>2. k >= j => k = j \/ k - 1 >= j
      BY <2>1
    <3>3. /\ Len(g[k - 1]) + Len(tt[k]) <= Len(f[k - 1]) + Len(ss[k])
          /\ Len(g[k - 1]) < Len(f[k - 1]) \/ Len(tt[k]) < Len(ss[k]) =>
               Len(g[k - 1]) + Len(tt[k]) < Len(f[k - 1]) + Len(ss[k])
      BY <2>3, <2>5, <2>6, LengthSum
    <3>. QED
      BY <2>5, <2>6, <3>1, <3>2, <3>3
  <2>. QED
    BY <2>1, <2>7
<1>6. Len(ss) \in Good
  <2>. HIDE DEF Good
  <2>. QED
    BY <1>1, <1>4, <1>5, SetInductionUpTo
<1>7. Len(ss) >= j
  BY <1>1
<1>. QED
  BY <1>2, <1>3, <1>6, <1>7

\* The parts that are kept, the others emptied.
Only(ss, keep) == [k \in 1..Len(ss) |-> IF k \in keep THEN ss[k] ELSE <<>>]

LEMMA OnlyOf ==
  ASSUME NEW S, NEW ss \in Seq(Seq(S)), NEW keep
  PROVE  /\ Only(ss, keep) \in Seq(Seq(S)) /\ Len(Only(ss, keep)) = Len(ss)
         /\ Shrunk(FlattenSeq(Only(ss, keep)), FlattenSeq(ss))
         /\ (\E k \in 1..Len(ss) : k \notin keep /\ ss[k] # <<>>) =>
              Len(FlattenSeq(Only(ss, keep))) < Len(FlattenSeq(ss))
<1>. DEFINE tt == Only(ss, keep)
<1>1. Len(ss) \in Nat /\ \A k \in 1..Len(ss) : ss[k] \in Seq(S)
  BY LenProperties, ElementOfSeq
<1>2. <<>> \in Seq(S) /\ Len(<<>>) = 0
  BY EmptySeq
<1>3. tt \in [1..Len(ss) -> Seq(S)]
  BY <1>1, <1>2 DEF Only
<1>4. /\ tt \in Seq(Seq(S)) /\ Len(tt) = Len(ss)
      /\ \A k \in 1..Len(ss) : tt[k] = IF k \in keep THEN ss[k] ELSE <<>>
  BY <1>1, <1>3 DEF Only
<1>. HIDE DEF tt
<1>5. ASSUME NEW k \in 1..Len(ss)
      PROVE  Shrunk(tt[k], ss[k]) /\ (k \notin keep /\ ss[k] # <<>> => Len(tt[k]) < Len(ss[k]))
  <2>1. ss[k] = <<>> \/ Len(ss[k]) > 0
    BY <1>1, EmptySeq, LenProperties
  <2>. QED
    BY <1>2, <1>4, <2>1 DEF Shrunk
<1>6. Shrunk(FlattenSeq(tt), FlattenSeq(ss))
  BY <1>4, <1>5, FlattenShrunk
<1>7. ASSUME NEW k \in 1..Len(ss), k \notin keep, ss[k] # <<>>
      PROVE  Len(FlattenSeq(tt)) < Len(FlattenSeq(ss))
  <2>1. Len(tt[k]) < Len(ss[k])
    BY <1>5, <1>7
  <2>. QED
    BY <1>4, <1>5, <2>1, FlattenLess
<1>. QED
  BY <1>4, <1>6, <1>7 DEF tt

\* A run of the parts is those parts, the others left out.
LEMMA FlattenRun ==
  ASSUME NEW S, NEW ss \in Seq(Seq(S)), NEW a \in 1..Len(ss), NEW b \in 0..Len(ss)
  PROVE  /\ SubSeq(ss, a, b) \in Seq(Seq(S))
         /\ FlattenSeq(SubSeq(ss, a, b)) = FlattenSeq(Only(ss, a..b))
<1>1. /\ Len(ss) \in Nat /\ a \in Int /\ b \in Int
      /\ \A k \in 1..Len(ss) : ss[k] \in Seq(S)
  BY LenProperties, ElementOfSeq
<1>. DEFINE tt == Only(ss, a..b)
<1>2. /\ tt \in Seq(Seq(S)) /\ Len(tt) = Len(ss)
      /\ \A k \in 1..Len(ss) : tt[k] = IF k \in a..b THEN ss[k] ELSE <<>>
  BY OnlyOf DEF Only
<1>. HIDE DEF tt
<1>3. PICK f \in [0..Len(tt) -> Seq(S)] :
        /\ f[0] = <<>>
        /\ \A k \in 1..Len(tt) : f[k] = f[k - 1] \o tt[k]
        /\ FlattenSeq(tt) = f[Len(tt)]
  BY <1>2, FlattenSteps
<1>4. ASSUME NEW n \in 0..Len(ss) PROVE SubSeq(ss, a, n) \in Seq(Seq(S))
  <2>1. a \in Int /\ n \in Int /\ \A k \in a..n : ss[k] \in Seq(S)
    BY <1>1
  <2>. QED
    BY <2>1, SubSeqProperties
<1>5. FlattenSeq(<<>>) = <<>>
  BY EmptySeq DEF FlattenSeq
<1>. DEFINE upTo(n) == IF n < b THEN n ELSE b
            Good == {n \in 0..Len(ss) : f[n] = FlattenSeq(SubSeq(ss, a, upTo(n)))}
<1>6. 0 \in Good
  <2>1. upTo(0) = 0 /\ 0 < a
    BY <1>1
  <2>2. SubSeq(ss, a, 0) = <<>>
    BY <1>1, <2>1, SubSeqEmpty
  <2>. QED
    BY <1>1, <1>3, <1>5, <2>1, <2>2
<1>7. ASSUME NEW n \in 1..Len(ss), n - 1 \in Good PROVE n \in Good
  <2>1. n \in 0..Len(ss) /\ n - 1 \in 0..Len(ss) /\ n \in Int
    BY <1>1
  <2>2. f[n] = f[n - 1] \o tt[n] /\ f[n - 1] \in Seq(S)
    BY <1>2, <1>3, <2>1
  <2>3. f[n - 1] = FlattenSeq(SubSeq(ss, a, upTo(n - 1)))
    BY <1>7
  <2>4. CASE n \in a..b
    <3>1. upTo(n) = n /\ upTo(n - 1) = n - 1 /\ tt[n] = ss[n] /\ n \in a..Len(ss)
      BY <1>1, <1>2, <2>1, <2>4
    <3>. DEFINE u == SubSeq(ss, a, n - 1)
    <3>2. u \in Seq(Seq(S)) /\ ss[n] \in Seq(S)
      BY <1>1, <1>4, <2>1
    <3>3. SubSeq(ss, a, n) = u \o <<ss[n]>>
      BY <3>1, SubSeqRecursiveSecond
    <3>4. u \o <<ss[n]>> = Append(u, ss[n])
      BY <3>2, AppendIsConcat
    <3>5. FlattenSeq(Append(u, ss[n])) = FlattenSeq(u) \o ss[n]
      <4>. HIDE DEF u
      <4>. QED
        BY <3>2, FlattenAppend
    <3>6. f[n] = FlattenSeq(u) \o ss[n]
      BY <2>2, <2>3, <3>1
    <3>7. f[n] = FlattenSeq(SubSeq(ss, a, n))
      BY <3>3, <3>4, <3>5, <3>6
    <3>. QED
      BY <2>1, <3>1, <3>7
  <2>5. CASE n \notin a..b
    <3>1. f[n] = f[n - 1]
      BY <1>2, <2>2, <2>5, ConcatEmptySeq
    <3>2. CASE n > b
      <4>1. upTo(n) = b /\ upTo(n - 1) = b
        BY <1>1, <2>1, <3>2
      <4>. QED
        BY <2>1, <2>3, <3>1, <4>1
    <3>3. CASE ~(n > b)
      <4>1. upTo(n) = n /\ upTo(n - 1) = n - 1 /\ n < a /\ n - 1 < a
        BY <1>1, <2>1, <2>5, <3>3
      <4>2. SubSeq(ss, a, n) = <<>> /\ SubSeq(ss, a, n - 1) = <<>>
        BY <1>1, <2>1, <4>1, SubSeqEmpty
      <4>. QED
        BY <2>1, <2>3, <3>1, <4>1, <4>2
    <3>. QED
      BY <3>2, <3>3
  <2>. QED
    BY <2>4, <2>5
<1>8. Len(ss) \in Good
  <2>. HIDE DEF Good
  <2>. QED
    BY <1>1, <1>6, <1>7, SetInductionUpTo
<1>9. upTo(Len(ss)) = b
  BY <1>1
<1>. QED
  BY <1>2, <1>3, <1>4, <1>8, <1>9 DEF tt

\* Parts that share nothing and repeat nothing repeat nothing together.
LEMMA DistinctConcat ==
  ASSUME NEW S, NEW s \in Seq(S), NEW t \in Seq(S),
         IsInjective(s), IsInjective(t), ToSet(s) \cap ToSet(t) = {}
  PROVE  IsInjective(s \o t)
<1>. DEFINE u == s \o t
<1>1. /\ Len(s) \in Nat /\ Len(t) \in Nat
      /\ DOMAIN s = 1..Len(s) /\ DOMAIN t = 1..Len(t) /\ DOMAIN u = 1..(Len(s) + Len(t))
      /\ \A j \in 1..(Len(s) + Len(t)) :
           u[j] = IF j <= Len(s) THEN s[j] ELSE t[j - Len(s)]
  <2>1. u \in Seq(S) /\ Len(u) = Len(s) + Len(t)
    BY ConcatProperties
  <2>. QED
    BY <2>1, ConcatProperties, LenProperties
<1>2. ToSet(s) = {s[j] : j \in 1..Len(s)} /\ ToSet(t) = {t[j] : j \in 1..Len(t)}
  BY ToSetOf
<1>. HIDE DEF u
<1>3. ASSUME NEW j \in 1..(Len(s) + Len(t)), NEW k \in 1..(Len(s) + Len(t)), u[j] = u[k]
      PROVE  j = k
  <2>1. CASE j <= Len(s) /\ k <= Len(s)
    <3>1. j \in 1..Len(s) /\ k \in 1..Len(s) /\ s[j] = s[k]
      BY <1>1, <1>3, <2>1
    <3>. QED
      BY <1>1, <3>1 DEF IsInjective
  <2>2. CASE ~(j <= Len(s)) /\ ~(k <= Len(s))
    <3>1. /\ j - Len(s) \in 1..Len(t) /\ k - Len(s) \in 1..Len(t)
          /\ t[j - Len(s)] = t[k - Len(s)]
      BY <1>1, <1>3, <2>2
    <3>2. j - Len(s) = k - Len(s)
      BY <1>1, <3>1 DEF IsInjective
    <3>. QED
      BY <1>1, <3>2
  <2>3. CASE j <= Len(s) /\ ~(k <= Len(s))
    <3>1. j \in 1..Len(s) /\ k - Len(s) \in 1..Len(t) /\ s[j] = t[k - Len(s)]
      BY <1>1, <1>3, <2>3
    <3>. QED
      BY <1>2, <3>1
  <2>4. CASE ~(j <= Len(s)) /\ k <= Len(s)
    <3>1. k \in 1..Len(s) /\ j - Len(s) \in 1..Len(t) /\ s[k] = t[j - Len(s)]
      BY <1>1, <1>3, <2>4
    <3>. QED
      BY <1>2, <3>1
  <2>. QED
    BY <2>1, <2>2, <2>3, <2>4
<1>. QED
  BY <1>1, <1>3 DEF IsInjective, u

LEMMA DistinctOne ==
  ASSUME NEW S, NEW x \in S
  PROVE  <<x>> \in Seq(S) /\ IsInjective(<<x>>) /\ ToSet(<<x>>) = {x}
BY DEF IsInjective, ToSet

LEMMA DistinctAppend ==
  ASSUME NEW S, NEW s \in Seq(S), NEW x \in S, IsInjective(s), x \notin ToSet(s)
  PROVE  IsInjective(Append(s, x))
<1>. DEFINE one == <<x>>
<1>1. one \in Seq(S) /\ IsInjective(one) /\ ToSet(one) = {x} /\ Append(s, x) = s \o one
  BY DistinctOne, AppendIsConcat
<1>. HIDE DEF one
<1>2. IsInjective(s \o one)
  BY <1>1, DistinctConcat
<1>. QED
  BY <1>1, <1>2

\* Parts that repeat nothing and share nothing pairwise, flattened.
LEMMA DistinctFlatten ==
  ASSUME NEW S, NEW ss \in Seq(Seq(S)),
         \A k \in 1..Len(ss) : IsInjective(ss[k]),
         \A j, k \in 1..Len(ss) : j # k => ToSet(ss[j]) \cap ToSet(ss[k]) = {}
  PROVE  IsInjective(FlattenSeq(ss))
<1>1. Len(ss) \in Nat /\ \A k \in 1..Len(ss) : ss[k] \in Seq(S)
  BY LenProperties, ElementOfSeq
<1>2. PICK flat \in [0..Len(ss) -> Seq(S)] :
        /\ flat[0] = <<>>
        /\ \A k \in 1..Len(ss) : flat[k] = flat[k - 1] \o ss[k]
        /\ FlattenSeq(ss) = flat[Len(ss)]
  BY FlattenSteps
<1>. DEFINE Good == {k \in 0..Len(ss) : /\ IsInjective(flat[k])
                                       /\ ToSet(flat[k]) = UNION {ToSet(ss[j]) : j \in 1..k}}
<1>3. 0 \in Good
  <2>1. IsInjective(<<>>)
    BY DEF IsInjective
  <2>. QED
    BY <1>1, <1>2, <2>1, ToSetEmpty
<1>4. ASSUME NEW k \in 1..Len(ss), k - 1 \in Good PROVE k \in Good
  <2>1. /\ k \in 0..Len(ss) /\ k - 1 \in 0..Len(ss)
        /\ flat[k - 1] \in Seq(S) /\ ss[k] \in Seq(S)
        /\ ToSet(flat[k - 1]) = UNION {ToSet(ss[j]) : j \in 1..(k - 1)}
        /\ IsInjective(flat[k - 1]) /\ IsInjective(ss[k])
    BY <1>1, <1>4
  <2>2. flat[k] = flat[k - 1] \o ss[k]
    BY <1>2
  <2>3. \A j \in 1..(k - 1) : j \in 1..Len(ss) /\ j # k
    BY <1>1
  <2>4. ToSet(flat[k - 1]) \cap ToSet(ss[k]) = {}
    BY <2>1, <2>3
  <2>5. PICK x, y : x = flat[k - 1] /\ y = ss[k]
    OBVIOUS
  <2>6. IsInjective(x \o y) /\ ToSet(x \o y) = ToSet(x) \cup ToSet(y)
    BY <2>1, <2>4, <2>5, DistinctConcat, ToSetConcat
  <2>7. 1..k = (1..(k - 1)) \cup {k}
    BY <1>1
  <2>8. UNION {ToSet(ss[j]) : j \in 1..k}
          = (UNION {ToSet(ss[j]) : j \in 1..(k - 1)}) \cup ToSet(ss[k])
    BY <2>7
  <2>. QED
    BY <2>1, <2>2, <2>5, <2>6, <2>8
<1>5. Len(ss) \in Good
  <2>. HIDE DEF Good
  <2>. QED
    BY <1>1, <1>3, <1>4, SetInductionUpTo
<1>. QED
  BY <1>2, <1>5
==============================================================================

--------------------------- MODULE LintRun_proofs ---------------------------
(***************************************************************************)
(* Proofs about one run of the zsh-lint command, for every set of files,   *)
(* every sequence of versions of every configuration, every command line   *)
(* and every number of changes to the file system.  The loops come first,  *)
(* then the inductive invariant Inv and its properties, then what a        *)
(* project's analysis leaves of its findings, and with it the report.      *)
(***************************************************************************)
EXTENDS LintRun, SequenceFacts

\* The IDs of the rules, and those the command reports under itself.
Ids == STRING \cup {"meta/malformed-suppression", "meta/unused-suppression", "parse/error"}
Diagnostic == [file : Paths, line : Nat, id : Ids, sev : Severities, slot : Nat \X Nat]
-----------------------------------------------------------------------------
(***************************************************************************)
(* The loops of the operators.                                             *)
(***************************************************************************)
\* The elements picked are those at the positions asked for, each as often.
LEMMA PickedOf ==
  ASSUME NEW T, NEW s \in Seq(T), NEW at
  PROVE  /\ Picked(s, at) \in Seq(T)
         /\ ToSet(Picked(s, at)) = {s[n] : n \in (1..Len(s)) \cap at}
         /\ IsInjective(s) => IsInjective(Picked(s, at))
<1>. DEFINE m == Len(s)
            picked == CHOOSE f : f = [n \in 0..m |->
                        IF n = 0 THEN <<>>
                        ELSE IF n \in at THEN Append(f[n - 1], s[n]) ELSE f[n - 1]]
            next == [p \in (1..m) \X Seq(T) |->
                        IF p[1] \in at THEN Append(p[2], s[p[1]]) ELSE p[2]]
<1>1. m \in Nat /\ DOMAIN s = 1..m /\ \A n \in 1..m : s[n] \in T
  BY LenProperties, ElementOfSeq
<1>2. Picked(s, at) = picked[m]
  BY DEF Picked
<1>3. <<>> \in Seq(T) /\ next \in [(1..m) \X Seq(T) -> Seq(T)]
  BY <1>1
<1>4. picked = [n \in 0..m |-> IF n = 0 THEN <<>>
                  ELSE IF n \in at THEN Append(picked[n - 1], s[n]) ELSE picked[n - 1]]
  <2>. HIDE DEF next, m
  <2>1. PICK f : Computes(f, m, Seq(T), <<>>, next)
    BY <1>1, <1>3, Recursion
  <2>2. f \in [0..m -> Seq(T)] /\ f[0] = <<>>
        /\ \A n \in 1..m : f[n] = next[<<n, f[n - 1]>>]
    BY <2>1 DEF Computes
  <2>3. ASSUME NEW n \in 1..m
        PROVE  f[n] = IF n \in at THEN Append(f[n - 1], s[n]) ELSE f[n - 1]
    <3>1. f[n - 1] \in Seq(T) /\ <<n, f[n - 1]>> \in (1..m) \X Seq(T)
      BY <1>1, <2>2
    <3>2. f[n] = next[<<n, f[n - 1]>>]
      BY <2>2
    <3>. QED
      BY <3>1, <3>2 DEF next
  <2>4. ASSUME NEW n \in 0..m
        PROVE  f[n] = IF n = 0 THEN <<>>
                      ELSE IF n \in at THEN Append(f[n - 1], s[n]) ELSE f[n - 1]
    <3>1. n = 0 \/ n \in 1..m
      BY <1>1
    <3>2. CASE n = 0
      BY <2>2, <3>2
    <3>3. CASE n \in 1..m
      BY <1>1, <2>3, <3>3
    <3>. QED
      BY <3>1, <3>2, <3>3
  <2>5. f = [n \in 0..m |-> IF n = 0 THEN <<>>
                  ELSE IF n \in at THEN Append(f[n - 1], s[n]) ELSE f[n - 1]]
    BY <2>2, <2>4
  <2>. QED
    BY <2>5
<1>5. /\ 0 \in 0..m /\ picked[0] = <<>>
      /\ \A n \in 1..m : n \in 0..m /\ picked[n] = IF n \in at THEN Append(picked[n - 1], s[n])
                                                  ELSE picked[n - 1]
  <2>. HIDE DEF picked, m
  <2>1. 0 \in 0..m /\ \A n \in 1..m : n \in 0..m /\ n # 0
    BY <1>1
  <2>2. \A n \in 0..m : picked[n] = IF n = 0 THEN <<>>
                  ELSE IF n \in at THEN Append(picked[n - 1], s[n]) ELSE picked[n - 1]
    BY <1>4
  <2>3. picked[0] = <<>>
    BY <2>1, <2>2
  <2>. QED
    BY <2>1, <2>2, <2>3
<1>. DEFINE Fine(n) == /\ picked[n] \in Seq(T)
                       /\ ToSet(picked[n]) = {s[k] : k \in (1..n) \cap at}
                       /\ IsInjective(s) => IsInjective(picked[n])
            Good == {n \in 0..m : Fine(n)}
<1>6. m \in Good
  <2>. HIDE DEF picked, m
  <2>1. 0 \in Good
    <3>1. 0 \in 0..m /\ {s[k] : k \in (1..0) \cap at} = {}
      BY <1>1
    <3>2. IsInjective(<<>>)
      BY DEF IsInjective
    <3>. QED
      BY <1>3, <1>5, <3>1, <3>2, ToSetEmpty
  <2>2. ASSUME NEW n \in 1..m, n - 1 \in Good PROVE n \in Good
    <3>1. /\ n \in 0..m /\ s[n] \in T /\ picked[n - 1] \in Seq(T)
          /\ ToSet(picked[n - 1]) = {s[k] : k \in (1..(n - 1)) \cap at}
          /\ IsInjective(s) => IsInjective(picked[n - 1])
      <4>1. Fine(n - 1)
        <5>. HIDE DEF Fine
        <5>. QED
          BY <2>2
      <4>. QED
        BY <1>1, <4>1
    <3>2. picked[n] = IF n \in at THEN Append(picked[n - 1], s[n]) ELSE picked[n - 1]
      BY <1>5
    <3>3. 1..n = (1..(n - 1)) \cup {n}
      BY <1>1
    <3>4. CASE n \in at
      <4>1. /\ picked[n] \in Seq(T)
            /\ ToSet(picked[n]) = ToSet(picked[n - 1]) \cup {s[n]}
        BY <3>1, <3>2, <3>4, ToSetAppend
      <4>2. {s[k] : k \in (1..n) \cap at}
              = {s[k] : k \in (1..(n - 1)) \cap at} \cup {s[n]}
        BY <3>3, <3>4
      <4>3. IsInjective(s) => s[n] \notin ToSet(picked[n - 1])
        <5>1. \A k \in 1..(n - 1) : k \in 1..m /\ k # n
          BY <1>1
        <5>. QED
          BY <1>1, <3>1, <5>1 DEF IsInjective
      <4>4. IsInjective(s) => IsInjective(picked[n])
        BY <3>1, <3>2, <3>4, <4>3, DistinctAppend
      <4>. QED
        BY <3>1, <4>1, <4>2, <4>4
    <3>5. CASE n \notin at
      <4>1. (1..n) \cap at = (1..(n - 1)) \cap at
        BY <3>3, <3>5
      <4>. QED
        BY <3>1, <3>2, <3>5, <4>1
    <3>. QED
      BY <3>4, <3>5
  <2>. HIDE DEF Good
  <2>. QED
    BY <1>1, <2>1, <2>2, SetInductionUpTo
<1>7. Fine(m)
  <2>. HIDE DEF Fine
  <2>. QED
    BY <1>6
<1>. QED
  BY <1>2, <1>7

\* Insertion adds one element, once.
LEMMA InsertOf ==
  ASSUME NEW T, NEW ds \in Seq(T), NEW x \in T
  PROVE  /\ Insert(ds, x) \in Seq(T)
         /\ ToSet(Insert(ds, x)) = ToSet(ds) \cup {x}
         /\ IsInjective(ds) /\ x \notin ToSet(ds) => IsInjective(Insert(ds, x))
<1>. DEFINE later == {k \in DOMAIN ds : Before(x, ds[k])}
<1>1. Len(ds) \in Nat /\ DOMAIN ds = 1..Len(ds) /\ \A k \in 1..Len(ds) : ds[k] \in T
  BY LenProperties, ElementOfSeq
<1>2. CASE later = {}
  <2>1. Insert(ds, x) = Append(ds, x)
    BY <1>2 DEF Insert
  <2>. QED
    BY <2>1, ToSetAppend, DistinctAppend
<1>3. CASE later # {}
  <2>. DEFINE j == Min(later)
              left == SubSeq(ds, 1, j - 1)
              right == SubSeq(ds, j, Len(ds))
  <2>1. later \subseteq Nat
    BY <1>1
  <2>2. j \in 1..Len(ds)
    <3>. HIDE DEF later
    <3>1. j \in later
      BY <1>3, <2>1, MinOf
    <3>. QED
      BY <1>1, <3>1 DEF later
  <2>3. Insert(ds, x) = left \o <<x>> \o right
    BY <1>3 DEF Insert, InsertAt
  <2>. HIDE DEF j
  <2>4. /\ left \in Seq(T) /\ Len(left) = j - 1
        /\ \A k \in 1..(j - 1) : left[k] = ds[k]
    BY <1>1, <2>2, SubSeqProperties
  <2>5. /\ right \in Seq(T) /\ Len(right) = Len(ds) - j + 1
        /\ \A k \in 1..(Len(ds) - j + 1) : right[k] = ds[j + k - 1]
    BY <1>1, <2>2, SubSeqProperties
  <2>. HIDE DEF left, right
  <2>6. ToSet(left) = {left[k] : k \in 1..(j - 1)}
        /\ ToSet(right) = {right[k] : k \in 1..(Len(ds) - j + 1)}
        /\ ToSet(ds) = {ds[k] : k \in 1..Len(ds)}
    BY <2>4, <2>5, ToSetOf
  <2>7. ToSet(left) \subseteq ToSet(ds)
    <3>1. ASSUME NEW k \in 1..(j - 1) PROVE left[k] \in ToSet(ds)
      <4>1. k \in 1..Len(ds) /\ left[k] = ds[k]
        BY <1>1, <2>2, <2>4
      <4>. QED
        BY <2>6, <4>1
    <3>. QED
      BY <2>6, <3>1
  <2>8. ToSet(right) \subseteq ToSet(ds)
    <3>1. ASSUME NEW k \in 1..(Len(ds) - j + 1) PROVE right[k] \in ToSet(ds)
      <4>1. j + k - 1 \in 1..Len(ds) /\ right[k] = ds[j + k - 1]
        BY <1>1, <2>2, <2>5
      <4>. QED
        BY <2>6, <4>1
    <3>. QED
      BY <2>6, <3>1
  <2>9. ToSet(ds) \subseteq ToSet(left) \cup ToSet(right)
    <3>1. ASSUME NEW k \in 1..Len(ds) PROVE ds[k] \in ToSet(left) \cup ToSet(right)
      <4>1. CASE k < j
        <5>1. k \in 1..(j - 1) /\ left[k] = ds[k]
          BY <1>1, <2>2, <2>4, <4>1
        <5>. QED
          BY <2>6, <5>1
      <4>2. CASE ~(k < j)
        <5>1. k - j + 1 \in 1..(Len(ds) - j + 1) /\ j + (k - j + 1) - 1 = k
          BY <1>1, <2>2, <4>2
        <5>2. right[k - j + 1] = ds[k]
          BY <2>5, <5>1
        <5>. QED
          BY <2>6, <5>1, <5>2
      <4>. QED
        BY <4>1, <4>2
    <3>. QED
      BY <2>6, <3>1
  <2>10. ToSet(ds) = ToSet(left) \cup ToSet(right)
    BY <2>7, <2>8, <2>9
  <2>. DEFINE one == <<x>>
  <2>11. one \in Seq(T) /\ ToSet(one) = {x}
    BY DEF ToSet
  <2>. HIDE DEF one
  <2>12. left \o one \in Seq(T) /\ ToSet(left \o one) = ToSet(left) \cup {x}
    BY <2>4, <2>11, ToSetConcat
  <2>. DEFINE both == left \o one
  <2>13. both \in Seq(T) /\ ToSet(both) = ToSet(left) \cup {x}
    BY <2>12
  <2>. HIDE DEF both
  <2>14. both \o right \in Seq(T) /\ ToSet(both \o right) = ToSet(both) \cup ToSet(right)
    BY <2>5, <2>13, ToSetConcat
  <2>15. ASSUME IsInjective(ds), x \notin ToSet(ds) PROVE IsInjective(both \o right)
    <3>1. DOMAIN left = 1..(j - 1) /\ DOMAIN right = 1..(Len(ds) - j + 1)
      BY <1>1, <2>2, <2>4, <2>5, LenProperties
    <3>2. \A k \in 1..(j - 1) : k \in 1..Len(ds) /\ k < j
      BY <1>1, <2>2
    <3>3. \A k \in 1..(Len(ds) - j + 1) : j + k - 1 \in 1..Len(ds) /\ j <= j + k - 1
      BY <1>1, <2>2
    <3>4. \A k \in 1..(j - 1) : \A l \in 1..(Len(ds) - j + 1) : left[k] # right[l]
      <4>1. TAKE k \in 1..(j - 1)
      <4>2. TAKE l \in 1..(Len(ds) - j + 1)
      <4>3. k # j + l - 1
        BY <1>1, <2>2
      <4>. QED
        BY <1>1, <2>4, <2>5, <2>15, <3>2, <3>3, <4>3 DEF IsInjective
    <3>5. IsInjective(left)
      BY <1>1, <2>4, <2>15, <3>1, <3>2 DEF IsInjective
    <3>6. IsInjective(right)
      <4>1. ASSUME NEW k \in 1..(Len(ds) - j + 1), NEW l \in 1..(Len(ds) - j + 1),
                   right[k] = right[l]
            PROVE  k = l
        <5>1. ds[j + k - 1] = ds[j + l - 1]
          BY <2>5, <4>1
        <5>2. j + k - 1 = j + l - 1
          BY <1>1, <2>15, <3>3, <5>1 DEF IsInjective
        <5>. QED
          BY <1>1, <2>2, <5>2
      <4>. QED
        BY <3>1, <4>1 DEF IsInjective
    <3>7. IsInjective(one)
      BY DistinctOne DEF one
    <3>8. ToSet(left) \cap ToSet(one) = {} /\ ToSet(both) \cap ToSet(right) = {}
      BY <2>6, <2>7, <2>8, <2>11, <2>13, <2>15, <3>4
    <3>9. IsInjective(both)
      BY <2>4, <2>11, <3>5, <3>7, <3>8, DistinctConcat DEF both
    <3>. QED
      BY <2>5, <2>13, <3>6, <3>8, <3>9, DistinctConcat
  <2>. QED
    BY <2>3, <2>10, <2>13, <2>14, <2>15 DEF both, one
<1>. QED
  BY <1>2, <1>3

\* Sorting keeps exactly the diagnostics it is given, and repeats none.
LEMMA SortedOf ==
  ASSUME NEW T, NEW ds \in Seq(T)
  PROVE  /\ Sorted(ds) \in Seq(T) /\ ToSet(Sorted(ds)) = ToSet(ds)
         /\ IsInjective(ds) => IsInjective(Sorted(ds))
<1>. DEFINE m == Len(ds)
            sorted == CHOOSE f : f = [n \in 0..m |->
                        IF n = 0 THEN <<>> ELSE Insert(f[n - 1], ds[n])]
            next == [p \in (1..m) \X Seq(T) |-> Insert(p[2], ds[p[1]])]
<1>1. m \in Nat /\ DOMAIN ds = 1..m /\ \A n \in 1..m : ds[n] \in T
  BY LenProperties, ElementOfSeq
<1>2. Sorted(ds) = sorted[m]
  BY DEF Sorted
<1>3. <<>> \in Seq(T) /\ next \in [(1..m) \X Seq(T) -> Seq(T)]
  BY <1>1, InsertOf, EmptySeq
<1>4. sorted = [n \in 0..m |-> IF n = 0 THEN <<>> ELSE Insert(sorted[n - 1], ds[n])]
  <2>. HIDE DEF next, m
  <2>1. PICK f : Computes(f, m, Seq(T), <<>>, next)
    BY <1>1, <1>3, Recursion
  <2>2. f \in [0..m -> Seq(T)] /\ f[0] = <<>>
        /\ \A n \in 1..m : f[n] = next[<<n, f[n - 1]>>]
    BY <2>1 DEF Computes
  <2>3. ASSUME NEW n \in 1..m PROVE f[n] = Insert(f[n - 1], ds[n])
    <3>1. f[n - 1] \in Seq(T) /\ <<n, f[n - 1]>> \in (1..m) \X Seq(T)
      BY <1>1, <2>2
    <3>2. f[n] = next[<<n, f[n - 1]>>]
      BY <2>2
    <3>. QED
      BY <3>1, <3>2 DEF next
  <2>4. ASSUME NEW n \in 0..m
        PROVE  f[n] = IF n = 0 THEN <<>> ELSE Insert(f[n - 1], ds[n])
    <3>1. n = 0 \/ n \in 1..m
      BY <1>1
    <3>2. CASE n = 0
      BY <2>2, <3>2
    <3>3. CASE n \in 1..m
      BY <1>1, <2>3, <3>3
    <3>. QED
      BY <3>1, <3>2, <3>3
  <2>5. f = [n \in 0..m |-> IF n = 0 THEN <<>> ELSE Insert(f[n - 1], ds[n])]
    BY <2>2, <2>4
  <2>. QED
    BY <2>5
<1>5. /\ 0 \in 0..m /\ sorted[0] = <<>>
      /\ \A n \in 1..m : n \in 0..m /\ sorted[n] = Insert(sorted[n - 1], ds[n])
  <2>. HIDE DEF sorted, m
  <2>1. 0 \in 0..m /\ \A n \in 1..m : n \in 0..m /\ n # 0
    BY <1>1
  <2>2. \A n \in 0..m : sorted[n] = IF n = 0 THEN <<>> ELSE Insert(sorted[n - 1], ds[n])
    BY <1>4
  <2>3. sorted[0] = <<>>
    BY <2>1, <2>2
  <2>. QED
    BY <2>1, <2>2, <2>3
<1>. DEFINE Fine(n) == /\ sorted[n] \in Seq(T)
                       /\ ToSet(sorted[n]) = {ds[k] : k \in 1..n}
                       /\ IsInjective(ds) => IsInjective(sorted[n])
            Good == {n \in 0..m : Fine(n)}
<1>6. m \in Good
  <2>. HIDE DEF sorted, m
  <2>1. 0 \in Good
    <3>1. {ds[k] : k \in 1..0} = {}
      OBVIOUS
    <3>2. IsInjective(<<>>)
      BY DEF IsInjective
    <3>. QED
      BY <1>3, <1>5, <3>1, <3>2, ToSetEmpty
  <2>2. ASSUME NEW n \in 1..m, n - 1 \in Good PROVE n \in Good
    <3>1. /\ ds[n] \in T /\ sorted[n - 1] \in Seq(T)
          /\ ToSet(sorted[n - 1]) = {ds[k] : k \in 1..(n - 1)}
          /\ IsInjective(ds) => IsInjective(sorted[n - 1])
      <4>1. Fine(n - 1)
        <5>. HIDE DEF Fine
        <5>. QED
          BY <2>2
      <4>. QED
        BY <1>1, <4>1
    <3>2. n \in 0..m /\ sorted[n] = Insert(sorted[n - 1], ds[n])
      BY <1>5
    <3>0. IsInjective(ds) => ds[n] \notin ToSet(sorted[n - 1])
      <4>1. \A k \in 1..(n - 1) : k \in 1..m /\ k # n
        BY <1>1
      <4>. QED
        BY <1>1, <3>1, <4>1 DEF IsInjective
    <3>3. /\ sorted[n] \in Seq(T) /\ ToSet(sorted[n]) = ToSet(sorted[n - 1]) \cup {ds[n]}
          /\ IsInjective(ds) => IsInjective(sorted[n])
      <4>. DEFINE last == sorted[n - 1]
                  d == ds[n]
      <4>1. last \in Seq(T) /\ d \in T /\ sorted[n] = Insert(last, d)
        BY <3>1, <3>2
      <4>. HIDE DEF last, d
      <4>2. /\ Insert(last, d) \in Seq(T) /\ ToSet(Insert(last, d)) = ToSet(last) \cup {d}
            /\ IsInjective(last) /\ d \notin ToSet(last) => IsInjective(Insert(last, d))
        BY <4>1, InsertOf, Zenon
      <4>. QED
        BY <3>0, <3>1, <4>1, <4>2 DEF last, d
    <3>4. 1..n = (1..(n - 1)) \cup {n}
      BY <1>1
    <3>5. {ds[k] : k \in 1..n} = {ds[k] : k \in 1..(n - 1)} \cup {ds[n]}
      BY <3>4
    <3>. QED
      BY <3>1, <3>2, <3>3, <3>5
  <2>. HIDE DEF Good
  <2>. QED
    BY <1>1, <2>1, <2>2, SetInductionUpTo
<1>7. ToSet(ds) = {ds[k] : k \in 1..m}
  BY ToSetOf
<1>8. Fine(m)
  <2>. HIDE DEF Fine
  <2>. QED
    BY <1>6
<1>. QED
  BY <1>2, <1>7, <1>8

-----------------------------------------------------------------------------
(***************************************************************************)
(* The resolution of one input.                                            *)
(***************************************************************************)
\* The loop over the sources ends at a source that contains the path and has
\* the longest root among those that do, or at 0 when none does.
LEMMA BestSourceOf ==
  ASSUME NEW sources \in Seq(SourceRecord), NEW dir, NEW path
  PROVE  LET best == BestSource(dir, sources, path)
             Matches(k) == PathContains(dir \o sources[k].root, path)
         IN  /\ best \in 0..Len(sources)
             /\ best = 0 => \A k \in 1..Len(sources) : ~Matches(k)
             /\ best # 0 => /\ Matches(best)
                            /\ \A k \in 1..Len(sources) : Matches(k) =>
                                 Depth(sources[k].root) <= Depth(sources[best].root)
<1>. DEFINE m == Len(sources)
            Matches(k) == PathContains(dir \o sources[k].root, path)
            best == CHOOSE f : f = [n \in 0..m |-> IF n = 0 THEN 0
                      ELSE IF Matches(n) /\ Better(sources, n, f[n - 1]) THEN n ELSE f[n - 1]]
            next == [p \in (1..m) \X (0..m) |->
                      IF Matches(p[1]) /\ Better(sources, p[1], p[2]) THEN p[1] ELSE p[2]]
            Longest(k, b) == Depth(sources[k].root) <= Depth(sources[b].root)
<1>1. m \in Nat /\ \A n \in 1..m : sources[n] \in SourceRecord
  BY LenProperties, ElementOfSeq
<1>2. \A n \in 1..m : Depth(sources[n].root) \in Nat
  BY <1>1, LenProperties DEF SourceRecord, Depth
<1>3. BestSource(dir, sources, path) = best[m]
  BY DEF BestSource
<1>4. 0 \in 0..m /\ next \in [(1..m) \X (0..m) -> 0..m]
  BY <1>1
<1>. HIDE DEF m, Matches
<1>5. best = [n \in 0..m |-> IF n = 0 THEN 0
                ELSE IF Matches(n) /\ Better(sources, n, best[n - 1]) THEN n ELSE best[n - 1]]
  <2>. HIDE DEF next
  <2>1. PICK f : Computes(f, m, 0..m, 0, next)
    BY <1>1, <1>4, Recursion
  <2>2. f \in [0..m -> 0..m] /\ f[0] = 0 /\ \A n \in 1..m : f[n] = next[<<n, f[n - 1]>>]
    BY <2>1 DEF Computes
  <2>3. ASSUME NEW n \in 1..m
        PROVE  f[n] = IF Matches(n) /\ Better(sources, n, f[n - 1]) THEN n ELSE f[n - 1]
    <3>1. f[n - 1] \in 0..m /\ <<n, f[n - 1]>> \in (1..m) \X (0..m)
      BY <1>1, <2>2
    <3>2. f[n] = next[<<n, f[n - 1]>>]
      BY <2>2
    <3>. QED
      BY <3>1, <3>2 DEF next
  <2>4. ASSUME NEW n \in 0..m
        PROVE  f[n] = IF n = 0 THEN 0
                      ELSE IF Matches(n) /\ Better(sources, n, f[n - 1]) THEN n ELSE f[n - 1]
    <3>1. n = 0 \/ n \in 1..m
      BY <1>1
    <3>2. CASE n = 0
      BY <2>2, <3>2
    <3>3. CASE n \in 1..m
      BY <1>1, <2>3, <3>3
    <3>. QED
      BY <3>1, <3>2, <3>3
  <2>5. f = [n \in 0..m |-> IF n = 0 THEN 0
              ELSE IF Matches(n) /\ Better(sources, n, f[n - 1]) THEN n ELSE f[n - 1]]
    BY <2>2, <2>4
  <2>. QED
    BY <2>5
<1>. HIDE DEF best
<1>6. /\ best[0] = 0
      /\ \A n \in 1..m : n \in 0..m /\ best[n] = IF Matches(n) /\ Better(sources, n, best[n - 1])
                                                   THEN n ELSE best[n - 1]
  <2>1. 0 \in 0..m /\ \A n \in 1..m : n \in 0..m /\ n # 0
    BY <1>1
  <2>2. \A n \in 0..m : best[n] = IF n = 0 THEN 0
          ELSE IF Matches(n) /\ Better(sources, n, best[n - 1]) THEN n ELSE best[n - 1]
    BY <1>5
  <2>3. best[0] = 0
    BY <2>1, <2>2
  <2>. QED
    BY <2>1, <2>2, <2>3
<1>. DEFINE Good == {n \in 0..m :
              /\ best[n] \in 0..n
              /\ best[n] = 0 => \A k \in 1..n : ~Matches(k)
              /\ best[n] # 0 => Matches(best[n])
              /\ best[n] # 0 => \A k \in 1..n : Matches(k) => Longest(k, best[n])}
<1>7. m \in Good
  <2>1. 0 \in Good
    BY <1>1, <1>4, <1>6
  <2>2. ASSUME NEW n \in 1..m, n - 1 \in Good PROVE n \in Good
    <3>. DEFINE b == best[n - 1]
    <3>1. /\ b \in 0..(n - 1)
          /\ b = 0 => \A k \in 1..(n - 1) : ~Matches(k)
          /\ b # 0 => Matches(b)
          /\ b # 0 => \A k \in 1..(n - 1) : Matches(k) => Longest(k, b)
      BY <2>2
    <3>2. n \in 0..m /\ best[n] = IF Matches(n) /\ Better(sources, n, b) THEN n ELSE b
      BY <1>6
    <3>. HIDE DEF b
    <3>3. \A k \in 1..n : k = n \/ k \in 1..(n - 1)
      BY <1>1
    <3>4. CASE Matches(n) /\ Better(sources, n, b)
      <4>1. best[n] = n /\ n # 0
        BY <1>1, <3>2, <3>4
      <4>2. ASSUME NEW k \in 1..n, Matches(k) PROVE Longest(k, n)
        <5>1. CASE k = n
          BY <1>1, <1>2, <5>1
        <5>2. CASE k \in 1..(n - 1)
          <6>1. b # 0 /\ Longest(k, b) /\ b \in 1..m /\ k \in 1..m
            BY <1>1, <3>1, <4>2, <5>2
          <6>2. Depth(sources[n].root) > Depth(sources[b].root)
            BY <3>4, <6>1 DEF Better
          <6>. QED
            BY <1>2, <6>1, <6>2
        <5>. QED
          BY <3>3, <5>1, <5>2
      <4>. HIDE DEF Longest
      <4>. QED
        BY <1>1, <3>2, <3>4, <4>1, <4>2
    <3>5. CASE ~(Matches(n) /\ Better(sources, n, b))
      <4>1. best[n] = b /\ b \in 0..n
        BY <1>1, <3>1, <3>2, <3>5
      <4>2. CASE b = 0
        <5>1. ~Matches(n)
          BY <3>5, <4>2 DEF Better
        <5>. HIDE DEF Longest
        <5>. QED
          BY <3>1, <3>2, <3>3, <4>1, <4>2, <5>1
      <4>3. CASE b # 0
        <5>1. ASSUME Matches(n) PROVE Longest(n, b)
          <6>1. ~(Depth(sources[n].root) > Depth(sources[b].root)) /\ b \in 1..m
            BY <1>1, <3>1, <3>5, <4>3, <5>1 DEF Better
          <6>. QED
            BY <1>2, <6>1
        <5>. HIDE DEF Longest
        <5>. QED
          BY <3>1, <3>2, <3>3, <4>1, <4>3, <5>1
      <4>. QED
        BY <4>2, <4>3
    <3>. QED
      BY <3>4, <3>5
  <2>. HIDE DEF Good
  <2>. QED
    BY <1>1, <2>1, <2>2, SetInductionUpTo
<1>. QED
  BY <1>3, <1>7 DEF m, Matches

\* A version that loads classifies a path by its longest source root.
LEMMA ResolveOf ==
  ASSUME NEW v, v.kind = "file" /\ v.decodes => v.sources \in Seq(SourceRecord), Loads(v),
         NEW dir, NEW path, Resolve(dir, v, path).verdict = "source"
  PROVE  LET found == Resolve(dir, v, path)
         IN  /\ found.project \in ProjectKinds
             /\ found.profile \in Profiles
             /\ LongestRoot(dir, v, path, found.profile)
<1>. DEFINE best == BestSource(dir, v.sources, path)
<1>1. v.sources \in Seq(SourceRecord) /\ Valid(v)
  BY DEF Loads
<1>2. /\ best \in 0..Len(v.sources)
      /\ best # 0 => /\ PathContains(dir \o v.sources[best].root, path)
                     /\ \A k \in 1..Len(v.sources) :
                          PathContains(dir \o v.sources[k].root, path) =>
                            Depth(v.sources[k].root) <= Depth(v.sources[best].root)
  BY <1>1, BestSourceOf
<1>3. best # 0 /\ Resolve(dir, v, path) = [verdict |-> "source", project |-> v.project,
                                           profile |-> v.sources[best].profile]
  BY DEF Resolve
<1>. HIDE DEF best
<1>4. best \in 1..Len(v.sources) /\ v.sources[best] \in SourceRecord
  BY <1>1, <1>2, <1>3, LenProperties, ElementOfSeq
<1>5. DOMAIN v.sources = 1..Len(v.sources)
  BY <1>1, LenProperties
<1>6. v.project \in ProjectKinds /\ v.sources[best].profile \in Profiles
  BY <1>1, <1>4, <1>5 DEF Valid, ValidSource
<1>7. LongestRoot(dir, v, path, v.sources[best].profile)
  <2>1. v.sources[best] \in ToSet(v.sources)
    BY <1>4, <1>5 DEF ToSet
  <2>2. IsPrefix(dir \o v.sources[best].root, path)
    BY <1>2, <1>3 DEF PathContains
  <2>3. \A other \in ToSet(v.sources) : IsPrefix(dir \o other.root, path)
                                          => Len(other.root) <= Len(v.sources[best].root)
    BY <1>2, <1>3, <1>5 DEF PathContains, Depth, ToSet
  <2>. QED
    BY <2>1, <2>2, <2>3 DEF LongestRoot
<1>. QED
  BY <1>3, <1>6, <1>7

\* A path beneath the configuration's directory is never outside of it.
LEMMA ResolveInside ==
  ASSUME NEW v, NEW dir, NEW path, PathContains(dir, path)
  PROVE  Resolve(dir, v, path).verdict \in {"unmatched", "source"}
BY DEF Resolve

\* The configuration discovery finds is above the path.
LEMMA DiscoveryOf ==
  ASSUME NEW disk0, NEW path \in Seq(STRING),
         Discovery(ConfigAt, disk0, path).verdict = "found"
  PROVE  LET c == Discovery(ConfigAt, disk0, path).config
         IN  c \in Configs /\ PathContains(ConfigAt[c], path)
<1>. DEFINE met == {c \in DOMAIN ConfigAt : /\ PathContains(ConfigAt[c], path)
                                            /\ ConfigAt[c] # path
                                            /\ disk0[c].kind \in {"file", "error"}}
            Nearest(c) == \A d \in met : Len(ConfigAt[d]) <= Len(ConfigAt[c])
            nearest == CHOOSE c \in met : Nearest(c)
            Above(c) == Len(path) - Len(ConfigAt[c])
<1>1. met # {} /\ Discovery(ConfigAt, disk0, path).config = nearest
  <2>. HIDE DEF nearest
  <2>1. Discovery(ConfigAt, disk0, path) =
          IF met = {} THEN [verdict |-> "none"]
          ELSE IF disk0[nearest].kind = "error" THEN [verdict |-> "error"]
          ELSE [verdict |-> "found", config |-> nearest]
    BY DEF Discovery, nearest
  <2>. QED
    BY <2>1
<1>2. \A c \in met : c \in Configs /\ Len(ConfigAt[c]) \in Nat
                       /\ Len(ConfigAt[c]) <= Len(path) /\ Len(path) \in Nat
  BY ConfigsAssumption, LenProperties DEF Configs, PathContains, IsPrefix
<1>3. \E c \in met : Nearest(c)
  <2>. DEFINE T == {Above(c) : c \in met}
  <2>1. T \subseteq Nat /\ T # {}
    <3>1. \A c \in met : Above(c) \in Nat
      BY <1>2
    <3>. QED
      BY <1>1, <3>1
  <2>2. PICK n \in T : \A k \in T : n <= k
    <3>. HIDE DEF T
    <3>. QED
      BY <2>1, LeastOf
  <2>3. PICK c \in met : n = Above(c)
    BY <2>2
  <2>4. ASSUME NEW d \in met PROVE Len(ConfigAt[d]) <= Len(ConfigAt[c])
    <3>1. Above(c) <= Above(d)
      BY <2>2, <2>3
    <3>. QED
      BY <1>2, <3>1
  <2>. QED
    BY <2>4
<1>4. nearest \in met
  <2>. HIDE DEF met, Nearest
  <2>. QED
    BY <1>3
<1>. HIDE DEF nearest
<1>. QED
  BY <1>1, <1>4 DEF Configs

-----------------------------------------------------------------------------
(***************************************************************************)
(* The inductive invariant.                                                *)
(***************************************************************************)
ContextRecord == [config : Configs \cup {"none"}, err : BOOLEAN,
                  project : ProjectKinds \cup {"none"}, profile : Profiles \cup {"none"}]
Early == {"flags", "explicit", "discover", "load"}

WorldInv == /\ args \in ArgSets
            /\ present \in SUBSET Paths
            /\ DOMAIN disk = Configs
            /\ \A c \in Configs : disk[c] \in ToSet(Versions[c])
            /\ edits \in 0..MaxEdits

ControlInv == /\ pc \in {"flags", "explicit", "discover", "load", "inspect", "projects",
                         "write", "done"}
              /\ i \in 1..(Len(Names) + 1)
              /\ key \in Configs \cup {"none"}
              /\ key # "none" <=> pc = "load"
              /\ pc = "explicit" => args.config \in Configs
              /\ pc \notin {"flags", "done"} => ~args.help
              /\ pc \in {"flags", "explicit"} => i = 1

\* The configuration about to be loaded is above the input.
KeyInv == pc = "load" => i \in Inputs /\ PathContains(ConfigAt[key], Fs[Names[i]].at)

StatusInv == /\ status \in 0..2 \cup {Running}
             /\ status = Running <=> pc # "done"
             /\ envelope \in BOOLEAN
             /\ exitNonZero \in BOOLEAN
             /\ Done /\ status # 2 => status = IF exitNonZero THEN 1 ELSE 0

\* Before a configuration is known no input is governed by one, and what
\* classifies an input comes from a configuration.
ContextsInv == /\ contexts \in [Inputs -> ContextRecord]
               /\ pc \in {"flags", "explicit"} => \A k \in Inputs : contexts[k].config = "none"
               /\ \A k \in Inputs : Configured(k) => contexts[k].config \in Configs

\* Version v of configuration c explains what is recorded of input k.
Explains(context, v, c, path) ==
  context.config = c =>
    IF context.err THEN ~Loads(v)
    ELSE Loads(v) /\ LongestRoot(ConfigAt[c], v, path, context.profile)

\* While inputs are looked up: the version of a configuration that was loaded
\* explains every input it governs, and none is governed by one not loaded.
CacheInv == /\ DOMAIN cache = Configs
            /\ \A c \in Configs : cache[c] \in ToSet(Versions[c]) \cup {Unread}
            /\ pc \in {"discover", "load"} =>
                 \A c \in Configs : \A k \in Inputs :
                   IF cache[c] = Unread THEN contexts[k].config # c
                   ELSE Explains(contexts[k], cache[c], c, Fs[Names[k]].at)

\* The flag that decides the exit status says what was reported so far.
ReportInv == /\ report \in Seq(Diagnostic)
             /\ projects \in Seq([root : Configs, inputs : Seq(Inputs)])
             /\ pc \in Early => report = <<>>
             /\ exitNonZero <=> errors # {} \/ Fails(report)

\* The first n inputs are accounted for, and no other.
Counted(n) ==
  /\ errors \subseteq 1..n
  /\ inspected \in Nat
  /\ inspected + Cardinality(errors) = n
  /\ analysed = {<<k, IF Configured(k) THEN "project" ELSE "default">> :
                   k \in {k \in 1..n : k \notin errors /\ Fs[Names[k]].parses}}
  /\ Len(projects) <= n

\* How many those are at each point of the run.
Reached(n) ==
  /\ pc \in Early => n = 0
  /\ pc = "inspect" => n = i - 1
  /\ pc \in {"projects", "write"} => n = Len(Names)
  /\ Done /\ status # 2 /\ ~args.help => n = Len(Names)

CountInv == \E n \in 0..Len(Names) : Counted(n) /\ Reached(n)

Inv == /\ WorldInv
       /\ ControlInv
       /\ KeyInv
       /\ StatusInv
       /\ ContextsInv
       /\ CacheInv
       /\ OneConfigVersion
       /\ ReportInv
       /\ CountInv
-----------------------------------------------------------------------------
\* The command line and what it names.
LEMMA NamesOf ==
  ASSUME WorldInv
  PROVE  /\ Names \in Seq(Paths) /\ Len(Names) \in Nat /\ Inputs = 1..Len(Names)
         /\ \A k \in Inputs : Names[k] \in Paths
         /\ args.config \in Configs \cup {"unset", "empty"}
         /\ args.help \in BOOLEAN
BY ArgsAssumption, LenProperties, ElementOfSeq DEF WorldInv, Names, Inputs

LEMMA FindingsOf ==
  ASSUME NEW p \in Paths, NEW F, F \subseteq Reported, IsFiniteSet(F)
  PROVE  LET found == {Finding(p, x) : x \in F}
         IN  IsFiniteSet(found) /\ found \subseteq Diagnostic
<1>. DEFINE f == [x \in F |-> Finding(p, x)]
<1>1. {Finding(p, x) : x \in F} = {f[x] : x \in F}
  OBVIOUS
<1>2. IsFiniteSet({f[x] : x \in F})
  <2>1. DOMAIN f = F /\ f = [x \in F |-> f[x]]
    OBVIOUS
  <2>. HIDE DEF f
  <2>. QED
    BY <2>1, ImageFinite
<1>3. ASSUME NEW x \in F PROVE Finding(p, x) \in Diagnostic
  BY DEF Reported, Finding, Diagnostic, Ids
<1>. QED
  BY <1>1, <1>2, <1>3

LEMMA DirectivesOf ==
  ASSUME NEW p \in Paths
  PROVE  /\ DOMAIN Fs[p].ds = 1..Len(Fs[p].ds) /\ Len(Fs[p].ds) \in Nat
         /\ \A d \in DOMAIN Fs[p].ds :
              /\ d \in Nat /\ Fs[p].ds[d].line \in Nat
              /\ IsFiniteSet(DOMAIN Fs[p].ds[d].rules)
              /\ DOMAIN Fs[p].ds[d].rules \subseteq Nat
<1>. DEFINE ds == Fs[p].ds
<1>1. ds \in Seq(Directive)
  BY FilesAssumption
<1>. HIDE DEF ds
<1>2. DOMAIN ds = 1..Len(ds) /\ Len(ds) \in Nat
  BY <1>1, LenProperties
<1>3. ASSUME NEW d \in DOMAIN ds
      PROVE  /\ d \in Nat /\ ds[d].line \in Nat
             /\ IsFiniteSet(DOMAIN ds[d].rules) /\ DOMAIN ds[d].rules \subseteq Nat
  <2>1. ds[d] \in Directive
    BY <1>1, <1>2, ElementOfSeq
  <2>2. ds[d].line \in Nat /\ ds[d].rules \in Seq(STRING)
    BY <2>1 DEF Directive
  <2>. DEFINE rules == ds[d].rules
  <2>3. rules \in Seq(STRING)
    BY <2>2
  <2>. HIDE DEF rules
  <2>4. DOMAIN rules = 1..Len(rules) /\ Len(rules) \in Nat
    BY <2>3, LenProperties
  <2>5. IsFiniteSet(1..Len(rules))
    BY <2>4, FS_Interval
  <2>6. IsFiniteSet(DOMAIN rules) /\ DOMAIN rules \subseteq Nat
    BY <2>4, <2>5
  <2>. QED
    BY <1>2, <2>2, <2>6 DEF rules
<1>. QED
  BY <1>2, <1>3 DEF ds

LEMMA MetaOf ==
  ASSUME NEW p \in Paths, NEW d \in DOMAIN Fs[p].ds, NEW r \in Nat, NEW id \in Ids,
         NEW sev \in Severities
  PROVE  Meta(p, Fs[p], id, sev, <<d, r>>) \in Diagnostic
<1>1. Fs[p].ds[d].line \in Nat /\ d \in Nat
  BY DirectivesOf
<1>. QED
  BY <1>1 DEF Meta, Diagnostic

LEMMA SlotsOf ==
  ASSUME NEW p \in Paths
  PROVE  /\ IsFiniteSet(Slots(Fs[p])) /\ IsFiniteSet(DOMAIN Fs[p].ds)
         /\ \A s \in Slots(Fs[p]) : \E d \in DOMAIN Fs[p].ds : \E r \in Nat : s = <<d, r>>
<1>. DEFINE ds == Fs[p].ds
            row == [d \in WellFormed(Fs[p]) |-> {d} \X DOMAIN ds[d].rules]
<1>1. DOMAIN ds = 1..Len(ds) /\ Len(ds) \in Nat
  BY DirectivesOf
<1>2. IsFiniteSet(1..Len(ds))
  BY <1>1, FS_Interval
<1>3. IsFiniteSet(DOMAIN ds) /\ \A d \in DOMAIN ds : d \in Nat /\ IsFiniteSet(DOMAIN ds[d].rules)
                                     /\ DOMAIN ds[d].rules \subseteq Nat
  BY <1>1, <1>2, DirectivesOf
<1>4. WellFormed(Fs[p]) \subseteq DOMAIN ds /\ IsFiniteSet(WellFormed(Fs[p]))
  <2>1. WellFormed(Fs[p]) \in SUBSET DOMAIN ds
    BY DEF WellFormed
  <2>. QED
    BY <1>3, <2>1, FS_Subset
<1>5. Slots(Fs[p]) = UNION {row[d] : d \in WellFormed(Fs[p])}
  BY DEF Slots
<1>6. \A d \in WellFormed(Fs[p]) : IsFiniteSet(row[d])
  BY <1>3, <1>4, FS_Product, FS_Singleton
<1>7. IsFiniteSet({row[d] : d \in WellFormed(Fs[p])})
  <2>1. DOMAIN row = WellFormed(Fs[p]) /\ row = [d \in WellFormed(Fs[p]) |-> row[d]]
    OBVIOUS
  <2>. HIDE DEF row
  <2>. QED
    BY <1>4, <2>1, ImageFinite
<1>8. IsFiniteSet(Slots(Fs[p]))
  <2>. HIDE DEF row
  <2>. QED
    BY <1>5, <1>6, <1>7, FS_UNION
<1>9. \A s \in Slots(Fs[p]) : \E d \in DOMAIN ds : \E r \in Nat : s = <<d, r>>
  BY <1>3, <1>4, <1>5
<1>. QED
  BY <1>3, <1>8, <1>9

\* The meta diagnostics of a file are finitely many.
LEMMA MetasOf ==
  ASSUME NEW p \in Paths, NEW findings
  PROVE  LET metas == Malformed(p, Fs[p]) \cup Unused(p, Fs[p], findings)
         IN  IsFiniteSet(metas) /\ metas \subseteq Diagnostic
<1>. DEFINE f == Fs[p]
            bad == {d \in DOMAIN f.ds : f.ds[d].malformed}
            idle == {s \in Slots(f) : ~\E x \in findings : ~IsMeta(x) /\ Covers(f, s, x)}
            badMeta == [d \in bad |-> Meta(p, f, "meta/malformed-suppression", "warning", <<d, 0>>)]
            idleMeta == [s \in idle |-> Meta(p, f, "meta/unused-suppression", "info", s)]
<1>1. IsFiniteSet(bad) /\ IsFiniteSet(idle)
  BY SlotsOf, FS_Subset
<1>2. Malformed(p, f) = {badMeta[d] : d \in bad} /\ Unused(p, f, findings) = {idleMeta[s] : s \in idle}
  BY DEF Malformed, Unused
<1>3. IsFiniteSet({badMeta[d] : d \in bad})
  <2>1. DOMAIN badMeta = bad /\ badMeta = [d \in bad |-> badMeta[d]]
    OBVIOUS
  <2>. HIDE DEF badMeta, bad
  <2>. QED
    BY <1>1, <2>1, ImageFinite
<1>4. IsFiniteSet({idleMeta[s] : s \in idle})
  <2>1. DOMAIN idleMeta = idle /\ idleMeta = [s \in idle |-> idleMeta[s]]
    OBVIOUS
  <2>. HIDE DEF idleMeta, idle
  <2>. QED
    BY <1>1, <2>1, ImageFinite
<1>. DEFINE malformed == "meta/malformed-suppression"
            unused == "meta/unused-suppression"
<1>0. malformed \in Ids /\ unused \in Ids /\ {"warning", "info"} \subseteq Severities
  BY DEF Ids, Severities
<1>. HIDE DEF malformed, unused
<1>5. \A d \in bad : badMeta[d] \in Diagnostic
  <2>1. TAKE d \in bad
  <2>2. Meta(p, f, malformed, "warning", <<d, 0>>) \in Diagnostic
    BY <1>0, MetaOf
  <2>. QED
    BY <2>2 DEF malformed
<1>6. \A s \in idle : idleMeta[s] \in Diagnostic
  <2>1. TAKE s \in idle
  <2>2. PICK d \in DOMAIN f.ds, r \in Nat : s = <<d, r>>
    BY SlotsOf
  <2>3. Meta(p, f, unused, "info", <<d, r>>) \in Diagnostic
    BY <1>0, MetaOf
  <2>. QED
    BY <2>2, <2>3 DEF unused
<1>. HIDE DEF badMeta, idleMeta, bad, idle
<1>7. Malformed(p, f) \subseteq Diagnostic /\ Unused(p, f, findings) \subseteq Diagnostic
  BY <1>2, <1>5, <1>6
<1>8. IsFiniteSet(Malformed(p, f) \cup Unused(p, f, findings))
  BY <1>2, <1>3, <1>4, FS_Union
<1>. QED
  BY <1>7, <1>8

\* Suppression yields diagnostics: what it keeps, and the meta diagnostics.
LEMMA ApplyOf ==
  ASSUME NEW p \in Paths, NEW ds \in Seq(Diagnostic)
  PROVE  Apply(p, Fs[p], ds) \in Seq(Diagnostic)
<1>. DEFINE kept == Picked(ds, {n \in DOMAIN ds : ~Dropped(Fs[p], ds[n])})
            metas == Malformed(p, Fs[p]) \cup Unused(p, Fs[p], ToSet(ds))
<1>1. kept \in Seq(Diagnostic)
  BY PickedOf
<1>2. IsFiniteSet(metas) /\ metas \subseteq Diagnostic
  BY MetasOf
<1>. HIDE DEF metas, kept
<1>3. SetToSeq(metas) \in Seq(Diagnostic)
  BY <1>2, SetToSeqOf, SeqMonotonic
<1>4. kept \o SetToSeq(metas) \in Seq(Diagnostic)
  BY <1>1, <1>3, ConcatProperties
<1>. QED
  BY <1>4 DEF Apply, kept, metas

\* What the rules find in an input, alone and with its project.
LEMMA LocalOf ==
  ASSUME WorldInv, ContextsInv, NEW k \in Inputs
  PROVE  /\ SetToSeq(Local(k)) \in Seq(Diagnostic)
         /\ \A inputs : SetToSeq(ProjectFindings(k, inputs)) \in Seq(Diagnostic)
<1>1. Names[k] \in Paths /\ contexts[k].profile \in Profiles \cup {"none"}
  BY NamesOf DEF ContextsInv, ContextRecord
<1>. DEFINE s == IF Configured(k) THEN contexts[k].profile ELSE "default"
            found == Fs[Names[k]].found[s]
<1>2. s \in Contents
  BY <1>1 DEF Configured, Contents
<1>. HIDE DEF s
<1>3. IsFiniteSet(found) /\ found \subseteq Reported
  BY <1>1, <1>2, FilesAssumption
<1>4. Local(k) = {Finding(Names[k], x) : x \in found}
  BY DEF Local, s
<1>. HIDE DEF found
<1>5. IsFiniteSet(Local(k)) /\ Local(k) \subseteq Diagnostic
  BY <1>1, <1>3, <1>4, FindingsOf
<1>6. SetToSeq(Local(k)) \in Seq(Diagnostic)
  BY <1>5, SetToSeqOf, SeqMonotonic
<1>. DEFINE registered == Fs[Names[k]].registrations
<1>7. IsFiniteSet(registered) /\ registered \subseteq Reported
  BY <1>1, FilesAssumption
<1>8. Registrations(k) \in {{}, {Finding(Names[k], x) : x \in registered}}
  BY DEF Registrations
<1>. HIDE DEF registered
<1>9. IsFiniteSet(Registrations(k)) /\ Registrations(k) \subseteq Diagnostic
  BY <1>1, <1>7, <1>8, FindingsOf, FS_EmptySet
<1>10. ASSUME NEW inputs PROVE SetToSeq(ProjectFindings(k, inputs)) \in Seq(Diagnostic)
  <2>. DEFINE F == ProjectFindings(k, inputs)
  <2>1. IsFiniteSet(F) /\ F \subseteq Diagnostic
    BY <1>9, FS_EmptySet DEF ProjectFindings
  <2>. HIDE DEF F
  <2>2. SetToSeq(F) \in Seq(Diagnostic)
    BY <2>1, SetToSeqOf, SeqMonotonic
  <2>. QED
    BY <2>2 DEF F
<1>. QED
  BY <1>6, <1>10

\* The parts of a project's analysis: what the rules find in each input, what
\* the project rule finds in each, and the step that suppresses one input's.
At(p, ds) == {k \in DOMAIN ds : ds[k].file = p}
LocalsOf(inputs) == FlattenSeq([n \in DOMAIN inputs |-> SetToSeq(Local(inputs[n]))])
AcrossOf(inputs) == FlattenSeq([n \in DOMAIN inputs |->
                                  SetToSeq(ProjectFindings(inputs[n], inputs))])
Suppressed(inputs, n, last) ==
  LET p == Names[inputs[n]]
  IN  Picked(last, DOMAIN last \ At(p, last))
        \o Apply(p, Fs[p], Picked(last, At(p, last))
                             \o Picked(AcrossOf(inputs), At(p, AcrossOf(inputs))))

\* A project's analysis suppresses one input after the other, and sorts.
LEMMA ProjectPasses ==
  ASSUME WorldInv, ContextsInv, NEW inputs \in Seq(Inputs)
  PROVE  \E f \in [0..Len(inputs) -> Seq(Diagnostic)] :
           /\ f[0] = LocalsOf(inputs)
           /\ \A n \in 1..Len(inputs) : f[n] = Suppressed(inputs, n, f[n - 1])
           /\ AnalyzeProject(inputs) = Sorted(f[Len(inputs)])
<1>. DEFINE m == Len(inputs)
            Diagnostics == Seq(Diagnostic)
            localOf == [n \in DOMAIN inputs |-> SetToSeq(Local(inputs[n]))]
            acrossOf == [n \in DOMAIN inputs |->
                           SetToSeq(ProjectFindings(inputs[n], inputs))]
            local == LocalsOf(inputs)
            across == AcrossOf(inputs)
            Pass(n, last) == Suppressed(inputs, n, last)
            suppressed == CHOOSE f : f = [n \in 0..m |->
                            IF n = 0 THEN local ELSE Pass(n, f[n - 1])]
            next == [q \in (1..m) \X Diagnostics |-> Pass(q[1], q[2])]
<1>1. m \in Nat /\ DOMAIN inputs = 1..m /\ \A n \in 1..m : inputs[n] \in Inputs
  BY LenProperties, ElementOfSeq
<1>2. \A n \in 1..m : localOf[n] \in Diagnostics /\ acrossOf[n] \in Diagnostics
  BY <1>1, LocalOf
<1>3. localOf \in Seq(Diagnostics) /\ acrossOf \in Seq(Diagnostics)
  BY <1>1, <1>2
<1>4. AnalyzeProject(inputs) = Sorted(suppressed[m])
  BY DEF AnalyzeProject, LocalsOf, AcrossOf, Suppressed, At
<1>. HIDE DEF localOf, acrossOf
<1>5. local \in Diagnostics /\ across \in Diagnostics
  BY <1>3, FlattenSeqOf DEF LocalsOf, AcrossOf, localOf, acrossOf
<1>. HIDE DEF local, across
<1>6. ASSUME NEW n \in 1..m, NEW last \in Diagnostics PROVE Pass(n, last) \in Diagnostics
  <2>. DEFINE p == Names[inputs[n]]
              others == Picked(last, DOMAIN last \ At(p, last))
              mine == Picked(last, At(p, last))
              new == Picked(across, At(p, across))
  <2>1. p \in Paths
    BY <1>1, NamesOf
  <2>2. others \in Diagnostics /\ mine \in Diagnostics /\ new \in Diagnostics
    BY <1>5, PickedOf
  <2>3. Pass(n, last) = others \o Apply(p, Fs[p], mine \o new)
    BY DEF Suppressed, across
  <2>. HIDE DEF p, others, mine, new
  <2>. DEFINE joined == mine \o new
  <2>4. joined \in Diagnostics
    BY <2>2, ConcatProperties
  <2>. HIDE DEF joined
  <2>5. Apply(p, Fs[p], joined) \in Diagnostics
    BY <2>1, <2>4, ApplyOf
  <2>6. others \o Apply(p, Fs[p], joined) \in Diagnostics
    BY <2>2, <2>5, ConcatProperties
  <2>. QED
    BY <2>3, <2>6 DEF joined
<1>. HIDE DEF Pass, m
<1>7. next \in [(1..m) \X Diagnostics -> Diagnostics]
  BY <1>6
<1>8. PICK f : /\ f \in [0..m -> Diagnostics] /\ f[0] = local
               /\ \A n \in 1..m : f[n] = Pass(n, f[n - 1])
  <2>. HIDE DEF next, Diagnostics
  <2>1. PICK f : Computes(f, m, Diagnostics, local, next)
    BY <1>1, <1>5, <1>7, Recursion
  <2>2. f \in [0..m -> Diagnostics] /\ f[0] = local
        /\ \A n \in 1..m : f[n] = next[<<n, f[n - 1]>>]
    BY <2>1 DEF Computes
  <2>3. ASSUME NEW n \in 1..m PROVE f[n] = Pass(n, f[n - 1])
    <3>1. f[n - 1] \in Diagnostics /\ <<n, f[n - 1]>> \in (1..m) \X Diagnostics
      BY <1>1, <2>2
    <3>2. f[n] = next[<<n, f[n - 1]>>]
      BY <2>2
    <3>. QED
      BY <3>1, <3>2 DEF next
  <2>. QED
    BY <2>2, <2>3
<1>9. suppressed = [n \in 0..m |-> IF n = 0 THEN local ELSE Pass(n, suppressed[n - 1])]
  <2>1. ASSUME NEW n \in 0..m PROVE f[n] = IF n = 0 THEN local ELSE Pass(n, f[n - 1])
    <3>1. n = 0 \/ n \in 1..m
      BY <1>1
    <3>2. CASE n = 0
      BY <1>8, <3>2
    <3>3. CASE n \in 1..m
      BY <1>1, <1>8, <3>3
    <3>. QED
      BY <3>1, <3>2, <3>3
  <2>2. f = [n \in 0..m |-> IF n = 0 THEN local ELSE Pass(n, f[n - 1])]
    BY <1>8, <2>1
  <2>. QED
    BY <2>2
<1>. HIDE DEF suppressed, Diagnostics
<1>10. suppressed[0] = local /\ \A n \in 1..m : suppressed[n] = Pass(n, suppressed[n - 1])
  <2>1. 0 \in 0..m /\ \A n \in 1..m : n \in 0..m /\ n # 0
    BY <1>1
  <2>2. \A n \in 0..m : suppressed[n] = IF n = 0 THEN local ELSE Pass(n, suppressed[n - 1])
    BY <1>9
  <2>. QED
    BY <2>1, <2>2
<1>. DEFINE Good == {n \in 0..m : suppressed[n] \in Diagnostics}
<1>11. ASSUME NEW n \in 0..m PROVE n \in Good
  <2>. DEFINE Same == {k \in 0..m : suppressed[k] = f[k]}
  <2>1. 0 \in Same
    BY <1>1, <1>8, <1>10
  <2>2. ASSUME NEW k \in 1..n, k - 1 \in Same PROVE k \in Same
    <3>1. k \in 1..m /\ k \in 0..m /\ suppressed[k - 1] = f[k - 1]
      BY <1>1, <2>2
    <3>. QED
      BY <1>8, <1>10, <3>1
  <2>3. n \in Same
    <3>. HIDE DEF Same
    <3>1. n \in Nat
      BY <1>1
    <3>. QED
      BY <2>1, <2>2, <3>1, SetInductionUpTo
  <2>. QED
    BY <1>8, <2>3
<1>12. suppressed \in [0..m -> Diagnostics]
  BY <1>9, <1>11
<1>. QED
  BY <1>4, <1>10, <1>12 DEF m, Pass, local, Diagnostics

\* A project's analysis yields diagnostics, whatever its inputs.
LEMMA AnalyzeProjectOf ==
  ASSUME WorldInv, ContextsInv, NEW inputs \in Seq(Inputs)
  PROVE  AnalyzeProject(inputs) \in Seq(Diagnostic)
<1>1. PICK f \in [0..Len(inputs) -> Seq(Diagnostic)] :
        AnalyzeProject(inputs) = Sorted(f[Len(inputs)])
  BY ProjectPasses
<1>2. Len(inputs) \in 0..Len(inputs)
  BY LenProperties
<1>3. PICK last \in Seq(Diagnostic) : last = f[Len(inputs)]
  BY <1>1, <1>2
<1>. QED
  BY <1>1, <1>3, SortedOf

\* Findings fail a run by their severity, wherever they are in the report.
LEMMA FailsOf ==
  ASSUME NEW ds \in Seq(Diagnostic), NEW more \in Seq(Diagnostic)
  PROVE  /\ ds \o more \in Seq(Diagnostic)
         /\ Fails(ds \o more) <=> Fails(ds) \/ Fails(more)
         /\ Fails(Sorted(ds)) <=> Fails(ds)
         /\ ~Fails(<<>>)
<1>1. ds \o more \in Seq(Diagnostic) /\ ToSet(ds \o more) = ToSet(ds) \cup ToSet(more)
  BY ToSetConcat
<1>2. ToSet(Sorted(ds)) = ToSet(ds)
  BY SortedOf
<1>. QED
  BY <1>1, <1>2, ToSetEmpty DEF Fails

-----------------------------------------------------------------------------
(***************************************************************************)
(* Every step keeps the invariant.                                         *)
(***************************************************************************)
\* Nothing is reported before the inputs are inspected.
LEMMA EarlyOf ==
  ASSUME Inv, pc \in Early
  PROVE  errors = {} /\ report = <<>> /\ ~exitNonZero /\ Counted(0)
<1>1. PICK n \in 0..Len(Names) : Counted(n) /\ Reached(n)
  BY DEF Inv, CountInv
<1>2. n = 0
  BY <1>1 DEF Reached
<1>3. errors \subseteq 1..0
  BY <1>1, <1>2 DEF Counted
<1>4. errors = {}
  BY <1>3
<1>5. report = <<>> /\ (exitNonZero <=> errors # {} \/ Fails(report))
  BY DEF Inv, ReportInv
<1>6. ~Fails(<<>>)
  BY ToSetEmpty DEF Fails
<1>. QED
  BY <1>1, <1>2, <1>4, <1>5, <1>6

\* A step that leaves the world alone.
LEMMA WorldStays ==
  ASSUME Inv, UNCHANGED world
  PROVE  WorldInv' /\ UNCHANGED <<args, Names, Inputs>>
BY DEF Inv, world, WorldInv, Names, Inputs

\* A step that leaves the contexts alone keeps what is said of them.
LEMMA ContextsStay ==
  ASSUME Inv, UNCHANGED <<args, contexts>>,
         pc' \in {"flags", "explicit"} => pc \in {"flags", "explicit"}
  PROVE  ContextsInv' /\ OneConfigVersion'
<1>1. UNCHANGED <<Names, Inputs>>
  BY DEF Names, Inputs
<1>2. ContextsInv'
  BY <1>1 DEF Inv, ContextsInv, Configured
<1>3. OneConfigVersion'
  BY <1>1 DEF Inv, OneConfigVersion
<1>. QED
  BY <1>2, <1>3

\* The same for what was loaded.
LEMMA CacheStays ==
  ASSUME Inv, UNCHANGED <<args, contexts, cache>>,
         pc' \in {"discover", "load"} => pc \in {"discover", "load"}
  PROVE  CacheInv'
<1>1. UNCHANGED <<Names, Inputs>>
  BY DEF Names, Inputs
<1>. QED
  BY <1>1 DEF Inv, CacheInv, Explains

\* The same for the report and the count, while the number of inputs reached
\* stays.
LEMMA ResultsStay ==
  ASSUME Inv, UNCHANGED <<args, contexts, results>>,
         pc' \in Early => pc \in Early
  PROVE  /\ ReportInv'
         /\ \A n \in Nat : Counted(n) => Counted(n)'
<1>1. UNCHANGED <<Names, Inputs, errors, exitNonZero, report, projects, analysed, inspected>>
  BY DEF Names, Inputs, results
<1>2. ReportInv'
  BY <1>1 DEF Inv, ReportInv, Fails
<1>3. ASSUME NEW n \in Nat, Counted(n) PROVE Counted(n)'
  BY <1>1, <1>3 DEF Counted, Configured
<1>. QED
  BY <1>2, <1>3

LEMMA InitInv ==
  ASSUME Init
  PROVE  Inv
<1>1. WorldInv
  <2>1. ASSUME NEW c \in Configs PROVE disk[c] \in ToSet(Versions[c])
    <3>1. Versions[c] \in Seq(ToSet(Versions[c])) /\ Versions[c] # <<>>
      BY ConfigsAssumption
    <3>2. Head(Versions[c]) \in ToSet(Versions[c])
      BY <3>1, HeadTailProperties
    <3>. QED
      BY <3>2 DEF Init
  <2>. QED
    BY <2>1, ArgsAssumption DEF Init, WorldInv
<1>2. Names \in Seq(Paths) /\ Len(Names) \in Nat /\ Inputs = 1..Len(Names)
  BY <1>1, NamesOf
<1>3. ControlInv
  BY <1>2, ConfigsAssumption DEF Init, ControlInv
<1>4. KeyInv /\ StatusInv
  BY DEF Init, KeyInv, StatusInv, Running, Done
<1>5. ContextsInv /\ \A k \in Inputs : contexts[k].config = "none"
  BY DEF Init, ContextsInv, ContextRecord, NoContext, Context, Configured
<1>6. CacheInv
  BY DEF Init, CacheInv
<1>7. OneConfigVersion
  <2>1. ASSUME NEW c \in Configs PROVE \E v : v \in ToSet(Versions[c])
    BY <1>1 DEF WorldInv
  <2>. QED
    BY <1>5, <2>1, ConfigsAssumption DEF OneConfigVersion
<1>8. ReportInv
  BY ToSetEmpty DEF Init, ReportInv, Fails
<1>9. CountInv
  <2>1. errors = {} /\ analysed = {} /\ inspected = 0 /\ projects = <<>>
    BY DEF Init
  <2>2. Counted(0)
    BY <2>1, FS_EmptySet DEF Counted
  <2>3. Reached(0)
    BY DEF Init, Reached, Early, Done
  <2>. QED
    BY <1>2, <2>2, <2>3 DEF CountInv
<1>. QED
  BY <1>1, <1>3, <1>4, <1>5, <1>6, <1>7, <1>8, <1>9 DEF Inv

LEMMA FlagsStep ==
  ASSUME Inv, Flags
  PROVE  Inv'
<1>0. /\ pc = "flags" /\ UNCHANGED <<world, i, contexts, key, cache, results, envelope>>
      /\ pc \in Early /\ UNCHANGED <<args, contexts>>
  BY DEF Flags, loop, Early, world
<1>1. /\ pc' \in {"done", "inspect", "discover", "explicit"}
      /\ pc' = "done" => status' = 2 \/ (status' = 0 /\ args.help)
      /\ pc' # "done" => status' = status /\ ~args.help
      /\ pc' = "explicit" => args.config \in Configs
  <2>1. args.config \in Configs \cup {"unset", "empty"}
    BY NamesOf DEF Inv
  <2>. QED
    BY <2>1 DEF Flags, Exit, BadFlags
<1>2. WorldInv' /\ UNCHANGED <<args, Names, Inputs>>
  BY <1>0, WorldStays
<1>3. ControlInv'
  <2>1. i = 1 /\ key = "none" /\ Len(Names) \in Nat
    BY <1>0, NamesOf DEF Inv, ControlInv
  <2>. QED
    BY <1>0, <1>1, <1>2, <2>1 DEF ControlInv
<1>4. KeyInv'
  BY <1>1 DEF KeyInv
<1>5. StatusInv'
  <2>1. ~exitNonZero /\ exitNonZero' = exitNonZero /\ envelope' = envelope
    BY <1>0, EarlyOf DEF results
  <2>2. status = Running /\ envelope \in BOOLEAN /\ exitNonZero \in BOOLEAN
    BY <1>0 DEF Inv, StatusInv
  <2>3. CASE pc' = "done"
    BY <1>1, <2>1, <2>2, <2>3 DEF StatusInv, Running, Done
  <2>4. CASE pc' # "done"
    BY <1>1, <2>1, <2>2, <2>4 DEF StatusInv, Running, Done
  <2>. QED
    BY <2>3, <2>4
<1>6. ContextsInv' /\ OneConfigVersion'
  BY <1>0, <1>2, ContextsStay
<1>7. CacheInv'
  <2>1. \A k \in Inputs : contexts[k].config = "none"
    BY <1>0 DEF Inv, ContextsInv
  <2>2. DOMAIN cache = Configs /\ \A c \in Configs : cache[c] \in ToSet(Versions[c]) \cup {Unread}
    BY DEF Inv, CacheInv
  <2>. QED
    BY <1>0, <1>2, <2>1, <2>2, ConfigsAssumption DEF CacheInv, Explains
<1>8. ReportInv' /\ \A n \in Nat : Counted(n) => Counted(n)'
  BY <1>0, <1>2, ResultsStay
<1>9. CountInv'
  <2>1. Counted(0)'
    BY <1>0, <1>8, EarlyOf
  <2>2. Reached(0)'
    BY <1>0, <1>1, <1>2 DEF Inv, ControlInv, Reached, Early, Done
  <2>3. Len(Names') \in Nat
    BY <1>2, NamesOf DEF Inv
  <2>. QED
    BY <2>1, <2>2, <2>3 DEF CountInv
<1>. QED
  BY <1>2, <1>3, <1>4, <1>5, <1>6, <1>7, <1>8, <1>9 DEF Inv

\* The versions on disk are of the shape the configuration code reads.
LEMMA VersionOf ==
  ASSUME NEW c \in Configs, NEW v \in ToSet(Versions[c])
  PROVE  /\ v # Unread
         /\ v.kind = "file" /\ v.decodes => v.sources \in Seq(SourceRecord)
<1>1. v.kind \in {"file", "dir", "absent", "error"}
      /\ (v.kind = "file" /\ v.decodes => v.sources \in Seq(SourceRecord))
  BY ConfigsAssumption
<1>2. Unread.kind = "unread"
  BY DEF Unread
<1>. QED
  BY <1>1, <1>2

\* A source a version classifies, recorded with that version's configuration.
LEMMA ClassifiedOf ==
  ASSUME NEW c \in Configs, NEW v \in ToSet(Versions[c]), Loads(v), NEW path,
         Resolve(ConfigAt[c], v, path).verdict = "source"
  PROVE  LET found == Resolve(ConfigAt[c], v, path)
             context == Context(c, found.project, found.profile)
         IN  /\ context \in ContextRecord
             /\ context.profile # "none" => context.config \in Configs
             /\ context.config = c /\ ~context.err
             /\ LongestRoot(ConfigAt[c], v, path, context.profile)
<1>. DEFINE found == Resolve(ConfigAt[c], v, path)
<1>1. /\ found.project \in ProjectKinds /\ found.profile \in Profiles
      /\ LongestRoot(ConfigAt[c], v, path, found.profile)
  BY VersionOf, ResolveOf
<1>. HIDE DEF found
<1>2. Context(c, found.project, found.profile) =
        [config |-> c, project |-> found.project, profile |-> found.profile, err |-> FALSE]
  BY DEF Context
<1>. QED
  BY <1>1, <1>2 DEF ContextRecord, found

LEMMA ExplicitStep ==
  ASSUME Inv, Explicit
  PROVE  Inv'
<1>0. /\ pc = "explicit" /\ UNCHANGED <<world, i, key, cache, results, envelope>>
      /\ pc \in Early
  BY DEF Explicit, Early
<1>. DEFINE c == args.config
            context == [k \in Inputs |-> Resolve(ConfigAt[c], disk[c], Fs[Names[k]].at)]
            Accepted == /\ Loads(disk[c]) /\ \A k \in Inputs : context[k].verdict = "source"
                        /\ contexts' = [k \in Inputs |->
                             Context(c, context[k].project, context[k].profile)]
                        /\ pc' = "inspect" /\ status' = status
            Refused == pc' = "done" /\ status' = 2 /\ UNCHANGED contexts
<1>1. Accepted \/ Refused
  BY DEF Explicit, Exit
<1>2. WorldInv' /\ UNCHANGED <<args, Names, Inputs>>
  BY <1>0, WorldStays
<1>3. /\ c \in Configs /\ i = 1 /\ key = "none" /\ ~args.help /\ status = Running
      /\ envelope \in BOOLEAN /\ exitNonZero \in BOOLEAN
  BY <1>0 DEF Inv, ControlInv, StatusInv
<1>4. disk[c] \in ToSet(Versions[c])
  BY <1>3 DEF Inv, WorldInv
<1>5. Len(Names) \in Nat /\ Inputs = 1..Len(Names)
  BY NamesOf DEF Inv
<1>6. /\ errors = {} /\ report = <<>> /\ ~exitNonZero /\ Counted(0)
      /\ UNCHANGED <<errors, report, exitNonZero, projects, analysed, inspected>>
  BY <1>0, EarlyOf DEF results
<1>7. ControlInv' /\ KeyInv' /\ StatusInv'
  <2>1. CASE Accepted
    BY <1>0, <1>2, <1>3, <1>5, <1>6, <2>1 DEF ControlInv, KeyInv, StatusInv, Running, Done
  <2>2. CASE Refused
    BY <1>0, <1>2, <1>3, <1>5, <1>6, <2>2 DEF ControlInv, KeyInv, StatusInv, Running, Done
  <2>. QED
    BY <1>1, <2>1, <2>2
<1>8. CacheInv'
  BY <1>0, <1>1 DEF Inv, CacheInv
<1>9. ReportInv'
  BY <1>2, <1>6, ToSetEmpty DEF Inv, ReportInv, Fails
<1>10. ContextsInv' /\ OneConfigVersion'
  <2>1. CASE Refused
    BY <1>2, <2>1, ContextsStay
  <2>2. CASE Accepted
    <3>1. ASSUME NEW k \in Inputs
          PROVE  /\ contexts'[k] \in ContextRecord
                 /\ contexts'[k].profile # "none" => contexts'[k].config \in Configs
                 /\ contexts'[k].config = c /\ ~contexts'[k].err
                 /\ LongestRoot(ConfigAt[c], disk[c], Fs[Names[k]].at, contexts'[k].profile)
      <4>1. Resolve(ConfigAt[c], disk[c], Fs[Names[k]].at).verdict = "source" /\ Loads(disk[c])
        BY <2>2
      <4>2. contexts'[k] = Context(c, Resolve(ConfigAt[c], disk[c], Fs[Names[k]].at).project,
                                      Resolve(ConfigAt[c], disk[c], Fs[Names[k]].at).profile)
        BY <2>2
      <4>. HIDE DEF c
      <4>. QED
        BY <1>3, <1>4, <4>1, <4>2, ClassifiedOf
    <3>2. contexts' = [k \in Inputs |-> contexts'[k]]
      BY <2>2
    <3>. HIDE DEF c, context
    <3>3. ContextsInv'
      BY <1>2, <2>2, <3>1, <3>2 DEF ContextsInv, Configured
    <3>4. OneConfigVersion'
      <4>1. ASSUME NEW d \in Configs
            PROVE  \E v \in ToSet(Versions[d]) : \A k \in Inputs : contexts'[k].config = d =>
                     IF contexts'[k].err THEN ~Loads(v)
                     ELSE Loads(v) /\ LongestRoot(ConfigAt[d], v, Fs[Names[k]].at,
                                                  contexts'[k].profile)
        <5>1. CASE d = c
          BY <1>4, <2>2, <3>1, <5>1
        <5>2. CASE d # c
          <6>1. disk[d] \in ToSet(Versions[d])
            BY DEF Inv, WorldInv
          <6>. QED
            BY <3>1, <5>2, <6>1
        <5>. QED
          BY <5>1, <5>2
      <4>. QED
        BY <1>2, <4>1 DEF OneConfigVersion
    <3>. QED
      BY <3>3, <3>4
  <2>. QED
    BY <1>1, <2>1, <2>2
<1>11. CountInv'
  <2>1. Counted(0)'
    <3>1. /\ errors \subseteq 1..0 /\ inspected \in Nat /\ Len(projects) <= 0
          /\ inspected + Cardinality(errors) = 0 /\ analysed = {}
      BY <1>6 DEF Counted
    <3>. QED
      BY <1>6, <3>1 DEF Counted
  <2>2. Reached(0)'
    BY <1>0, <1>1, <1>2, <1>3 DEF Reached, Early, Done
  <2>. QED
    BY <1>2, <1>5, <2>1, <2>2 DEF CountInv
<1>. QED
  BY <1>2, <1>7, <1>8, <1>9, <1>10, <1>11 DEF Inv

\* One version per configuration explains the inputs, when the loaded ones do.
LEMMA OneFromCache ==
  ASSUME WorldInv', UNCHANGED args, DOMAIN cache' = Configs,
         \A c \in Configs : cache'[c] \in ToSet(Versions[c]) \cup {Unread},
         \A c \in Configs : \A k \in Inputs :
           IF cache'[c] = Unread THEN contexts'[k].config # c
           ELSE Explains(contexts'[k], cache'[c], c, Fs[Names[k]].at)
  PROVE  CacheInv' /\ OneConfigVersion'
<1>1. UNCHANGED <<Names, Inputs>>
  BY DEF Names, Inputs
<1>2. CacheInv'
  BY <1>1 DEF CacheInv, Explains
<1>3. ASSUME NEW c \in Configs
      PROVE  \E v \in ToSet(Versions[c]) : \A k \in Inputs : contexts'[k].config = c =>
               IF contexts'[k].err THEN ~Loads(v)
               ELSE Loads(v) /\ LongestRoot(ConfigAt[c], v, Fs[Names[k]].at,
                                            contexts'[k].profile)
  <2>1. CASE cache'[c] = Unread
    <3>1. disk'[c] \in ToSet(Versions[c])
      BY DEF WorldInv
    <3>. QED
      BY <2>1, <3>1
  <2>2. CASE cache'[c] # Unread
    <3>1. cache'[c] \in ToSet(Versions[c])
      BY <2>2
    <3>2. \A k \in Inputs : Explains(contexts'[k], cache'[c], c, Fs[Names[k]].at)
      BY <2>2
    <3>. QED
      BY <3>1, <3>2 DEF Explains
  <2>. QED
    BY <2>1, <2>2
<1>4. OneConfigVersion'
  BY <1>1, <1>3 DEF OneConfigVersion
<1>. QED
  BY <1>2, <1>4

\* Looking up an input reports nothing, and it stays uncounted.
LEMMA LookupStays ==
  ASSUME Inv, pc \in Early, UNCHANGED args, UNCHANGED results,
         pc' \in Early \/ (pc' = "inspect" /\ i' = 1)
  PROVE  ReportInv' /\ CountInv'
<1>1. UNCHANGED <<Names, Inputs, errors, exitNonZero, report, projects, analysed, inspected>>
  BY DEF Names, Inputs, results
<1>2. ReportInv'
  BY <1>1, EarlyOf, ToSetEmpty DEF Inv, ReportInv, Fails
<1>3. Counted(0)'
  <2>1. /\ errors \subseteq 1..0 /\ inspected \in Nat /\ Len(projects) <= 0
        /\ inspected + Cardinality(errors) = 0 /\ analysed = {}
    BY EarlyOf DEF Counted
  <2>. QED
    BY <1>1, <2>1 DEF Counted
<1>4. Reached(0)' /\ Len(Names') \in Nat
  BY <1>1, NamesOf DEF Inv, Reached, Early, Done
<1>. QED
  BY <1>2, <1>3, <1>4 DEF CountInv

LEMMA DiscoverStep ==
  ASSUME Inv, Discover
  PROVE  Inv'
<1>. DEFINE p == Names[i]
            search == Discovery(ConfigAt, disk, Fs[p].at)
            Find == /\ search.verdict = "found" /\ key' = search.config
                    /\ pc' = "load" /\ i' = i /\ contexts' = contexts
            Pass == /\ \/ contexts' = contexts
                       \/ contexts' = [contexts EXCEPT ![i] = Error("none")]
                    /\ i' = i + 1 /\ pc' = pc /\ key' = key
<1>0. /\ pc = "discover" /\ UNCHANGED <<world, cache, results, envelope, status>>
      /\ i <= Len(Names) /\ pc \in Early
  BY DEF Discover, Early
<1>1. Find \/ Pass
  BY DEF Discover, SetContext
<1>2. WorldInv' /\ UNCHANGED <<args, Names, Inputs>>
  BY <1>0, WorldStays
<1>3. /\ Len(Names) \in Nat /\ Inputs = 1..Len(Names) /\ i \in Inputs /\ p \in Paths
      /\ Fs[p].at \in Seq(STRING) /\ key = "none" /\ ~args.help
  <2>1. i \in 1..(Len(Names) + 1) /\ key = "none" /\ ~args.help
    BY <1>0 DEF Inv, ControlInv
  <2>. QED
    BY <1>0, <2>1, NamesOf, FilesAssumption DEF Inv
<1>4. Find => key' \in Configs /\ PathContains(ConfigAt[key'], Fs[p].at)
  BY <1>3, DiscoveryOf
<1>5. ControlInv' /\ KeyInv'
  <2>1. CASE Find
    BY <1>2, <1>3, <1>4, <2>1, ConfigsAssumption DEF ControlInv, KeyInv
  <2>2. CASE Pass
    BY <1>0, <1>2, <1>3, <2>2 DEF ControlInv, KeyInv
  <2>. QED
    BY <1>1, <2>1, <2>2
<1>6. StatusInv'
  <2>1. UNCHANGED <<exitNonZero, envelope, status>> /\ pc' # "done"
    BY <1>0, <1>1 DEF results
  <2>. QED
    BY <1>0, <2>1 DEF Inv, StatusInv, Done
<1>7. \/ contexts' = contexts
      \/ contexts' = [contexts EXCEPT ![i] = Error("none")]
  BY <1>1
<1>8. /\ contexts' \in [Inputs -> ContextRecord]
      /\ \A k \in Inputs : \/ contexts'[k] = contexts[k]
                           \/ contexts'[k].config = "none" /\ contexts'[k].profile = "none"
  <2>1. /\ Error("none") \in ContextRecord
        /\ Error("none").config = "none" /\ Error("none").profile = "none"
    BY DEF Error, NoContext, Context, ContextRecord
  <2>2. contexts \in [Inputs -> ContextRecord]
    BY DEF Inv, ContextsInv
  <2>. HIDE DEF p, search, Find, Pass
  <2>. QED
    BY <1>3, <1>7, <2>1, <2>2
<1>9. ContextsInv'
  <2>1. pc' \notin {"flags", "explicit"}
    BY <1>0, <1>1
  <2>2. \A k \in Inputs : contexts'[k].profile # "none" => contexts'[k].config \in Configs
    BY <1>8 DEF Inv, ContextsInv, Configured
  <2>. QED
    BY <1>2, <1>8, <2>1, <2>2 DEF ContextsInv, Configured
<1>10. CacheInv' /\ OneConfigVersion'
  <2>1. /\ DOMAIN cache = Configs /\ UNCHANGED cache
        /\ \A c \in Configs : cache[c] \in ToSet(Versions[c]) \cup {Unread}
        /\ \A c \in Configs : \A k \in Inputs :
             IF cache[c] = Unread THEN contexts[k].config # c
             ELSE Explains(contexts[k], cache[c], c, Fs[Names[k]].at)
    BY <1>0 DEF Inv, CacheInv
  <2>2. ASSUME NEW c \in Configs, NEW k \in Inputs
        PROVE  IF cache'[c] = Unread THEN contexts'[k].config # c
               ELSE Explains(contexts'[k], cache'[c], c, Fs[Names[k]].at)
    <3>1. CASE contexts'[k] = contexts[k]
      BY <2>1, <3>1
    <3>2. CASE contexts'[k].config = "none"
      BY <3>2, ConfigsAssumption DEF Explains
    <3>. QED
      BY <1>8, <3>1, <3>2
  <2>. QED
    BY <1>2, <2>1, <2>2, OneFromCache
<1>11. ReportInv' /\ CountInv'
  <2>1. UNCHANGED args /\ UNCHANGED results /\ (pc' \in Early \/ (pc' = "inspect" /\ i' = 1))
    BY <1>0, <1>1, <1>2 DEF Early
  <2>. QED
    BY <1>0, <2>1, LookupStays
<1>. QED
  BY <1>2, <1>5, <1>6, <1>9, <1>10, <1>11 DEF Inv

LEMMA UseConfigStep ==
  ASSUME Inv, UseConfig
  PROVE  Inv'
<1>. DEFINE p == Names[i]
            v == Loaded(key)
            found == Resolve(ConfigAt[key], v, Fs[p].at)
<1>0. /\ pc = "load" /\ UNCHANGED <<world, results, envelope, status>>
      /\ key' = "none" /\ pc' = "discover" /\ i' = i + 1 /\ pc \in Early
      /\ cache' = [cache EXCEPT ![key] = v]
  BY DEF UseConfig, Early
<1>1. \/ ~Loads(v) /\ contexts' = [contexts EXCEPT ![i] = Error(key)]
      \/ /\ Loads(v) /\ found.verdict = "source"
         /\ contexts' = [contexts EXCEPT ![i] = Context(key, found.project, found.profile)]
      \/ found.verdict = "unmatched" /\ contexts' = contexts
      \/ found.verdict \notin {"source", "unmatched"}
  BY DEF UseConfig, SetContext
<1>2. WorldInv' /\ UNCHANGED <<args, Names, Inputs>>
  BY <1>0, WorldStays
<1>3. /\ Len(Names) \in Nat /\ Inputs = 1..Len(Names) /\ i \in Inputs
      /\ key \in Configs /\ PathContains(ConfigAt[key], Fs[p].at) /\ ~args.help
  BY <1>0, NamesOf DEF Inv, ControlInv, KeyInv
<1>4. found.verdict \in {"unmatched", "source"}
  BY <1>3, ResolveInside
<1>5. /\ DOMAIN cache = Configs
      /\ \A c \in Configs : cache[c] \in ToSet(Versions[c]) \cup {Unread}
      /\ \A c \in Configs : \A k \in Inputs :
           IF cache[c] = Unread THEN contexts[k].config # c
           ELSE Explains(contexts[k], cache[c], c, Fs[Names[k]].at)
      /\ \A c \in Configs : disk[c] \in ToSet(Versions[c])
  BY <1>0 DEF Inv, CacheInv, WorldInv
<1>6. v \in ToSet(Versions[key]) /\ v # Unread
  BY <1>3, <1>5, VersionOf DEF Loaded
<1>7. \A k \in Inputs : Explains(contexts[k], v, key, Fs[Names[k]].at)
  <2>1. cache[key] = Unread => \A k \in Inputs : contexts[k].config # key
    BY <1>3, <1>5
  <2>2. cache[key] # Unread => v = cache[key]
    BY DEF Loaded
  <2>. QED
    BY <1>3, <1>5, <2>1, <2>2 DEF Explains
<1>. HIDE DEF v, p
<1>8. PICK x \in ContextRecord :
        /\ contexts' = [contexts EXCEPT ![i] = x]
        /\ x.config = key \/ x = contexts[i]
        /\ x.profile # "none" => x.config \in Configs
        /\ Explains(x, v, key, Fs[p].at)
  <2>1. contexts \in [Inputs -> ContextRecord]
        /\ (contexts[i].profile # "none" => contexts[i].config \in Configs)
    BY <1>3 DEF Inv, ContextsInv, Configured
  <2>2. CASE ~Loads(v) /\ contexts' = [contexts EXCEPT ![i] = Error(key)]
    <3>2. Error(key) \in ContextRecord /\ Error(key).config = key /\ Error(key).err
          /\ Error(key).profile = "none"
      BY <1>3 DEF Error, NoContext, Context, ContextRecord
    <3>3. Explains(Error(key), v, key, Fs[p].at)
      BY <2>2, <3>2 DEF Explains
    <3>. QED
      BY <1>3, <2>2, <3>2, <3>3
  <2>3. CASE /\ Loads(v) /\ found.verdict = "source"
             /\ contexts' = [contexts EXCEPT ![i] = Context(key, found.project, found.profile)]
    <3>. DEFINE y == Context(key, found.project, found.profile)
    <3>1. /\ y \in ContextRecord /\ (y.profile # "none" => y.config \in Configs)
          /\ y.config = key /\ ~y.err
          /\ LongestRoot(ConfigAt[key], v, Fs[p].at, y.profile)
      BY <1>3, <1>6, <2>3, ClassifiedOf
    <3>. HIDE DEF y
    <3>2. Explains(y, v, key, Fs[p].at)
      BY <2>3, <3>1 DEF Explains
    <3>3. contexts' = [contexts EXCEPT ![i] = y]
      BY <2>3 DEF y
    <3>. QED
      BY <3>1, <3>2, <3>3
  <2>4. CASE contexts' = contexts
    <3>1. contexts' = [contexts EXCEPT ![i] = contexts[i]] /\ contexts[i] \in ContextRecord
      BY <1>3, <2>1, <2>4
    <3>2. Explains(contexts[i], v, key, Fs[p].at)
      BY <1>3, <1>7 DEF p
    <3>. QED
      BY <2>1, <3>1, <3>2
  <2>. HIDE DEF found
  <2>. QED
    BY <1>1, <1>4, <2>2, <2>3, <2>4
<1>. HIDE DEF found
<1>9. /\ contexts' \in [Inputs -> ContextRecord]
      /\ contexts'[i] = x /\ \A k \in Inputs : k # i => contexts'[k] = contexts[k]
  <2>1. contexts \in [Inputs -> ContextRecord]
    BY DEF Inv, ContextsInv
  <2>. QED
    BY <1>3, <1>8, <2>1
<1>10. ContextsInv'
  <2>1. \A k \in Inputs : contexts'[k].profile # "none" => contexts'[k].config \in Configs
    BY <1>8, <1>9 DEF Inv, ContextsInv, Configured
  <2>. QED
    BY <1>0, <1>2, <1>9, <2>1 DEF ContextsInv, Configured
<1>11. CacheInv' /\ OneConfigVersion'
  <2>1. /\ DOMAIN cache' = Configs /\ cache'[key] = v
        /\ \A c \in Configs : c # key => cache'[c] = cache[c]
    BY <1>0, <1>3, <1>5
  <2>2. \A c \in Configs : cache'[c] \in ToSet(Versions[c]) \cup {Unread}
    BY <1>5, <1>6, <2>1
  <2>3. ASSUME NEW c \in Configs, NEW k \in Inputs
        PROVE  IF cache'[c] = Unread THEN contexts'[k].config # c
               ELSE Explains(contexts'[k], cache'[c], c, Fs[Names[k]].at)
    <3>1. CASE c = key
      <4>1. Explains(contexts'[k], v, key, Fs[Names[k]].at)
        BY <1>7, <1>8, <1>9 DEF p
      <4>. QED
        BY <1>6, <2>1, <3>1, <4>1
    <3>2. CASE c # key
      <4>1. cache'[c] = cache[c]
        BY <2>1, <3>2
      <4>2. contexts'[k] = contexts[k] \/ contexts'[k].config = key
        BY <1>8, <1>9
      <4>3. CASE contexts'[k] = contexts[k]
        BY <1>5, <4>1, <4>3
      <4>4. CASE contexts'[k].config = key
        BY <3>2, <4>4 DEF Explains
      <4>. QED
        BY <4>2, <4>3, <4>4
    <3>. QED
      BY <3>1, <3>2
  <2>. QED
    BY <1>2, <2>1, <2>2, <2>3, OneFromCache
<1>12. ControlInv' /\ KeyInv'
  BY <1>0, <1>2, <1>3 DEF ControlInv, KeyInv
<1>13. StatusInv'
  <2>1. UNCHANGED <<exitNonZero, envelope, status>>
    BY <1>0 DEF results
  <2>. QED
    BY <1>0, <2>1 DEF Inv, StatusInv, Done
<1>14. ReportInv' /\ CountInv'
  <2>1. UNCHANGED args /\ UNCHANGED results /\ (pc' \in Early \/ (pc' = "inspect" /\ i' = 1))
    BY <1>0, <1>2 DEF Early
  <2>. QED
    BY <1>0, <2>1, LookupStays
<1>. QED
  BY <1>2, <1>10, <1>11, <1>12, <1>13, <1>14 DEF Inv

LEMMA DiscoveredStep ==
  ASSUME Inv, Discovered
  PROVE  Inv'
<1>0. /\ pc = "discover" /\ pc' = "inspect" /\ i' = 1 /\ pc \in Early
      /\ UNCHANGED world /\ UNCHANGED <<contexts, key, cache, envelope, status>>
      /\ UNCHANGED results
  BY DEF Discovered, loop, Early
<1>1. WorldInv' /\ UNCHANGED <<args, Names, Inputs>>
  BY <1>0, WorldStays
<1>2. ControlInv' /\ KeyInv'
  <2>1. Len(Names) \in Nat
    BY NamesOf DEF Inv
  <2>. QED
    BY <1>0, <1>1, <2>1 DEF Inv, ControlInv, KeyInv
<1>3. StatusInv'
  <2>1. UNCHANGED exitNonZero
    BY <1>0 DEF results
  <2>. QED
    BY <1>0, <2>1 DEF Inv, StatusInv, Done
<1>4. ContextsInv' /\ OneConfigVersion'
  BY <1>0, <1>1, ContextsStay
<1>5. CacheInv'
  BY <1>0, <1>1 DEF Inv, CacheInv
<1>6. ReportInv' /\ CountInv'
  <2>1. UNCHANGED args /\ (pc' \in Early \/ (pc' = "inspect" /\ i' = 1))
    BY <1>0, <1>1
  <2>. QED
    BY <1>0, <2>1, LookupStays
<1>. QED
  BY <1>1, <1>2, <1>3, <1>4, <1>5, <1>6 DEF Inv

\* An input joins at most one new project.
LEMMA JoinOf ==
  ASSUME Inv, i \in Inputs, NEW root \in Configs, Join(root)
  PROVE  /\ projects' \in Seq([root : Configs, inputs : Seq(Inputs)])
         /\ Len(projects') <= Len(projects) + 1
<1>. DEFINE R == [root : Configs, inputs : Seq(Inputs)]
            at == {k \in DOMAIN projects : projects[k].root = root}
            j == CHOOSE k \in at : TRUE
<1>1. projects \in Seq(R)
  BY DEF Inv, ReportInv
<1>2. DOMAIN projects = 1..Len(projects) /\ Len(projects) \in Nat
  BY <1>1, LenProperties
<1>3. CASE at = {}
  <2>. DEFINE x == [root |-> root, inputs |-> <<i>>]
  <2>1. projects' = Append(projects, x)
    BY <1>3 DEF Join
  <2>2. x \in R
    OBVIOUS
  <2>. HIDE DEF x
  <2>3. projects' \in Seq(R) /\ Len(projects') = Len(projects) + 1
    BY <1>1, <2>1, <2>2, AppendProperties
  <2>. QED
    BY <1>2, <2>3
<1>4. CASE at # {}
  <2>1. j \in at
    BY <1>4
  <2>2. projects' = [projects EXCEPT ![j].inputs = Append(@, i)]
    BY <1>4 DEF Join
  <2>. HIDE DEF j
  <2>. DEFINE x == [projects[j] EXCEPT !.inputs = Append(@, i)]
  <2>3. j \in 1..Len(projects) /\ projects[j] \in R
    BY <1>1, <1>2, <2>1, ElementOfSeq
  <2>4. x \in R
    BY <2>3
  <2>5. projects' = [projects EXCEPT ![j] = x]
    BY <2>2
  <2>. HIDE DEF x, R
  <2>6. projects' \in Seq(R) /\ Len(projects') = Len(projects)
    BY <1>1, <2>3, <2>4, <2>5, ExceptSeq
  <2>. QED
    BY <1>2, <2>6 DEF R
<1>. QED
  BY <1>3, <1>4

LEMMA InspectStep ==
  ASSUME Inv, Inspect
  PROVE  Inv'
<1>. DEFINE p == Names[i]
            kind == IF Configured(i) THEN "project" ELSE "default"
            ds == Sorted(Apply(p, Fs[p], SetToSeq(Local(i))))
            Reports == /\ errors' = errors \cup {i} /\ exitNonZero' = TRUE
                       /\ UNCHANGED <<projects, analysed, inspected, report>>
            Rejects == /\ inspected' = inspected + 1 /\ ~Fs[p].parses /\ exitNonZero' = TRUE
                       /\ report' = Append(report, ParseError(p))
                       /\ UNCHANGED <<errors, projects, analysed>>
            Defers == /\ inspected' = inspected + 1 /\ Fs[p].parses
                      /\ Configured(i) /\ Join(contexts[i].config)
                      /\ analysed' = analysed \cup {<<i, kind>>}
                      /\ UNCHANGED <<errors, report, exitNonZero>>
            Analyses == /\ inspected' = inspected + 1 /\ Fs[p].parses
                        /\ analysed' = analysed \cup {<<i, kind>>}
                        /\ report' = report \o ds
                        /\ exitNonZero' = (exitNonZero \/ Fails(ds))
                        /\ UNCHANGED <<errors, projects>>
<1>0. /\ pc = "inspect" /\ pc' = "inspect" /\ i <= Len(Names) /\ i' = i + 1
      /\ UNCHANGED world /\ UNCHANGED <<contexts, key, cache, envelope, status>>
  BY DEF Inspect, loop
<1>1. Reports \/ Rejects \/ Defers \/ Analyses
  BY DEF Inspect, Stderr, Parsed
<1>2. WorldInv' /\ UNCHANGED <<args, Names, Inputs>>
  BY <1>0, WorldStays
<1>3. /\ Len(Names) \in Nat /\ Inputs = 1..Len(Names) /\ i \in Inputs /\ p \in Paths
      /\ i \in Nat /\ i - 1 \in Nat
  <2>1. i \in 1..(Len(Names) + 1)
    BY DEF Inv, ControlInv
  <2>. QED
    BY <1>0, <2>1, NamesOf DEF Inv
<1>4. ds \in Seq(Diagnostic)
  <2>1. SetToSeq(Local(i)) \in Seq(Diagnostic)
    BY <1>3, LocalOf DEF Inv
  <2>2. Apply(p, Fs[p], SetToSeq(Local(i))) \in Seq(Diagnostic)
    BY <1>3, <2>1, ApplyOf
  <2>. QED
    BY <2>2, SortedOf
<1>5. /\ report \in Seq(Diagnostic) /\ exitNonZero \in BOOLEAN
      /\ projects \in Seq([root : Configs, inputs : Seq(Inputs)])
      /\ exitNonZero <=> errors # {} \/ Fails(report)
  BY DEF Inv, ReportInv, StatusInv
<1>6. PICK n \in 0..Len(Names) : Counted(n) /\ Reached(n)
  BY DEF Inv, CountInv
<1>7. n = i - 1
  BY <1>0, <1>6 DEF Reached
<1>8. /\ errors \subseteq 1..(i - 1) /\ inspected \in Nat
      /\ inspected + Cardinality(errors) = i - 1
      /\ analysed = {<<k, IF Configured(k) THEN "project" ELSE "default">> :
                       k \in {k \in 1..(i - 1) : k \notin errors /\ Fs[Names[k]].parses}}
      /\ Len(projects) <= i - 1 /\ Len(projects) \in Nat
  BY <1>5, <1>6, <1>7, LenProperties DEF Counted
<1>9. IsFiniteSet(errors) /\ i \notin errors /\ Cardinality(errors) \in Nat
  <2>1. IsFiniteSet(1..(i - 1))
    BY <1>3, FS_Interval
  <2>2. IsFiniteSet(errors)
    BY <1>8, <2>1, FS_Subset
  <2>. QED
    BY <1>3, <1>8, <2>2, FS_CardinalityType
<1>10. 1..i = (1..(i - 1)) \cup {i} /\ i \notin 1..(i - 1)
  BY <1>3
<1>11. Configured(i) => contexts[i].config \in Configs
  BY <1>3 DEF Inv, ContextsInv
<1>. HIDE DEF ds
<1>12. ReportInv'
  <2>1. CASE Reports
    BY <1>0, <1>2, <1>5, <2>1 DEF ReportInv, Early, Fails
  <2>2. CASE Rejects
    <3>1. ParseError(p) \in Diagnostic /\ ParseError(p).sev \in Failing
      BY <1>3 DEF ParseError, Diagnostic, Ids, Severities, Failing
    <3>2. report' \in Seq(Diagnostic) /\ ToSet(report') = ToSet(report) \cup {ParseError(p)}
      BY <1>5, <2>2, <3>1, ToSetAppend
    <3>3. Fails(report)'
      BY <3>1, <3>2 DEF Fails
    <3>. QED
      BY <1>0, <1>2, <1>5, <2>2, <3>2, <3>3 DEF ReportInv, Early
  <2>3. CASE Defers
    <3>1. projects' \in Seq([root : Configs, inputs : Seq(Inputs)])
      BY <1>3, <1>11, <2>3, JoinOf
    <3>. QED
      BY <1>0, <1>2, <1>5, <2>3, <3>1 DEF ReportInv, Early, Fails
  <2>4. CASE Analyses
    <3>1. report \o ds \in Seq(Diagnostic) /\ (Fails(report \o ds) <=> Fails(report) \/ Fails(ds))
      BY <1>4, <1>5, FailsOf
    <3>2. Fails(report)' <=> Fails(report \o ds)
      BY <2>4 DEF Fails
    <3>3. report' \in Seq(Diagnostic) /\ (exitNonZero' <=> errors' # {} \/ Fails(report)')
      BY <1>5, <2>4, <3>1, <3>2
    <3>. QED
      BY <1>0, <1>2, <1>5, <2>4, <3>3 DEF ReportInv, Early
  <2>. QED
    BY <1>1, <2>1, <2>2, <2>3, <2>4
<1>. DEFINE Set(m, es) == {<<k, IF Configured(k) THEN "project" ELSE "default">> :
                            k \in {k \in 1..m : k \notin es /\ Fs[Names[k]].parses}}
<1>13. /\ errors' \subseteq 1..i /\ inspected' \in Nat
       /\ inspected' + Cardinality(errors') = i
       /\ analysed' = Set(i, errors')
       /\ Len(projects') <= i
  <2>1. CASE Reports
    <3>1. Cardinality(errors') = Cardinality(errors) + 1
      BY <1>9, <2>1, FS_AddElement
    <3>2. {k \in 1..i : k \notin errors' /\ Fs[Names[k]].parses}
            = {k \in 1..(i - 1) : k \notin errors /\ Fs[Names[k]].parses}
      BY <1>10, <2>1
    <3>3. errors' \subseteq 1..i
      BY <1>8, <1>10, <2>1
    <3>. QED
      BY <1>3, <1>8, <1>9, <2>1, <3>1, <3>2, <3>3
  <2>2. CASE Rejects
    <3>1. {k \in 1..i : k \notin errors' /\ Fs[Names[k]].parses}
            = {k \in 1..(i - 1) : k \notin errors /\ Fs[Names[k]].parses}
      BY <1>10, <2>2
    <3>2. errors' \subseteq 1..i
      BY <1>8, <1>10, <2>2
    <3>. QED
      BY <1>3, <1>8, <1>9, <2>2, <3>1, <3>2
  <2>3. CASE Defers \/ Analyses
    <3>1. {k \in 1..i : k \notin errors' /\ Fs[Names[k]].parses}
            = {k \in 1..(i - 1) : k \notin errors /\ Fs[Names[k]].parses} \cup {i}
      BY <1>9, <1>10, <2>3
    <3>2. Set(i, errors') = Set(i - 1, errors) \cup {<<i, kind>>}
      BY <3>1
    <3>3. analysed' = Set(i, errors')
      BY <1>8, <2>3, <3>2
    <3>4. errors' = errors /\ errors' \subseteq 1..i /\ inspected' = inspected + 1
      BY <1>8, <1>10, <2>3
    <3>5. Len(projects') <= i /\ Len(projects') \in Nat
      <4>1. CASE Defers
        <5>1. Len(projects') <= Len(projects) + 1
              /\ projects' \in Seq([root : Configs, inputs : Seq(Inputs)])
          BY <1>3, <1>11, <4>1, JoinOf
        <5>2. Len(projects') \in Nat
          BY <5>1, LenProperties
        <5>. QED
          BY <1>3, <1>8, <5>1, <5>2
      <4>2. CASE Analyses
        BY <1>3, <1>8, <4>2
      <4>. QED
        BY <2>3, <4>1, <4>2
    <3>. QED
      BY <1>3, <1>8, <1>9, <3>3, <3>4, <3>5
  <2>. QED
    BY <1>1, <2>1, <2>2, <2>3
<1>14. CountInv'
  <2>1. n + 1 = i /\ n + 1 \in 0..Len(Names)
    BY <1>3, <1>7
  <2>2. Counted(n + 1)'
    BY <1>0, <1>2, <1>13, <2>1 DEF Counted, Configured
  <2>3. Reached(n + 1)'
    BY <1>0, <1>3, <2>1 DEF Reached, Early, Done
  <2>. QED
    BY <1>2, <2>1, <2>2, <2>3 DEF CountInv
<1>15. ControlInv' /\ KeyInv'
  BY <1>0, <1>2, <1>3 DEF Inv, ControlInv, KeyInv
<1>16. StatusInv'
  <2>1. exitNonZero' \in BOOLEAN
    BY <1>1, <1>5
  <2>. QED
    BY <1>0, <2>1 DEF Inv, StatusInv, Done
<1>17. ContextsInv' /\ OneConfigVersion'
  BY <1>0, <1>2, ContextsStay
<1>18. CacheInv'
  BY <1>0, <1>2 DEF Inv, CacheInv
<1>. QED
  BY <1>2, <1>12, <1>14, <1>15, <1>16, <1>17, <1>18 DEF Inv

LEMMA InspectedStep ==
  ASSUME Inv, Inspected
  PROVE  Inv'
<1>0. /\ pc = "inspect" /\ pc' = "projects" /\ i = Len(Names) + 1 /\ i' = 1
      /\ UNCHANGED world /\ UNCHANGED <<contexts, key, cache, envelope, status>>
      /\ UNCHANGED results
  BY DEF Inspected, loop
<1>1. WorldInv' /\ UNCHANGED <<args, Names, Inputs>>
  BY <1>0, WorldStays
<1>2. Len(Names) \in Nat
  BY NamesOf DEF Inv
<1>3. ControlInv' /\ KeyInv'
  BY <1>0, <1>1, <1>2 DEF Inv, ControlInv, KeyInv
<1>4. StatusInv'
  <2>1. UNCHANGED exitNonZero
    BY <1>0 DEF results
  <2>. QED
    BY <1>0, <2>1 DEF Inv, StatusInv, Done
<1>5. ContextsInv' /\ OneConfigVersion'
  BY <1>0, <1>1, ContextsStay
<1>6. CacheInv'
  BY <1>0, <1>1 DEF Inv, CacheInv
<1>7. ReportInv' /\ \A n \in Nat : Counted(n) => Counted(n)'
  BY <1>0, <1>1, ResultsStay DEF Early
<1>8. CountInv'
  <2>1. PICK n \in 0..Len(Names) : Counted(n) /\ Reached(n)
    BY DEF Inv, CountInv
  <2>2. n = Len(Names)
    BY <1>0, <1>2, <2>1 DEF Reached
  <2>3. Counted(n)'
    BY <1>2, <1>7, <2>1
  <2>4. Reached(n)'
    BY <1>0, <1>1, <2>2 DEF Reached, Early, Done
  <2>. QED
    BY <1>1, <2>1, <2>3, <2>4 DEF CountInv
<1>. QED
  BY <1>1, <1>3, <1>4, <1>5, <1>6, <1>7, <1>8 DEF Inv

LEMMA ProjectStep ==
  ASSUME Inv, Project
  PROVE  Inv'
<1>. DEFINE ds == AnalyzeProject(projects[i].inputs)
            R == [root : Configs, inputs : Seq(Inputs)]
<1>0. /\ pc = "projects" /\ pc' = "projects" /\ i <= Len(projects) /\ i' = i + 1
      /\ report' = report \o ds /\ exitNonZero' = (exitNonZero \/ Fails(ds))
      /\ UNCHANGED world /\ UNCHANGED <<contexts, key, cache, envelope, status>>
      /\ UNCHANGED <<projects, analysed, errors, inspected>>
  BY DEF Project, loop
<1>1. WorldInv' /\ UNCHANGED <<args, Names, Inputs>>
  BY <1>0, WorldStays
<1>2. /\ report \in Seq(Diagnostic) /\ exitNonZero \in BOOLEAN /\ projects \in Seq(R)
      /\ exitNonZero <=> errors # {} \/ Fails(report)
  BY DEF Inv, ReportInv, StatusInv
<1>3. /\ Len(Names) \in Nat /\ i \in 1..(Len(Names) + 1)
      /\ Len(projects) \in Nat
  <2>1. i \in 1..(Len(Names) + 1)
    BY DEF Inv, ControlInv
  <2>. HIDE DEF R
  <2>2. Len(projects) \in Nat
    BY <1>2, LenProperties
  <2>. QED
    BY <2>1, <2>2, NamesOf DEF Inv
<1>4. projects[i].inputs \in Seq(Inputs)
  <2>1. i \in 1..Len(projects)
    BY <1>0, <1>3
  <2>2. projects[i] \in R
    <3>. HIDE DEF R
    <3>. QED
      BY <1>2, <2>1, ElementOfSeq
  <2>. QED
    BY <2>2
<1>5. ds \in Seq(Diagnostic)
  BY <1>4, AnalyzeProjectOf DEF Inv
<1>6. PICK n \in 0..Len(Names) : Counted(n) /\ Reached(n)
  BY DEF Inv, CountInv
<1>7. n = Len(Names) /\ Len(projects) <= n
  BY <1>0, <1>6 DEF Reached, Counted
<1>. HIDE DEF ds
<1>8. ReportInv'
  <2>1. report \o ds \in Seq(Diagnostic) /\ (Fails(report \o ds) <=> Fails(report) \/ Fails(ds))
    BY <1>2, <1>5, FailsOf
  <2>2. Fails(report)' <=> Fails(report \o ds)
    BY <1>0 DEF Fails
  <2>3. report' \in Seq(Diagnostic) /\ (exitNonZero' <=> errors' # {} \/ Fails(report)')
    BY <1>0, <1>2, <2>1, <2>2
  <2>4. projects' \in Seq([root : Configs, inputs : Seq(Inputs')])
    BY <1>0, <1>1, <1>2
  <2>. QED
    BY <1>0, <2>3, <2>4 DEF ReportInv, Early
<1>9. CountInv'
  <2>1. Counted(n)'
    BY <1>0, <1>1, <1>6 DEF Counted, Configured
  <2>2. Reached(n)'
    BY <1>0, <1>1, <1>7 DEF Reached, Early, Done
  <2>. QED
    BY <1>1, <2>1, <2>2 DEF CountInv
<1>10. ControlInv' /\ KeyInv'
  <2>1. i' \in 1..(Len(Names) + 1)
    BY <1>0, <1>3, <1>7
  <2>. QED
    BY <1>0, <1>1, <2>1 DEF Inv, ControlInv, KeyInv
<1>11. StatusInv'
  <2>1. exitNonZero' \in BOOLEAN
    BY <1>0, <1>2
  <2>. QED
    BY <1>0, <2>1 DEF Inv, StatusInv, Done
<1>12. ContextsInv' /\ OneConfigVersion'
  BY <1>0, <1>1, ContextsStay
<1>13. CacheInv'
  BY <1>0, <1>1 DEF Inv, CacheInv
<1>. QED
  BY <1>1, <1>8, <1>9, <1>10, <1>11, <1>12, <1>13 DEF Inv

LEMMA AnalysedStep ==
  ASSUME Inv, Analysed
  PROVE  Inv'
<1>0. /\ pc = "projects" /\ pc' = "write" /\ i' = i
      /\ report' = IF JsonOut THEN Sorted(report) ELSE report
      /\ UNCHANGED world /\ UNCHANGED <<contexts, key, cache, envelope, status>>
      /\ UNCHANGED <<projects, analysed, errors, inspected, exitNonZero>>
  BY DEF Analysed, loop
<1>1. WorldInv' /\ UNCHANGED <<args, Names, Inputs>>
  BY <1>0, WorldStays
<1>2. ReportInv'
  <2>1. /\ report \in Seq(Diagnostic) /\ (exitNonZero <=> errors # {} \/ Fails(report))
        /\ projects' \in Seq([root : Configs, inputs : Seq(Inputs')])
    BY <1>0, <1>1 DEF Inv, ReportInv
  <2>2. Sorted(report) \in Seq(Diagnostic) /\ ToSet(Sorted(report)) = ToSet(report)
    BY <2>1, SortedOf
  <2>3. report' \in Seq(Diagnostic) /\ ToSet(report') = ToSet(report)
    BY <1>0, <2>1, <2>2
  <2>4. Fails(report)' <=> Fails(report)
    BY <2>3 DEF Fails
  <2>. QED
    BY <1>0, <2>1, <2>3, <2>4 DEF ReportInv, Early
<1>3. CountInv'
  <2>1. PICK n \in 0..Len(Names) : Counted(n) /\ Reached(n)
    BY DEF Inv, CountInv
  <2>2. Counted(n)'
    BY <1>0, <1>1, <2>1 DEF Counted, Configured
  <2>3. Reached(n)'
    BY <1>0, <1>1, <2>1 DEF Reached, Early, Done
  <2>. QED
    BY <1>1, <2>1, <2>2, <2>3 DEF CountInv
<1>4. ControlInv' /\ KeyInv'
  BY <1>0, <1>1 DEF Inv, ControlInv, KeyInv
<1>5. StatusInv'
  BY <1>0 DEF Inv, StatusInv, Done
<1>6. ContextsInv' /\ OneConfigVersion'
  BY <1>0, <1>1, ContextsStay
<1>7. CacheInv'
  BY <1>0, <1>1 DEF Inv, CacheInv
<1>. QED
  BY <1>1, <1>2, <1>3, <1>4, <1>5, <1>6, <1>7 DEF Inv

LEMMA WriteStep ==
  ASSUME Inv, Write
  PROVE  Inv'
<1>0. /\ pc = "write" /\ pc' = "done" /\ i' = i
      /\ \/ status' = IF exitNonZero THEN 1 ELSE 0
         \/ status' = 2
      /\ envelope' \in {envelope, JsonOut}
      /\ UNCHANGED world /\ UNCHANGED <<contexts, key, cache>>
      /\ UNCHANGED results
  BY DEF Write, Exit, loop
<1>1. WorldInv' /\ UNCHANGED <<args, Names, Inputs>>
  BY <1>0, WorldStays
<1>2. ControlInv' /\ KeyInv'
  BY <1>0, <1>1 DEF Inv, ControlInv, KeyInv
<1>3. StatusInv'
  <2>1. UNCHANGED exitNonZero
    BY <1>0 DEF results
  <2>2. envelope' \in BOOLEAN
    BY <1>0 DEF Inv, StatusInv, JsonOut
  <2>3. exitNonZero \in BOOLEAN
    BY DEF Inv, StatusInv
  <2>. QED
    BY <1>0, <2>1, <2>2, <2>3 DEF StatusInv, Done, Running
<1>4. ContextsInv' /\ OneConfigVersion'
  BY <1>0, <1>1, ContextsStay
<1>5. CacheInv'
  BY <1>0, <1>1 DEF Inv, CacheInv
<1>6. ReportInv' /\ \A n \in Nat : Counted(n) => Counted(n)'
  BY <1>0, <1>1, ResultsStay DEF Early
<1>7. CountInv'
  <2>1. PICK n \in 0..Len(Names) : Counted(n) /\ Reached(n)
    BY DEF Inv, CountInv
  <2>2. n = Len(Names) /\ n \in Nat
    BY <1>0, <2>1 DEF Reached
  <2>3. Counted(n)'
    BY <1>6, <2>1, <2>2
  <2>4. Reached(n)'
    BY <1>0, <1>1, <2>2 DEF Reached, Early, Done
  <2>. QED
    BY <1>1, <2>1, <2>3, <2>4 DEF CountInv
<1>. QED
  BY <1>1, <1>2, <1>3, <1>4, <1>5, <1>6, <1>7 DEF Inv

\* A change to the file system touches nothing the run has read.
LEMMA EditStep ==
  ASSUME Inv, Edit
  PROVE  Inv'
<1>0. /\ pc' = pc /\ i' = i /\ args' = args /\ edits < MaxEdits /\ edits' = edits + 1
      /\ UNCHANGED <<contexts, key, cache, envelope, status>>
      /\ UNCHANGED results
  BY DEF Edit, loop
<1>1. UNCHANGED <<Names, Inputs>>
  BY <1>0 DEF Names, Inputs
<1>2. WorldInv'
  <2>1. Names \in Seq(Paths) /\ ToSet(Names) \subseteq Paths
    BY NamesOf, ToSetOf DEF Inv
  <2>2. present' \in SUBSET Paths
    BY <2>1 DEF Edit, Inv, WorldInv
  <2>3. DOMAIN disk' = Configs /\ \A c \in Configs : disk'[c] \in ToSet(Versions[c])
    BY DEF Edit, Inv, WorldInv
  <2>4. edits' \in 0..MaxEdits
    BY <1>0, ArgsAssumption DEF Inv, WorldInv
  <2>. QED
    BY <1>0, <2>2, <2>3, <2>4 DEF Inv, WorldInv
<1>3. ControlInv' /\ KeyInv'
  BY <1>0, <1>1 DEF Inv, ControlInv, KeyInv
<1>4. StatusInv'
  <2>1. UNCHANGED exitNonZero
    BY <1>0 DEF results
  <2>. QED
    BY <1>0, <2>1 DEF Inv, StatusInv, Done
<1>5. ContextsInv' /\ OneConfigVersion'
  BY <1>0, ContextsStay
<1>6. CacheInv'
  BY <1>0, CacheStays
<1>7. ReportInv' /\ \A n \in Nat : Counted(n) => Counted(n)'
  BY <1>0, ResultsStay
<1>8. CountInv'
  <2>1. PICK n \in 0..Len(Names) : Counted(n) /\ Reached(n)
    BY DEF Inv, CountInv
  <2>2. Len(Names) \in Nat
    BY NamesOf DEF Inv
  <2>3. Counted(n)'
    BY <1>7, <2>1, <2>2
  <2>4. Reached(n)'
    BY <1>0, <1>1, <2>1 DEF Reached, Done
  <2>. QED
    BY <1>1, <2>1, <2>3, <2>4 DEF CountInv
<1>. QED
  BY <1>2, <1>3, <1>4, <1>5, <1>6, <1>7, <1>8 DEF Inv

LEMMA StutterStep ==
  ASSUME Inv, UNCHANGED vars
  PROVE  Inv'
<1>0. /\ pc' = pc /\ i' = i /\ args' = args
      /\ UNCHANGED <<contexts, key, cache, envelope, status>>
      /\ UNCHANGED <<present, disk, edits, results>>
  BY DEF vars, results
<1>1. UNCHANGED <<Names, Inputs>>
  BY <1>0 DEF Names, Inputs
<1>2. WorldInv'
  BY <1>0 DEF Inv, WorldInv
<1>3. ControlInv' /\ KeyInv'
  BY <1>0, <1>1 DEF Inv, ControlInv, KeyInv
<1>4. StatusInv'
  <2>1. UNCHANGED exitNonZero
    BY <1>0 DEF results
  <2>. QED
    BY <1>0, <2>1 DEF Inv, StatusInv, Done
<1>5. ContextsInv' /\ OneConfigVersion'
  BY <1>0, ContextsStay
<1>6. CacheInv'
  BY <1>0, CacheStays
<1>7. ReportInv' /\ \A n \in Nat : Counted(n) => Counted(n)'
  BY <1>0, ResultsStay
<1>8. CountInv'
  <2>1. PICK n \in 0..Len(Names) : Counted(n) /\ Reached(n)
    BY DEF Inv, CountInv
  <2>2. Len(Names) \in Nat
    BY NamesOf DEF Inv
  <2>3. Counted(n)'
    BY <1>7, <2>1, <2>2
  <2>4. Reached(n)'
    BY <1>0, <1>1, <2>1 DEF Reached, Done
  <2>. QED
    BY <1>1, <2>1, <2>3, <2>4 DEF CountInv
<1>. QED
  BY <1>2, <1>3, <1>4, <1>5, <1>6, <1>7, <1>8 DEF Inv

\* The conjunction of what is reported, what is counted and which version of a
\* configuration explains it holds in every state of a run.
THEOREM Invariance == Spec => []Inv
<1>1. Init => Inv
  BY InitInv
<1>2. Inv /\ [Next]_vars => Inv'
  <2>. SUFFICES ASSUME Inv, [Next]_vars PROVE Inv'
    OBVIOUS
  <2>1. CASE UNCHANGED vars
    BY <2>1, StutterStep
  <2>2. CASE Next
    BY <2>2, FlagsStep, ExplicitStep, DiscoverStep, UseConfigStep, DiscoveredStep, InspectStep,
       InspectedStep, ProjectStep, AnalysedStep, WriteStep, EditStep, StutterStep DEF Next, Exited
  <2>. QED
    BY <2>1, <2>2
<1>. QED
  BY <1>1, <1>2, PTL DEF Spec
-----------------------------------------------------------------------------
\* Every variable keeps its type (main.go, run): the loop index stays within
\* the inputs, and through the loop over projects too, because there are never
\* more projects than inputs.
THEOREM TypeCorrect == Spec => []TypeOK
<1>1. Inv => TypeOK
  <2>. SUFFICES ASSUME Inv PROVE TypeOK
    OBVIOUS
  <2>1. /\ Names \in Seq(Paths) /\ args.config \in Configs \cup {"unset", "empty"}
        /\ Len(Names) \in Nat /\ Inputs = 1..Len(Names)
    BY NamesOf DEF Inv
  <2>2. PICK n \in 0..Len(Names) : Counted(n)
    BY DEF Inv, CountInv
  <2>3. errors \subseteq 1..n /\ inspected \in Nat /\ inspected + Cardinality(errors) = n
    BY <2>2 DEF Counted
  <2>4. Cardinality(errors) \in Nat
    <3>1. IsFiniteSet(1..n)
      BY <2>1, FS_Interval
    <3>2. IsFiniteSet(errors)
      BY <2>3, <3>1, FS_Subset
    <3>. QED
      BY <3>2, FS_CardinalityType
  <2>5. inspected \in 0..Len(Names) /\ errors \in SUBSET Inputs
    BY <2>1, <2>3, <2>4
  <2>6. analysed \in SUBSET (Inputs \X {"default", "project"})
    BY <2>1, <2>2 DEF Counted
  <2>7. \A k \in DOMAIN report : report[k].file \in Paths
    <3>1. report \in Seq(Diagnostic)
      BY DEF Inv, ReportInv
    <3>2. \A k \in DOMAIN report : report[k] \in Diagnostic
      BY <3>1, LenProperties, ElementOfSeq
    <3>. QED
      BY <3>2 DEF Diagnostic
  <2>8. \A k \in DOMAIN projects : projects[k].root \in Configs
    <3>. DEFINE R == [root : Configs, inputs : Seq(Inputs)]
    <3>1. projects \in Seq(R)
      BY DEF Inv, ReportInv
    <3>2. \A k \in DOMAIN projects : projects[k] \in R
      <4>. HIDE DEF R
      <4>. QED
        BY <3>1, LenProperties, ElementOfSeq
    <3>. QED
      BY <3>2
  <2>9. WorldInv /\ ControlInv /\ StatusInv /\ ContextsInv /\ CacheInv
    BY DEF Inv
  <2>. QED
    BY <2>1, <2>5, <2>6, <2>7, <2>8, <2>9
       DEF TypeOK, WorldInv, ControlInv, StatusInv, ContextsInv, ContextRecord, CacheInv, Done,
           Names
<1>. QED
  BY <1>1, Invariance, PTL

\* One run reads one version of a configuration (main.go, resolveSourceContexts):
\* however the configurations change while it runs, the cache makes every input a
\* configuration governs be explained by one version of it, by the longest
\* source root that contains it or by the failure to load.
THEOREM OneVersion == Spec => []OneConfigVersion
<1>1. Inv => OneConfigVersion
  BY DEF Inv
<1>. QED
  BY <1>1, Invariance, PTL

\* The exit status and the report agree, and every input is accounted for
\* once (main.go, run), whatever comes or goes while the command runs.
THEOREM StatusIsTheReport == Spec => []StatusMatchesReport
<1>1. Inv => StatusMatchesReport
  <2>. SUFFICES ASSUME Inv, Done, status # 2 PROVE /\ status = 1 <=> (errors # {} \/ Fails(report))
                                                   /\ args.help \/ AllAccounted
    BY DEF StatusMatchesReport
  <2>1. status = 1 <=> (errors # {} \/ Fails(report))
    <3>1. /\ status = IF exitNonZero THEN 1 ELSE 0
          /\ exitNonZero \in BOOLEAN /\ (exitNonZero <=> errors # {} \/ Fails(report))
      BY DEF Inv, StatusInv, ReportInv
    <3>. QED
      BY <3>1
  <2>2. ASSUME ~args.help PROVE AllAccounted
    <3>1. Len(Names) \in Nat /\ Inputs = 1..Len(Names)
      BY NamesOf DEF Inv
    <3>2. PICK n \in 0..Len(Names) : Counted(n) /\ Reached(n)
      BY DEF Inv, CountInv
    <3>3. n = Len(Names)
      BY <2>2, <3>2 DEF Reached
    <3>4. /\ errors \subseteq 1..n /\ inspected \in Nat /\ inspected + Cardinality(errors) = n
          /\ analysed = {<<k, IF Configured(k) THEN "project" ELSE "default">> :
                           k \in {k \in 1..n : k \notin errors /\ Fs[Names[k]].parses}}
      BY <3>2 DEF Counted
    <3>5. Cardinality(errors) \in Nat
      <4>1. IsFiniteSet(1..n)
        BY <3>1, FS_Interval
      <4>2. IsFiniteSet(errors)
        BY <3>4, <4>1, FS_Subset
      <4>. QED
        BY <4>2, FS_CardinalityType
    <3>6. inspected = Len(Names) - Cardinality(errors)
      BY <3>1, <3>3, <3>4, <3>5
    <3>7. ASSUME NEW k \in Inputs
          PROVE  Cardinality(analysed \cap ({k} \X {"default", "project"})) =
                   IF k \in errors \/ ~Fs[Names[k]].parses THEN 0 ELSE 1
      <4>. DEFINE mine == analysed \cap ({k} \X {"default", "project"})
                  entry == <<k, IF Configured(k) THEN "project" ELSE "default">>
      <4>1. CASE k \in errors \/ ~Fs[Names[k]].parses
        <5>1. mine = {}
          BY <3>4, <4>1
        <5>. HIDE DEF mine
        <5>. QED
          BY <4>1, <5>1, FS_EmptySet DEF mine
      <4>2. CASE ~(k \in errors \/ ~Fs[Names[k]].parses)
        <5>1. mine = {entry}
          BY <3>1, <3>3, <3>4, <4>2
        <5>. HIDE DEF mine, entry
        <5>. QED
          BY <4>2, <5>1, FS_Singleton DEF mine
      <4>. QED
        BY <4>1, <4>2
    <3>. QED
      BY <3>6, <3>7 DEF AllAccounted
  <2>. QED
    BY <2>1, <2>2
<1>. QED
  BY <1>1, Invariance, PTL
-----------------------------------------------------------------------------
(***************************************************************************)
(* What suppression leaves of the findings.                                *)
(***************************************************************************)
\* Findings of the file p, none of which is a meta diagnostic of a directive.
Plain(p, F) == /\ F \subseteq Diagnostic
               /\ \A x \in F : x.file = p /\ x.slot = <<0, 0>> /\ x.id # "parse/error"

\* What the directives of p leave of its findings, and what they add.
Left(p, F) == {x \in F : ~Dropped(Fs[p], x)}
                \cup (Malformed(p, Fs[p]) \cup Unused(p, Fs[p], F))

\* A meta diagnostic names the file and a directive.
LEMMA MetasAre ==
  ASSUME NEW p \in Paths, NEW F, NEW x \in Malformed(p, Fs[p]) \cup Unused(p, Fs[p], F)
  PROVE  x.file = p /\ x.slot # <<0, 0>> /\ x.id # "parse/error"
<1>1. \A d \in DOMAIN Fs[p].ds : d # 0
  BY DirectivesOf
<1>2. CASE x \in Malformed(p, Fs[p])
  <2>1. PICK d \in DOMAIN Fs[p].ds : x = Meta(p, Fs[p], "meta/malformed-suppression", "warning", <<d, 0>>)
    BY <1>2 DEF Malformed
  <2>2. x.file = p /\ x.slot = <<d, 0>> /\ x.id = "meta/malformed-suppression"
    BY <2>1 DEF Meta
  <2>. QED
    BY <1>1, <2>2
<1>3. CASE x \in Unused(p, Fs[p], F)
  <2>1. PICK s \in Slots(Fs[p]) : x = Meta(p, Fs[p], "meta/unused-suppression", "info", s)
    BY <1>3 DEF Unused
  <2>2. x.file = p /\ x.slot = s /\ x.id = "meta/unused-suppression"
    BY <2>1 DEF Meta
  <2>3. PICK d \in DOMAIN Fs[p].ds, r \in Nat : s = <<d, r>>
    BY SlotsOf
  <2>. QED
    BY <1>1, <2>2, <2>3
<1>. QED
  BY <1>2, <1>3

\* What a file's findings are: its own, and no other's.
LEMMA LeftOf ==
  ASSUME NEW p \in Paths, NEW F, Plain(p, F)
  PROVE  \A x \in Left(p, F) : x.file = p /\ x.id # "parse/error"
BY MetasAre DEF Left, Plain

\* What the rules find in an input, and what the project rule adds.
LEMMA FoundAre ==
  ASSUME WorldInv, ContextsInv, NEW k \in Inputs, NEW inputs
  PROVE  /\ Plain(Names[k], Local(k)) /\ IsFiniteSet(Local(k))
         /\ Plain(Names[k], ProjectFindings(k, inputs))
         /\ IsFiniteSet(ProjectFindings(k, inputs))
         /\ Local(k) \cap ProjectFindings(k, inputs) = {}
<1>1. Names[k] \in Paths /\ contexts[k].profile \in Profiles \cup {"none"}
  BY NamesOf DEF ContextsInv, ContextRecord
<1>. DEFINE s == IF Configured(k) THEN contexts[k].profile ELSE "default"
            found == Fs[Names[k]].found[s]
            registered == Fs[Names[k]].registrations
<1>2. s \in Contents
  BY <1>1 DEF Configured, Contents
<1>. HIDE DEF s
<1>3. /\ IsFiniteSet(found) /\ found \subseteq Reported
      /\ IsFiniteSet(registered) /\ registered \subseteq Reported
      /\ found \cap registered = {}
      /\ \A x \in found \cup registered : x.id # "parse/error"
  BY <1>1, <1>2, FilesAssumption, RuleIdsAssumption
<1>4. /\ Local(k) = {Finding(Names[k], x) : x \in found}
      /\ Registrations(k) \in {{}, {Finding(Names[k], x) : x \in registered}}
      /\ ProjectFindings(k, inputs) \in {{}, Registrations(k)}
  BY DEF Local, s, Registrations, ProjectFindings
<1>. HIDE DEF found, registered
<1>5. \A x \in found \cup registered :
        /\ Finding(Names[k], x).file = Names[k] /\ Finding(Names[k], x).slot = <<0, 0>>
        /\ Finding(Names[k], x).id = x.id
  BY DEF Finding
<1>6. ASSUME NEW x \in found, NEW y \in registered, Finding(Names[k], x) = Finding(Names[k], y)
      PROVE  FALSE
  <2>1. x \in Reported /\ y \in Reported /\ x # y
    BY <1>3
  <2>2. x.line = y.line /\ x.id = y.id /\ x.sev = y.sev
    BY <1>6 DEF Finding
  <2>3. x = y
    BY <2>1, <2>2 DEF Reported
  <2>. QED
    BY <2>1, <2>3
<1>7. /\ IsFiniteSet(Local(k)) /\ Local(k) \subseteq Diagnostic
      /\ IsFiniteSet({Finding(Names[k], x) : x \in registered})
      /\ {Finding(Names[k], x) : x \in registered} \subseteq Diagnostic
  BY <1>1, <1>3, <1>4, FindingsOf
<1>8. Plain(Names[k], Local(k))
  BY <1>3, <1>4, <1>5, <1>7 DEF Plain
<1>9. /\ Plain(Names[k], {Finding(Names[k], x) : x \in registered})
      /\ Local(k) \cap {Finding(Names[k], x) : x \in registered} = {}
  BY <1>3, <1>4, <1>5, <1>6, <1>7 DEF Plain
<1>10. ProjectFindings(k, inputs) \in {{}, {Finding(Names[k], x) : x \in registered}}
  BY <1>4
<1>11. Plain(Names[k], {}) /\ IsFiniteSet({})
  BY FS_EmptySet DEF Plain
<1>. QED
  BY <1>7, <1>8, <1>9, <1>10, <1>11

\* Suppression keeps what is not dropped and adds the meta diagnostics, each
\* once.
LEMMA ApplyIs ==
  ASSUME NEW p \in Paths, NEW ds \in Seq(Diagnostic), Plain(p, ToSet(ds))
  PROVE  /\ ToSet(Apply(p, Fs[p], ds)) = Left(p, ToSet(ds))
         /\ IsInjective(ds) => IsInjective(Apply(p, Fs[p], ds))
<1>. DEFINE at == {n \in DOMAIN ds : ~Dropped(Fs[p], ds[n])}
            kept == Picked(ds, at)
            metas == Malformed(p, Fs[p]) \cup Unused(p, Fs[p], ToSet(ds))
            added == SetToSeq(metas)
<1>1. /\ kept \in Seq(Diagnostic) /\ ToSet(kept) = {ds[n] : n \in (1..Len(ds)) \cap at}
      /\ IsInjective(ds) => IsInjective(kept)
  BY PickedOf
<1>2. DOMAIN ds = 1..Len(ds) /\ ToSet(ds) = {ds[n] : n \in 1..Len(ds)}
  BY ToSetOf, LenProperties
<1>3. ToSet(kept) = {x \in ToSet(ds) : ~Dropped(Fs[p], x)}
  BY <1>1, <1>2
<1>4. IsFiniteSet(metas) /\ metas \subseteq Diagnostic
  BY MetasOf
<1>5. \A x \in metas : x.slot # <<0, 0>>
  BY MetasAre
<1>. HIDE DEF metas, kept
<1>6. added \in Seq(Diagnostic) /\ ToSet(added) = metas /\ IsInjective(added)
  BY <1>4, SetToSeqOf, SeqMonotonic
<1>7. Apply(p, Fs[p], ds) = kept \o added
  BY DEF Apply, kept, metas
<1>. HIDE DEF added
<1>8. ToSet(kept) \cap ToSet(added) = {}
  BY <1>3, <1>5, <1>6 DEF Plain
<1>9. ToSet(kept \o added) = ToSet(kept) \cup ToSet(added)
  BY <1>1, <1>6, ToSetConcat
<1>10. IsInjective(ds) => IsInjective(kept \o added)
  BY <1>1, <1>6, <1>8, DistinctConcat
<1>11. Left(p, ToSet(ds)) = ToSet(kept) \cup metas
  BY <1>3 DEF Left, metas
<1>. QED
  BY <1>6, <1>7, <1>9, <1>10, <1>11

\* The diagnostics of a file, and those of the others.
LEMMA AtOf ==
  ASSUME NEW p, NEW ds \in Seq(Diagnostic)
  PROVE  /\ Picked(ds, At(p, ds)) \in Seq(Diagnostic)
         /\ Picked(ds, DOMAIN ds \ At(p, ds)) \in Seq(Diagnostic)
         /\ ToSet(Picked(ds, At(p, ds))) = {x \in ToSet(ds) : x.file = p}
         /\ ToSet(Picked(ds, DOMAIN ds \ At(p, ds))) = {x \in ToSet(ds) : x.file # p}
         /\ IsInjective(ds) => /\ IsInjective(Picked(ds, At(p, ds)))
                               /\ IsInjective(Picked(ds, DOMAIN ds \ At(p, ds)))
<1>1. DOMAIN ds = 1..Len(ds) /\ ToSet(ds) = {ds[n] : n \in 1..Len(ds)}
  BY ToSetOf, LenProperties
<1>. DEFINE at == At(p, ds)
            rest == DOMAIN ds \ at
<1>2. \A n \in 1..Len(ds) : (n \in at <=> ds[n].file = p) /\ (n \in rest <=> ds[n].file # p)
  BY <1>1 DEF At
<1>. HIDE DEF at, rest
<1>3. /\ Picked(ds, at) \in Seq(Diagnostic) /\ Picked(ds, rest) \in Seq(Diagnostic)
      /\ ToSet(Picked(ds, at)) = {ds[n] : n \in (1..Len(ds)) \cap at}
      /\ ToSet(Picked(ds, rest)) = {ds[n] : n \in (1..Len(ds)) \cap rest}
      /\ IsInjective(ds) => IsInjective(Picked(ds, at)) /\ IsInjective(Picked(ds, rest))
  BY PickedOf
<1>4. /\ {ds[n] : n \in (1..Len(ds)) \cap at} = {x \in ToSet(ds) : x.file = p}
      /\ {ds[n] : n \in (1..Len(ds)) \cap rest} = {x \in ToSet(ds) : x.file # p}
  BY <1>1, <1>2
<1>. QED
  BY <1>3, <1>4 DEF at, rest

\* One step of a project's analysis: the findings of the other files stay, and
\* those of p are what suppression leaves of them.
Of(p, ds) == {x \in ToSet(ds) : x.file = p}
PassOver(p, last, across) ==
  Picked(last, DOMAIN last \ At(p, last))
    \o Apply(p, Fs[p], Picked(last, At(p, last)) \o Picked(across, At(p, across)))

LEMMA PassIs ==
  ASSUME NEW p \in Paths, NEW last \in Seq(Diagnostic), NEW across \in Seq(Diagnostic),
         IsInjective(last), IsInjective(across),
         Plain(p, Of(p, last)), Plain(p, Of(p, across)), Of(p, last) \cap Of(p, across) = {}
  PROVE  /\ ToSet(PassOver(p, last, across)) =
              {x \in ToSet(last) : x.file # p} \cup Left(p, Of(p, last) \cup Of(p, across))
         /\ IsInjective(PassOver(p, last, across))
<1>. DEFINE mine == Of(p, last)
            wide == Of(p, across)
            new == PassOver(p, last, across)
            others == Picked(last, DOMAIN last \ At(p, last))
            own == Picked(last, At(p, last))
            added == Picked(across, At(p, across))
            both == own \o added
            rest == Apply(p, Fs[p], both)
<1>1. /\ others \in Seq(Diagnostic) /\ own \in Seq(Diagnostic) /\ added \in Seq(Diagnostic)
      /\ ToSet(others) = {x \in ToSet(last) : x.file # p}
      /\ ToSet(own) = mine /\ ToSet(added) = wide
      /\ IsInjective(others) /\ IsInjective(own) /\ IsInjective(added)
  BY AtOf DEF Of
<1>2. new = others \o rest
  BY DEF PassOver
<1>. HIDE DEF others, own, added, mine, wide, new
<1>3. both \in Seq(Diagnostic) /\ ToSet(both) = mine \cup wide /\ IsInjective(both)
  <2>1. ToSet(own) \cap ToSet(added) = {}
    BY <1>1 DEF mine, wide
  <2>. QED
    BY <1>1, <2>1, ToSetConcat, DistinctConcat
<1>4. Plain(p, mine \cup wide)
  BY DEF Plain, mine, wide
<1>. HIDE DEF both
<1>5. rest \in Seq(Diagnostic) /\ ToSet(rest) = Left(p, mine \cup wide) /\ IsInjective(rest)
  BY <1>3, <1>4, ApplyOf, ApplyIs
<1>6. \A x \in ToSet(rest) : x.file = p
  BY <1>4, <1>5, LeftOf
<1>. HIDE DEF rest
<1>7. ToSet(others) \cap ToSet(rest) = {}
  BY <1>1, <1>6
<1>8. ToSet(others \o rest) = ToSet(others) \cup ToSet(rest)
  <2>1. others \in Seq(Diagnostic) /\ rest \in Seq(Diagnostic)
    BY <1>1, <1>5
  <2>. QED
    BY <2>1, ToSetConcat
<1>9. IsInjective(others \o rest)
  <2>1. /\ others \in Seq(Diagnostic) /\ rest \in Seq(Diagnostic)
        /\ IsInjective(others) /\ IsInjective(rest)
    BY <1>1, <1>5
  <2>. QED
    BY <1>7, <2>1, DistinctConcat
<1>. QED
  BY <1>1, <1>2, <1>5, <1>8, <1>9 DEF mine, wide, new

\* The findings of the inputs of a project, before anything is suppressed.
LEMMA PartsOf ==
  ASSUME WorldInv, ContextsInv, NEW inputs \in Seq(Inputs),
         \A m, n \in 1..Len(inputs) : Names[inputs[m]] = Names[inputs[n]] => m = n
  PROVE  /\ LocalsOf(inputs) \in Seq(Diagnostic) /\ IsInjective(LocalsOf(inputs))
         /\ ToSet(LocalsOf(inputs)) = UNION {Local(inputs[n]) : n \in 1..Len(inputs)}
         /\ AcrossOf(inputs) \in Seq(Diagnostic) /\ IsInjective(AcrossOf(inputs))
         /\ ToSet(AcrossOf(inputs)) =
              UNION {ProjectFindings(inputs[n], inputs) : n \in 1..Len(inputs)}
<1>. DEFINE m == Len(inputs)
            mine == [n \in DOMAIN inputs |-> SetToSeq(Local(inputs[n]))]
            wide == [n \in DOMAIN inputs |-> SetToSeq(ProjectFindings(inputs[n], inputs))]
<1>1. m \in Nat /\ DOMAIN inputs = 1..m /\ \A n \in 1..m : inputs[n] \in Inputs
  BY LenProperties, ElementOfSeq
<1>2. ASSUME NEW n \in 1..m
      PROVE  /\ mine[n] \in Seq(Diagnostic) /\ wide[n] \in Seq(Diagnostic)
             /\ ToSet(mine[n]) = Local(inputs[n])
             /\ ToSet(wide[n]) = ProjectFindings(inputs[n], inputs)
             /\ IsInjective(mine[n]) /\ IsInjective(wide[n])
             /\ \A x \in Local(inputs[n]) \cup ProjectFindings(inputs[n], inputs) :
                  x.file = Names[inputs[n]]
  <2>1. inputs[n] \in Inputs
    BY <1>1
  <2>2. PICK k \in Inputs : k = inputs[n]
    BY <2>1
  <2>. DEFINE F == Local(k)
              G == ProjectFindings(k, inputs)
  <2>3. IsFiniteSet(F) /\ IsFiniteSet(G) /\ Plain(Names[k], F) /\ Plain(Names[k], G)
        /\ SetToSeq(F) \in Seq(Diagnostic) /\ SetToSeq(G) \in Seq(Diagnostic)
    BY FoundAre, LocalOf
  <2>4. mine[n] = SetToSeq(F) /\ wide[n] = SetToSeq(G)
    BY <1>1, <2>2
  <2>. HIDE DEF F, G, mine, wide
  <2>5. /\ ToSet(SetToSeq(F)) = F /\ IsInjective(SetToSeq(F))
        /\ ToSet(SetToSeq(G)) = G /\ IsInjective(SetToSeq(G))
    BY <2>3, SetToSeqOf
  <2>6. \A x \in F \cup G : x.file = Names[k]
    BY <2>3 DEF Plain
  <2>. QED
    BY <2>2, <2>3, <2>4, <2>5, <2>6 DEF F, G
<1>3. mine \in Seq(Seq(Diagnostic)) /\ wide \in Seq(Seq(Diagnostic)) /\ Len(mine) = m /\ Len(wide) = m
  BY <1>1, <1>2
<1>4. LocalsOf(inputs) = FlattenSeq(mine) /\ AcrossOf(inputs) = FlattenSeq(wide)
  BY DEF LocalsOf, AcrossOf
<1>. HIDE DEF mine, wide, m
<1>5. \A j, k \in 1..m : j # k =>
        ToSet(mine[j]) \cap ToSet(mine[k]) = {} /\ ToSet(wide[j]) \cap ToSet(wide[k]) = {}
  <2>1. TAKE j, k \in 1..m
  <2>2. HAVE j # k
  <2>3. Names[inputs[j]] # Names[inputs[k]]
    BY <2>2 DEF m
  <2>4. \A x \in ToSet(mine[j]) \cup ToSet(wide[j]) : x.file = Names[inputs[j]]
    BY <1>2
  <2>5. \A x \in ToSet(mine[k]) \cup ToSet(wide[k]) : x.file = Names[inputs[k]]
    BY <1>2
  <2>. QED
    BY <2>3, <2>4, <2>5
<1>6. /\ FlattenSeq(mine) \in Seq(Diagnostic) /\ IsInjective(FlattenSeq(mine))
      /\ ToSet(FlattenSeq(mine)) = UNION {ToSet(mine[n]) : n \in 1..m}
      /\ FlattenSeq(wide) \in Seq(Diagnostic) /\ IsInjective(FlattenSeq(wide))
      /\ ToSet(FlattenSeq(wide)) = UNION {ToSet(wide[n]) : n \in 1..m}
  <2>1. /\ FlattenSeq(mine) \in Seq(Diagnostic)
        /\ ToSet(FlattenSeq(mine)) = UNION {ToSet(mine[n]) : n \in 1..m}
    BY <1>3, FlattenSeqOf
  <2>2. /\ FlattenSeq(wide) \in Seq(Diagnostic)
        /\ ToSet(FlattenSeq(wide)) = UNION {ToSet(wide[n]) : n \in 1..m}
    BY <1>3, FlattenSeqOf
  <2>3. \A n \in 1..m : IsInjective(mine[n]) /\ IsInjective(wide[n])
    BY <1>2
  <2>4. IsInjective(FlattenSeq(mine))
    BY <1>3, <1>5, <2>3, DistinctFlatten
  <2>5. IsInjective(FlattenSeq(wide))
    BY <1>3, <1>5, <2>3, DistinctFlatten
  <2>. QED
    BY <2>1, <2>2, <2>4, <2>5
<1>7. /\ UNION {ToSet(mine[n]) : n \in 1..m} = UNION {Local(inputs[n]) : n \in 1..m}
      /\ UNION {ToSet(wide[n]) : n \in 1..m}
           = UNION {ProjectFindings(inputs[n], inputs) : n \in 1..m}
  BY <1>2
<1>. QED
  BY <1>4, <1>6, <1>7 DEF m

\* A project's report: of each input what suppression leaves of its findings
\* and the project's, each once.
LEMMA AnalyzeProjectIs ==
  ASSUME WorldInv, ContextsInv, NEW inputs \in Seq(Inputs),
         \A m, n \in 1..Len(inputs) : Names[inputs[m]] = Names[inputs[n]] => m = n
  PROVE  /\ ToSet(AnalyzeProject(inputs)) =
              UNION {Left(Names[k], Local(k) \cup ProjectFindings(k, inputs)) : k \in ToSet(inputs)}
         /\ IsInjective(AnalyzeProject(inputs))
<1>. DEFINE m == Len(inputs)
            p(n) == Names[inputs[n]]
            mine(n) == Local(inputs[n])
            wide(n) == ProjectFindings(inputs[n], inputs)
            left(n) == Left(p(n), mine(n) \cup wide(n))
            part(n, done) == IF n <= done THEN left(n) ELSE mine(n)
            across == AcrossOf(inputs)
<1>1. m \in Nat /\ DOMAIN inputs = 1..m /\ \A n \in 1..m : inputs[n] \in Inputs
  BY LenProperties, ElementOfSeq
<1>2. PICK f \in [0..m -> Seq(Diagnostic)] :
        /\ f[0] = LocalsOf(inputs)
        /\ \A n \in 1..m : f[n] = Suppressed(inputs, n, f[n - 1])
        /\ AnalyzeProject(inputs) = Sorted(f[m])
  BY ProjectPasses
<1>3. ASSUME NEW n \in 1..m
      PROVE  /\ p(n) \in Paths /\ Plain(p(n), mine(n)) /\ Plain(p(n), wide(n))
             /\ mine(n) \cap wide(n) = {}
             /\ \A x \in left(n) \cup mine(n) \cup wide(n) : x.file = p(n)
  <2>1. PICK k \in Inputs : k = inputs[n]
    BY <1>1
  <2>2. Names[k] \in Paths
    BY NamesOf
  <2>3. /\ Plain(Names[k], Local(k)) /\ Plain(Names[k], ProjectFindings(k, inputs))
        /\ Local(k) \cap ProjectFindings(k, inputs) = {}
    BY FoundAre
  <2>. DEFINE all == Local(k) \cup ProjectFindings(k, inputs)
  <2>4. Plain(Names[k], all)
    BY <2>3 DEF Plain
  <2>. HIDE DEF all
  <2>5. \A x \in Left(Names[k], all) : x.file = Names[k]
    BY <2>2, <2>4, LeftOf
  <2>. QED
    BY <2>1, <2>2, <2>3, <2>5 DEF all, Plain
<1>4. /\ f[0] \in Seq(Diagnostic) /\ IsInjective(f[0]) /\ ToSet(f[0]) = UNION {mine(n) : n \in 1..m}
      /\ across \in Seq(Diagnostic) /\ IsInjective(across)
      /\ ToSet(across) = UNION {wide(n) : n \in 1..m}
  BY <1>1, <1>2, PartsOf
<1>5. \A j, k \in 1..m : p(j) = p(k) => j = k
  OBVIOUS
<1>6. ASSUME NEW n \in 1..m, NEW last, last = f[n - 1], IsInjective(last),
             ToSet(last) = UNION {part(j, n - 1) : j \in 1..m}
      PROVE  IsInjective(f[n]) /\ ToSet(f[n]) = UNION {part(j, n) : j \in 1..m}
  <2>1. last \in Seq(Diagnostic) /\ f[n] = Suppressed(inputs, n, last)
    BY <1>1, <1>2, <1>6
  <2>2. PICK name : name = p(n)
    OBVIOUS
  <2>3. PICK F, G : F = mine(n) /\ G = wide(n)
    OBVIOUS
  <2>4. PICK new : new = f[n]
    OBVIOUS
  <2>5. new = PassOver(name, last, across)
    BY <2>1, <2>2, <2>4 DEF Suppressed, PassOver
  <2>. HIDE DEF p, mine, wide, left, across
  <2>6. \A j \in 1..m : \A x \in part(j, n - 1) : x.file = p(j)
    BY <1>3
  <2>7. ~(n <= n - 1) /\ n <= n
    BY <1>1
  <2>8. part(n, n - 1) = F /\ part(n, n) = left(n)
    BY <2>3, <2>7
  <2>9. F = Of(name, last)
    BY <1>5, <1>6, <2>2, <2>6, <2>8 DEF Of
  <2>10. G = Of(name, across)
    BY <1>3, <1>4, <1>5, <2>2, <2>3 DEF Of
  <2>11. Plain(name, F) /\ Plain(name, G) /\ F \cap G = {} /\ name \in Paths
    BY <1>3, <2>2, <2>3
  <2>12. /\ ToSet(new) = {x \in ToSet(last) : x.file # name} \cup Left(name, F \cup G)
         /\ IsInjective(new)
    <3>1. /\ last \in Seq(Diagnostic) /\ across \in Seq(Diagnostic)
          /\ IsInjective(last) /\ IsInjective(across)
      BY <1>4, <1>6, <2>1
    <3>. QED
      BY <2>5, <2>9, <2>10, <2>11, <3>1, PassIs
  <2>13. Left(name, F \cup G) = left(n)
    BY <2>2, <2>3 DEF left
  <2>14. \A j \in 1..m : j # n => part(j, n) = part(j, n - 1)
    <3>1. \A j \in 1..m : j # n => (j <= n <=> j <= n - 1)
      BY <1>1
    <3>. QED
      BY <3>1
  <2>. HIDE DEF part
  <2>15. {x \in ToSet(last) : x.file # name} = UNION {part(j, n) : j \in (1..m) \ {n}}
    <3>1. \A j \in (1..m) \ {n} : part(j, n) = part(j, n - 1) /\ p(j) # name
      BY <1>5, <2>2, <2>14
    <3>2. \A x \in part(n, n - 1) : x.file = name
      BY <2>2, <2>6
    <3>3. ToSet(last) = (UNION {part(j, n - 1) : j \in (1..m) \ {n}}) \cup part(n, n - 1)
      BY <1>6
    <3>4. \A x \in UNION {part(j, n - 1) : j \in (1..m) \ {n}} : x.file # name
      BY <2>6, <3>1
    <3>5. UNION {part(j, n) : j \in (1..m) \ {n}} = UNION {part(j, n - 1) : j \in (1..m) \ {n}}
      BY <3>1
    <3>. QED
      BY <3>2, <3>3, <3>4, <3>5
  <2>16. UNION {part(j, n) : j \in 1..m} = (UNION {part(j, n) : j \in (1..m) \ {n}}) \cup part(n, n)
    OBVIOUS
  <2>. QED
    BY <2>4, <2>8, <2>12, <2>13, <2>15, <2>16
<1>. DEFINE Fine(n) == IsInjective(f[n]) /\ ToSet(f[n]) = UNION {part(j, n) : j \in 1..m}
            Good == {n \in 0..m : Fine(n)}
<1>7. Fine(m)
  <2>1. Fine(0)
    <3>1. \A j \in 1..m : ~(j <= 0)
      BY <1>1
    <3>2. \A j \in 1..m : part(j, 0) = mine(j)
      BY <3>1
    <3>. HIDE DEF part, mine
    <3>. QED
      BY <1>4, <3>2
  <2>2. ASSUME NEW n \in 1..m, Fine(n - 1) PROVE Fine(n)
    <3>. HIDE DEF part
    <3>. QED
      BY <1>6, <2>2
  <2>. HIDE DEF Fine
  <2>3. 0 \in Good /\ \A n \in 1..m : n - 1 \in Good => n \in Good
    BY <1>1, <2>1, <2>2
  <2>4. m \in Good
    <3>. HIDE DEF Good
    <3>. QED
      BY <1>1, <2>3, SetInductionUpTo
  <2>. QED
    BY <2>4
<1>8. PICK last \in Seq(Diagnostic) : last = f[m]
  BY <1>1, <1>2
<1>9. ToSet(Sorted(last)) = ToSet(last) /\ IsInjective(Sorted(last))
  BY <1>7, <1>8, SortedOf
<1>10. ToSet(last) = UNION {left(n) : n \in 1..m}
  <2>1. \A n \in 1..m : part(n, m) = left(n)
    BY <1>1
  <2>. HIDE DEF part, left
  <2>. QED
    BY <1>7, <1>8, <2>1
<1>11. UNION {left(n) : n \in 1..m}
         = UNION {Left(Names[k], Local(k) \cup ProjectFindings(k, inputs)) : k \in ToSet(inputs)}
  <2>1. ToSet(inputs) = {inputs[n] : n \in 1..m}
    BY ToSetOf
  <2>. QED
    BY <2>1
<1>. QED
  BY <1>2, <1>8, <1>9, <1>10, <1>11

-----------------------------------------------------------------------------
(***************************************************************************)
(* The report of a run.                                                    *)
(***************************************************************************)
\* No project of the command line has a file twice.
NoProjectTwice ==
  \A j, k \in Inputs :
    /\ Configured(j) /\ Configured(k)
    /\ contexts[j].config = contexts[k].config /\ Names[j] = Names[k]
    => j = k

Member(k) == <<k, "project">> \in analysed
Single(k) == <<k, "default">> \in analysed

\* Each project has the analysed inputs of its configuration, once each, and
\* every configured input that was analysed is in one.
ProjectsInv ==
  /\ pc \in Early => projects = <<>>
  /\ \A q \in 1..Len(projects) :
       /\ ToSet(projects[q].inputs) =
            {k \in Inputs : Member(k) /\ contexts[k].config = projects[q].root}
       /\ IsInjective(projects[q].inputs)
       /\ \A r \in 1..Len(projects) : projects[q].root = projects[r].root => q = r
  /\ \A k \in Inputs :
       Member(k) => \E q \in 1..Len(projects) : projects[q].root = contexts[k].config

\* How many projects were reported, and the inputs whose findings were.
Printed == CASE pc = "projects" -> i - 1
             [] pc \in {"write", "done"} -> Len(projects)
             [] OTHER -> 0
ProjectPrinted(k) == \E q \in 1..Len(projects) : q <= Printed /\ projects[q].root = contexts[k].config
Shown == {k \in Inputs : Single(k) \/ (Member(k) /\ ProjectPrinted(k))}

\* The inputs nothing was reported of yet.
Waiting == {k \in Inputs : (pc = "inspect" /\ i <= k) \/ (Member(k) /\ ~ProjectPrinted(k))}

\* The report has what suppression leaves of the inputs that were shown.
ContentInv ==
  NoProjectTwice =>
    {x \in ToSet(report) : x.id # "parse/error"} = UNION {Contracted(k) : k \in Shown}

\* It has it once, and nothing of an input that waits.
OnceInv ==
  IsInjective(Names) =>
    /\ IsInjective(report)
    /\ \A x \in ToSet(report) : \A k \in Waiting : x.file # Names[k]

ShowInv == ProjectsInv /\ ContentInv /\ OnceInv

LEMMA ProjectsOf ==
  ASSUME Inv
  PROVE  /\ Len(projects) \in Nat /\ DOMAIN projects = 1..Len(projects)
         /\ projects \in Seq([root : Configs, inputs : Seq(Inputs)])
         /\ \A q \in 1..Len(projects) :
              projects[q].root \in Configs /\ projects[q].inputs \in Seq(Inputs)
<1>. DEFINE R == [root : Configs, inputs : Seq(Inputs)]
<1>1. projects \in Seq(R)
  BY DEF Inv, ReportInv
<1>2. \A r \in R : r.root \in Configs /\ r.inputs \in Seq(Inputs)
  OBVIOUS
<1>. HIDE DEF R
<1>3. Len(projects) \in Nat /\ DOMAIN projects = 1..Len(projects)
      /\ \A q \in 1..Len(projects) : projects[q] \in R
  BY <1>1, LenProperties, ElementOfSeq
<1>. QED
  BY <1>1, <1>2, <1>3 DEF R

\* An input that was analysed, by one of the two analyzers.
LEMMA AnalysedOf ==
  ASSUME Inv, NEW k
  PROVE  /\ Member(k) => k \in Inputs /\ Configured(k) /\ ~Single(k)
         /\ Single(k) => k \in Inputs /\ ~Configured(k)
         /\ pc = "inspect" /\ (Member(k) \/ Single(k)) => k < i
         /\ pc \in Early => ~Member(k) /\ ~Single(k)
<1>1. PICK n \in 0..Len(Names) : Counted(n) /\ Reached(n)
  BY DEF Inv, CountInv
<1>2. Len(Names) \in Nat /\ Inputs = 1..Len(Names) /\ i \in Nat
  BY NamesOf DEF Inv, ControlInv
<1>3. \A j \in 1..n : j \in Inputs
  BY <1>2
<1>4. Member(k) => k \in 1..n /\ Configured(k)
  BY <1>1 DEF Member, Counted
<1>5. Single(k) => k \in 1..n /\ ~Configured(k)
  BY <1>1 DEF Single, Counted
<1>6. pc = "inspect" => n = i - 1
  BY <1>1 DEF Reached
<1>7. pc \in Early => n = 0
  BY <1>1 DEF Reached
<1>8. pc = "inspect" /\ k \in 1..n => k < i
  BY <1>2, <1>6
<1>9. pc \in Early => k \notin 1..n
  BY <1>7
<1>. QED
  BY <1>3, <1>4, <1>5, <1>8, <1>9

\* The contract for an input that was analysed alone, and for one of a project.
LEMMA ContractOf ==
  ASSUME Inv, NEW k \in Inputs
  PROVE  /\ Single(k) => Contracted(k) = Left(Names[k], Local(k))
         /\ Member(k) => \A inputs :
              ToSet(inputs) = {j \in Inputs : Member(j) /\ contexts[j].config = contexts[k].config} =>
                Contracted(k) = Left(Names[k], Local(k) \cup ProjectFindings(k, inputs))
         /\ ~Single(k) /\ ~Member(k) => Contracted(k) = {}
<1>1. /\ Contracted(k) = {x \in FoundIn(k) : ~Dropped(Fs[Names[k]], x)}
           \cup IF ~Single(k) /\ ~Member(k) THEN {}
                ELSE Malformed(Names[k], Fs[Names[k]]) \cup Unused(Names[k], Fs[Names[k]], FoundIn(k))
  BY DEF Contracted, Single, Member
<1>2. CASE Single(k)
  <2>1. FoundIn(k) = Local(k) /\ ~Member(k)
    BY <1>2, AnalysedOf DEF FoundIn, Single
  <2>. QED
    BY <1>1, <1>2, <2>1 DEF Left
<1>3. CASE Member(k)
  <2>1. ~Single(k)
    BY <1>3, AnalysedOf
  <2>2. ASSUME NEW inputs,
               ToSet(inputs) = {j \in Inputs : Member(j) /\ contexts[j].config = contexts[k].config}
        PROVE  Contracted(k) = Left(Names[k], Local(k) \cup ProjectFindings(k, inputs))
    <3>1. Mates(k) = ToSet(inputs)
      BY <2>2 DEF Mates, Member
    <3>2. FoundIn(k) = Local(k) \cup ProjectFindings(k, inputs)
      BY <1>3, <2>1, <3>1 DEF FoundIn, Single, Member, ProjectFindings
    <3>. QED
      BY <1>1, <1>3, <3>2 DEF Left
  <2>. QED
    BY <2>1, <2>2, <1>3
<1>4. CASE ~Single(k) /\ ~Member(k)
  <2>1. FoundIn(k) = {}
    BY <1>4 DEF FoundIn, Single, Member
  <2>. QED
    BY <1>1, <1>4, <2>1
<1>. QED
  BY <1>2, <1>3, <1>4

\* What an input is to report depends on how it and its mates were analysed.
LEMMA ContractStays ==
  ASSUME UNCHANGED <<args, contexts, analysed>>, NEW k
  PROVE  UNCHANGED <<Contracted(k), Member(k), Single(k), Configured(k), Names, Inputs>>
<1>1. UNCHANGED <<Names, Inputs>>
  BY DEF Names, Inputs
<1>2. UNCHANGED <<Configured(k), Local(k), Registrations(k)>>
  BY <1>1 DEF Configured, Local, Registrations
<1>3. \A j : UNCHANGED Unloads(j)
  BY <1>1 DEF Unloads
<1>4. UNCHANGED Mates(k)
  BY <1>1 DEF Mates
<1>5. UNCHANGED FoundIn(k)
  BY <1>2, <1>3, <1>4 DEF FoundIn
<1>6. UNCHANGED Contracted(k)
  BY <1>1, <1>5 DEF Contracted
<1>. QED
  BY <1>1, <1>2, <1>6 DEF Member, Single

\* Before the report, and when there is none.
LEMMA NothingShown ==
  ASSUME report' = <<>>, analysed' = {}, projects' = <<>>
  PROVE  ShowInv'
<1>1. \A k : ~Member(k)' /\ ~Single(k)'
  BY DEF Member, Single
<1>2. ProjectsInv'
  BY <1>1 DEF ProjectsInv
<1>3. Shown' = {}
  BY <1>1 DEF Shown
<1>4. ToSet(report)' = {}
  BY ToSetEmpty
<1>5. ContentInv'
  BY <1>3, <1>4 DEF ContentInv
<1>6. OnceInv'
  <2>1. IsInjective(<<>>)
    BY DEF IsInjective
  <2>. QED
    BY <1>4, <2>1 DEF OnceInv
<1>. QED
  BY <1>2, <1>5, <1>6 DEF ShowInv

\* A step that analyses nothing and keeps what is reported.
LEMMA ShowStays ==
  ASSUME Inv, ShowInv, UNCHANGED <<args, contexts, analysed, projects>>,
         ToSet(report)' = ToSet(report), IsInjective(report) => IsInjective(report)',
         pc' \in Early => pc \in Early,
         Shown' = Shown, Waiting' \subseteq Waiting
  PROVE  ShowInv'
<1>1. UNCHANGED <<Names, Inputs>> /\ \A k : UNCHANGED <<Contracted(k), Member(k), Configured(k)>>
  BY ContractStays
<1>2. ProjectsInv'
  BY <1>1 DEF ShowInv, ProjectsInv
<1>3. NoProjectTwice' <=> NoProjectTwice
  BY <1>1 DEF NoProjectTwice
<1>4. UNION {Contracted(k)' : k \in Shown'} = UNION {Contracted(k) : k \in Shown}
  BY <1>1
<1>5. ContentInv'
  BY <1>3, <1>4 DEF ShowInv, ContentInv
<1>6. OnceInv'
  BY <1>1 DEF ShowInv, OnceInv
<1>. QED
  BY <1>2, <1>5, <1>6 DEF ShowInv

LEMMA EarlyShow ==
  ASSUME Inv, ShowInv, pc \in Early, UNCHANGED results
  PROVE  ShowInv'
<1>1. report = <<>> /\ Counted(0)
  BY EarlyOf
<1>2. projects = <<>>
  BY DEF ShowInv, ProjectsInv
<1>3. analysed = {}
  <2>1. {k \in 1..0 : k \notin errors /\ Fs[Names[k]].parses} = {}
    OBVIOUS
  <2>. QED
    BY <1>1, <2>1 DEF Counted
<1>. QED
  BY <1>1, <1>2, <1>3, NothingShown DEF results

LEMMA InspectedShow ==
  ASSUME Inv, ShowInv, Inspected
  PROVE  ShowInv'
<1>1. /\ pc = "inspect" /\ pc' = "projects" /\ i' = 1
      /\ UNCHANGED <<args, contexts, analysed, projects, report>>
  BY DEF Inspected, world, loop, results
<1>2. Printed = 0 /\ Printed' = 0
  BY <1>1 DEF Printed
<1>3. UNCHANGED <<Names, Inputs>> /\ \A k : UNCHANGED <<Member(k), Single(k)>>
  BY <1>1, ContractStays
<1>4. \A k : UNCHANGED ProjectPrinted(k)
  BY <1>1, <1>2 DEF ProjectPrinted
<1>5. Shown' = Shown
  BY <1>3, <1>4 DEF Shown
<1>6. Waiting' \subseteq Waiting
  BY <1>1, <1>3, <1>4 DEF Waiting
<1>. QED
  BY <1>1, <1>5, <1>6, ShowStays DEF Early

LEMMA AnalysedShow ==
  ASSUME Inv, ShowInv, Analysed
  PROVE  ShowInv'
<1>1. /\ pc = "projects" /\ pc' = "write" /\ i > Len(projects)
      /\ report' = IF JsonOut THEN Sorted(report) ELSE report
      /\ UNCHANGED <<args, contexts, analysed, projects>>
  BY DEF Analysed, world, loop
<1>2. Printed = i - 1 /\ Printed' = Len(projects)
  BY <1>1 DEF Printed
<1>3. UNCHANGED <<Names, Inputs>> /\ \A k : UNCHANGED <<Member(k), Single(k)>>
  BY <1>1, ContractStays
<1>4. \A q \in 1..Len(projects) : q <= Printed /\ q <= Len(projects)
  BY <1>1, <1>2, ProjectsOf DEF Inv, ControlInv
<1>5. \A k : UNCHANGED ProjectPrinted(k)
  BY <1>1, <1>2, <1>4 DEF ProjectPrinted
<1>6. Shown' = Shown /\ Waiting' = Waiting
  BY <1>1, <1>3, <1>5 DEF Shown, Waiting
<1>7. /\ ToSet(Sorted(report)) = ToSet(report)
      /\ IsInjective(report) => IsInjective(Sorted(report))
  BY SortedOf DEF Inv, ReportInv
<1>8. ToSet(report)' = ToSet(report) /\ (IsInjective(report) => IsInjective(report)')
  BY <1>1, <1>7
<1>. QED
  BY <1>1, <1>6, <1>8, ShowStays DEF Early

\* The end of a run, and a step that is not the run's.
LEMMA RestShow ==
  ASSUME Inv, ShowInv, Write \/ Edit \/ UNCHANGED vars
  PROVE  ShowInv'
<1>1. /\ UNCHANGED <<args, contexts, analysed, projects, report, i>>
      /\ pc' = pc \/ (pc = "write" /\ pc' = "done")
  BY DEF Write, Edit, vars, world, loop, results, Exit
<1>2. UNCHANGED Printed
  BY <1>1 DEF Printed
<1>3. UNCHANGED <<Names, Inputs>> /\ \A k : UNCHANGED <<Member(k), Single(k)>>
  BY <1>1, ContractStays
<1>4. \A k : UNCHANGED ProjectPrinted(k)
  BY <1>1, <1>2 DEF ProjectPrinted
<1>5. Shown' = Shown /\ Waiting' \subseteq Waiting
  BY <1>1, <1>3, <1>4 DEF Shown, Waiting
<1>. QED
  BY <1>1, <1>5, ShowStays DEF Early

\* An input joins its project, which may be new.
LEMMA JoinShow ==
  ASSUME Inv, ProjectsInv, pc = "inspect", pc' = "inspect", i \in Inputs, Configured(i),
         Join(contexts[i].config), analysed' = analysed \cup {<<i, "project">>},
         UNCHANGED <<args, contexts>>
  PROVE  ProjectsInv'
<1>1. PICK n : n = i
  OBVIOUS
<1>2. PICK c : c = contexts[n].config
  OBVIOUS
<1>. DEFINE R == [root : Configs, inputs : Seq(Inputs)]
            at == {k \in DOMAIN projects : projects[k].root = c}
            Had(r) == {k \in Inputs : Member(k) /\ contexts[k].config = r}
            Has(r) == {k \in Inputs : (Member(k) \/ k = n) /\ contexts[k].config = r}
<1>3. /\ UNCHANGED <<Names, Inputs, contexts>>
      /\ \A k : Member(k)' <=> Member(k) \/ k = n
  BY <1>1 DEF Names, Inputs, Member
<1>4. n \in Inputs /\ c \in Configs /\ ~Member(n)
  <2>1. c \in Configs
    BY <1>1, <1>2 DEF Inv, ContextsInv
  <2>2. ~(i < i)
    BY DEF Inv, ControlInv
  <2>. QED
    BY <1>1, <2>1, <2>2, AnalysedOf
<1>5. /\ Len(projects) \in Nat /\ DOMAIN projects = 1..Len(projects) /\ projects \in Seq(R)
      /\ \A q \in 1..Len(projects) :
           projects[q].root \in Configs /\ projects[q].inputs \in Seq(Inputs)
  BY ProjectsOf
<1>6. /\ \A q \in 1..Len(projects) :
           /\ ToSet(projects[q].inputs) = Had(projects[q].root)
           /\ IsInjective(projects[q].inputs)
           /\ \A r \in 1..Len(projects) : projects[q].root = projects[r].root => q = r
      /\ \A k \in Inputs : Member(k) => \E q \in 1..Len(projects) : projects[q].root = contexts[k].config
  BY DEF ProjectsInv
<1>7. \A r : Has(r) = IF r = c THEN Had(r) \cup {n} ELSE Had(r)
  BY <1>2, <1>3, <1>4
<1>. SUFFICES
       /\ \A q \in 1..Len(projects') :
            /\ ToSet(projects'[q].inputs) = Has(projects'[q].root)
            /\ IsInjective(projects'[q].inputs)
            /\ \A r \in 1..Len(projects') : projects'[q].root = projects'[r].root => q = r
       /\ \A k \in Inputs : Member(k)' => \E q \in 1..Len(projects') : projects'[q].root = contexts[k].config
  BY <1>3 DEF ProjectsInv, Early
<1>. HIDE DEF Had, Has
<1>8. CASE at = {}
  <2>. DEFINE x == [root |-> c, inputs |-> <<n>>]
              last == Len(projects) + 1
  <2>1. projects' = Append(projects, x)
    BY <1>1, <1>2, <1>8 DEF Join
  <2>2. x \in R /\ x.root = c /\ x.inputs = <<n>>
    BY <1>4
  <2>. HIDE DEF x, R
  <2>3. /\ Len(projects') = last /\ last \in Nat /\ projects'[last] = x
        /\ \A q \in 1..Len(projects) : projects'[q] = projects[q] /\ q # last
        /\ 1..last = (1..Len(projects)) \cup {last}
    BY <1>5, <2>1, <2>2, AppendProperties
  <2>4. \A q \in 1..Len(projects) : projects[q].root # c
    BY <1>5, <1>8
  <2>5. Had(c) = {}
    BY <1>6, <2>4 DEF Had
  <2>6. ToSet(x.inputs) = {n} /\ IsInjective(x.inputs)
    BY <1>4, <2>2, DistinctOne
  <2>7. Has(c) = {n}
    BY <1>7, <2>5
  <2>8. \A q \in 1..Len(projects) : Has(projects[q].root) = Had(projects[q].root)
    BY <1>7, <2>4
  <2>9. \A k \in Inputs : Member(k)' => \E q \in 1..last : projects'[q].root = contexts[k].config
    BY <1>2, <1>3, <1>6, <2>2, <2>3
  <2>10. ASSUME NEW q \in 1..last
         PROVE  /\ ToSet(projects'[q].inputs) = Has(projects'[q].root)
                /\ IsInjective(projects'[q].inputs)
                /\ \A r \in 1..last : projects'[q].root = projects'[r].root => q = r
    <3>. HIDE DEF last
    <3>1. CASE q = last
      BY <2>2, <2>3, <2>4, <2>6, <2>7, <3>1
    <3>2. CASE q \in 1..Len(projects)
      BY <1>6, <2>2, <2>3, <2>4, <2>8, <3>2
    <3>. QED
      BY <2>3, <3>1, <3>2
  <2>. QED
    BY <2>3, <2>9, <2>10
<1>9. CASE at # {}
  <2>1. PICK j : j = CHOOSE k \in at : TRUE
    OBVIOUS
  <2>2. j \in at
    BY <1>9, <2>1
  <2>3. projects' = [projects EXCEPT ![j].inputs = Append(@, n)]
    BY <1>1, <1>2, <1>9, <2>1 DEF Join
  <2>4. j \in 1..Len(projects) /\ projects[j].root = c
    BY <1>5, <2>2
  <2>5. PICK old : old = projects[j].inputs
    OBVIOUS
  <2>6. projects[j] \in R
    <3>. HIDE DEF R
    <3>. QED
      BY <1>5, <2>4, ElementOfSeq
  <2>. DEFINE x == [projects[j] EXCEPT !.inputs = Append(@, n)]
  <2>7. x \in R /\ x.root = c /\ x.inputs = Append(old, n)
    BY <1>4, <2>4, <2>5, <2>6
  <2>8. projects' = [projects EXCEPT ![j] = x]
    BY <2>3
  <2>. HIDE DEF x, R
  <2>9. /\ Len(projects') = Len(projects) /\ projects'[j] = x
        /\ \A q \in 1..Len(projects) : q # j => projects'[q] = projects[q]
    <3>1. projects' \in Seq(R) /\ Len(projects') = Len(projects)
      BY <1>5, <2>4, <2>7, <2>8, ExceptSeq
    <3>. QED
      BY <1>5, <2>4, <2>8, <3>1
  <2>10. old \in Seq(Inputs) /\ ToSet(old) = Had(c) /\ IsInjective(old)
    BY <1>5, <1>6, <2>4, <2>5
  <2>11. n \notin ToSet(old)
    BY <1>4, <2>10 DEF Had
  <2>12. ToSet(x.inputs) = Had(c) \cup {n} /\ IsInjective(x.inputs)
    BY <1>4, <2>7, <2>10, <2>11, ToSetAppend, DistinctAppend
  <2>13. Has(c) = Had(c) \cup {n}
    BY <1>7
  <2>14. \A q \in 1..Len(projects) : q # j => projects[q].root # c
    BY <1>6, <2>4
  <2>15. \A q \in 1..Len(projects) : projects'[q].root = projects[q].root
    BY <2>4, <2>7, <2>9
  <2>16. \A k \in Inputs : Member(k)' => \E q \in 1..Len(projects) : projects'[q].root = contexts[k].config
    BY <1>2, <1>3, <1>6, <2>4, <2>15
  <2>17. ASSUME NEW q \in 1..Len(projects)
         PROVE  /\ ToSet(projects'[q].inputs) = Has(projects'[q].root)
                /\ IsInjective(projects'[q].inputs)
    <3>1. CASE q = j
      BY <2>7, <2>9, <2>12, <2>13, <3>1
    <3>2. CASE q # j
      <4>1. projects'[q] = projects[q] /\ projects[q].root # c
        BY <2>9, <2>14, <3>2
      <4>2. Has(projects[q].root) = Had(projects[q].root)
        BY <1>7, <4>1
      <4>. QED
        BY <1>6, <4>1, <4>2
    <3>. QED
      BY <3>1, <3>2
  <2>18. \A q, r \in 1..Len(projects) : projects'[q].root = projects'[r].root => q = r
    BY <1>6, <2>15
  <2>. QED
    BY <2>9, <2>16, <2>17, <2>18
<1>. QED
  BY <1>8, <1>9

\* While inputs are inspected, what was shown was analysed alone.
LEMMA InspectingOf ==
  ASSUME Inv, pc = "inspect"
  PROVE  /\ \A k : ~ProjectPrinted(k)
         /\ Shown = {k \in Inputs : Single(k)}
         /\ Waiting = {k \in Inputs : i <= k \/ Member(k)}
<1>1. Printed = 0
  BY DEF Printed
<1>2. \A k : ~ProjectPrinted(k)
  BY <1>1, ProjectsOf DEF ProjectPrinted
<1>. QED
  BY <1>2 DEF Shown, Waiting

\* An input is analysed: the contract of those shown before is the same.
LEMMA ContractKept ==
  ASSUME Inv, pc = "inspect", i \in Inputs, NEW kind \in {"default", "project"},
         analysed' = analysed \cup {<<i, kind>>}, UNCHANGED <<args, contexts>>,
         NEW k \in Inputs, Single(k)
  PROVE  Single(k)' /\ Contracted(k)' = Contracted(k)
<1>1. UNCHANGED <<Names, Inputs, contexts>>
  BY DEF Names, Inputs
<1>2. Local(k)' = Local(k)
  BY <1>1 DEF Configured, Local
<1>3. Single(k)'
  BY DEF Single
<1>4. FoundIn(k) = Local(k) /\ FoundIn(k)' = Local(k)'
  BY <1>3 DEF FoundIn, Single
<1>. QED
  BY <1>1, <1>2, <1>3, <1>4 DEF Contracted, Single

LEMMA InspectShow ==
  ASSUME Inv, ShowInv, Inspect
  PROVE  ShowInv'
<1>1. PICK n : n = i
  OBVIOUS
<1>2. PICK p : p = Names[n]
  OBVIOUS
<1>. DEFINE ds == Sorted(Apply(p, Fs[p], SetToSeq(Local(n))))
<1>3. /\ pc = "inspect" /\ pc' = "inspect" /\ i <= Len(Names) /\ i' = n + 1
      /\ UNCHANGED <<args, contexts>>
  BY <1>1 DEF Inspect, world, loop
<1>4. \/ UNCHANGED <<projects, analysed, report>>
      \/ report' = Append(report, ParseError(p)) /\ UNCHANGED <<projects, analysed>>
      \/ /\ Configured(n) /\ Join(contexts[n].config) /\ UNCHANGED report
         /\ analysed' = analysed \cup {<<n, "project">>}
      \/ /\ ~Configured(n) /\ report' = report \o ds /\ UNCHANGED projects
         /\ analysed' = analysed \cup {<<n, "default">>}
  BY <1>1, <1>2 DEF Inspect, Stderr, Parsed
<1>5. /\ Len(Names) \in Nat /\ Inputs = 1..Len(Names) /\ n \in Inputs /\ n \in Nat
      /\ p \in Paths /\ DOMAIN Names = Inputs
  <2>1. i \in 1..(Len(Names) + 1)
    BY DEF Inv, ControlInv
  <2>2. n \in Inputs /\ Len(Names) \in Nat /\ Inputs = 1..Len(Names)
    BY <1>1, <1>3, <2>1, NamesOf DEF Inv
  <2>. QED
    BY <1>2, <2>2, NamesOf DEF Inv, Inputs
<1>6. UNCHANGED <<Names, Inputs>>
  BY <1>3 DEF Names, Inputs
<1>7. /\ Shown = {k \in Inputs : Single(k)} /\ Waiting = {k \in Inputs : n <= k \/ Member(k)}
  BY <1>1, <1>3, InspectingOf
<1>8. Printed' = 0
  BY <1>3 DEF Printed
<1>9. \A k : ~ProjectPrinted(k)'
  <2>1. \A q \in 1..Len(projects') : ~(q <= 0)
    OBVIOUS
  <2>. QED
    BY <1>8, <2>1 DEF ProjectPrinted
<1>10. /\ Shown' = {k \in Inputs : Single(k)'}
       /\ Waiting' = {k \in Inputs : n + 1 <= k \/ Member(k)'}
  BY <1>3, <1>6, <1>9 DEF Shown, Waiting
<1>11. /\ report \in Seq(Diagnostic)
       /\ IsInjective(Names) =>
            /\ IsInjective(report)
            /\ \A x \in ToSet(report) : \A k \in Waiting : x.file # Names[k]
  BY DEF Inv, ReportInv, ShowInv, OnceInv
<1>12. n \in Waiting /\ \A k \in Inputs : (Member(k) \/ Single(k)) => k < n
  <2>1. n <= n
    BY <1>5
  <2>. QED
    BY <1>1, <1>3, <1>5, <1>7, <2>1, AnalysedOf
<1>13. NoProjectTwice' <=> NoProjectTwice
  BY <1>3, <1>6 DEF NoProjectTwice, Configured
<1>14. CASE UNCHANGED <<projects, analysed, report>>
  <2>1. \A k : UNCHANGED <<Member(k), Single(k)>>
    BY <1>14 DEF Member, Single
  <2>2. \A k \in Inputs : n + 1 <= k => n <= k
    BY <1>5
  <2>3. Shown' = Shown /\ Waiting' \subseteq Waiting
    BY <1>7, <1>10, <2>1, <2>2
  <2>. QED
    BY <1>3, <1>14, <2>3, ShowStays
<1>15. CASE report' = Append(report, ParseError(p)) /\ UNCHANGED <<projects, analysed>>
  <2>1. \A k : UNCHANGED <<Member(k), Single(k), Contracted(k), Configured(k)>>
    BY <1>3, <1>15, ContractStays
  <2>2. PICK error : error = ParseError(p)
    OBVIOUS
  <2>3. error \in Diagnostic /\ error.id = "parse/error" /\ error.file = p
    BY <1>5, <2>2 DEF ParseError, Diagnostic, Ids, Severities
  <2>4. ToSet(report') = ToSet(report) \cup {error}
    BY <1>11, <1>15, <2>2, <2>3, ToSetAppend
  <2>5. ProjectsInv'
    BY <1>3, <1>6, <1>15, <2>1 DEF ShowInv, ProjectsInv
  <2>6. ContentInv'
    <3>1. UNION {Contracted(k)' : k \in Shown'} = UNION {Contracted(k) : k \in Shown}
      BY <1>7, <1>10, <2>1
    <3>2. {x \in ToSet(report') : x.id # "parse/error"} = {x \in ToSet(report) : x.id # "parse/error"}
      BY <2>3, <2>4
    <3>. QED
      BY <1>13, <3>1, <3>2 DEF ShowInv, ContentInv
  <2>7. ASSUME IsInjective(Names)
        PROVE  IsInjective(report') /\ \A x \in ToSet(report') : \A k \in Waiting' : x.file # Names[k]
    <3>1. error \notin ToSet(report)
      BY <1>2, <1>11, <1>12, <2>3, <2>7
    <3>2. IsInjective(report')
      BY <1>11, <1>15, <2>2, <2>3, <2>7, <3>1, DistinctAppend
    <3>3. \A k \in Waiting' : k \in Waiting /\ k # n
      <4>1. \A k \in Inputs : n + 1 <= k => n <= k /\ k # n
        BY <1>5
      <4>2. \A k \in Inputs : Member(k) => k # n
        BY <1>5, <1>12
      <4>. QED
        BY <1>7, <1>10, <2>1, <4>1, <4>2
    <3>4. \A k \in Waiting' : p # Names[k]
      BY <1>2, <1>5, <1>10, <2>7, <3>3 DEF IsInjective
    <3>. QED
      BY <1>11, <2>3, <2>4, <2>7, <3>2, <3>3, <3>4
  <2>8. OnceInv'
    BY <1>6, <2>7 DEF OnceInv
  <2>. QED
    BY <2>5, <2>6, <2>8 DEF ShowInv
<1>16. CASE /\ Configured(n) /\ Join(contexts[n].config) /\ UNCHANGED report
            /\ analysed' = analysed \cup {<<n, "project">>}
  <2>1. ProjectsInv'
    BY <1>1, <1>3, <1>5, <1>16, JoinShow DEF ShowInv
  <2>2. \A k : (Member(k)' <=> Member(k) \/ k = n) /\ (Single(k)' <=> Single(k))
    BY <1>16 DEF Member, Single
  <2>3. Shown' = Shown
    BY <1>7, <1>10, <2>2
  <2>4. Waiting' \subseteq Waiting
    <3>1. \A k \in Inputs : n + 1 <= k \/ k = n => n <= k
      BY <1>5
    <3>. QED
      BY <1>7, <1>10, <2>2, <3>1
  <2>5. \A k \in Shown : Contracted(k)' = Contracted(k)
    BY <1>1, <1>3, <1>5, <1>7, <1>16, ContractKept
  <2>6. UNION {Contracted(k)' : k \in Shown'} = UNION {Contracted(k) : k \in Shown}
    BY <2>3, <2>5
  <2>7. ContentInv'
    BY <1>13, <1>16, <2>6 DEF ShowInv, ContentInv
  <2>8. OnceInv'
    BY <1>6, <1>11, <1>16, <2>4 DEF OnceInv
  <2>. QED
    BY <2>1, <2>7, <2>8 DEF ShowInv
<1>17. CASE /\ ~Configured(n) /\ report' = report \o ds /\ UNCHANGED projects
            /\ analysed' = analysed \cup {<<n, "default">>}
  <2>1. \A k : (Member(k)' <=> Member(k)) /\ (Single(k)' <=> Single(k) \/ k = n)
    BY <1>17 DEF Member, Single
  <2>2. ProjectsInv'
    BY <1>3, <1>6, <1>17, <2>1 DEF ShowInv, ProjectsInv
  <2>3. Shown' = Shown \cup {n}
    BY <1>5, <1>7, <1>10, <2>1
  <2>4. \A k \in Shown : Contracted(k)' = Contracted(k)
    BY <1>1, <1>3, <1>5, <1>7, <1>17, ContractKept
  <2>. DEFINE F == Local(n)
              found == SetToSeq(F)
              kept == Apply(p, Fs[p], found)
  <2>5. Plain(p, F) /\ IsFiniteSet(F) /\ found \in Seq(Diagnostic)
    BY <1>2, <1>5, FoundAre, LocalOf DEF Inv
  <2>6. ds = Sorted(kept)
    OBVIOUS
  <2>. HIDE DEF F, ds
  <2>7. ToSet(found) = F /\ IsInjective(found)
    BY <2>5, SetToSeqOf
  <2>. HIDE DEF found
  <2>8. kept \in Seq(Diagnostic) /\ ToSet(kept) = Left(p, F) /\ IsInjective(kept)
    BY <1>5, <2>5, <2>7, ApplyOf, ApplyIs
  <2>. HIDE DEF kept
  <2>9. ds \in Seq(Diagnostic) /\ ToSet(ds) = Left(p, F) /\ IsInjective(ds)
    BY <2>6, <2>8, SortedOf
  <2>10. \A x \in ToSet(ds) : x.file = p /\ x.id # "parse/error"
    BY <1>5, <2>5, <2>9, LeftOf
  <2>11. ToSet(report') = ToSet(report) \cup ToSet(ds)
    BY <1>11, <1>17, <2>9, ToSetConcat
  <2>12. Contracted(n)' = ToSet(ds)
    <3>1. Single(n)' /\ Local(n)' = F
      BY <1>3, <1>6, <2>1 DEF F, Local, Configured
    <3>2. FoundIn(n)' = F
      BY <3>1 DEF FoundIn, Single
    <3>. QED
      BY <1>2, <1>6, <2>9, <3>1, <3>2 DEF Contracted, Single, Left
  <2>13. ContentInv'
    <3>1. UNION {Contracted(k)' : k \in Shown'}
            = (UNION {Contracted(k) : k \in Shown}) \cup ToSet(ds)
      BY <2>3, <2>4, <2>12
    <3>2. {x \in ToSet(report') : x.id # "parse/error"}
            = {x \in ToSet(report) : x.id # "parse/error"} \cup ToSet(ds)
      BY <2>10, <2>11
    <3>. QED
      BY <1>13, <3>1, <3>2 DEF ShowInv, ContentInv
  <2>14. ASSUME IsInjective(Names)
         PROVE  IsInjective(report') /\ \A x \in ToSet(report') : \A k \in Waiting' : x.file # Names[k]
    <3>1. ToSet(report) \cap ToSet(ds) = {}
      BY <1>2, <1>11, <1>12, <2>10, <2>14
    <3>2. IsInjective(report')
      <4>1. IsInjective(report)
        BY <1>11, <2>14
      <4>2. IsInjective(report \o ds)
        BY <1>11, <2>9, <3>1, <4>1, DistinctConcat
      <4>. QED
        BY <1>17, <4>2
    <3>3. \A k \in Waiting' : k \in Waiting /\ k # n
      <4>1. \A k \in Inputs : n + 1 <= k => n <= k /\ k # n
        BY <1>5
      <4>2. \A k \in Inputs : Member(k) => k # n
        BY <1>5, <1>12
      <4>. QED
        BY <1>7, <1>10, <2>1, <4>1, <4>2
    <3>4. \A k \in Waiting' : p # Names[k]
      BY <1>2, <1>5, <1>10, <2>14, <3>3 DEF IsInjective
    <3>. QED
      BY <1>11, <2>10, <2>11, <2>14, <3>2, <3>3, <3>4
  <2>15. OnceInv'
    BY <1>6, <2>14 DEF OnceInv
  <2>. QED
    BY <2>2, <2>13, <2>15 DEF ShowInv
<1>. QED
  BY <1>4, <1>14, <1>15, <1>16, <1>17

LEMMA ProjectShow ==
  ASSUME Inv, ShowInv, Project
  PROVE  ShowInv'
<1>1. PICK n : n = i
  OBVIOUS
<1>2. PICK inputs : inputs = projects[n].inputs
  OBVIOUS
<1>3. PICK ds : ds = AnalyzeProject(inputs)
  OBVIOUS
<1>4. /\ pc = "projects" /\ pc' = "projects" /\ n <= Len(projects) /\ i' = n + 1
      /\ report' = report \o ds
      /\ UNCHANGED <<args, contexts, analysed, projects>>
  BY <1>1, <1>2, <1>3 DEF Project, world, loop
<1>5. /\ n \in 1..Len(projects) /\ Len(projects) \in Nat /\ n \in Nat
      /\ inputs \in Seq(Inputs)
  <2>1. i \in 1..(Len(Names) + 1)
    BY DEF Inv, ControlInv
  <2>2. n \in 1..Len(projects) /\ Len(projects) \in Nat /\ n \in Nat
    BY <1>1, <1>4, <2>1, ProjectsOf, NamesOf DEF Inv
  <2>. QED
    BY <1>2, <2>2, ProjectsOf
<1>6. PICK c : c = projects[n].root
  OBVIOUS
<1>7. /\ ToSet(inputs) = {k \in Inputs : Member(k) /\ contexts[k].config = c}
      /\ IsInjective(inputs)
      /\ \A q \in 1..Len(projects) : projects[q].root = c => q = n
  BY <1>2, <1>5, <1>6 DEF ShowInv, ProjectsInv
<1>8. /\ DOMAIN inputs = 1..Len(inputs) /\ ToSet(inputs) = {inputs[j] : j \in 1..Len(inputs)}
      /\ DOMAIN Names = Inputs /\ WorldInv /\ ContextsInv
  BY <1>5, ToSetOf, LenProperties DEF Inv, Inputs
<1>9. UNCHANGED <<Names, Inputs>>
      /\ \A k : UNCHANGED <<Contracted(k), Member(k), Single(k), Configured(k)>>
  BY <1>4, ContractStays
<1>10. Printed = n - 1 /\ Printed' = n
  <2>1. i' - 1 = n
    BY <1>4, <1>5
  <2>. QED
    BY <1>1, <1>4, <2>1 DEF Printed
<1>11. \A k : /\ ProjectPrinted(k)' <=> ProjectPrinted(k) \/ c = contexts[k].config
              /\ c = contexts[k].config => ~ProjectPrinted(k)
  <2>1. \A q \in 1..Len(projects) : /\ q <= n <=> q <= n - 1 \/ q = n
                                    /\ ~(n <= n - 1)
    BY <1>5
  <2>2. \A k : ProjectPrinted(k) <=>
                 \E q \in 1..Len(projects) : q <= n - 1 /\ projects[q].root = contexts[k].config
    BY <1>10 DEF ProjectPrinted
  <2>3. \A k : ProjectPrinted(k)' <=>
                 \E q \in 1..Len(projects) : q <= n /\ projects[q].root = contexts[k].config
    BY <1>4, <1>10 DEF ProjectPrinted
  <2>. QED
    BY <1>5, <1>6, <1>7, <2>1, <2>2, <2>3
<1>12. /\ Waiting = {k \in Inputs : Member(k) /\ ~ProjectPrinted(k)}
       /\ Waiting' = {k \in Inputs : Member(k) /\ ~ProjectPrinted(k)'}
  BY <1>4, <1>9 DEF Waiting
<1>13. /\ Shown' = Shown \cup ToSet(inputs)
       /\ ToSet(inputs) \subseteq Waiting
       /\ Waiting' \subseteq Waiting \ ToSet(inputs)
  <2>1. Shown' = {k \in Inputs : Single(k) \/ (Member(k) /\ ProjectPrinted(k)')}
    BY <1>9 DEF Shown
  <2>. QED
    BY <1>7, <1>11, <1>12, <2>1 DEF Shown
<1>14. \A k \in ToSet(inputs) : k \in Inputs /\ Member(k) /\ Configured(k) /\ contexts[k].config = c
  BY <1>7, AnalysedOf
<1>15. \A k \in ToSet(inputs) :
         Contracted(k) = Left(Names[k], Local(k) \cup ProjectFindings(k, inputs))
  BY <1>7, <1>14, ContractOf
<1>16. ASSUME NoProjectTwice
       PROVE  ToSet(ds) = UNION {Contracted(k) : k \in ToSet(inputs)} /\ IsInjective(ds)
  <2>1. ASSUME NEW j \in 1..Len(inputs), NEW k \in 1..Len(inputs), Names[inputs[j]] = Names[inputs[k]]
        PROVE  j = k
    <3>1. inputs[j] \in ToSet(inputs) /\ inputs[k] \in ToSet(inputs)
      BY <1>8
    <3>2. inputs[j] = inputs[k]
      BY <1>14, <1>16, <2>1, <3>1 DEF NoProjectTwice
    <3>. QED
      BY <1>7, <1>8, <3>2 DEF IsInjective
  <2>2. /\ ToSet(ds) = UNION {Left(Names[k], Local(k) \cup ProjectFindings(k, inputs)) : k \in ToSet(inputs)}
        /\ IsInjective(ds)
    BY <1>3, <1>5, <1>8, <2>1, AnalyzeProjectIs
  <2>3. UNION {Left(Names[k], Local(k) \cup ProjectFindings(k, inputs)) : k \in ToSet(inputs)}
          = UNION {Contracted(k) : k \in ToSet(inputs)}
    BY <1>15
  <2>. QED
    BY <2>2, <2>3
<1>17. \A k \in ToSet(inputs) : \A x \in Contracted(k) : x.file = Names[k] /\ x.id # "parse/error"
  <2>1. TAKE k \in ToSet(inputs)
  <2>. DEFINE all == Local(k) \cup ProjectFindings(k, inputs)
  <2>2. Names[k] \in Paths /\ k \in Inputs
    BY <1>8, <1>14, NamesOf
  <2>3. Plain(Names[k], Local(k)) /\ Plain(Names[k], ProjectFindings(k, inputs))
    BY <1>8, <2>2, FoundAre
  <2>4. Plain(Names[k], all)
    BY <2>3 DEF Plain
  <2>5. Contracted(k) = Left(Names[k], all)
    BY <1>15
  <2>. HIDE DEF all
  <2>. QED
    BY <2>2, <2>4, <2>5, LeftOf
<1>18. /\ report \in Seq(Diagnostic) /\ ds \in Seq(Diagnostic)
       /\ ToSet(report') = ToSet(report) \cup ToSet(ds)
  <2>1. report \in Seq(Diagnostic)
    BY DEF Inv, ReportInv
  <2>2. ds \in Seq(Diagnostic)
    BY <1>3, <1>5, <1>8, AnalyzeProjectOf
  <2>. QED
    BY <1>4, <2>1, <2>2, ToSetConcat
<1>19. ProjectsInv'
  BY <1>4, <1>9 DEF ShowInv, ProjectsInv
<1>20. ContentInv'
  <2>1. NoProjectTwice' <=> NoProjectTwice
    BY <1>4, <1>9 DEF NoProjectTwice
  <2>2. ASSUME NoProjectTwice
        PROVE  {x \in ToSet(report') : x.id # "parse/error"} = UNION {Contracted(k)' : k \in Shown'}
    <3>1. UNION {Contracted(k)' : k \in Shown'}
            = (UNION {Contracted(k) : k \in Shown}) \cup ToSet(ds)
      BY <1>9, <1>13, <1>16, <2>2
    <3>2. \A x \in ToSet(ds) : x.id # "parse/error"
      BY <1>16, <1>17, <2>2
    <3>3. {x \in ToSet(report') : x.id # "parse/error"}
            = {x \in ToSet(report) : x.id # "parse/error"} \cup ToSet(ds)
      BY <1>18, <3>2
    <3>. QED
      BY <2>2, <3>1, <3>3 DEF ShowInv, ContentInv
  <2>. QED
    BY <2>1, <2>2 DEF ContentInv
<1>21. OnceInv'
  <2>1. ASSUME IsInjective(Names)
        PROVE  IsInjective(report') /\ \A x \in ToSet(report') : \A k \in Waiting' : x.file # Names[k]
    <3>1. NoProjectTwice
      BY <1>8, <2>1 DEF NoProjectTwice, IsInjective
    <3>2. /\ IsInjective(report)
          /\ \A x \in ToSet(report) : \A k \in Waiting : x.file # Names[k]
      BY <2>1 DEF ShowInv, OnceInv
    <3>3. \A x \in ToSet(ds) : \E k \in ToSet(inputs) : x.file = Names[k]
      BY <1>16, <1>17, <3>1
    <3>4. ToSet(report) \cap ToSet(ds) = {}
      BY <1>13, <3>2, <3>3
    <3>5. IsInjective(ds)
      BY <1>16, <3>1
    <3>6. IsInjective(report \o ds)
      BY <1>18, <3>2, <3>4, <3>5, DistinctConcat
    <3>7. \A k \in Waiting' : k \in Waiting /\ k \in Inputs /\ \A j \in ToSet(inputs) : Names[j] # Names[k]
      BY <1>8, <1>12, <1>13, <1>14, <2>1 DEF IsInjective
    <3>8. \A x \in ToSet(report') : \A k \in Waiting' : x.file # Names[k]
      BY <1>18, <3>2, <3>3, <3>7
    <3>. QED
      BY <1>4, <3>6, <3>8
  <2>. QED
    BY <1>9, <2>1 DEF OnceInv
<1>. QED
  BY <1>19, <1>20, <1>21 DEF ShowInv

\* The report of a run that names no file of a project twice is what the
\* suppression contract asks for: of every input that was analysed the findings
\* no directive covers and one diagnostic per malformed or unused directive, and
\* nothing else but parse errors; and each of them once, when no file is named
\* twice at all.
THEOREM ReportIsTheContract == Spec => [](NoProjectTwice => ReportIsContracted)
<1>1. Init => ShowInv
  <2>. SUFFICES ASSUME Init PROVE ShowInv
    OBVIOUS
  <2>1. report = <<>> /\ analysed = {} /\ projects = <<>>
    BY DEF Init
  <2>2. \A k : ~Member(k) /\ ~Single(k)
    BY <2>1 DEF Member, Single
  <2>3. ProjectsInv
    BY <2>1, <2>2 DEF ProjectsInv
  <2>4. Shown = {} /\ ToSet(report) = {} /\ IsInjective(<<>>)
    BY <2>1, <2>2, ToSetEmpty DEF Shown, IsInjective
  <2>. QED
    BY <2>1, <2>3, <2>4 DEF ShowInv, ContentInv, OnceInv
<1>2. Inv /\ ShowInv /\ [Next]_vars => ShowInv'
  <2>. SUFFICES ASSUME Inv, ShowInv, [Next]_vars PROVE ShowInv'
    OBVIOUS
  <2>1. CASE Flags \/ Explicit \/ Discover \/ UseConfig \/ Discovered
    <3>1. pc \in Early /\ UNCHANGED results
      BY <2>1 DEF Flags, Explicit, Discover, UseConfig, Discovered, Early
    <3>. QED
      BY <3>1, EarlyShow
  <2>2. CASE Write \/ Edit \/ Exited \/ UNCHANGED vars
    BY <2>2, RestShow DEF Exited
  <2>. QED
    BY <2>1, <2>2, InspectShow, InspectedShow, ProjectShow, AnalysedShow DEF Next
<1>3. Inv /\ ShowInv => (NoProjectTwice => ReportIsContracted)
  <2>. SUFFICES ASSUME Inv, ShowInv, NoProjectTwice, Done
                PROVE  /\ IsInjective(Names) => IsInjective(report)
                       /\ {x \in ToSet(report) : x.id # "parse/error"}
                            = UNION {Contracted(k) : k \in Inputs}
    BY DEF ReportIsContracted
  <2>1. Printed = Len(projects)
    BY DEF Printed, Done
  <2>2. \A q \in 1..Len(projects) : q <= Len(projects)
    BY ProjectsOf
  <2>3. \A k \in Inputs : Member(k) => ProjectPrinted(k)
    BY <2>1, <2>2 DEF ShowInv, ProjectsInv, ProjectPrinted
  <2>4. \A k \in Inputs : k \notin Shown => Contracted(k) = {}
    BY <2>3, ContractOf DEF Shown
  <2>5. Shown \subseteq Inputs
    BY DEF Shown
  <2>6. UNION {Contracted(k) : k \in Inputs} = UNION {Contracted(k) : k \in Shown}
    BY <2>4, <2>5
  <2>. QED
    BY <2>6 DEF ShowInv, ContentInv, OnceInv
<1>. QED
  BY <1>1, <1>2, <1>3, Invariance, PTL DEF Spec
=============================================================================

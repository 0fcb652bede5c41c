-------------------------- MODULE CourseContentProofs --------------------------
(***************************************************************************)
(* Proofs about what a course's content is made of: ModuleExtraction,      *)
(* SlideDecks, MediaFiles and VideoService, in this order, each for any    *)
(* values of its constants.  They share no state and no invariant.         *)
(***************************************************************************)
EXTENDS ModuleExtraction, SlideDecks, MediaFiles, VideoService,
        SequenceTheorems, FiniteSetTheorems, WellFoundedInduction, TLAPS

-----------------------------------------------------------------------------
(***************************************************************************)
(* Induction and recursion over an interval of the naturals, stated of a   *)
(* set and of a function, so that they can be used for any formula.        *)
(***************************************************************************)

LEMMA IntervalInduction ==
    ASSUME NEW N \in Nat, NEW T, 0 \in T,
           \A n \in 0..(N - 1) : n \in T => n + 1 \in T
    PROVE  \A n \in 0..N : n \in T
<1> DEFINE Missed == {n \in Nat : n <= N /\ n \notin T}
           Less == OpToRel(<, Nat)
<1> SUFFICES ASSUME Missed # {} PROVE FALSE
  OBVIOUS
<1>a. IsWellFoundedOn(Less, Nat)
  BY NatLessThanWellFounded
<1>b. \A k \in Nat : <<k, k + 1>> \in Less
  BY DEF OpToRel
<1> HIDE DEF Less
<1>1. PICK n \in Missed : \A k \in Missed : <<k, n>> \notin Less
  BY <1>a, WFMin, Missed \subseteq Nat
<1>2. n \in Nat /\ n <= N /\ n \notin T /\ n # 0
  OBVIOUS
<1>3. n - 1 \in 0..(N - 1) /\ n = (n - 1) + 1
  BY <1>2
<1>4. <<n - 1, n>> \in Less
  BY <1>b, <1>3
<1>5. n - 1 \in T
  BY <1>1, <1>3, <1>4
<1> QED
  BY <1>2, <1>3, <1>5

Iterated(f, N, base, Step) ==
    f[0] = base /\ \A n \in 1..N : f[n] = Step[<<n, f[n - 1]>>]

LEMMA IntervalRecursion ==
    ASSUME NEW N \in Nat, NEW V, NEW base \in V, NEW Step \in [(1..N) \X V -> V]
    PROVE  \E f \in [0..N -> V] : Iterated(f, N, base, Step)
<1> DEFINE Is(f, k) == Iterated(f, k, base, Step)
           T == {k \in 0..N : \E f \in [0..k -> V] : Is(f, k)}
<1>1. 0 \in T
  <2> DEFINE f == [n \in 0..0 |-> base]
  <2>1. f \in [0..0 -> V] /\ Is(f, 0)
    BY DEF Iterated
  <2> HIDE DEF f
  <2>2. \E h \in [0..0 -> V] : Is(h, 0)
    BY <2>1
  <2> QED
    BY <2>2
<1>2. ASSUME NEW k \in 0..(N - 1), k \in T
      PROVE  k + 1 \in T
  <2>1. PICK f \in [0..k -> V] : Is(f, k)
    BY <1>2
  <2> DEFINE g == [n \in 0..(k + 1) |-> IF n <= k THEN f[n] ELSE Step[<<k + 1, f[k]>>]]
  <2>2. k + 1 \in 1..N /\ k + 1 \in 0..N /\ f[k] \in V
    BY <2>1
  <2>3. g \in [0..(k + 1) -> V]
    BY <2>1, <2>2
  <2>4. Is(g, k + 1)
    <3>1. g[0] = base
      BY <2>1 DEF Iterated
    <3>2. ASSUME NEW n \in 1..(k + 1)
          PROVE  g[n] = Step[<<n, g[n - 1]>>]
      <4>1. n - 1 \in 0..k /\ g[n - 1] = f[n - 1]
        BY <2>2
      <4>2. CASE n <= k
        <5>1. n \in 1..k /\ g[n] = f[n]
          BY <4>2
        <5> QED
          BY <2>1, <4>1, <5>1 DEF Iterated
      <4>3. CASE n = k + 1
        BY <4>1, <4>3, <2>2
      <4> QED
        BY <4>2, <4>3
    <3> QED
      BY <3>1, <3>2 DEF Iterated
  <2> QED
    BY <2>2, <2>3, <2>4
<1>3. N \in T
  <2> HIDE DEF T
  <2>1. \A n \in 0..N : n \in T
    BY <1>1, <1>2, IntervalInduction
  <2> QED
    BY <2>1
<1> QED
  BY <1>3
\* What the community modules' FlattenSeq computes, one sequence after the other.
LEMMA FlattenFacts ==
    ASSUME NEW S, NEW seqs \in Seq(Seq(S))
    PROVE  \E f \in [0..Len(seqs) -> Seq(S)] :
              /\ f[0] = <<>>
              /\ \A n \in 1..Len(seqs) : f[n] = f[n - 1] \o seqs[n]
              /\ FlattenSeq(seqs) = f[Len(seqs)]
<1> DEFINE N == Len(seqs)
           Join(v, n) == v \o seqs[n]
           Step == [p \in (1..N) \X Seq(S) |-> Join(p[2], p[1])]
<1>1. N \in Nat /\ (\A n \in 1..N : seqs[n] \in Seq(S)) /\ (N = 0 => seqs = <<>>)
  BY ElementOfSeq, LenProperties, EmptySeq
<1> HIDE DEF N
<1>2. Step \in [(1..N) \X Seq(S) -> Seq(S)] /\ <<>> \in Seq(S)
  <2> SUFFICES ASSUME NEW p \in (1..N) \X Seq(S) PROVE Join(p[2], p[1]) \in Seq(S)
    BY EmptySeq
  <2>1. p[2] \in Seq(S) /\ seqs[p[1]] \in Seq(S)
    BY <1>1
  <2> QED
    BY <2>1, ConcatProperties
<1>3. PICK f \in [0..N -> Seq(S)] : Iterated(f, N, <<>>, Step)
  <2> DEFINE V == Seq(S)
             base == <<>>
  <2>1. base \in V /\ Step \in [(1..N) \X V -> V]
    BY <1>2
  <2> HIDE DEF Step, V, base
  <2>2. \E f \in [0..N -> V] : Iterated(f, N, base, Step)
    BY <1>1, <2>1, IntervalRecursion
  <2> QED
    BY <2>2 DEF V, base
<1>a. \A v, n : Join(v, n) = v \o seqs[n]
  OBVIOUS
<1>b. \A n \in 1..N : Join(<<>>, n) = seqs[n]
  BY <1>1, ConcatEmptySeq
<1> HIDE DEF Join
<1>4. \A n \in 1..N : f[n] = Join(f[n - 1], n)
  <2> SUFFICES ASSUME NEW n \in 1..N PROVE f[n] = Join(f[n - 1], n)
    OBVIOUS
  <2>1. f[n] = Step[<<n, f[n - 1]>>]
    BY <1>3 DEF Iterated
  <2>2. n \in 1..N /\ f[n - 1] \in Seq(S)
    BY <1>1, <1>3
  <2>3. <<n, f[n - 1]>> \in (1..N) \X Seq(S)
    BY <2>2
  <2> QED
    BY <2>1, <2>3
<1>5. FlattenSeq(seqs) = f[N]
  <2>1. CASE N = 0
    BY <1>1, <1>3, <2>1, EmptySeq DEF FlattenSeq, N, Iterated
  <2>2. CASE N # 0
    <3> DEFINE Flat(g) == [i \in 1..N |-> IF i = 1 THEN seqs[i] ELSE Join(g[i - 1], i)]
               h == [i \in 1..N |-> f[i]]
               flatten == CHOOSE g : g = Flat(g)
               Same == {n \in 0..N : n = 0 \/ flatten[n] = f[n]}
    <3>1. f[1] = seqs[1]
      <4>1. f[1] = Join(f[0], 1) /\ f[0] = <<>>
        BY <1>1, <1>3, <1>4, <2>2 DEF Iterated
      <4> QED
        BY <1>1, <1>b, <2>2, <4>1
    <3>2. h = Flat(h)
      <4> SUFFICES ASSUME NEW i \in 1..N
                   PROVE  f[i] = IF i = 1 THEN seqs[i] ELSE Join(h[i - 1], i)
        OBVIOUS
      <4> QED
        BY <1>1, <1>4, <3>1
    <3>3. flatten = Flat(flatten)
      <4> HIDE DEF h, Flat
      <4> QED
        BY <3>2
    <3>4. \A n \in 1..N : flatten[n] = IF n = 1 THEN seqs[n] ELSE Join(flatten[n - 1], n)
      <4> HIDE DEF flatten
      <4> QED
        BY <3>3
    <3>5. FlattenSeq(seqs) = flatten[N]
      BY <2>2 DEF FlattenSeq, N, Join
    <3> HIDE DEF flatten
    <3>6. ASSUME NEW n \in 0..(N - 1), n \in Same
          PROVE  n + 1 \in Same
      <4>1. n + 1 \in 1..N /\ (n + 1) - 1 = n
        BY <1>1
      <4>2. CASE n = 0
        BY <3>1, <3>4, <4>1, <4>2
      <4>3. CASE n # 0
        <5>1. flatten[n + 1] = Join(flatten[n], n + 1)
          BY <3>4, <4>1, <4>3
        <5>2. f[n + 1] = Join(f[n], n + 1)
          BY <1>4, <4>1
        <5> QED
          BY <3>6, <4>1, <4>3, <5>1, <5>2
      <4> QED
        BY <4>2, <4>3
    <3>7. 0 \in Same
      BY <1>1
    <3>8. N \in Same
      <4> HIDE DEF Same
      <4>1. \A n \in 0..N : n \in Same
        BY <1>1, <3>6, <3>7, IntervalInduction
      <4> QED
        BY <1>1, <4>1
    <3> QED
      BY <2>2, <3>5, <3>8
  <2> QED
    BY <2>1, <2>2
<1>6. f[0] = <<>>
  BY <1>3 DEF Iterated
<1> QED
  BY <1>4, <1>5, <1>6, <1>a DEF N

-----------------------------------------------------------------------------
(***************************************************************************)
(* ModuleExtraction                                                        *)
(***************************************************************************)

\* The first n modules start one behind the other.
Upto(n) == \A i, j \in 1..n : i < j => start[i] < start[j]

\* What a loop has reached is in order; a module's text is cut from its start
\* to the line before the next one's.
ExtractionTyped ==
    /\ lines \in Seq(Kinds \cup {"blank"}) /\ start \in Seq(Nat \ {0}) /\ at \in Nat \ {0}
    /\ inOrder => Cardinality(Labels) >= MinLabelled
StartInv ==
    /\ stage = "validate" => start # <<>> /\ Upto(at - 1)
    /\ stage \in {"adjust", "place", "strip"} => start # <<>> /\ start[1] = 1 /\ Upto(Len(start))
    /\ stage = "adjust" => at >= 2
Said(m) == {l \in start[m]..Min({EndLine(m), Total}) : lines[l] # "blank"}
Cut(m) == {l \in start[m]..Min({EndLine(m), Total}) : \E a, b \in Said(m) : a <= l /\ l <= b}
TextInv == stage \in {"place", "strip"} => text = [m \in DOMAIN start |-> Cut(m)]
ExtractionInv == ExtractionTyped /\ StartInv /\ TextInv /\ TextKept

LEMMA ExtractionStarts == ExtractionInit => ExtractionInv
<1> SUFFICES ASSUME NEW f \in {"pdf", "docx", "pptx"}, NEW ls \in Documents(f), Opened(f, ls)
             PROVE  ExtractionInv
  BY DEF ExtractionInit
<1>1. lines \in Seq(Kinds \cup {"blank"})
  BY DEF Opened, Documents, SeqOf
<1>2. start = <<>> /\ start \in Seq(Nat \ {0}) /\ at = 1 /\ stage = "split"
  BY EmptySeq DEF Opened
<1>3. inOrder => Cardinality(Labels) >= MinLabelled
  BY DEF Opened, Labelled, Labels
<1> QED
  BY <1>1, <1>2, <1>3 DEF ExtractionInv, ExtractionTyped, StartInv, TextInv, TextKept

\* The larger and the smaller of two numbers.
LEMMA MaxOfTwo ==
    ASSUME NEW a \in Int, NEW b \in Int
    PROVE  Max({a, b}) \in {a, b} /\ Max({a, b}) >= a /\ Max({a, b}) >= b
<1> DEFINE S == {a, b}
<1>1. \E x \in S : \A y \in S : x >= y
  OBVIOUS
<1>2. Max(S) \in S /\ \A y \in S : Max(S) >= y
  <2> HIDE DEF S
  <2> QED
    BY <1>1 DEF Max
<1> QED
  BY <1>2

LEMMA MinOfTwo ==
    ASSUME NEW a \in Int, NEW b \in Int
    PROVE  Min({a, b}) \in {a, b} /\ Min({a, b}) <= a /\ Min({a, b}) <= b
<1> DEFINE S == {a, b}
<1>1. \E x \in S : \A y \in S : x <= y
  OBVIOUS
<1>2. Min(S) \in S /\ \A y \in S : Min(S) <= y
  <2> HIDE DEF S
  <2> QED
    BY <1>1 DEF Min
<1> QED
  BY <1>2

\* A change of one start.
LEMMA OneStart ==
    ASSUME start \in Seq(Nat \ {0}), NEW m \in 1..Len(start), NEW v \in Nat \ {0},
           start' = [start EXCEPT ![m] = v]
    PROVE  /\ start' \in Seq(Nat \ {0}) /\ Len(start') = Len(start)
           /\ \A i \in 1..Len(start) : start'[i] = IF i = m THEN v ELSE start[i]
  BY ExceptSeq

LEMMA SplitKeeps ==
    ASSUME ExtractionInv, SplitAtLabels
    PROVE  ExtractionInv'
<1> DEFINE n == Cardinality(Labels)
<1>1. PICK first \in [1..n -> Labels] :
        /\ \A m, k \in DOMAIN first : m < k => first[m] < first[k]
        /\ start' = [first EXCEPT ![1] = 1]
  BY DEF SplitAtLabels
<1>2. UNCHANGED <<lines, inOrder>> /\ inOrder /\ stage' = "adjust" /\ at' = 2
  BY DEF SplitAtLabels
<1>3. Labels \subseteq Nat \ {0} /\ n \in Nat /\ n >= 3
  <2>1. DOMAIN lines = 1..Total /\ Total \in Nat
    BY LenProperties DEF ExtractionInv, ExtractionTyped, Total
  <2>2. Labels \subseteq 1..Total
    BY <2>1 DEF Labels
  <2>3. IsFiniteSet(1..Total)
    BY <2>1, FS_Interval
  <2>4. IsFiniteSet(Labels)
    BY <2>2, <2>3, FS_Subset
  <2> QED
    BY <1>2, <2>2, <2>4, FS_CardinalityType DEF ExtractionInv, ExtractionTyped, MinLabelled
<1> HIDE DEF n
<1>4. \A i \in 1..n : start'[i] \in Nat \ {0} /\ start'[i] = IF i = 1 THEN 1 ELSE first[i]
  <2> SUFFICES ASSUME NEW i \in 1..n
               PROVE  start'[i] \in Nat \ {0} /\ start'[i] = IF i = 1 THEN 1 ELSE first[i]
    OBVIOUS
  <2>1. first[i] \in Nat \ {0}
    BY <1>3
  <2>2. start'[i] = IF i = 1 THEN 1 ELSE first[i]
    BY <1>1
  <2> QED
    BY <2>1, <2>2
<1>5. start' \in Seq(Nat \ {0}) /\ Len(start') = n
  <2>1. start' = [i \in 1..n |-> start'[i]]
    BY <1>1
  <2> QED
    BY <1>3, <1>4, <2>1
<1>6. \A i, j \in 1..n : i < j => start'[i] < start'[j]
  <2> SUFFICES ASSUME NEW i \in 1..n, NEW j \in 1..n, i < j PROVE start'[i] < start'[j]
    OBVIOUS
  <2>1. first[i] < first[j] /\ first[i] \in Nat \ {0} /\ first[j] \in Nat \ {0}
    BY <1>1, <1>3
  <2> QED
    BY <1>4, <2>1
<1>7. start' # <<>> /\ start'[1] = 1
  BY <1>3, <1>4, <1>5
<1> QED
  BY <1>2, <1>5, <1>6, <1>7 DEF ExtractionInv, ExtractionTyped, StartInv, TextInv, TextKept, Upto, Labels

LEMMA AnswerKeeps ==
    ASSUME ExtractionInv, Answer
    PROVE  ExtractionInv'
<1>1. PICK answer \in SeqOf(1..(Total + 1), MaxModules) : answer # <<>> /\ start' = answer
  BY DEF Answer
<1>2. UNCHANGED <<lines, inOrder>> /\ stage' = "validate" /\ at' = 1
  BY DEF Answer
<1>3. start' \in Seq(Nat \ {0})
  <2> DEFINE W == 1..(Total + 1)
  <2>a. start' \in SeqOf(W, MaxModules)
    BY <1>1
  <2> HIDE DEF W
  <2>b. start' \in Seq(W)
    BY <2>a DEF SeqOf
  <2>1. start' \in Seq(1..(Total + 1))
    BY <2>b DEF W
  <2>2. Total \in Nat /\ 1..(Total + 1) \subseteq Nat \ {0}
    BY LenProperties DEF ExtractionInv, ExtractionTyped, Total
  <2>3. Len(start') \in Nat /\ \A i \in 1..Len(start') : start'[i] \in 1..(Total + 1)
    BY <2>1, LenProperties, ElementOfSeq
  <2> QED
    BY SMTT(30), <2>1, <2>2, <2>3, SeqDef
<1>4. Upto(at - 1)'
  BY <1>2 DEF Upto
<1> QED
  BY <1>1, <1>2, <1>3, <1>4 DEF ExtractionInv, ExtractionTyped, StartInv, TextInv, TextKept, Labels

LEMMA ValidateKeeps ==
    ASSUME ExtractionInv, Validate
    PROVE  ExtractionInv'
<1> DEFINE n == Len(start)
<1>1. /\ UNCHANGED <<lines, inOrder>> /\ stage = "validate" /\ stage' = "validate"
      /\ at <= n /\ at' = at + 1
  BY DEF Validate
<1>2. start \in Seq(Nat \ {0}) /\ n \in Nat /\ at \in Nat \ {0} /\ Upto(at - 1) /\ Total \in Nat
  BY <1>1, LenProperties DEF ExtractionInv, ExtractionTyped, StartInv, Total
<1>3. \A i \in 1..n : start[i] \in Nat \ {0}
  BY <1>2, ElementOfSeq
<1>4. Previous \in Nat /\ \A i \in 1..(at - 1) : start[i] <= Previous
  <2>1. CASE at = 1
    BY <2>1 DEF Previous
  <2>2. CASE at # 1
    <3>1. at - 1 \in 1..n /\ Previous = start[at - 1] /\ at - 1 \in 1..(at - 1)
      BY <1>1, <1>2, <2>2 DEF Previous
    <3>2. ASSUME NEW i \in 1..(at - 1) PROVE start[i] <= Previous
      <4>1. i \in 1..n
        BY <1>1, <1>2
      <4>2. i = at - 1 \/ start[i] < start[at - 1]
        BY <1>2, <3>1 DEF Upto
      <4> QED
        BY <1>3, <3>1, <4>1, <4>2
    <3> QED
      BY <1>3, <3>1, <3>2
  <2> QED
    BY <2>1, <2>2
<1> HIDE DEF n
<1>5. \E v \in Nat \ {0} : v > Previous /\ start' = [start EXCEPT ![at] = v]
  <2>1. CASE start[at] <= Previous \/ start[at] > Total
    <3> DEFINE share == (Total - Previous) \div (n - at + 1)
    <3>1. share \in Int
      BY <1>1, <1>2, <1>4
    <3> HIDE DEF share
    <3>2. Max({1, share}) \in Int /\ Max({1, share}) >= 1
      BY <3>1, MaxOfTwo
    <3>3. Repaired(Previous) = Previous + Max({1, share})
      BY DEF Repaired, share, n
    <3>4. Repaired(Previous) \in Nat \ {0} /\ Repaired(Previous) > Previous
      BY <1>4, <3>2, <3>3
    <3> QED
      BY <2>1, <3>4 DEF Validate
  <2>2. CASE ~(start[at] <= Previous \/ start[at] > Total)
    <3>1. start' = start /\ at \in 1..n
      BY <1>1, <1>2, <2>2 DEF Validate
    <3>2. start[at] \in Nat \ {0} /\ start[at] > Previous
      BY <1>3, <1>4, <2>2, <3>1
    <3>3. start' = [start EXCEPT ![at] = start[at]]
      BY <1>2, <3>1, SeqDef
    <3> QED
      BY <3>2, <3>3
  <2> QED
    BY <2>1, <2>2
<1>6. PICK v \in Nat \ {0} : v > Previous /\ start' = [start EXCEPT ![at] = v]
  BY <1>5
<1>7. at \in 1..n
  BY <1>1, <1>2
<1>8. /\ start' \in Seq(Nat \ {0}) /\ Len(start') = n
      /\ \A i \in 1..n : start'[i] = IF i = at THEN v ELSE start[i]
  BY <1>2, <1>6, <1>7, OneStart DEF n
<1>9. Upto(at - 1)'
  <2> SUFFICES ASSUME NEW i \in 1..at, NEW j \in 1..at, i < j PROVE start'[i] < start'[j]
    BY <1>1, <1>2 DEF Upto
  <2>1. i \in 1..(at - 1) /\ i \in 1..n /\ j \in 1..n /\ start'[i] = start[i]
    BY <1>2, <1>7, <1>8
  <2>2. CASE j = at
    BY <1>3, <1>4, <1>6, <1>8, <2>1, <2>2
  <2>3. CASE j # at
    <3>1. j \in 1..(at - 1) /\ start'[j] = start[j]
      BY <1>2, <1>8, <2>1, <2>3
    <3> QED
      BY <1>2, <2>1, <3>1 DEF Upto
  <2> QED
    BY <2>2, <2>3
<1>10. start' # <<>>
  BY <1>7, <1>8
<1>11. at' \in Nat \ {0}
  BY <1>1, <1>2
<1> QED
  BY <1>1, <1>8, <1>9, <1>10, <1>11 DEF ExtractionInv, ExtractionTyped, StartInv, TextInv, TextKept, Labels

LEMMA FoldKeeps ==
    ASSUME ExtractionInv, FoldPreamble
    PROVE  ExtractionInv'
<1> DEFINE n == Len(start)
<1>1. /\ UNCHANGED <<lines, inOrder>> /\ stage = "validate" /\ stage' = "adjust"
      /\ at > n /\ at' = 2
  BY DEF FoldPreamble
<1>2. start \in Seq(Nat \ {0}) /\ n \in Nat /\ n >= 1 /\ at \in Nat /\ Upto(at - 1)
  BY <1>1, LenProperties, EmptySeq DEF ExtractionInv, ExtractionTyped, StartInv
<1>3. \A i \in 1..n : start[i] \in Nat \ {0}
  BY <1>2, ElementOfSeq
<1>4. \A i, j \in 1..n : i < j => start[i] < start[j]
  BY <1>1, <1>2 DEF Upto
<1>5. start' \in Seq(Nat \ {0}) /\ start' # <<>> /\ start'[1] = 1
      /\ \A i, j \in 1..Len(start') : i < j => start'[i] < start'[j]
  <2>1. CASE start' = [start EXCEPT ![1] = 1]
    <3>1. /\ start' \in Seq(Nat \ {0}) /\ Len(start') = n
          /\ \A i \in 1..n : start'[i] = IF i = 1 THEN 1 ELSE start[i]
      BY <1>2, <2>1, OneStart
    <3> HIDE DEF n
    <3>2. ASSUME NEW i \in 1..n, NEW j \in 1..n, i < j
          PROVE  start'[i] < start'[j]
      BY <1>3, <1>4, <3>1, <3>2
    <3> QED
      BY <1>2, <3>1, <3>2
  <2>2. CASE Foldable /\ start' = <<1>> \o SubSeq(start, 3, n)
    <3> DEFINE rest == SubSeq(start, 3, n)
               one == <<1>>
    <3>1. n >= 2
      BY <1>2, <2>2 DEF Foldable
    <3>2. rest \in Seq(Nat \ {0}) /\ Len(rest) = n - 2 /\ \A i \in 1..(n - 2) : rest[i] = start[i + 2]
      <4>1. \A i \in 3..n : start[i] \in Nat \ {0}
        BY <1>3
      <4> HIDE DEF n
      <4>2. rest \in Seq(Nat \ {0}) /\ Len(rest) = (IF 3 <= n THEN n - 3 + 1 ELSE 0)
            /\ \A i \in 1..(n - 3 + 1) : rest[i] = start[3 + i - 1]
        BY <1>2, <3>1, <4>1, SubSeqProperties DEF n
      <4>3. \A i \in 1..(n - 2) : 3 + i - 1 = i + 2 /\ i \in 1..(n - 3 + 1)
        BY <1>2
      <4> HIDE DEF rest
      <4> QED
        BY <1>2, <3>1, <4>2, <4>3
    <3>3. one \in Seq(Nat \ {0}) /\ Len(one) = 1 /\ one[1] = 1
      OBVIOUS
    <3>4. start' = one \o rest
      BY <2>2
    <3> HIDE DEF n, rest, one
    <3>5. /\ start' \in Seq(Nat \ {0}) /\ Len(start') = n - 1
          /\ \A i \in 1..(n - 1) : start'[i] = IF i = 1 THEN 1 ELSE start[i + 1]
      <4>1. /\ one \o rest \in Seq(Nat \ {0}) /\ Len(one \o rest) = Len(one) + Len(rest)
            /\ \A i \in 1..(Len(one) + Len(rest)) :
                  (one \o rest)[i] = IF i <= Len(one) THEN one[i] ELSE rest[i - Len(one)]
        BY <3>2, <3>3, ConcatProperties
      <4>2. /\ Len(start') = n - 1
            /\ \A i \in 1..(n - 1) : start'[i] = IF i <= 1 THEN one[i] ELSE rest[i - 1]
        BY SMTT(30), <1>2, <3>1, <3>2, <3>3, <3>4, <4>1
      <4>3. ASSUME NEW i \in 1..(n - 1)
            PROVE  start'[i] = IF i = 1 THEN 1 ELSE start[i + 1]
        <5>1. CASE i = 1
          BY <3>3, <4>2, <4>3, <5>1
        <5>2. CASE i # 1
          <6>1. i - 1 \in 1..(n - 2) /\ (i - 1) + 2 = i + 1 /\ ~(i <= 1)
            BY <1>2, <5>2
          <6> QED
            BY <3>2, <4>2, <5>2, <6>1
        <5> QED
          BY <5>1, <5>2
      <4> QED
        BY <3>4, <4>1, <4>2, <4>3
    <3>6. ASSUME NEW i \in 1..(n - 1), NEW j \in 1..(n - 1), i < j
          PROVE  start'[i] < start'[j]
      <4>1. j + 1 \in 1..n /\ i + 1 \in 1..n /\ 1 \in 1..n /\ j # 1 /\ 1 < j + 1 /\ i + 1 < j + 1
        BY <1>2, <3>6
      <4>2. start[1] < start[j + 1] /\ start[i + 1] < start[j + 1] /\ start[1] \in Nat \ {0}
            /\ start[j + 1] \in Nat
        BY <1>3, <1>4, <4>1
      <4>3. start'[j] = start[j + 1]
        BY <3>5, <4>1
      <4>4. start'[i] = 1 \/ start'[i] = start[i + 1]
        BY <3>5
      <4> QED
        BY <4>2, <4>3, <4>4
    <3>7. start' # <<>> /\ start'[1] = 1
      <4>1. 1 \in 1..(n - 1)
        BY <1>2, <3>1
      <4> QED
        BY <3>5, <4>1
    <3> QED
      BY <3>5, <3>6, <3>7
  <2> QED
    BY <2>1, <2>2 DEF FoldPreamble
<1> QED
  BY <1>1, <1>5 DEF ExtractionInv, ExtractionTyped, StartInv, TextInv, TextKept, Upto, Labels

LEMMA AdjustKeeps ==
    ASSUME ExtractionInv, Adjust
    PROVE  ExtractionInv'
<1> DEFINE n == Len(start)
<1>1. /\ UNCHANGED <<lines, inOrder>> /\ stage = "adjust" /\ stage' = "adjust"
      /\ at <= n /\ at' = at + 1
  BY DEF Adjust
<1>2. /\ start \in Seq(Nat \ {0}) /\ n \in Nat /\ at \in Nat /\ at >= 2 /\ start[1] = 1
      /\ \A i, j \in 1..n : i < j => start[i] < start[j]
  BY <1>1, LenProperties DEF ExtractionInv, ExtractionTyped, StartInv, Upto
<1>3. \A i \in 1..n : start[i] \in Nat \ {0}
  BY <1>2, ElementOfSeq
<1>4. at \in 1..n /\ at - 1 \in 1..n /\ start[at - 1] < start[at]
  BY <1>1, <1>2
<1> HIDE DEF n
<1>5. \E v \in Nat \ {0} : start[at - 1] < v /\ v <= start[at] /\ start' = [start EXCEPT ![at] = v]
  <2>1. CASE start' = start
    <3>a. start \in Seq(Nat \ {0})
      BY <1>2
    <3>1. start' = [start EXCEPT ![at] = start[at]]
      BY <2>1, <3>a, SeqDef
    <3>2. start[at] \in Nat \ {0} /\ start[at] <= start[at]
      BY <1>3, <1>4
    <3> QED
      BY <1>4, <3>1, <3>2
  <2>2. CASE \E d \in Headings \cup Resembling : start' = [start EXCEPT ![at] = MovedBack(d)]
    <3>1. PICK d \in Headings \cup Resembling : start' = [start EXCEPT ![at] = MovedBack(d)]
      BY <2>2
    <3>2. d \in 1..5
      BY DEF Headings, Resembling, Reached, LookBack
    <3>3. start[at - 1] \in Nat \ {0} /\ start[at] \in Nat \ {0}
      BY <1>3, <1>4
    <3>4. start[at - 1] + 1 \in Int /\ start[at] - d \in Int
      BY <3>2, <3>3
    <3>5. /\ MovedBack(d) \in {start[at - 1] + 1, start[at] - d}
          /\ MovedBack(d) >= start[at - 1] + 1
      BY <3>4, MaxOfTwo DEF MovedBack
    <3>6. MovedBack(d) \in Nat \ {0} /\ start[at - 1] < MovedBack(d) /\ MovedBack(d) <= start[at]
      BY <1>4, <3>2, <3>3, <3>5
    <3> QED
      BY <3>1, <3>6
  <2> QED
    BY <2>1, <2>2 DEF Adjust
<1>6. PICK v \in Nat \ {0} : start[at - 1] < v /\ v <= start[at] /\ start' = [start EXCEPT ![at] = v]
  BY <1>5
<1>7. /\ start' \in Seq(Nat \ {0}) /\ Len(start') = n
      /\ \A i \in 1..n : start'[i] = IF i = at THEN v ELSE start[i]
  BY <1>2, <1>4, <1>6, OneStart DEF n
<1>8. ASSUME NEW i \in 1..n, NEW j \in 1..n, i < j
      PROVE  start'[i] < start'[j]
  <2>1. start[i] < start[j] /\ start[i] \in Nat /\ start[j] \in Nat
    BY <1>2, <1>3, <1>8
  <2>2. CASE j = at
    <3>1. i = at - 1 \/ start[i] < start[at - 1]
      BY <1>2, <1>4, <1>8, <2>2
    <3>2. start[at - 1] \in Nat /\ start'[j] = v /\ start'[i] = start[i]
      BY <1>3, <1>4, <1>7, <1>8, <2>2
    <3> QED
      BY <1>6, <2>1, <3>1, <3>2
  <2>3. CASE j # at
    BY <1>6, <1>7, <2>1, <2>3
  <2> QED
    BY <2>2, <2>3
<1>9. start' # <<>> /\ start'[1] = 1
  <2>1. 1 \in 1..n /\ 1 # at
    BY <1>2, <1>4
  <2> QED
    BY <1>2, <1>7, <2>1
<1>10. at' \in Nat \ {0} /\ at' >= 2
  BY <1>1, <1>2
<1> QED
  BY <1>1, <1>7, <1>8, <1>9, <1>10 DEF ExtractionInv, ExtractionTyped, StartInv, TextInv, TextKept,
     Upto, Labels

LEMMA SliceKeeps ==
    ASSUME ExtractionInv, Slice
    PROVE  ExtractionInv'
<1>1. /\ UNCHANGED <<lines, inOrder, start, at>> /\ stage = "adjust" /\ stage' = "place"
      /\ text' = [m \in DOMAIN start |-> Cut(m)]
  BY DEF Slice, Cut, Said
<1>2. TextInv'
  BY <1>1 DEF TextInv, Cut, Said, EndLine, Total
<1> QED
  BY <1>1, <1>2 DEF ExtractionInv, ExtractionTyped, StartInv, TextKept, Upto, Labels

LEMMA PlaceKeeps ==
    ASSUME ExtractionInv, PlaceImages
    PROVE  ExtractionInv'
<1>1. UNCHANGED <<lines, inOrder, start, at, text>> /\ stage = "place" /\ stage' = "strip"
  BY DEF PlaceImages
<1>2. TextInv'
  BY ZenonT(60), <1>1 DEF ExtractionInv, TextInv, Cut, Said, EndLine, Total
<1> QED
  BY <1>1, <1>2 DEF ExtractionInv, ExtractionTyped, StartInv, TextKept, Upto, Labels
LEMMA EndTyped ==
    ASSUME start \in Seq(Nat \ {0}), lines \in Seq(Kinds \cup {"blank"}), NEW m \in DOMAIN start
    PROVE  EndLine(m) \in Int /\ start[m] \in Nat \ {0}
<1>1. Total \in Nat
  BY LenProperties DEF Total
<1>2. Len(start) \in Nat /\ m \in 1..Len(start) /\ \A i \in 1..Len(start) : start[i] \in Nat \ {0}
  BY LenProperties, ElementOfSeq
<1>3. CASE m < Len(start)
  <2>1. m + 1 \in 1..Len(start)
    BY <1>2, <1>3
  <2> QED
    BY <1>2, <1>3, <2>1 DEF EndLine
<1>4. CASE ~(m < Len(start))
  BY <1>1, <1>2, <1>4 DEF EndLine
<1> QED
  BY <1>3, <1>4

\* Where modules start one behind the other and the first at line 1, every line lies in exactly one.
LEMMA OneHolder ==
    ASSUME start \in Seq(Nat \ {0}), start # <<>>, start[1] = 1, Upto(Len(start)),
           lines \in Seq(Kinds \cup {"blank"}), NEW l \in DOMAIN lines
    PROVE  \E m \in DOMAIN start :
              /\ Holds(m, l) /\ start[m] <= Total
              /\ \A k \in DOMAIN start : Holds(k, l) => k = m
<1> DEFINE n == Len(start)
           First(k, m) == start[m] <= l /\ \A j \in (m + 1)..k : start[j] > l
           T == {k \in 0..n : k = 0 \/ \E m \in 1..k : First(k, m)}
<1>1. n \in Nat /\ DOMAIN start = 1..n /\ n # 0 /\ (\A i \in 1..n : start[i] \in Nat \ {0})
      /\ \A i, j \in 1..n : i < j => start[i] < start[j]
  BY LenProperties, ElementOfSeq, EmptySeq DEF Upto
<1>2. Total \in Nat /\ l \in 1..Total
  BY LenProperties DEF Total
<1> HIDE DEF n
<1>3. 0 \in T
  BY <1>1
<1>4. ASSUME NEW k \in 0..(n - 1), k \in T
      PROVE  k + 1 \in T
  <2>1. k + 1 \in 1..n /\ k + 1 \in 0..n
    BY <1>1
  <2>2. CASE start[k + 1] <= l
    <3>1. k + 1 \in 1..(k + 1) /\ First(k + 1, k + 1)
      BY <2>1, <2>2
    <3> HIDE DEF First
    <3> QED
      BY <2>1, <3>1
  <2>3. CASE ~(start[k + 1] <= l)
    <3>1. start[k + 1] > l /\ k # 0
      BY <1>1, <1>2, <2>1, <2>3
    <3>2. PICK m \in 1..k : First(k, m)
      BY <1>4, <3>1
    <3>3. First(k + 1, m)
      <4>1. ASSUME NEW j \in (m + 1)..(k + 1) PROVE start[j] > l
        <5>1. j \in (m + 1)..k \/ j = k + 1
          BY <2>1
        <5> QED
          BY <3>1, <3>2, <5>1
      <4> QED
        BY <3>2, <4>1
    <3>4. m \in 1..(k + 1)
      BY <2>1
    <3> HIDE DEF First
    <3> QED
      BY <2>1, <3>3, <3>4
  <2> QED
    BY <2>2, <2>3
<1>5. n \in T
  <2> HIDE DEF T
  <2>1. \A k \in 0..n : k \in T
    BY <1>1, <1>3, <1>4, IntervalInduction
  <2> QED
    BY <1>1, <2>1
<1>6. PICK m \in 1..n : First(n, m)
  BY <1>1, <1>5
<1>7. start[m] <= l /\ start[m] \in Nat /\ \A j \in (m + 1)..n : start[j] > l
  BY <1>1, <1>6
<1>8. Holds(m, l)
  <2>1. CASE m < n
    <3>1. m + 1 \in (m + 1)..n /\ m + 1 \in 1..n
      BY <1>1, <2>1
    <3>2. start[m + 1] > l /\ start[m + 1] \in Nat
      BY <1>1, <1>7, <3>1
    <3>3. EndLine(m) = start[m + 1] - 1
      BY <2>1 DEF EndLine, n
    <3> QED
      BY <1>2, <1>7, <3>2, <3>3 DEF Holds
  <2>2. CASE ~(m < n)
    <3>1. EndLine(m) = Total
      BY <2>2 DEF EndLine, n
    <3> QED
      BY <1>2, <1>7, <3>1 DEF Holds
  <2> QED
    BY <2>1, <2>2
<1>9. ASSUME NEW k \in 1..n, Holds(k, l)
      PROVE  k = m
  <2>1. start[k] <= l /\ l <= EndLine(k) /\ start[k] \in Nat
    BY <1>1, <1>9 DEF Holds
  <2>2. ~(k > m)
    <3> SUFFICES ASSUME k > m PROVE FALSE
      OBVIOUS
    <3>1. k \in (m + 1)..n
      BY <1>1
    <3> QED
      BY <1>2, <1>7, <2>1, <3>1
  <2>3. ~(k < m)
    <3> SUFFICES ASSUME k < m PROVE FALSE
      OBVIOUS
    <3>1. k < n /\ k + 1 \in 1..n /\ (k + 1 = m \/ k + 1 < m)
      BY <1>1
    <3>2. EndLine(k) = start[k + 1] - 1
      BY <3>1 DEF EndLine, n
    <3>3. start[k + 1] <= start[m] /\ start[k + 1] \in Nat
      BY <1>1, <1>7, <3>1
    <3> QED
      BY SMTT(30), <1>2, <1>7, <2>1, <3>2, <3>3
  <2> QED
    BY <1>1, <2>2, <2>3
<1>10. start[m] <= Total
  BY <1>2, <1>7
<1> QED
  BY <1>1, <1>8, <1>9, <1>10

\* A module's text lies between its boundaries, and has every line between
\* them that says something.
LEMMA CutFacts ==
    ASSUME start \in Seq(Nat \ {0}), lines \in Seq(Kinds \cup {"blank"}), NEW m \in DOMAIN start
    PROVE  /\ \A l \in Cut(m) : l \in Nat /\ l <= Total /\ Holds(m, l)
           /\ \A l \in DOMAIN lines : Holds(m, l) /\ lines[l] # "blank" => l \in Cut(m)
<1> DEFINE last == Min({EndLine(m), Total})
<1>1. Total \in Nat /\ DOMAIN lines = 1..Total
  BY LenProperties DEF Total
<1>3. EndLine(m) \in Int /\ start[m] \in Nat
  BY EndTyped
<1>4. last \in {EndLine(m), Total} /\ last <= EndLine(m) /\ last <= Total /\ last \in Int
  <2> DEFINE end == EndLine(m)
  <2>1. end \in Int /\ Total \in Int
    BY <1>1, <1>3
  <2> HIDE DEF end
  <2>2. Min({end, Total}) \in {end, Total} /\ Min({end, Total}) <= end /\ Min({end, Total}) <= Total
    BY <2>1, MinOfTwo
  <2> QED
    BY <2>1, <2>2 DEF end
<1> HIDE DEF last
<1>5. Said(m) = {l \in start[m]..last : lines[l] # "blank"}
      /\ Cut(m) = {l \in start[m]..last : \E a, b \in Said(m) : a <= l /\ l <= b}
  BY DEF Said, Cut, last
<1>6. ASSUME NEW l \in Cut(m) PROVE l \in Nat /\ l <= Total /\ Holds(m, l)
  <2>1. l \in start[m]..last
    BY <1>5
  <2> QED
    BY <1>1, <1>3, <1>4, <2>1 DEF Holds
<1>7. ASSUME NEW l \in DOMAIN lines, Holds(m, l), lines[l] # "blank"
      PROVE  l \in Cut(m)
  <2>1. l \in start[m]..last /\ l <= l
    BY <1>1, <1>3, <1>4, <1>7 DEF Holds
  <2>2. l \in Said(m)
    BY <1>5, <1>7, <2>1
  <2> QED
    BY <1>5, <2>1, <2>2
<1> QED
  BY <1>6, <1>7

LEMMA RemoveKeeps ==
    ASSUME ExtractionInv, RemoveCaptions
    PROVE  ExtractionInv'
<1>1. /\ UNCHANGED <<lines, inOrder, start, at, caption>> /\ stage = "strip" /\ stage' = "done"
      /\ text' = [m \in DOMAIN text |-> {l \in text[m] : CountedAs(m, l) \notin CaptionLines}]
  BY DEF RemoveCaptions
<1>2. /\ start \in Seq(Nat \ {0}) /\ start # <<>> /\ start[1] = 1 /\ Upto(Len(start))
      /\ lines \in Seq(Kinds \cup {"blank"}) /\ text = [m \in DOMAIN start |-> Cut(m)]
  BY <1>1 DEF ExtractionInv, ExtractionTyped, StartInv, TextInv
<1>3. Unshifted' = Unshifted /\ CaptionLines' = CaptionLines
  BY <1>1 DEF Unshifted, CaptionLines, Total
<1>4. DOMAIN text' = DOMAIN start /\ DOMAIN text = DOMAIN start
  BY <1>1, <1>2
<1>5. ASSUME Unshifted, NEW l \in DOMAIN lines, lines[l] # "blank"
      PROVE  Cardinality(Keepers(l)') = IF l \in CaptionLines THEN 0 ELSE 1
  <2>1. PICK m \in DOMAIN start :
          /\ Holds(m, l) /\ start[m] <= Total
          /\ \A k \in DOMAIN start : Holds(k, l) => k = m
    BY <1>2, OneHolder
  <2>2. l \in text[m] /\ l \in Nat
    BY <1>2, <1>5, <2>1, CutFacts
  <2>3. Min(text[m]) = start[m] /\ start[m] \in Nat
    <3>1. Total \in Nat /\ DOMAIN lines = 1..Total /\ start[m] \in Nat \ {0}
      BY <1>2, LenProperties, ElementOfSeq DEF Total
    <3>2. start[m] \in DOMAIN lines /\ lines[start[m]] # "blank"
      BY <1>5, <2>1, <3>1 DEF Unshifted
    <3>3. Holds(m, start[m])
      <4>1. EndLine(m) \in Int
        BY <1>2, EndTyped
      <4> QED
        BY <2>1, <2>2, <3>1, <4>1 DEF Holds
    <3>4. start[m] \in text[m]
      BY <1>2, <3>2, <3>3, CutFacts
    <3>5. \A k \in text[m] : start[m] <= k
      BY <1>2, CutFacts DEF Holds
    <3>6. \A y \in text[m] : y \in Nat
      BY <1>2, CutFacts
    <3> DEFINE S == text[m]
    <3>7. start[m] \in S /\ \A y \in S : start[m] <= y /\ y \in Nat
      BY <3>4, <3>5, <3>6
    <3> HIDE DEF S
    <3>8. Min(S) \in S /\ \A y \in S : Min(S) <= y
      BY <3>7 DEF Min
    <3>9. Min(S) = start[m]
      BY <3>1, <3>7, <3>8
    <3> QED
      BY <3>1, <3>9 DEF S
  <2>4. CountedAs(m, l) = l
    BY <2>2, <2>3 DEF CountedAs
  <2>5. l \in text'[m] <=> l \notin CaptionLines
    BY <1>1, <1>4, <2>2, <2>4
  <2>6. ASSUME NEW k \in DOMAIN start, l \in text'[k]
        PROVE  k = m
    <3>1. l \in text[k]
      BY <1>1, <1>4, <2>6
    <3>2. Holds(k, l)
      BY <1>2, <3>1, CutFacts
    <3> QED
      BY <2>1, <3>2
  <2>7. Keepers(l)' = IF l \in CaptionLines THEN {} ELSE {m}
    <3>1. Keepers(l)' = {k \in DOMAIN start : l \in text'[k]}
      BY <1>4 DEF Keepers
    <3> QED
      BY <2>5, <2>6, <3>1
  <2>8. CASE l \in CaptionLines
    BY <2>7, <2>8, FS_EmptySet
  <2>9. CASE l \notin CaptionLines
    BY <2>7, <2>9, FS_Singleton
  <2> QED
    BY <2>8, <2>9
<1>6. TextKept'
  BY <1>1, <1>3, <1>5 DEF TextKept
<1> QED
  BY <1>1, <1>2, <1>6 DEF ExtractionInv, ExtractionTyped, StartInv, TextInv, Labels

LEMMA ExtractionStep == ExtractionInv /\ [ExtractionNext]_extractionVars => ExtractionInv'
<1> SUFFICES ASSUME ExtractionInv, [ExtractionNext]_extractionVars PROVE ExtractionInv'
  OBVIOUS
<1>1. CASE ModelFails \/ AdjustRaises
  <2>1. UNCHANGED <<lines, inOrder, start, at>> /\ stage' = "failed"
    BY <1>1 DEF ModelFails, AdjustRaises
  <2> QED
    BY <2>1 DEF ExtractionInv, ExtractionTyped, StartInv, TextInv, TextKept, Labels
<1>2. CASE ReadAsPdf
  <2>1. UNCHANGED <<lines, inOrder>> /\ stage' = "split" /\ start' = <<>> /\ at' = 1
    BY <1>2 DEF ReadAsPdf
  <2>2. start' \in Seq(Nat \ {0})
    BY <2>1, EmptySeq
  <2> QED
    BY <2>1, <2>2 DEF ExtractionInv, ExtractionTyped, StartInv, TextInv, TextKept, Labels
<1>3. CASE UNCHANGED extractionVars
  <2>1. UNCHANGED <<lines, inOrder, start, at, stage, text, caption>>
    BY <1>3 DEF extractionVars
  <2>2. ExtractionTyped' /\ StartInv'
    BY <2>1 DEF ExtractionInv, ExtractionTyped, StartInv, Upto, Labels
  <2>3. TextInv'
    BY ZenonT(60), <2>1 DEF ExtractionInv, TextInv, Cut, Said, EndLine, Total
  <2>4. TextKept'
    BY <2>1 DEF ExtractionInv, TextKept, Unshifted, Keepers, CaptionLines, Total
  <2> QED
    BY <2>2, <2>3, <2>4 DEF ExtractionInv
<1> QED
  BY <1>1, <1>2, <1>3, SplitKeeps, AnswerKeeps, ValidateKeeps, FoldKeeps, AdjustKeeps, SliceKeeps,
     PlaceKeeps, RemoveKeeps DEF ExtractionNext

THEOREM DocumentsAreKept == ExtractionSpec => []TextKept
<1>1. ExtractionInv => TextKept
  BY DEF ExtractionInv
<1> QED
  BY <1>1, ExtractionStarts, ExtractionStep, PTL DEF ExtractionSpec

-----------------------------------------------------------------------------
(***************************************************************************)
(* SlideDecks                                                              *)
(*                                                                         *)
(* That the deck shows every image rests on what the plan keeps from step  *)
(* to step (PlanInv), and on lemmas about the functions that make slides   *)
(* of it, along the order of their recursion.                              *)
(***************************************************************************)

\* What _group_images_for_image_slides makes of a slide's images: one
\* landscape image, or up to GroupSize upright ones.
Fitting(group) ==
    /\ group \in Seq(DOMAIN pictures) /\ Len(group) >= 1
    /\ \/ Len(group) = 1
       \/ Len(group) <= GroupSize /\ \A q \in Range(group) : pictures[q] = "vertical"
FittingGroups == {group \in Seq(DOMAIN pictures) : Fitting(group)}
Grouped(groups) == UNION {Range(groups[g]) : g \in DOMAIN groups}

LEMMA RangeOfAppend ==
    ASSUME NEW S, NEW s \in Seq(S), NEW e \in S
    PROVE  Range(Append(s, e)) = Range(s) \cup {e}
<1> DEFINE n == Len(s)
           t == Append(s, e)
<1>1. n \in Nat /\ DOMAIN s = 1..n
  BY LenProperties
<1>2. t \in Seq(S) /\ Len(t) = n + 1 /\ t[n + 1] = e /\ \A i \in 1..n : t[i] = s[i]
  BY AppendProperties
<1>3. DOMAIN t = 1..(n + 1)
  BY <1>2, LenProperties
<1> HIDE DEF n, t
<1> QED
  BY <1>1, <1>2, <1>3 DEF Range, t

\* An image that fits joins a group that stays one.
LEMMA JoinedFits ==
    ASSUME pictures \in Seq(Orientations), NEW group \in FittingGroups,
           NEW p \in DOMAIN pictures, Fits(group, p)
    PROVE  Append(group, p) \in FittingGroups
<1>1. group \in Seq(DOMAIN pictures) /\ Fitting(group) /\ Len(group) \in Nat
  BY LenProperties DEF FittingGroups
<1>2. Append(group, p) \in Seq(DOMAIN pictures) /\ Len(Append(group, p)) = Len(group) + 1
  BY <1>1, AppendProperties
<1>3. pictures[p] \in Orientations /\ GroupSize \in Nat
  BY ElementOfSeq, LenProperties, DeckAssumption
<1>4. pictures[p] = "vertical" /\ pictures[group[1]] = "vertical" /\ Len(group) < GroupSize
  BY <1>1, <1>3 DEF Fits, Fitting, Orientations
<1>5. \A q \in Range(group) : pictures[q] = "vertical"
  <2>1. CASE Len(group) = 1
    BY <1>1, <1>4, <2>1, RangeEquality
  <2>2. CASE Len(group) # 1
    BY <1>1, <2>2 DEF Fitting
  <2> QED
    BY <2>1, <2>2
<1>6. \A q \in Range(Append(group, p)) : pictures[q] = "vertical"
  BY <1>1, <1>4, <1>5, RangeOfAppend
<1> QED
  BY <1>1, <1>2, <1>3, <1>4, <1>6 DEF Fitting, FittingGroups

LEMMA AddedFacts ==
    ASSUME pictures \in Seq(Orientations), NEW groups \in Seq(FittingGroups), NEW p \in DOMAIN pictures
    PROVE  /\ Added(groups, p) \in Seq(FittingGroups)
           /\ Grouped(groups) \cup {p} \subseteq Grouped(Added(groups, p))
<1> DEFINE n == Len(groups)
<1>1. n \in Nat /\ DOMAIN groups = 1..n /\ \A g \in 1..n : groups[g] \in FittingGroups
  BY LenProperties, ElementOfSeq
<1>e. groups # <<>> => n >= 1
  BY EmptySeq
<1> HIDE DEF n
<1>2. CASE groups # <<>> /\ Fits(Last(groups), p)
  <2> DEFINE last == Last(groups)
             more == Append(last, p)
             front == Front(groups)
  <2>1. n >= 1 /\ last = groups[n] /\ last \in FittingGroups
    BY <1>1, <1>2, <1>e DEF Last, n
  <2>2. front \in Seq(FittingGroups) /\ Len(front) = n - 1 /\ \A g \in 1..(n - 1) : front[g] = groups[g]
    BY <1>1, <2>1, SubSeqProperties DEF Front, n
  <2>3. more \in FittingGroups /\ Range(more) = Range(last) \cup {p}
    <3>1. more \in FittingGroups
      BY <1>2, <2>1, JoinedFits
    <3>2. last \in Seq(DOMAIN pictures)
      BY <2>1 DEF FittingGroups
    <3> QED
      BY <3>1, <3>2, RangeOfAppend
  <2> DEFINE new == Append(front, more)
  <2>4. Added(groups, p) = new
    BY <1>2 DEF Added
  <2> HIDE DEF more, front, last
  <2>a. /\ new \in Seq(FittingGroups) /\ Len(new) = Len(front) + 1
        /\ new[Len(front) + 1] = more /\ \A g \in 1..Len(front) : new[g] = front[g]
    BY <2>2, <2>3, AppendProperties
  <2> HIDE DEF new
  <2>5. /\ new \in Seq(FittingGroups) /\ Len(new) = n
        /\ new[n] = more /\ \A g \in 1..(n - 1) : new[g] = groups[g]
    BY <1>1, <2>1, <2>2, <2>a
  <2>6. DOMAIN new = 1..n
    BY <2>5, LenProperties
  <2>7. ASSUME NEW q \in Grouped(groups) \cup {p}
        PROVE  q \in Grouped(new)
    <3>1. CASE q \in Range(more)
      BY <1>1, <2>1, <2>5, <2>6, <3>1 DEF Grouped
    <3>2. CASE q \notin Range(more)
      <4>1. PICK g \in 1..n : q \in Range(groups[g])
        BY <1>1, <2>3, <2>7, <3>2 DEF Grouped
      <4>2. g # n
        BY <2>1, <2>3, <3>2, <4>1
      <4>3. g \in 1..(n - 1)
        BY <1>1, <4>1, <4>2
      <4> QED
        BY <2>5, <2>6, <4>1, <4>3 DEF Grouped
    <3> QED
      BY <3>1, <3>2
  <2> QED
    BY <2>4, <2>5, <2>7
<1>3. CASE ~(groups # <<>> /\ Fits(Last(groups), p))
  <2> DEFINE one == <<p>>
             new == Append(groups, one)
  <2>1. one \in FittingGroups /\ Range(one) = {p}
    <3>1. one \in Seq(DOMAIN pictures) /\ Len(one) = 1 /\ one[1] = p
      OBVIOUS
    <3>2. Range(one) = {p}
      BY DEF Range
    <3> QED
      BY <3>1, <3>2 DEF FittingGroups, Fitting
  <2>2. Added(groups, p) = new
    BY <1>3 DEF Added
  <2> HIDE DEF one
  <2>3. /\ new \in Seq(FittingGroups) /\ Len(new) = n + 1
        /\ new[n + 1] = one /\ \A g \in 1..n : new[g] = groups[g]
    BY <1>1, <2>1, AppendProperties DEF n
  <2> HIDE DEF new
  <2>4. DOMAIN new = 1..(n + 1)
    BY <2>3, LenProperties
  <2>5. Grouped(groups) \cup {p} \subseteq Grouped(new)
    BY <1>1, <2>1, <2>3, <2>4 DEF Grouped
  <2> QED
    BY <2>2, <2>3, <2>5
<1> QED
  BY <1>2, <1>3

\* Every image is on an image slide, and every image slide is of one kind.
LEMMA GroupsFacts ==
    ASSUME pictures \in Seq(Orientations), NEW images \in Seq(DOMAIN pictures)
    PROVE  Groups(images) \in Seq(FittingGroups) /\ Range(images) \subseteq Grouped(Groups(images))
<1> DEFINE N == Len(images)
           V == Seq(FittingGroups)
           Step == [x \in (1..N) \X V |-> Added(x[2], images[x[1]])]
           Body(f) == [n \in 0..N |-> IF n = 0 THEN <<>> ELSE Added(f[n - 1], images[n])]
           groups == CHOOSE f : f = Body(f)
<1>1. N \in Nat /\ \A n \in 1..N : images[n] \in DOMAIN pictures
  BY LenProperties, ElementOfSeq
<1>2. Groups(images) = groups[N]
  BY DEF Groups
<1>3. <<>> \in V
  BY EmptySeq
<1> HIDE DEF N
<1>4. Step \in [(1..N) \X V -> V]
  <2> SUFFICES ASSUME NEW x \in (1..N) \X V PROVE Added(x[2], images[x[1]]) \in V
    OBVIOUS
  <2>1. x[2] \in V /\ images[x[1]] \in DOMAIN pictures
    BY <1>1
  <2> QED
    BY <2>1, AddedFacts
<1>5. groups \in [0..N -> V] /\ groups = Body(groups)
  <2> HIDE DEF V
  <2>1. PICK f \in [0..N -> V] : Iterated(f, N, <<>>, Step)
    <3> HIDE DEF Step
    <3> QED
      BY <1>1, <1>3, <1>4, IntervalRecursion
  <2>2. \A n \in 1..N : f[n] = Added(f[n - 1], images[n])
    <3> SUFFICES ASSUME NEW n \in 1..N PROVE f[n] = Added(f[n - 1], images[n])
      OBVIOUS
    <3>a. n - 1 \in 0..N
      BY <1>1
    <3>b. f[n] = Step[<<n, f[n - 1]>>]
      <4> HIDE DEF Step, Body
      <4> QED
        BY <2>1 DEF Iterated
    <3>1. f[n - 1] \in V /\ f[n] = Step[<<n, f[n - 1]>>]
      BY <2>1, <3>a, <3>b
    <3>2. <<n, f[n - 1]>> \in (1..N) \X V
      BY <3>1
    <3> QED
      BY <3>1, <3>2
  <2>3. f = Body(f)
    <3>1. f[0] = <<>>
      BY <2>1 DEF Iterated
    <3> QED
      BY <1>1, <2>1, <2>2, <3>1
  <2>4. groups = Body(groups)
    <3> HIDE DEF Body
    <3> QED
      BY <2>3
  <2> HIDE DEF groups
  <2>a. \A n \in 0..N : groups[n] = IF n = 0 THEN <<>> ELSE Added(groups[n - 1], images[n])
    BY <2>4
  <2>5. (\A n \in 1..N : groups[n] = Added(groups[n - 1], images[n])) /\ groups[0] = <<>>
    BY <1>1, <2>a
  <2> DEFINE Same == {n \in 0..N : groups[n] = f[n]}
  <2>6. \A n \in 0..N : n \in Same
    <3>1. 0 \in Same
      BY <1>1, <2>1, <2>5 DEF Iterated
    <3>2. ASSUME NEW n \in 0..(N - 1), n \in Same
          PROVE  n + 1 \in Same
      <4>1. n + 1 \in 1..N /\ (n + 1) - 1 = n
        BY <1>1
      <4>2. groups[n + 1] = Added(groups[n], images[n + 1])
        BY <2>5, <4>1
      <4>3. f[n + 1] = Added(f[n], images[n + 1])
        BY <2>2, <4>1
      <4>4. n + 1 \in 0..N /\ groups[n] = f[n]
        BY <1>1, <3>2
      <4> QED
        BY <4>2, <4>3, <4>4
    <3> HIDE DEF Same
    <3> QED
      BY <1>1, <3>1, <3>2, IntervalInduction
  <2>7. \A n \in 0..N : groups[n] \in V
    BY <2>1, <2>6
  <2>8. Body(groups) \in [0..N -> V]
    BY <2>7, <2>a
  <2> QED
    BY <2>4, <2>8
<1>6. \A n \in 1..N : groups[n] = Added(groups[n - 1], images[n])
  <2> HIDE DEF groups
  <2> QED
    BY <1>1, <1>5
<1> HIDE DEF groups, V
<1> DEFINE Done == {n \in 0..N : \A k \in 1..n : images[k] \in Grouped(groups[n])}
<1>7. \A n \in 0..N : n \in Done
  <2>1. 0 \in Done
    BY <1>1
  <2>2. ASSUME NEW n \in 0..(N - 1), n \in Done
        PROVE  n + 1 \in Done
    <3>1. n + 1 \in 1..N /\ (n + 1) - 1 = n /\ n \in 0..N
      BY <1>1
    <3>2. groups[n] \in Seq(FittingGroups) /\ images[n + 1] \in DOMAIN pictures
      BY <1>1, <1>5, <3>1 DEF V
    <3>3. Grouped(groups[n]) \cup {images[n + 1]} \subseteq Grouped(groups[n + 1])
      BY <1>6, <3>1, <3>2, AddedFacts
    <3> QED
      BY <2>2, <3>1, <3>3
  <2> HIDE DEF Done
  <2> QED
    BY <1>1, <2>1, <2>2, IntervalInduction
<1>8. groups[N] \in V /\ \A k \in 1..N : images[k] \in Grouped(groups[N])
  BY <1>1, <1>5, <1>7
<1>9. Range(images) = {images[k] : k \in 1..N}
  BY RangeEquality DEF N
<1> QED
  BY <1>2, <1>8, <1>9 DEF V

Slide == [kind : {"cover", "content", "empty", "image"}, of : Nat, shows : Seq(DOMAIN pictures)]
PlannedSlide == [empty : BOOLEAN, fault : Faults, images : Seq(DOMAIN pictures)]

\* An image slide follows a slide of the same planned slide.
Neat(slides) == \A i \in DOMAIN slides : slides[i].kind = "image" =>
    i > 1 /\ slides[i - 1].of = slides[i].of /\ slides[i].shows \in FittingGroups

Block(s) == <<Content(s)>> \o ImageSlides(s)

LEMMA BlockFacts ==
    ASSUME pictures \in Seq(Orientations), planned \in Seq(PlannedSlide), NEW s \in DOMAIN planned
    PROVE  /\ Block(s) \in Seq(Slide) /\ Neat(Block(s))
           /\ Content(s) \in Range(Block(s))
           /\ \A p \in Range(planned[s].images) : \E slide \in Range(Block(s)) : p \in Range(slide.shows)
<1> DEFINE groups == Groups(planned[s].images)
           n == Len(groups)
           image(g) == [kind |-> "image", of |-> s, shows |-> groups[g]]
           block == Block(s)
<1>1. planned[s] \in PlannedSlide /\ s \in Nat
  BY ElementOfSeq, LenProperties
<1>2. groups \in Seq(FittingGroups) /\ Range(planned[s].images) \subseteq Grouped(groups)
  BY <1>1, GroupsFacts DEF PlannedSlide
<1> HIDE DEF groups
<1>3. n \in Nat /\ DOMAIN groups = 1..n /\ \A g \in 1..n : groups[g] \in FittingGroups
  BY <1>2, LenProperties, ElementOfSeq
<1> HIDE DEF n
<1>4. \A g \in 1..n : image(g) \in Slide
  BY <1>1, <1>3 DEF Slide, FittingGroups
<1>i. \A g : image(g).kind = "image" /\ image(g).of = s /\ image(g).shows = groups[g]
  OBVIOUS
<1>5. /\ ImageSlides(s) \in Seq(Slide) /\ Len(ImageSlides(s)) = n
      /\ \A g \in 1..n : ImageSlides(s)[g] = image(g)
  <2>1. ImageSlides(s) = [g \in 1..n |-> image(g)]
    BY <1>3 DEF ImageSlides, groups
  <2> HIDE DEF image
  <2> QED
    BY <1>3, <1>4, <2>1
<1>6. Content(s) \in Slide /\ Content(s).of = s /\ Content(s).kind # "image"
  BY <1>1, EmptySeq DEF Content, Slide, PlannedSlide
<1> HIDE DEF image
<1>7. /\ block \in Seq(Slide) /\ Len(block) = n + 1 /\ block[1] = Content(s)
      /\ \A g \in 1..n : block[g + 1] = image(g)
  <2> DEFINE one == <<Content(s)>>
             rest == ImageSlides(s)
  <2>1. one \in Seq(Slide) /\ Len(one) = 1 /\ one[1] = Content(s)
    BY <1>6
  <2>2. block = one \o rest
    BY DEF Block
  <2>r. rest \in Seq(Slide) /\ Len(rest) = n
    BY <1>5
  <2> HIDE DEF one, rest, block
  <2>3. /\ block \in Seq(Slide) /\ Len(block) = 1 + n
        /\ \A i \in 1..(1 + n) : block[i] = IF i <= 1 THEN one[i] ELSE rest[i - 1]
    <3>1. /\ one \o rest \in Seq(Slide) /\ Len(one \o rest) = Len(one) + Len(rest)
          /\ \A i \in 1..(Len(one) + Len(rest)) :
                (one \o rest)[i] = IF i <= Len(one) THEN one[i] ELSE rest[i - Len(one)]
      BY <2>1, <2>r, ConcatProperties
    <3> QED
      BY <2>1, <2>2, <2>r, <3>1
  <2>4. ASSUME NEW g \in 1..n
        PROVE  block[g + 1] = image(g)
    <3>1. g + 1 \in 1..(1 + n) /\ ~(g + 1 <= 1) /\ (g + 1) - 1 = g
      BY <1>3
    <3> QED
      BY <1>5, <2>3, <3>1 DEF rest
  <2> QED
    BY <1>3, <2>1, <2>3, <2>4
<1>8. DOMAIN block = 1..(n + 1)
  BY <1>7, LenProperties
<1> HIDE DEF block
<1>9. \A i \in 1..(n + 1) : i = 1 \/ \E g \in 1..n : i = g + 1
  <2> SUFFICES ASSUME NEW i \in 1..(n + 1), i # 1 PROVE i - 1 \in 1..n /\ i = (i - 1) + 1
    OBVIOUS
  <2> QED
    BY <1>3
<1>10. \A i \in 1..(n + 1) : block[i].of = s
  BY <1>6, <1>7, <1>9, <1>i
<1>11. Neat(block)
  <2> SUFFICES ASSUME NEW i \in 1..(n + 1), block[i].kind = "image"
               PROVE  i > 1 /\ block[i - 1].of = block[i].of /\ block[i].shows \in FittingGroups
    BY <1>8 DEF Neat
  <2>1. PICK g \in 1..n : i = g + 1
    BY <1>6, <1>7, <1>9
  <2>2. i - 1 \in 1..(n + 1) /\ i > 1
    BY <1>3, <2>1
  <2>3. block[i].shows = groups[g]
    BY <1>7, <1>i, <2>1
  <2> QED
    BY <1>3, <1>10, <2>2, <2>3
<1>12. Content(s) \in Range(block)
  BY <1>3, <1>7, <1>8 DEF Range
<1>13. ASSUME NEW p \in Range(planned[s].images)
       PROVE  \E slide \in Range(block) : p \in Range(slide.shows)
  <2>1. PICK g \in 1..n : p \in Range(groups[g])
    BY <1>2, <1>3 DEF Grouped
  <2>2. image(g) \in Range(block)
    <3>1. g + 1 \in 1..(n + 1) /\ block[g + 1] = image(g)
      BY <1>3, <1>7
    <3> QED
      BY <1>8, <3>1 DEF Range
  <2>3. p \in Range(image(g).shows)
    BY <1>i, <2>1
  <2> QED
    BY <2>2, <2>3
<1> QED
  BY <1>7, <1>11, <1>12, <1>13 DEF block

LEMMA NeatConcat ==
    ASSUME NEW a \in Seq(Slide), NEW b \in Seq(Slide), Neat(a), Neat(b)
    PROVE  Neat(a \o b)
<1> DEFINE c == a \o b
           m == Len(a)
           n == Len(b)
<1>1. m \in Nat /\ n \in Nat /\ DOMAIN a = 1..m /\ DOMAIN b = 1..n
  BY LenProperties
<1>2. c \in Seq(Slide) /\ Len(c) = m + n
      /\ \A i \in 1..(m + n) : c[i] = IF i <= m THEN a[i] ELSE b[i - m]
  BY ConcatProperties
<1>3. DOMAIN c = 1..(m + n)
  BY <1>2, LenProperties
<1> HIDE DEF c, m, n
<1> SUFFICES ASSUME NEW i \in 1..(m + n), c[i].kind = "image"
             PROVE  i > 1 /\ c[i - 1].of = c[i].of /\ c[i].shows \in FittingGroups
  BY <1>3 DEF Neat, c
<1>4. CASE i <= m
  <2>1. i \in 1..m /\ c[i] = a[i]
    BY <1>1, <1>2, <1>4
  <2>2. i > 1 /\ a[i - 1].of = a[i].of /\ a[i].shows \in FittingGroups
    BY <1>1, <2>1 DEF Neat
  <2>3. i - 1 \in 1..(m + n) /\ i - 1 <= m
    BY <1>1, <1>4, <2>2
  <2>4. c[i - 1] = a[i - 1]
    BY <1>2, <2>3
  <2> QED
    BY <2>1, <2>2, <2>4
<1>5. CASE ~(i <= m)
  <2>a. i - m \in 1..n
    BY <1>1, <1>5
  <2>1. i - m \in 1..n /\ c[i] = b[i - m]
    BY <1>2, <1>5, <2>a
  <2>2. i - m > 1 /\ b[(i - m) - 1].of = b[i - m].of /\ b[i - m].shows \in FittingGroups
    BY <1>1, <2>1 DEF Neat
  <2>3. i - 1 \in 1..(m + n) /\ ~(i - 1 <= m) /\ (i - 1) - m = (i - m) - 1
    BY <1>1, <2>1, <2>2
  <2>4. c[i - 1] = b[(i - m) - 1]
    BY <1>2, <2>3
  <2> QED
    BY <1>1, <2>1, <2>2, <2>3, <2>4
<1> QED
  BY <1>4, <1>5

LEMMA FlatFacts ==
    ASSUME pictures \in Seq(Orientations), planned \in Seq(PlannedSlide)
    PROVE  LET flat == FlattenSeq([s \in DOMAIN planned |-> Block(s)])
           IN  /\ flat \in Seq(Slide) /\ Neat(flat)
               /\ \A s \in DOMAIN planned : Range(Block(s)) \subseteq Range(flat)
<1> DEFINE N == Len(planned)
           blocks == [s \in DOMAIN planned |-> Block(s)]
<1>1. N \in Nat /\ DOMAIN planned = 1..N
  BY LenProperties
<1>2. \A s \in 1..N : blocks[s] = Block(s) /\ Block(s) \in Seq(Slide) /\ Neat(Block(s))
  BY <1>1, BlockFacts
<1>3. blocks \in Seq(Seq(Slide)) /\ Len(blocks) = N
  BY <1>1, <1>2
<1> HIDE DEF N, blocks
<1>4. PICK f \in [0..N -> Seq(Slide)] :
        /\ f[0] = <<>>
        /\ \A n \in 1..N : f[n] = f[n - 1] \o blocks[n]
        /\ FlattenSeq(blocks) = f[N]
  BY <1>3, FlattenFacts
<1> DEFINE Good == {n \in 0..N : Neat(f[n]) /\ \A s \in 1..n : Range(Block(s)) \subseteq Range(f[n])}
<1>5. 0 \in Good
  BY <1>1, <1>4 DEF Neat
<1>6. ASSUME NEW n \in 0..(N - 1), n \in Good
      PROVE  n + 1 \in Good
  <2>1. n + 1 \in 1..N /\ n + 1 \in 0..N /\ (n + 1) - 1 = n /\ n \in 0..N
    BY <1>1
  <2>2. f[n + 1] = f[n] \o blocks[n + 1]
    BY <1>4, <2>1
  <2>3. f[n + 1] = f[n] \o Block(n + 1) /\ f[n] \in Seq(Slide) /\ Block(n + 1) \in Seq(Slide)
    BY <1>2, <1>4, <2>1, <2>2
  <2>4. Neat(f[n + 1])
    BY <1>2, <1>6, <2>1, <2>3, NeatConcat
  <2>5. Range(f[n + 1]) = Range(f[n]) \cup Range(Block(n + 1))
    BY <2>3, RangeConcatenation
  <2>6. \A s \in 1..(n + 1) : Range(Block(s)) \subseteq Range(f[n + 1])
    <3> SUFFICES ASSUME NEW s \in 1..(n + 1) PROVE Range(Block(s)) \subseteq Range(f[n + 1])
      OBVIOUS
    <3>1. s \in 1..n \/ s = n + 1
      BY <2>1
    <3> QED
      BY <1>6, <2>5, <3>1
  <2> QED
    BY <2>1, <2>4, <2>6
<1>7. N \in Good
  <2> HIDE DEF Good
  <2>1. \A n \in 0..N : n \in Good
    BY <1>1, <1>5, <1>6, IntervalInduction
  <2> QED
    BY <1>1, <2>1
<1>8. f[N] \in Seq(Slide)
  BY <1>1, <1>4
<1>9. FlattenSeq(blocks) = FlattenSeq([s \in DOMAIN planned |-> Block(s)])
  BY DEF blocks
<1> QED
  BY <1>1, <1>4, <1>7, <1>8, <1>9

\* What is planned: every image of the module is on a planned slide, and
\* planned_slides are all of them until the fallbacks drop the empty ones.
PlanInv ==
    phase \in {"layout", "check", "mended"} =>
        /\ planned \in Seq(PlannedSlide)
        /\ planned # <<>> => \A p \in DOMAIN pictures :
                               \E s \in DOMAIN planned : p \in Range(planned[s].images)
        /\ kept = IF phase = "mended" THEN {s \in DOMAIN planned : ~planned[s].empty}
                  ELSE DOMAIN planned

\* What is written: the scripts of the deck's first slides, in order.
WritingInv ==
    /\ Len(generated) \in 0..Len(deck) /\ generated = [k \in 1..Len(generated) |-> k]
    /\ phase # "writing" => generated = <<>>

DeckTyped == hasText \in BOOLEAN /\ pictures \in Seq(Orientations) /\ deck \in Seq(Slide)
DeckInv == DeckTyped /\ PlanInv /\ WritingInv /\ ImagesShown /\ NeverCoverOnly /\ ScriptsFit

LEMMA DeckStarts == DeckInit => DeckInv
<1> SUFFICES ASSUME NEW t \in BOOLEAN, NEW ps \in SeqOf(Orientations, MaxImages), ModuleWith(t, ps)
             PROVE  DeckInv
  BY DEF DeckInit
<1>1. hasText \in BOOLEAN /\ pictures \in Seq(Orientations)
  BY DEF ModuleWith, SeqOf
<1>2. deck = <<>> /\ scripts = <<>> /\ generated = <<>> /\ phase = "idle"
  BY DEF ModuleWith
<1>3. deck \in Seq(Slide) /\ DOMAIN deck = {} /\ Len(deck) = 0 /\ Len(generated) = 0
  BY <1>2, EmptySeq
<1>4. scripts = [i \in DOMAIN deck |-> 0] /\ generated = [k \in 1..0 |-> k]
  BY <1>2, <1>3
<1> QED
  BY <1>1, <1>2, <1>3, <1>4 DEF DeckInv, DeckTyped, PlanInv, WritingInv, ImagesShown,
     NeverCoverOnly, ScriptsFit

\* A step that leaves the deck and its scripts alone disturbs the plan or the writing only.
LEMMA DeckFrame ==
    ASSUME DeckInv, UNCHANGED <<hasText, pictures, deck, scripts>>
    PROVE  /\ DeckTyped' /\ ImagesShown' /\ NeverCoverOnly' /\ ScriptsFit'
           /\ Slide' = Slide /\ PlannedSlide' = PlannedSlide
  BY DEF DeckInv, DeckTyped, ImagesShown, NeverCoverOnly, ScriptsFit, Slide, PlannedSlide, IsImage

LEMMA PlanKeeps ==
    ASSUME DeckInv, Plan
    PROVE  DeckInv'
<1>a. PICK n \in 0..(IF hasText THEN MaxPlanned ELSE 0) :
        \E full \in SUBSET (1..n) :
        \E mapping \in [DOMAIN pictures -> {bs \in SUBSET (1..(n + 1)) : Cardinality(bs) <= 2}] :
        \E images \in [1..n -> SeqOf(DOMAIN pictures, Len(pictures))] :
          /\ \A s \in 1..n : ImagesOn(full, mapping, s, images[s])
          /\ planned' = [s \in 1..n |-> [empty |-> s \notin full, fault |-> "untitled", images |-> images[s]]]
  BY DEF Plan
<1>1. PICK full \in SUBSET (1..n),
           mapping \in [DOMAIN pictures -> {bs \in SUBSET (1..(n + 1)) : Cardinality(bs) <= 2}],
           images \in [1..n -> SeqOf(DOMAIN pictures, Len(pictures))] :
        /\ \A s \in 1..n : ImagesOn(full, mapping, s, images[s])
        /\ planned' = [s \in 1..n |-> [empty |-> s \notin full, fault |-> "untitled", images |-> images[s]]]
  BY <1>a
<1>2. n \in Nat
  BY DeckAssumption
<1>3. UNCHANGED <<hasText, pictures, deck, scripts, generated>> /\ phase' = "layout" /\ phase = "plan"
      /\ kept' = DOMAIN planned'
  BY DEF Plan
<1>4. \A s \in 1..n : images[s] \in Seq(DOMAIN pictures)
  BY DEF SeqOf
<1>5. planned' \in Seq(PlannedSlide) /\ DOMAIN planned' = 1..n /\ (planned' # <<>> => n >= 1)
  <2>1. \A s \in 1..n : planned'[s] \in PlannedSlide
    BY <1>1, <1>4 DEF PlannedSlide, Faults
  <2>2. planned' # <<>> => n # 0
    BY <1>1, EmptySeq
  <2> QED
    BY <1>1, <1>2, <2>1, <2>2
<1>6. ASSUME planned' # <<>>, NEW p \in DOMAIN pictures
      PROVE  \E s \in DOMAIN planned' : p \in Range(planned'[s].images)
  <2>1. PICK s \in 1..n : s \in Targets(full, mapping[p])
    <3> DEFINE bs == mapping[p]
    <3>1. n >= 1 /\ \A b \in bs : SlideOf(full, b) \in 1..n
      <4>1. n >= 1
        BY <1>5, <1>6
      <4>2. ASSUME NEW b \in bs PROVE SlideOf(full, b) \in 1..n
        <5>1. CASE \E s \in full : BulletOf(full, s) = b
          BY <5>1 DEF SlideOf
        <5>2. CASE ~ \E s \in full : BulletOf(full, s) = b
          BY <1>2, <4>1, <5>2 DEF SlideOf
        <5> QED
          BY <5>1, <5>2
      <4> QED
        BY <4>1, <4>2
    <3>2. CASE bs = {}
      <4>1. 1 \in 1..n /\ 1 \in Targets(full, bs)
        BY <1>2, <3>1, <3>2 DEF Targets
      <4> QED
        BY <4>1
    <3>3. CASE bs # {}
      <4>1. PICK b \in bs : TRUE
        BY <3>3
      <4>2. SlideOf(full, b) \in Targets(full, bs)
        BY <3>3 DEF Targets
      <4> QED
        BY <3>1, <4>1, <4>2
    <3> QED
      BY <3>2, <3>3
  <2>2. p \in Range(images[s])
    BY <1>1, <2>1 DEF ImagesOn
  <2> QED
    BY <1>1, <2>2
<1>7. PlanInv'
  BY <1>3, <1>5, <1>6, DeckFrame DEF PlanInv
<1>8. WritingInv'
  BY <1>3 DEF DeckInv, WritingInv
<1> QED
  BY <1>3, <1>7, <1>8, DeckFrame DEF DeckInv

LEMMA LayoutKeeps ==
    ASSUME DeckInv, AssignLayouts
    PROVE  DeckInv'
<1>1. PICK fault \in [DOMAIN planned -> Faults], filled \in SUBSET DOMAIN planned :
        planned' = [s \in DOMAIN planned |->
                [planned[s] EXCEPT !.fault = fault[s], !.empty = @ /\ s \notin filled]]
  BY DEF AssignLayouts
<1>2. UNCHANGED <<hasText, pictures, deck, scripts, generated, kept>> /\ phase = "layout" /\ phase' = "check"
  BY DEF AssignLayouts
<1>3. /\ planned \in Seq(PlannedSlide) /\ kept = DOMAIN planned
      /\ planned # <<>> => \A p \in DOMAIN pictures :
                             \E s \in DOMAIN planned : p \in Range(planned[s].images)
  BY <1>2 DEF DeckInv, PlanInv
<1> DEFINE n == Len(planned)
<1>4. n \in Nat /\ DOMAIN planned = 1..n /\ \A s \in 1..n : planned[s] \in PlannedSlide
  BY <1>3, LenProperties, ElementOfSeq
<1>5. planned = <<>> => n = 0
  BY EmptySeq
<1> HIDE DEF n
<1>6. /\ DOMAIN planned' = 1..n
      /\ \A s \in 1..n : planned'[s] \in PlannedSlide /\ planned'[s].images = planned[s].images
  BY <1>1, <1>4 DEF PlannedSlide
<1>7. planned' \in Seq(PlannedSlide) /\ (planned' # <<>> => planned # <<>>)
  <2>1. planned' = [s \in 1..n |-> planned'[s]]
    BY <1>1, <1>4
  <2>2. planned' \in Seq(PlannedSlide)
    BY <1>4, <1>6, <2>1
  <2>3. ASSUME planned = <<>> PROVE planned' = <<>>
    <3>1. n = 0 /\ Len(planned') = 0
      BY <1>4, <1>5, <1>6, <2>2, <2>3, LenProperties
    <3> QED
      BY <2>2, <3>1, EmptySeq
  <2> QED
    BY <2>2, <2>3
<1>8. PlanInv'
  BY <1>2, <1>3, <1>4, <1>6, <1>7, DeckFrame DEF PlanInv
<1>9. WritingInv'
  BY <1>2 DEF DeckInv, WritingInv
<1> QED
  BY <1>2, <1>8, <1>9, DeckFrame DEF DeckInv

LEMMA FallbacksKeep ==
    ASSUME DeckInv, ApplyFallbacks
    PROVE  DeckInv'
<1>1. planned' = [s \in DOMAIN planned |->
            [planned[s] EXCEPT !.fault = IF @ \in {"untitled", "noData"} THEN "none" ELSE @]]
  BY DEF ApplyFallbacks
<1>2. /\ UNCHANGED <<hasText, pictures, deck, scripts, generated>> /\ phase = "check" /\ phase' = "mended"
      /\ kept' = {s \in DOMAIN planned : ~planned[s].empty}
  BY DEF ApplyFallbacks
<1>3. /\ planned \in Seq(PlannedSlide)
      /\ planned # <<>> => \A p \in DOMAIN pictures :
                             \E s \in DOMAIN planned : p \in Range(planned[s].images)
  BY <1>2 DEF DeckInv, PlanInv
<1> DEFINE n == Len(planned)
<1>4. n \in Nat /\ DOMAIN planned = 1..n /\ \A s \in 1..n : planned[s] \in PlannedSlide
  BY <1>3, LenProperties, ElementOfSeq
<1>5. planned = <<>> => n = 0
  BY EmptySeq
<1> HIDE DEF n
<1>6. /\ DOMAIN planned' = 1..n
      /\ \A s \in 1..n : /\ planned'[s] \in PlannedSlide /\ planned'[s].images = planned[s].images
                         /\ planned'[s].empty = planned[s].empty
  BY <1>1, <1>4 DEF PlannedSlide, Faults
<1>7. planned' \in Seq(PlannedSlide) /\ (planned' # <<>> => planned # <<>>)
  <2>1. planned' = [s \in 1..n |-> planned'[s]]
    BY <1>1, <1>4
  <2>2. planned' \in Seq(PlannedSlide)
    BY <1>4, <1>6, <2>1
  <2>3. ASSUME planned = <<>> PROVE planned' = <<>>
    <3>1. n = 0 /\ Len(planned') = 0
      BY <1>4, <1>5, <1>6, <2>2, <2>3, LenProperties
    <3> QED
      BY <2>2, <3>1, EmptySeq
  <2> QED
    BY <2>2, <2>3
<1>8. kept' = {s \in DOMAIN planned' : ~planned'[s].empty}
  BY <1>2, <1>4, <1>6
<1>a. planned' # <<>> => \A p \in DOMAIN pictures :
                             \E s \in DOMAIN planned' : p \in Range(planned'[s].images)
  BY <1>3, <1>4, <1>6, <1>7
<1>9. PlanInv'
  BY <1>2, <1>7, <1>8, <1>a, DeckFrame DEF PlanInv
<1>10. WritingInv'
  BY <1>2 DEF DeckInv, WritingInv
<1> QED
  BY <1>2, <1>9, <1>10, DeckFrame DEF DeckInv

LEMMA SaveDeckKeeps ==
    ASSUME DeckInv, SaveDeck
    PROVE  DeckInv'
<1> DEFINE blocks == [s \in DOMAIN planned |-> Block(s)]
           flat == FlattenSeq(blocks)
           one == <<Cover>>
<1>1. /\ UNCHANGED <<hasText, pictures, generated>> /\ phase \in {"check", "mended"} /\ phase' = "idle"
      /\ Usable /\ ~NothingPlanned /\ scripts' = [i \in DOMAIN deck' |-> 0]
  BY DEF SaveDeck
<1>2. deck' = one \o flat
  BY DEF SaveDeck, Block
<1>3. /\ pictures \in Seq(Orientations) /\ planned \in Seq(PlannedSlide)
      /\ planned # <<>> => \A p \in DOMAIN pictures :
                             \E s \in DOMAIN planned : p \in Range(planned[s].images)
      /\ kept = IF phase = "mended" THEN {s \in DOMAIN planned : ~planned[s].empty}
                  ELSE DOMAIN planned
  BY <1>1 DEF DeckInv, DeckTyped, PlanInv
<1>4. /\ flat \in Seq(Slide) /\ Neat(flat)
      /\ \A s \in DOMAIN planned : Range(Block(s)) \subseteq Range(flat)
  BY <1>3, FlatFacts
<1>5. one \in Seq(Slide) /\ Neat(one) /\ Range(one) = {Cover}
  <2>1. Cover \in Slide /\ Cover.kind # "image"
    BY EmptySeq DEF Cover, Slide
  <2>2. one \in Seq(Slide) /\ DOMAIN one = 1..1 /\ one[1] = Cover
    BY <2>1
  <2>3. Neat(one)
    BY <2>1, <2>2 DEF Neat
  <2> QED
    BY <2>2, <2>3 DEF Range
<1> HIDE DEF one, flat
<1>6. /\ deck' \in Seq(Slide) /\ Neat(deck') /\ Range(deck') = Range(one) \cup Range(flat)
  BY <1>2, <1>4, <1>5, NeatConcat, ConcatProperties, RangeConcatenation
<1>7. Slide' = Slide /\ deck' \in Seq(Slide')
  BY <1>1, <1>6 DEF Slide
<1>8. DeckTyped'
  BY <1>1, <1>7 DEF DeckInv, DeckTyped
<1>9. PlanInv'
  BY <1>1 DEF PlanInv
<1>10. WritingInv'
  <2>1. generated = <<>> /\ Len(generated) = 0
    BY <1>1, EmptySeq DEF DeckInv, WritingInv
  <2>2. Len(deck') \in Nat
    BY <1>6, LenProperties
  <2> QED
    BY <1>1, <2>1, <2>2 DEF DeckInv, WritingInv
<1> DEFINE N == Len(deck')
<1>11. N \in Nat /\ DOMAIN deck' = 1..N /\ \A i \in 1..N : deck'[i] \in Slide
  BY <1>6, LenProperties, ElementOfSeq
<1> HIDE DEF N
<1>12. \A slide \in Range(flat) : \E i \in DOMAIN deck' : deck'[i] = slide
  BY <1>6 DEF Range
<1>13. hasText => \E s \in DOMAIN planned : ~planned[s].empty
  <2> SUFFICES ASSUME hasText PROVE \E s \in DOMAIN planned : ~planned[s].empty
    OBVIOUS
  <2>1. kept # {}
    BY <1>1 DEF NothingPlanned
  <2>2. CASE phase = "mended"
    BY <1>3, <2>1, <2>2
  <2>3. CASE phase # "mended"
    BY <1>1, <1>3, <2>1, <2>3 DEF Usable, Valid
  <2> QED
    BY <2>2, <2>3
<1>14. NeverCoverOnly'
  <2> SUFFICES ASSUME hasText PROVE \E i \in DOMAIN deck' : deck'[i].kind = "content"
    BY <1>1 DEF NeverCoverOnly
  <2>1. PICK s \in DOMAIN planned : ~planned[s].empty
    BY <1>13
  <2>2. Content(s) \in Range(flat)
    BY <1>3, <1>4, BlockFacts
  <2>3. Content(s).kind = "content"
    BY <2>1 DEF Content
  <2> QED
    BY <1>12, <2>2, <2>3
<1>15. ImagesShown'
  <2> SUFFICES ASSUME hasText
               PROVE  /\ \A p \in DOMAIN pictures : \E i \in DOMAIN deck' : p \in Range(deck'[i].shows)
                      /\ \A i \in DOMAIN deck' : deck'[i].kind = "image" =>
                           /\ deck'[i - 1].of = deck'[i].of
                           /\ \/ Len(deck'[i].shows) = 1
                              \/ Len(deck'[i].shows) <= GroupSize
                                 /\ \A p \in Range(deck'[i].shows) : pictures[p] = "vertical"
    BY <1>1 DEF ImagesShown, IsImage
  <2>1. planned # <<>>
    BY <1>13, EmptySeq
  <2>2. ASSUME NEW p \in DOMAIN pictures
        PROVE  \E i \in DOMAIN deck' : p \in Range(deck'[i].shows)
    <3>1. PICK s \in DOMAIN planned : p \in Range(planned[s].images)
      BY <1>3, <2>1
    <3>2. PICK slide \in Range(Block(s)) : p \in Range(slide.shows)
      BY <1>3, <3>1, BlockFacts
    <3> QED
      BY <1>4, <1>12, <3>2
  <2>3. ASSUME NEW i \in DOMAIN deck', deck'[i].kind = "image"
        PROVE  /\ deck'[i - 1].of = deck'[i].of
               /\ \/ Len(deck'[i].shows) = 1
                  \/ Len(deck'[i].shows) <= GroupSize
                     /\ \A p \in Range(deck'[i].shows) : pictures[p] = "vertical"
    <3>1. deck'[i - 1].of = deck'[i].of /\ deck'[i].shows \in FittingGroups
      BY <1>6, <2>3 DEF Neat
    <3> QED
      BY <3>1 DEF FittingGroups, Fitting
  <2> QED
    BY <2>2, <2>3
<1>16. ScriptsFit'
  BY <1>1 DEF ScriptsFit
<1> QED
  BY <1>8, <1>9, <1>10, <1>14, <1>15, <1>16 DEF DeckInv

LEMMA BatchFacts ==
    ASSUME DeckInv, NextSlide <= Len(deck), ~IsImage(NextSlide)
    PROVE  Cardinality(Batch) \in Nat /\ Len(generated) + Cardinality(Batch) <= Len(deck)
<1> DEFINE L == Len(generated)
           N == Len(deck)
<1>1. L \in Nat /\ N \in Nat /\ L + 1 <= N
  BY LenProperties DEF DeckInv, DeckTyped, WritingInv, NextSlide
<1>2. Batch \subseteq (L + 1)..N
  <2> DEFINE S == {N, L + 1 + BatchSize - 1}
             m == Min(S)
  <2>1. BatchSize \in Nat /\ L + 1 + BatchSize - 1 \in Nat
    BY <1>1, DeckAssumption
  <2>2. \E x \in S : \A y \in S : x <= y
    BY <1>1, <2>1
  <2>3. m \in S /\ \A y \in S : m <= y
    <3> HIDE DEF S
    <3> QED
      BY <2>2 DEF Min
  <2>4. m <= N /\ m \in Nat
    BY <1>1, <2>1, <2>3
  <2>5. Batch \subseteq (L + 1)..m
    BY DEF Batch, NextSlide
  <2> HIDE DEF m, L, N
  <2> QED
    BY <1>1, <2>4, <2>5
<1> HIDE DEF L, N
<1>3. IsFiniteSet((L + 1)..N) /\ Cardinality((L + 1)..N) = N - L
  <2>1. L + 1 \in Int /\ N \in Int
    BY <1>1
  <2>2. IsFiniteSet((L + 1)..N) /\ Cardinality((L + 1)..N) = IF L + 1 > N THEN 0 ELSE N - (L + 1) + 1
    BY <2>1, FS_Interval
  <2> QED
    BY <1>1, <2>2
<1>4. IsFiniteSet(Batch) /\ Cardinality(Batch) <= N - L
  BY <1>2, <1>3, FS_Subset
<1>5. Cardinality(Batch) \in Nat
  BY <1>4, FS_CardinalityType
<1> QED
  BY <1>1, <1>4, <1>5 DEF L, N

\* A longer narration is numbered like the deck if what is added continues it.
LEMMA NumbersConcat ==
    ASSUME NEW L \in Nat, NEW c \in Nat
    PROVE  [k \in 1..L |-> k] \o [k \in 1..c |-> L + k] = [k \in 1..(L + c) |-> k]
<1> DEFINE a == [k \in 1..L |-> k]
           b == [k \in 1..c |-> L + k]
           ab == a \o b
           all == [k \in 1..(L + c) |-> k]
<1>1. a \in Seq(Nat) /\ Len(a) = L /\ b \in Seq(Nat) /\ Len(b) = c
  OBVIOUS
<1>2. all \in Seq(Nat) /\ Len(all) = L + c
  OBVIOUS
<1>3. (\A k \in 1..L : a[k] = k) /\ (\A k \in 1..c : b[k] = L + k) /\ (\A k \in 1..(L + c) : all[k] = k)
  OBVIOUS
<1> HIDE DEF a, b, all
<1>4. /\ ab \in Seq(Nat) /\ Len(ab) = Len(a) + Len(b)
      /\ \A i \in 1..(Len(a) + Len(b)) : ab[i] = IF i <= Len(a) THEN a[i] ELSE b[i - Len(a)]
  BY <1>1, ConcatProperties
<1> HIDE DEF ab
<1>5. \A i \in 1..(L + c) : ab[i] = i
  <2> SUFFICES ASSUME NEW i \in 1..(L + c) PROVE ab[i] = i
    OBVIOUS
  <2>1. CASE i <= L
    BY <1>1, <1>3, <1>4, <2>1
  <2>2. CASE ~(i <= L)
    <3>1. i - L \in 1..c /\ L + (i - L) = i
      BY <2>2
    <3> QED
      BY <1>1, <1>3, <1>4, <2>2, <3>1
  <2> QED
    BY <2>1, <2>2
<1>6. ab = all
  BY <1>1, <1>2, <1>3, <1>4, <1>5, SeqEqual
<1> QED
  BY <1>6 DEF ab, a, b, all

LEMMA WriteBatchKeeps ==
    ASSUME DeckInv, WriteBatch
    PROVE  DeckInv'
<1> DEFINE L == Len(generated)
           c == Cardinality(Batch)
<1>1. /\ NextSlide <= Len(deck) /\ ~IsImage(NextSlide) /\ phase' = phase /\ phase = "writing"
      /\ UNCHANGED <<hasText, pictures, deck, scripts, planned, kept>>
      /\ generated' = generated \o [k \in 1..c |-> L + k]
  BY DEF WriteBatch, Anchored
<1>2. c \in Nat /\ L + c <= Len(deck)
  BY <1>1, BatchFacts
<1>3. L \in Nat /\ generated = [k \in 1..L |-> k] /\ Len(deck) \in Nat
  BY LenProperties DEF DeckInv, DeckTyped, WritingInv
<1> HIDE DEF L, c
<1>4. generated' = [k \in 1..(L + c) |-> k]
  BY <1>1, <1>2, <1>3, NumbersConcat
<1>5. Len(generated') = L + c
  BY <1>2, <1>3, <1>4
<1>6. WritingInv'
  BY <1>1, <1>2, <1>3, <1>4, <1>5 DEF WritingInv
<1>7. PlanInv'
  BY <1>1 DEF PlanInv
<1> QED
  BY <1>1, <1>6, <1>7, DeckFrame DEF DeckInv

LEMMA WriteImageKeeps ==
    ASSUME DeckInv, WriteImageScript
    PROVE  DeckInv'
<1> DEFINE L == Len(generated)
<1>1. /\ L + 1 <= Len(deck) /\ phase' = phase /\ phase = "writing"
      /\ UNCHANGED <<hasText, pictures, deck, scripts, planned, kept>>
      /\ generated' = Append(generated, L + 1)
  BY DEF WriteImageScript, NextSlide
<1>3. L \in Nat /\ generated = [k \in 1..L |-> k] /\ Len(deck) \in Nat
  BY LenProperties DEF DeckInv, DeckTyped, WritingInv
<1>4. generated' = [k \in 1..(L + 1) |-> k]
  <2> DEFINE new == Append(generated, L + 1)
             all == [k \in 1..(L + 1) |-> k]
  <2> HIDE DEF L
  <2>1. generated \in Seq(Nat) /\ Len(generated) = L /\ \A i \in 1..L : generated[i] = i
    BY <1>3
  <2>2. new \in Seq(Nat) /\ Len(new) = L + 1 /\ new[L + 1] = L + 1 /\ \A i \in 1..L : new[i] = i
    BY <1>3, <2>1, AppendProperties
  <2>3. all \in Seq(Nat) /\ Len(all) = L + 1 /\ \A i \in 1..(L + 1) : all[i] = i
    BY <1>3
  <2> HIDE DEF new, all
  <2>4. \A i \in 1..(L + 1) : new[i] = all[i]
    <3> SUFFICES ASSUME NEW i \in 1..(L + 1) PROVE new[i] = i
      BY <2>3
    <3>1. i \in 1..L \/ i = L + 1
      BY <1>3
    <3> QED
      BY <2>2, <3>1
  <2>5. new = all
    BY <2>2, <2>3, <2>4, SeqEqual
  <2> QED
    BY <1>1, <2>5 DEF new, all
<1> HIDE DEF L
<1>5. Len(generated') = L + 1
  BY <1>3, <1>4
<1>6. WritingInv'
  BY <1>1, <1>3, <1>4, <1>5 DEF WritingInv
<1>7. PlanInv'
  BY <1>1 DEF PlanInv
<1> QED
  BY <1>1, <1>6, <1>7, DeckFrame DEF DeckInv

LEMMA SaveScriptsKeeps ==
    ASSUME DeckInv, SaveScripts
    PROVE  DeckInv'
<1>1. /\ UNCHANGED <<hasText, pictures, deck, planned, kept>> /\ phase' = "idle"
      /\ generated' = <<>> /\ scripts' = generated /\ Len(generated) + 1 > Len(deck)
  BY DEF SaveScripts, NextSlide
<1>2. DOMAIN deck = 1..Len(deck) /\ Len(deck) \in Nat /\ Len(generated) \in 0..Len(deck)
      /\ generated = [k \in 1..Len(generated) |-> k]
  BY LenProperties DEF DeckInv, DeckTyped, WritingInv
<1>3. generated = [i \in DOMAIN deck |-> i]
  <2> DEFINE L == Len(generated)
             N == Len(deck)
  <2>a. L \in 0..N /\ N \in Nat /\ L + 1 > N /\ generated = [k \in 1..L |-> k] /\ DOMAIN deck = 1..N
    BY <1>1, <1>2
  <2> HIDE DEF L, N
  <2>1. L = N
    BY <2>a
  <2> QED
    BY <2>a, <2>1
<1>4. ScriptsFit'
  BY <1>1, <1>3 DEF ScriptsFit
<1>5. WritingInv'
  <2>1. Len(generated') = 0 /\ generated' = [k \in 1..0 |-> k]
    BY <1>1
  <2> QED
    BY <1>1, <1>2, <2>1 DEF WritingInv
<1>6. DeckTyped' /\ ImagesShown' /\ NeverCoverOnly' /\ PlanInv'
  BY <1>1 DEF DeckInv, DeckTyped, ImagesShown, NeverCoverOnly, PlanInv, Slide, IsImage
<1> QED
  BY <1>4, <1>5, <1>6 DEF DeckInv

LEMMA DeckStep == DeckInv /\ [DeckNext]_deckVars => DeckInv'
<1> SUFFICES ASSUME DeckInv, [DeckNext]_deckVars PROVE DeckInv'
  OBVIOUS
<1>e. Len(<<>>) = 0 /\ <<>> = [k \in 1..0 |-> k] /\ Len(deck) \in Nat
  BY LenProperties DEF DeckInv, DeckTyped
<1>1. CASE StartSlides \/ Retry \/ PlanningFails
  <2>1. UNCHANGED <<hasText, pictures, deck, scripts, generated>> /\ phase # "writing"
        /\ phase' \in {"plan", "idle"}
    BY <1>1 DEF StartSlides, Retry, PlanningFails
  <2>2. PlanInv' /\ WritingInv'
    BY <2>1 DEF DeckInv, PlanInv, WritingInv
  <2> QED
    BY <2>1, <2>2, DeckFrame DEF DeckInv
<1>2. CASE StartScripts \/ WritingFails
  <2>1. UNCHANGED <<hasText, pictures, deck, scripts>> /\ generated' = <<>>
        /\ phase' \in {"writing", "idle"}
    BY <1>2 DEF StartScripts, WritingFails
  <2>2. WritingInv'
    BY <1>e, <2>1 DEF WritingInv
  <2>3. PlanInv'
    BY <2>1 DEF PlanInv
  <2> QED
    BY <2>1, <2>2, <2>3, DeckFrame DEF DeckInv
<1>3. CASE UNCHANGED deckVars
  <2>1. UNCHANGED <<hasText, pictures, deck, scripts, generated, phase, planned, kept>>
    BY <1>3 DEF deckVars
  <2>2. PlanInv' /\ WritingInv'
    BY <2>1, DeckFrame DEF DeckInv, PlanInv, WritingInv
  <2> QED
    BY <2>1, <2>2, DeckFrame DEF DeckInv
<1> QED
  BY <1>1, <1>2, <1>3, PlanKeeps, LayoutKeeps, FallbacksKeep, SaveDeckKeeps, WriteBatchKeeps,
     WriteImageKeeps, SaveScriptsKeeps DEF DeckNext

LEMMA DeckHolds == DeckSpec => []DeckInv
  BY DeckStarts, DeckStep, PTL DEF DeckSpec

THEOREM DecksShowImages == DeckSpec => []ImagesShown
<1>1. DeckInv => ImagesShown
  BY DEF DeckInv
<1> QED
  BY <1>1, DeckHolds, PTL

THEOREM DecksTeach == DeckSpec => []NeverCoverOnly
<1>1. DeckInv => NeverCoverOnly
  BY DEF DeckInv
<1> QED
  BY <1>1, DeckHolds, PTL

THEOREM DecksAreNarrated == DeckSpec => []ScriptsFit
<1>1. DeckInv => ScriptsFit
  BY DEF DeckInv
<1> QED
  BY <1>1, DeckHolds, PTL

-----------------------------------------------------------------------------
(***************************************************************************)
(* MediaFiles                                                              *)
(*                                                                         *)
(* The invariant has two halves.  FilesOK relates the files to one         *)
(* another: narration grows by numbers and is never changed once it speaks *)
(* a script, a recorded source or caption is of the video that had its     *)
(* number.  ProcessOK says what a process may rely on between two of its   *)
(* steps: the lock files it holds, the narration and video it has read.    *)
(***************************************************************************)

\* new is what old was, or has become since.
Later(old, new) == old.n <= new.n /\ (old.n = new.n /\ old.script # 0 => new = old)

\* c is about a script that was spoken, and about the video if it has the number.
Spoken(c) == c.script = c.wav.script /\ (mp4.n = c.video => mp4.wav = c.wav) /\ c.video <= files
FitsVideo(c) == c # None => mp4 # None /\ c.video <= files /\ (~c.legacy => Spoken(c))

PlayerOK ==
    /\ FitsVideo(player.meta)
    /\ player.pc # "closed" => player.meta # None
    /\ player.pc \in {"head", "shown"} =>
          /\ player.heard # None /\ player.meta.video = player.heard.n
          /\ ~player.meta.legacy => player.meta.wav = player.heard.wav
                                    /\ player.meta.script = player.heard.wav.script

FilesOK ==
    /\ wav # None => wav.n <= files
    /\ proof # None => /\ wav # None /\ Later(proof.wav, wav)
                       /\ proof.script # 0 /\ proof.wav.script = proof.script
    /\ mp4 # None => mp4.n <= files /\ wav # None /\ Later(mp4.wav, wav)
    /\ source # None => mp4 # None /\ Spoken(source)
    /\ FitsVideo(vtt) /\ FitsVideo(meta) /\ PlayerOK

\* Whoever holds a lock is alone with what it protects.
Speaking == {"speak", "spoken"}
Rendering == {"encode", "package", "record", "rendered", "time", "meta", "finish"}

LocksHeld(p) ==
    /\ proc[p].pc \in Speaking => audioLock
    /\ proc[p].pc \in Rendering => videoLock
Exclude(p, q) ==
    /\ proc[p].pc \in Speaking /\ proc[q].pc \in Speaking => p = q
    /\ proc[p].pc \in Rendering /\ proc[q].pc \in Rendering => p = q

\* The captions that no estimate may replace.
Best == meta # None /\ meta = vtt /\ meta.aligned /\ ~meta.legacy /\ meta.video = mp4.n

SpeakerOK(p) ==
    /\ proc[p].pc # "idle" => proc[p].script # 0
    /\ proc[p].pc = "speak" => wav # None /\ wav.script = 0
    /\ proc[p].pc = "spoken" => wav # None /\ wav.script = proc[p].script

RendererOK(p) ==
    /\ proc[p].pc \in {"encode", "package", "record"} =>
          wav # None /\ proc[p].wav # None /\ Later(proc[p].wav, wav)
    /\ proc[p].pc \in {"package", "record", "rendered", "caption", "time", "meta"} => mp4 # None
    /\ proc[p].pc \in {"package", "record"} => Later(proc[p].wav, mp4.wav)

CaptionerOK(p) ==
    /\ proc[p].pc = "time" =>
          /\ ~Best /\ proc[p].wav # None /\ proc[p].video = mp4.n
          /\ ~proc[p].legacy => Spoken(proc[p])
    /\ proc[p].pc = "meta" => vtt # None

\* A module's video that is made alone.
AloneOK(p) == proc[p].kind = "video" /\ proc[p].alone =>
    /\ proc[p].script = row
    /\ proc[p].pc # "caption"
    /\ proc[p].pc \in {"render", "encode"} => Matches(proc[p].script)
    /\ proc[p].pc = "encode" => wav = proc[p].wav
    /\ proc[p].pc \in Rendering \ {"encode"} => mp4 # None /\ mp4.wav.script = row
    /\ proc[p].pc \in Rendering \ {"encode", "package"} => hls = mp4

ProcessOK(p) == LocksHeld(p) /\ SpeakerOK(p) /\ RendererOK(p) /\ CaptionerOK(p) /\ AloneOK(p)

MediaInv ==
    /\ MediaTypeOK /\ FilesOK
    /\ \A p \in Procs : ProcessOK(p)
    /\ \A p, q \in Procs : Exclude(p, q)

-----------------------------------------------------------------------------
(* Files, and processes that look on.                                      *)

LEMMA MediaNumbers == MaxScripts \in Nat /\ MaxScripts > 0 /\ MaxFiles \in Nat
  BY MediaAssumption DEF MediaAssumption

LEMMA NoneIsNoFile ==
    /\ None \notin Nat /\ None \notin WavFile /\ None \notin ProofFile
    /\ None \notin VideoFile /\ None \notin SourceFile /\ None \notin CaptionFile
  BY MediaAssumption DEF MediaAssumption

LEMMA LaterSame ==
    ASSUME NEW w \in WavFile
    PROVE  Later(w, w)
  BY DEF Later, WavFile

LEMMA LaterOpened ==
    ASSUME NEW old \in WavFile, NEW w \in WavFile, NEW new \in WavFile,
           Later(old, w), w.n < new.n
    PROVE  Later(old, new)
  BY DEF Later, WavFile

LEMMA LaterWritten ==
    ASSUME NEW old \in WavFile, NEW w \in WavFile, NEW s \in Nat,
           Later(old, w), w.script = 0
    PROVE  Later(old, [w EXCEPT !.script = s]) /\ [w EXCEPT !.script = s].n = w.n
           /\ [w EXCEPT !.script = s].script = s /\ [w EXCEPT !.script = s] \in WavFile
  BY DEF Later, WavFile

LEMMA Types ==
    ASSUME MediaTypeOK
    PROVE  /\ row \in Nat /\ row # 0 /\ row \in 0..MaxScripts /\ files \in Nat
           /\ wav # None => wav \in WavFile
           /\ proof # None => proof \in ProofFile
           /\ mp4 # None => mp4 \in VideoFile /\ mp4.n \in Nat /\ mp4.wav \in WavFile
           /\ source # None => source \in SourceFile /\ source.wav \in WavFile
           /\ vtt # None => vtt \in CaptionFile
           /\ meta # None => meta \in CaptionFile
           /\ \A p \in Procs : /\ proc[p] \in Process /\ proc[p].script \in Nat
                               /\ proc[p].wav # None => proc[p].wav \in WavFile
  BY MediaNumbers DEF MediaTypeOK, Process, VideoFile, SourceFile

LEMMA IdleIsProcess == Idle \in Process /\ Idle.pc = "idle" /\ Idle.alone = FALSE
<1>1. 0 \in 0..MaxScripts
  BY MediaNumbers
<1> QED
  BY <1>1 DEF Idle, Process

\* p does its step; the others stay but are not alone.
Same(s, r) ==
    /\ s.pc = r.pc /\ s.kind = r.kind /\ s.script = r.script /\ s.wav = r.wav
    /\ s.video = r.video /\ s.legacy = r.legacy

LEMMA DoesFacts ==
    ASSUME MediaTypeOK, NEW p \in Procs, NEW r \in Process, Does(p, r)
    PROVE  /\ proc' \in [Procs -> Process] /\ proc'[p] = r
           /\ \A q \in Procs \ {p} : Same(proc'[q], proc[q]) /\ proc'[q].alone = FALSE
<1>1. proc \in [Procs -> Process]
  BY DEF MediaTypeOK
<1>2. \A q \in Procs : /\ [proc[q] EXCEPT !.alone = FALSE] \in Process
                       /\ Same([proc[q] EXCEPT !.alone = FALSE], proc[q])
                       /\ [proc[q] EXCEPT !.alone = FALSE].alone = FALSE
  BY <1>1 DEF Process, Same
<1>3. proc' = [q \in Procs |-> IF q = p THEN r ELSE [proc[q] EXCEPT !.alone = FALSE]]
  BY DEF Does
<1>4. proc' \in [Procs -> Process]
  BY <1>2, <1>3
<1>5. proc'[p] = r
  BY <1>3
<1>6. ASSUME NEW q \in Procs \ {p}
      PROVE  proc'[q] = [proc[q] EXCEPT !.alone = FALSE]
  BY <1>3
<1> QED
  BY <1>2, <1>4, <1>5, <1>6

\* A narration that is there stays, or is followed by a later one.
WavGrows == wav # None => wav' # None /\ \A old \in WavFile : Later(old, wav) => Later(old, wav')

LEMMA WavStays ==
    ASSUME wav' = wav
    PROVE  WavGrows
  BY DEF WavGrows

\* Who looks on keeps what he relies on, if nobody else touches what he locked.
LEMMA Bystander ==
    ASSUME MediaInv, NEW q \in Procs, Same(proc'[q], proc[q]), proc'[q].alone = FALSE,
           WavGrows, files' \in Nat, files <= files', mp4 # None => mp4' # None,
           proc[q].pc \in Speaking => audioLock' /\ wav' = wav,
           proc[q].pc \in Rendering => videoLock' /\ mp4' = mp4 /\ vtt' = vtt /\ meta' = meta
    PROVE  ProcessOK(q)'
<1> DEFINE s == proc[q]
           r == proc'[q]
<1>1. /\ r.pc = s.pc /\ r.script = s.script /\ r.wav = s.wav
      /\ r.video = s.video /\ r.legacy = s.legacy /\ r.alone = FALSE
  BY DEF Same
<1>2. /\ LocksHeld(q) /\ SpeakerOK(q) /\ RendererOK(q) /\ CaptionerOK(q)
  BY DEF MediaInv, ProcessOK
<1>3. s.wav # None => s.wav \in WavFile
  BY Types DEF MediaInv
<1>4. LocksHeld(q)'
  BY <1>1 DEF LocksHeld
<1>5. SpeakerOK(q)'
  BY <1>1, <1>2 DEF SpeakerOK, Speaking
<1>6. RendererOK(q)'
  BY <1>1, <1>2, <1>3 DEF RendererOK, WavGrows, Rendering
<1>7. CaptionerOK(q)'
  <2>1. s.pc \in {"time", "meta"} => mp4' = mp4 /\ vtt' = vtt /\ meta' = meta
    BY DEF Rendering
  <2>2. s.pc = "time" => (Best' <=> Best)
    BY <2>1 DEF Best
  <2>3. s.pc = "time" /\ ~s.legacy => s.video \in Nat /\ Spoken(s) /\ Spoken(proc[q])'
    <3>1. s.pc = "time" /\ ~s.legacy => Spoken(s) /\ s.video = mp4.n /\ mp4 # None
      BY <1>2 DEF CaptionerOK, RendererOK
    <3>2. files \in Nat /\ (mp4 # None => mp4.n \in Nat)
      BY Types DEF MediaInv
    <3> QED
      BY <1>1, <2>1, <3>1, <3>2 DEF Spoken
  <2>4. r.pc = "time" => ~Best' /\ r.wav # None /\ r.video = mp4'.n
    BY <1>1, <1>2, <2>1, <2>2 DEF CaptionerOK
  <2>5. r.pc = "meta" => vtt' # None
    BY <1>1, <1>2, <2>1 DEF CaptionerOK
  <2> QED
    BY <1>1, <2>3, <2>4, <2>5 DEF CaptionerOK
<1>8. AloneOK(q)'
  BY <1>1 DEF AloneOK
<1> QED
  BY <1>4, <1>5, <1>6, <1>7, <1>8 DEF ProcessOK

\* Locks are taken when they are free, and nobody else holds a free one.
LEMMA Exclusive ==
    ASSUME MediaInv, NEW p \in Procs, NEW r \in Process, Does(p, r),
           r.pc \in Speaking => proc[p].pc \in Speaking \/ ~audioLock,
           r.pc \in Rendering => proc[p].pc \in Rendering \/ ~videoLock
    PROVE  \A a, b \in Procs : Exclude(a, b)'
<1>1. proc'[p] = r /\ \A q \in Procs \ {p} : proc'[q].pc = proc[q].pc
  BY ZenonT(60), DoesFacts DEF MediaInv, Same
<1>2. \A a, b \in Procs : Exclude(a, b)
  BY DEF MediaInv
<1>3. \A q \in Procs : LocksHeld(q)
  BY DEF MediaInv, ProcessOK
<1>4. SUFFICES ASSUME NEW a \in Procs, NEW b \in Procs
               PROVE  Exclude(a, b)'
  OBVIOUS
<1>5. proc'[a].pc \in Speaking /\ proc'[b].pc \in Speaking => a = b
  <2>1. CASE a = p /\ b # p
    BY <1>1, <1>2, <1>3, <2>1 DEF Exclude, LocksHeld
  <2>2. CASE a # p /\ b = p
    BY <1>1, <1>2, <1>3, <2>2 DEF Exclude, LocksHeld
  <2>3. CASE a # p /\ b # p
    BY <1>1, <1>2, <2>3 DEF Exclude
  <2> QED
    BY <2>1, <2>2, <2>3
<1>6. proc'[a].pc \in Rendering /\ proc'[b].pc \in Rendering => a = b
  <2>1. CASE a = p /\ b # p
    BY <1>1, <1>2, <1>3, <2>1 DEF Exclude, LocksHeld
  <2>2. CASE a # p /\ b = p
    BY <1>1, <1>2, <1>3, <2>2 DEF Exclude, LocksHeld
  <2>3. CASE a # p /\ b # p
    BY <1>1, <1>2, <2>3 DEF Exclude
  <2> QED
    BY <2>1, <2>2, <2>3
<1> QED
  BY <1>5, <1>6 DEF Exclude

\* A process that is idle owes nothing.
LEMMA IdleOK ==
    ASSUME NEW p \in Procs, proc'[p] = Idle
    PROVE  ProcessOK(p)'
<1>1. proc'[p].pc = "idle" /\ proc'[p].alone = FALSE
  BY IdleIsProcess
<1>2. LocksHeld(p)' /\ SpeakerOK(p)'
  BY <1>1 DEF LocksHeld, SpeakerOK, Speaking, Rendering
<1>3. RendererOK(p)' /\ CaptionerOK(p)' /\ AloneOK(p)'
  BY <1>1 DEF RendererOK, CaptionerOK, AloneOK
<1> QED
  BY <1>2, <1>3 DEF ProcessOK

LEMMA FilesStand ==
    ASSUME FilesOK, UNCHANGED <<wav, proof, mp4, source, vtt, meta, player, files>>
    PROVE  FilesOK'
  BY DEF FilesOK, PlayerOK, FitsVideo, Spoken

\* The steps of p that write no file: what is left to show is that p's own
\* part of the invariant holds and that it takes and returns locks as it may.
LEMMA QuietStep ==
    ASSUME MediaInv, NEW p \in Procs, NEW r \in Process, Does(p, r),
           UNCHANGED <<row, narration, video, captions, player, files>>,
           audioLock' \in BOOLEAN, videoLock' \in BOOLEAN,
           r.pc \in Speaking => proc[p].pc \in Speaking \/ ~audioLock,
           r.pc \in Rendering => proc[p].pc \in Rendering \/ ~videoLock,
           audioLock /\ ~audioLock' => proc[p].pc \in Speaking,
           videoLock /\ ~videoLock' => proc[p].pc \in Rendering,
           ProcessOK(p)'
    PROVE  MediaInv'
<1>1. MediaTypeOK /\ FilesOK
  BY DEF MediaInv
<1>2. /\ proc' \in [Procs -> Process] /\ proc'[p] = r
      /\ \A q \in Procs \ {p} : Same(proc'[q], proc[q]) /\ proc'[q].alone = FALSE
  BY <1>1, DoesFacts
<1>3. MediaTypeOK'
  BY <1>1, <1>2 DEF MediaTypeOK, narration, video, captions
<1>4. FilesOK'
  BY <1>1, FilesStand DEF narration, video, captions
<1>5. ASSUME NEW q \in Procs \ {p}
      PROVE  ProcessOK(q)'
  <2>1. Exclude(p, q) /\ LocksHeld(q)
    BY DEF MediaInv, ProcessOK
  <2>2. proc[q].pc \in Speaking => audioLock'
    BY <2>1 DEF Exclude, LocksHeld
  <2>3. proc[q].pc \in Rendering => videoLock'
    BY <2>1 DEF Exclude, LocksHeld
  <2>4. WavGrows
    BY WavStays DEF narration
  <2>5. files' \in Nat /\ files <= files'
    BY <1>1, Types
  <2> QED
    BY <1>2, <2>2, <2>3, <2>4, <2>5, Bystander DEF narration, video, captions
<1>6. \A a, b \in Procs : Exclude(a, b)'
  BY Exclusive
<1> QED
  BY <1>3, <1>4, <1>5, <1>6 DEF MediaInv

-----------------------------------------------------------------------------
(* Steps that write no file.                                               *)

LEMMA Parts ==
    ASSUME MediaInv, NEW p \in Procs
    PROVE  /\ MediaTypeOK /\ FilesOK
           /\ LocksHeld(p) /\ SpeakerOK(p) /\ RendererOK(p) /\ CaptionerOK(p) /\ AloneOK(p)
  BY DEF MediaInv, ProcessOK

LEMMA GivesUp ==
    ASSUME MediaInv, NEW p \in Procs, Does(p, Idle),
           UNCHANGED <<row, narration, video, captions, player, files>>,
           audioLock' \in BOOLEAN, videoLock' \in BOOLEAN,
           audioLock /\ ~audioLock' => proc[p].pc \in Speaking,
           videoLock /\ ~videoLock' => proc[p].pc \in Rendering
    PROVE  MediaInv'
<1>1. proc'[p] = Idle
  BY Parts, IdleIsProcess, DoesFacts
<1>2. ProcessOK(p)'
  BY <1>1, IdleOK
<1> QED
  BY <1>2, IdleIsProcess, QuietStep DEF Speaking, Rendering

LEMMA IdleSteps ==
    ASSUME MediaInv, NEW p \in Procs,
           Refused(p) \/ SpeechFails(p) \/ RenderFails(p) \/ Finish(p) \/ Dies(p)
    PROVE  MediaInv'
<1>1. audioLock \in BOOLEAN /\ videoLock \in BOOLEAN
  BY Parts DEF MediaTypeOK
<1>2. CASE Refused(p)
  BY <1>1, <1>2, GivesUp DEF Refused, locks
<1>3. CASE SpeechFails(p)
  BY <1>1, <1>3, GivesUp DEF SpeechFails, Speaking
<1>4. CASE RenderFails(p)
  BY <1>1, <1>4, GivesUp DEF RenderFails, Rendering
<1>5. CASE Finish(p)
  BY <1>1, <1>5, GivesUp DEF Finish, Rendering
<1>6. CASE Dies(p)
  BY <1>1, <1>6, GivesUp DEF Dies, locks
<1> QED
  BY <1>2, <1>3, <1>4, <1>5, <1>6

\* A process that is done with the module's captions.
LEMMA EndsOK ==
    ASSUME MediaInv, NEW p \in Procs, Ends(p), videoLock', UNCHANGED <<row, mp4, hls>>,
           proc[p].pc \in {"record", "rendered", "caption", "time", "meta"}
    PROVE  /\ [proc[p] EXCEPT !.pc = "finish", !.wav = None, !.video = None] \in Process
           /\ [proc[p] EXCEPT !.pc = "finish", !.wav = None, !.video = None].pc = "finish"
           /\ ProcessOK(p)'
<1> DEFINE s == proc[p]
           r == [proc[p] EXCEPT !.pc = "finish", !.wav = None, !.video = None]
<1>1. s \in Process
  BY Parts, Types
<1>2. /\ r \in Process /\ r.pc = "finish" /\ r.kind = s.kind /\ r.script = s.script
      /\ r.alone = s.alone
  BY <1>1 DEF Process
<1>3. proc'[p] = r
  BY <1>2, Parts, DoesFacts DEF Ends
<1> HIDE DEF r
<1>4. LocksHeld(p)' /\ SpeakerOK(p)'
  BY <1>2, <1>3, Parts DEF LocksHeld, SpeakerOK, Speaking
<1>5. RendererOK(p)' /\ CaptionerOK(p)'
  BY <1>2, <1>3 DEF RendererOK, CaptionerOK
<1>6. AloneOK(p)'
  BY <1>2, <1>3, Parts DEF AloneOK, Rendering
<1> QED
  BY <1>2, <1>4, <1>5, <1>6 DEF ProcessOK, r

LEMMA StartStep ==
    ASSUME MediaInv, NEW p \in Procs, Start(p)
    PROVE  MediaInv'
<1>1. PICK kind \in Tasks[p] :
        /\ kind = "backfill" => mp4 # None
        /\ Does(p, [Idle EXCEPT !.kind = kind, !.script = row,
                       !.legacy = (kind = "backfill" /\ source = None),
                       !.alone = kind = "video" /\ \A q \in Procs \ {p} : proc[q].pc = "idle",
                       !.pc = FirstStep(kind)])
  BY DEF Start
<1> DEFINE legacy == kind = "backfill" /\ source = None
           alone == kind = "video" /\ \A q \in Procs \ {p} : proc[q].pc = "idle"
           r == [Idle EXCEPT !.kind = kind, !.script = row, !.legacy = legacy, !.alone = alone,
                             !.pc = FirstStep(kind)]
<1>2. kind \in {"speak", "video", "videos", "backfill"}
  BY MediaAssumption DEF MediaAssumption
<1>3. FirstStep(kind) \in {"tts", "render", "caption"} /\ (kind = "video" => FirstStep(kind) = "tts")
      /\ (FirstStep(kind) = "caption" => mp4 # None)
  BY <1>2 DEF FirstStep
<1>4. row \in 0..MaxScripts /\ row # 0
  BY Parts, Types
<1>5. legacy \in BOOLEAN /\ alone \in BOOLEAN
  OBVIOUS
<1>6. Does(p, r)
  BY <1>1
<1> HIDE DEF legacy, alone
<1>7. r \in Process /\ r.pc = FirstStep(kind) /\ r.script = row /\ r.kind = kind /\ r.legacy = legacy
  BY ZenonT(60), <1>2, <1>3, <1>4, <1>5, IdleIsProcess DEF Idle, Process
<1> HIDE DEF r
<1>8. proc'[p] = r
  BY <1>6, <1>7, Parts, DoesFacts
<1>9. UNCHANGED <<row, narration, video, captions, locks, player, files>>
  BY DEF Start
<1>10. LocksHeld(p)' /\ SpeakerOK(p)'
  BY <1>3, <1>4, <1>7, <1>8 DEF LocksHeld, SpeakerOK, Speaking, Rendering
<1>11. RendererOK(p)' /\ CaptionerOK(p)'
  BY <1>3, <1>7, <1>8, <1>9 DEF RendererOK, CaptionerOK, video
<1>12. AloneOK(p)'
  BY <1>3, <1>7, <1>8, <1>9 DEF AloneOK, Rendering
<1>13. ProcessOK(p)'
  BY <1>10, <1>11, <1>12 DEF ProcessOK
<1>14. r.pc \notin Speaking /\ r.pc \notin Rendering
  BY <1>3, <1>7 DEF Speaking, Rendering
<1>15. audioLock' = audioLock /\ videoLock' = videoLock /\ audioLock \in BOOLEAN /\ videoLock \in BOOLEAN
  BY <1>9, Parts DEF locks, MediaTypeOK
<1> QED
  BY <1>6, <1>7, <1>9, <1>13, <1>14, <1>15, QuietStep

\* A process that has its narration, or was asked for no more.
LEMMA AfterSpeechOK ==
    ASSUME MediaInv, NEW p \in Procs, Does(p, AfterSpeech(p)), UNCHANGED row,
           proc[p].pc # "idle", wav' # None, proof' = [script |-> proc[p].script, wav |-> wav']
    PROVE  /\ AfterSpeech(p) \in Process
           /\ AfterSpeech(p).pc \notin Speaking /\ AfterSpeech(p).pc \notin Rendering
           /\ ProcessOK(p)'
<1>1. CASE proc[p].kind = "speak"
  <2>1. AfterSpeech(p) = Idle
    BY <1>1 DEF AfterSpeech
  <2>2. proc'[p] = Idle
    BY <2>1, Parts, DoesFacts, IdleIsProcess
  <2> QED
    BY <2>1, <2>2, IdleOK, IdleIsProcess DEF Speaking, Rendering
<1>2. CASE proc[p].kind # "speak"
  <2> DEFINE r == [proc[p] EXCEPT !.pc = "render", !.script = row]
  <2>1. AfterSpeech(p) = r
    BY <1>2 DEF AfterSpeech
  <2>2. proc[p] \in Process /\ row \in 0..MaxScripts /\ row # 0
    BY Parts, Types
  <2>3. /\ r \in Process /\ r.pc = "render" /\ r.script = row /\ r.alone = proc[p].alone
        /\ r.kind = proc[p].kind
    BY <2>2 DEF Process
  <2> HIDE DEF r
  <2>4. proc'[p] = r
    BY <2>1, <2>3, Parts, DoesFacts
  <2>5. LocksHeld(p)' /\ SpeakerOK(p)'
    BY <2>2, <2>3, <2>4 DEF LocksHeld, SpeakerOK, Speaking, Rendering
  <2>6. RendererOK(p)' /\ CaptionerOK(p)'
    BY <2>3, <2>4 DEF RendererOK, CaptionerOK
  <2>7. AloneOK(p)'
    <3>1. proc[p].kind = "video" /\ proc[p].alone => proc[p].script = row
      BY Parts DEF AloneOK
    <3>2. r.kind = "video" /\ r.alone => proof' = [script |-> r.script, wav |-> wav']
      BY <3>1, <2>3
    <3> QED
      BY <2>3, <2>4, <3>2 DEF AloneOK, Rendering, Matches
  <2> QED
    BY <2>1, <2>3, <2>5, <2>6, <2>7 DEF ProcessOK, Speaking, Rendering
<1> QED
  BY <1>1, <1>2

LEMMA SkipSpeechStep ==
    ASSUME MediaInv, NEW p \in Procs, SkipSpeech(p)
    PROVE  MediaInv'
<1>1. /\ proc[p].pc = "tts" /\ Matches(proc[p].script) /\ Does(p, AfterSpeech(p))
      /\ UNCHANGED <<row, narration, video, captions, locks, player, files>>
  BY DEF SkipSpeech
<1>2. audioLock' = audioLock /\ videoLock' = videoLock /\ audioLock \in BOOLEAN /\ videoLock \in BOOLEAN
  BY <1>1, Parts DEF locks, MediaTypeOK
<1>3. AfterSpeech(p) \in Process /\ AfterSpeech(p).pc \notin Speaking
      /\ AfterSpeech(p).pc \notin Rendering /\ ProcessOK(p)'
  <2>1. wav' = wav /\ proof' = proof
    BY <1>1 DEF narration
  <2>2. wav # None /\ proof = [script |-> proc[p].script, wav |-> wav]
    BY <1>1 DEF Matches
  <2> QED
    BY <1>1, <2>1, <2>2, AfterSpeechOK
<1> QED
  BY <1>1, <1>2, <1>3, QuietStep

LEMMA BeginRenderStep ==
    ASSUME MediaInv, NEW p \in Procs, BeginRender(p)
    PROVE  MediaInv'
<1>1. /\ proc[p].pc = "render" /\ ~videoLock
      /\ UNCHANGED <<row, narration, video, captions, audioLock, player, files>>
      /\ audioLock \in BOOLEAN /\ videoLock \in BOOLEAN
  BY Parts DEF BeginRender, MediaTypeOK
<1>2. CASE wav = None
  BY <1>1, <1>2, GivesUp DEF BeginRender
<1>3. CASE wav # None
  <2> DEFINE r == [proc[p] EXCEPT !.pc = "encode", !.wav = wav]
  <2>1. videoLock' = TRUE /\ Does(p, r)
    BY <1>3 DEF BeginRender
  <2>2. wav \in WavFile /\ proc[p] \in Process
    BY <1>3, Parts, Types
  <2>3. /\ r \in Process /\ r.pc = "encode" /\ r.wav = wav /\ r.script = proc[p].script
        /\ r.kind = proc[p].kind /\ r.alone = proc[p].alone
    BY <2>2 DEF Process
  <2> HIDE DEF r
  <2>4. proc'[p] = r /\ row' = row /\ wav' = wav /\ proof' = proof
    BY <2>1, <2>3, <1>1, Parts, DoesFacts DEF narration
  <2>5. LocksHeld(p)' /\ SpeakerOK(p)'
    BY <1>1, <2>1, <2>3, <2>4, Parts DEF LocksHeld, SpeakerOK, Speaking
  <2>6. RendererOK(p)' /\ CaptionerOK(p)'
    BY <1>3, <2>2, <2>3, <2>4, NoneIsNoFile, LaterSame DEF RendererOK, CaptionerOK
  <2>7. AloneOK(p)'
    BY <1>1, <2>3, <2>4, Parts DEF AloneOK, Rendering, Matches
  <2>8. ProcessOK(p)'
    BY <2>5, <2>6, <2>7 DEF ProcessOK
  <2> QED
    BY <1>1, <2>1, <2>3, <2>8, QuietStep DEF Speaking, Rendering
<1> QED
  BY <1>2, <1>3

\* What was recorded of a video holds while its inputs are still the same.
LEMMA SameInputsSpoken ==
    ASSUME MediaInv, NEW p \in Procs, SameInputs(p)
    PROVE  mp4 # None /\ mp4.wav = wav /\ proc[p].script = wav.script /\ mp4.n <= files
  BY Parts DEF FilesOK, SameInputs, Spoken

\* Who means to write captions found no better ones.
LEMMA NotBest ==
    ASSUME MediaInv, NEW p \in Procs, Possible(p), ~(Upgrading(p) /\ KeepExisting(p))
    PROVE  ~Best
<1>1. SUFFICES ASSUME Best PROVE FALSE
  OBVIOUS
<1>2. /\ meta # None /\ meta = vtt /\ meta.aligned /\ ~meta.legacy /\ meta.video = mp4.n
      /\ ValidCaptions /\ KeepExisting(p)
  BY <1>1 DEF Best, ValidCaptions, KeepExisting
<1>3. ~proc[p].legacy /\ ~(meta.script = proc[p].script /\ meta.wav = wav)
  BY <1>2 DEF Upgrading
<1>4. mp4.wav = wav /\ proc[p].script = wav.script
  BY <1>3, SameInputsSpoken DEF Possible
<1>5. meta.script = meta.wav.script /\ mp4.wav = meta.wav
  BY <1>2, Parts DEF FilesOK, FitsVideo, Spoken
<1> QED
  BY <1>3, <1>4, <1>5

LEMMA CheckCaptionsStep ==
    ASSUME MediaInv, NEW p \in Procs, CheckCaptions(p)
    PROVE  MediaInv'
<1> DEFINE s == proc[p]
<1>1. /\ s.pc = "rendered" \/ (s.pc = "caption" /\ ~videoLock)
      /\ videoLock' = TRUE
      /\ UNCHANGED <<row, narration, video, captions, audioLock, player, files>>
      /\ audioLock \in BOOLEAN
  BY Parts DEF CheckCaptions, MediaTypeOK
<1>2. CASE Possible(p) /\ ~(Upgrading(p) /\ KeepExisting(p))
  <2> DEFINE r == [proc[p] EXCEPT !.pc = "time", !.wav = wav, !.video = mp4.n]
  <2>1. Does(p, r)
    BY <1>2 DEF CheckCaptions
  <2>2. mp4 # None /\ mp4 \in VideoFile /\ mp4.n \in Nat /\ s \in Process
    BY <1>1, Parts, Types DEF RendererOK
  <2>3. wav # None /\ wav \in WavFile
    BY <2>2, Parts, Types DEF FilesOK
  <2>4. /\ r \in Process /\ r.pc = "time" /\ r.wav = wav /\ r.video = mp4.n /\ r.script = s.script
        /\ r.legacy = s.legacy /\ r.kind = s.kind /\ r.alone = s.alone
    BY <2>2, <2>3 DEF Process
  <2> HIDE DEF r
  <2>5. /\ proc'[p] = r /\ row' = row /\ mp4' = mp4 /\ hls' = hls /\ vtt' = vtt /\ meta' = meta
        /\ files' = files
    BY <2>1, <2>4, <1>1, Parts, DoesFacts DEF video, captions
  <2>6. LocksHeld(p)' /\ SpeakerOK(p)'
    BY <1>1, <2>4, <2>5, Parts DEF LocksHeld, SpeakerOK, Speaking
  <2>7. RendererOK(p)'
    BY <2>2, <2>4, <2>5 DEF RendererOK
  <2>8. CaptionerOK(p)'
    <3>1. ~Best'
      BY <1>2, <2>5, NotBest DEF Best
    <3>2. ~r.legacy => Spoken(r)
      BY <1>2, <2>4, SameInputsSpoken DEF Possible, Spoken
    <3>3. ~r.legacy => Spoken(proc[p])'
      BY <3>2, <2>5 DEF Spoken
    <3> QED
      BY <3>1, <3>3, <2>3, <2>4, <2>5 DEF CaptionerOK
  <2>9. AloneOK(p)'
    BY <1>1, <2>4, <2>5, Parts DEF AloneOK, Rendering
  <2>10. ProcessOK(p)'
    BY <2>6, <2>7, <2>8, <2>9 DEF ProcessOK
  <2> QED
    BY <1>1, <2>1, <2>4, <2>10, QuietStep DEF Speaking, Rendering
<1>3. CASE ~(Possible(p) /\ ~(Upgrading(p) /\ KeepExisting(p)))
  <2>1. Ends(p) /\ UNCHANGED <<row, mp4, hls>>
    BY <1>1, <1>3 DEF CheckCaptions, video
  <2> QED
    BY <1>1, <2>1, EndsOK, QuietStep DEF Ends, Speaking, Rendering
<1> QED
  BY <1>2, <1>3

LEMMA TimingFailsStep ==
    ASSUME MediaInv, NEW p \in Procs, TimingFails(p)
    PROVE  MediaInv'
<1>1. proc[p].pc = "time" /\ Ends(p)
      /\ UNCHANGED <<row, narration, video, captions, locks, player, files>>
  BY DEF TimingFails
<1>2. videoLock /\ UNCHANGED <<audioLock, videoLock, row, mp4, hls>> /\ audioLock \in BOOLEAN
      /\ videoLock \in BOOLEAN
  BY <1>1, Parts DEF LocksHeld, Rendering, video, locks, MediaTypeOK
<1> QED
  BY <1>1, <1>2, EndsOK, QuietStep DEF Ends, Speaking, Rendering

-----------------------------------------------------------------------------
(* Narration.                                                              *)

\* A step of p that takes, holds or returns the narration's lock.
LEMMA SpeechStep ==
    ASSUME MediaInv, NEW p \in Procs, NEW r \in Process, Does(p, r),
           UNCHANGED <<row, video, captions, videoLock, player>>,
           proc[p].pc \in Speaking \/ ~audioLock, audioLock' \in BOOLEAN,
           r.pc \notin Rendering, ProcessOK(p)',
           files' \in 0..MaxFiles, files <= files', WavGrows,
           wav' # None => wav' \in WavFile /\ wav'.n <= files',
           proof' # None => /\ proof' \in ProofFile /\ wav' # None /\ Later(proof'.wav, wav')
                            /\ proof'.script # 0 /\ proof'.wav.script = proof'.script
    PROVE  MediaInv'
<1>1. /\ proc' \in [Procs -> Process] /\ proc'[p] = r
      /\ \A q \in Procs \ {p} : Same(proc'[q], proc[q]) /\ proc'[q].alone = FALSE
  BY Parts, DoesFacts
<1>2. MediaTypeOK'
  BY <1>1, Parts DEF MediaTypeOK, video, captions
<1>3. files \in Nat /\ files' \in Nat /\ (mp4 # None => mp4.n \in Nat /\ mp4.wav \in WavFile)
      /\ (source # None => source \in SourceFile) /\ (vtt # None => vtt \in CaptionFile)
      /\ (meta # None => meta \in CaptionFile)
  BY Parts, Types, MediaNumbers
<1>4. FilesOK'
  <2>1. mp4' = mp4 /\ source' = source /\ vtt' = vtt /\ meta' = meta /\ player' = player
    BY DEF video, captions
  <2>2. mp4 # None => mp4.n <= files' /\ wav' # None /\ Later(mp4.wav, wav')
    BY <1>3, Parts DEF FilesOK, WavGrows
  <2>3. source # None => mp4 # None /\ Spoken(source)'
    BY <1>3, <2>1, Parts DEF FilesOK, Spoken, SourceFile
  <2>4. FitsVideo(vtt)' /\ FitsVideo(meta)'
    BY <1>3, <2>1, Parts DEF FilesOK, FitsVideo, Spoken, CaptionFile
  <2>5. PlayerOK'
    <3>1. player.meta # None => player.meta \in CaptionFile
      BY Parts DEF MediaTypeOK
    <3>2. FitsVideo(player.meta)'
      BY <1>3, <2>1, <3>1, Parts DEF FilesOK, PlayerOK, FitsVideo, Spoken, CaptionFile
    <3> QED
      BY <2>1, <3>2, Parts DEF FilesOK, PlayerOK
  <2> QED
    BY <2>1, <2>2, <2>3, <2>4, <2>5 DEF FilesOK
<1>5. ASSUME NEW q \in Procs \ {p}
      PROVE  ProcessOK(q)'
  <2>1. Exclude(p, q) /\ LocksHeld(q)
    BY DEF MediaInv, ProcessOK
  <2>2. proc[q].pc \notin Speaking
    BY <2>1 DEF Exclude, LocksHeld
  <2>3. proc[q].pc \in Rendering => videoLock'
    BY <2>1 DEF LocksHeld
  <2> QED
    BY <1>1, <1>3, <2>2, <2>3, Bystander DEF video, captions
<1>6. \A a, b \in Procs : Exclude(a, b)'
  BY Exclusive
<1> QED
  BY <1>1, <1>2, <1>4, <1>5, <1>6 DEF MediaInv

LEMMA GoesFacts ==
    ASSUME MediaInv, NEW p \in Procs,
           NEW to \in {"speak", "spoken", "package", "record", "rendered", "meta"}, Goes(p, to)
    PROVE  LET r == [proc[p] EXCEPT !.pc = to]
           IN /\ Does(p, r) /\ r \in Process /\ proc'[p] = r
              /\ r.pc = to /\ r.kind = proc[p].kind /\ r.script = proc[p].script
              /\ r.wav = proc[p].wav /\ r.video = proc[p].video /\ r.legacy = proc[p].legacy
              /\ r.alone = proc[p].alone
<1> DEFINE r == [proc[p] EXCEPT !.pc = to]
<1>1. proc[p] \in Process
  BY Parts, Types
<1>2. /\ r \in Process /\ r.pc = to /\ r.kind = proc[p].kind /\ r.script = proc[p].script
      /\ r.wav = proc[p].wav /\ r.video = proc[p].video /\ r.legacy = proc[p].legacy
      /\ r.alone = proc[p].alone
  BY <1>1 DEF Process
<1>3. Does(p, r)
  BY DEF Goes
<1> HIDE DEF r
<1>4. proc'[p] = r
  BY <1>2, <1>3, Parts, DoesFacts
<1> QED
  BY <1>2, <1>3, <1>4 DEF r

LEMMA BeginSpeechStep ==
    ASSUME MediaInv, NEW p \in Procs, BeginSpeech(p)
    PROVE  MediaInv'
<1> DEFINE r == [proc[p] EXCEPT !.pc = "speak"]
<1>1. /\ proc[p].pc = "tts" /\ ~audioLock /\ files < MaxFiles /\ audioLock' = TRUE
      /\ files' = files + 1 /\ wav' = [script |-> 0, n |-> files'] /\ Goes(p, "speak")
      /\ UNCHANGED <<row, proof, video, captions, videoLock, player>>
  BY DEF BeginSpeech
<1>2. /\ Does(p, r) /\ r \in Process /\ proc'[p] = r /\ r.pc = "speak"
      /\ r.script = proc[p].script /\ r.kind = proc[p].kind /\ r.alone = proc[p].alone
  BY <1>1, GoesFacts
<1> HIDE DEF r
<1>3. files \in Nat /\ files' \in 0..MaxFiles /\ files < files'
  BY <1>1, Parts, Types, MediaNumbers DEF MediaTypeOK
<1>4. wav' \in WavFile /\ wav'.n = files' /\ wav'.script = 0 /\ wav' # None
  BY <1>1, <1>3, NoneIsNoFile DEF WavFile
<1>5. WavGrows
  <2>1. wav # None => wav \in WavFile /\ wav.n <= files /\ wav.n \in Nat
    BY Parts, Types DEF FilesOK, WavFile
  <2>2. wav # None => \A old \in WavFile : Later(old, wav) => Later(old, wav')
    BY <1>3, <1>4, <2>1, LaterOpened
  <2> QED
    BY <1>4, <2>2 DEF WavGrows
<1>6. proof' # None => /\ proof' \in ProofFile /\ Later(proof'.wav, wav')
                       /\ proof'.script # 0 /\ proof'.wav.script = proof'.script
  <2>1. proof # None => /\ proof \in ProofFile /\ proof.wav \in WavFile /\ wav # None /\ Later(proof.wav, wav)
                        /\ proof.script # 0 /\ proof.wav.script = proof.script
    BY Parts, Types DEF FilesOK, ProofFile
  <2> QED
    BY <1>1, <1>5, <2>1 DEF WavGrows
<1>7. LocksHeld(p)' /\ SpeakerOK(p)'
  BY <1>1, <1>2, <1>4, Parts DEF LocksHeld, SpeakerOK, Rendering
<1>8. RendererOK(p)' /\ CaptionerOK(p)'
  BY <1>2 DEF RendererOK, CaptionerOK
<1>9. AloneOK(p)'
  BY <1>1, <1>2, Parts DEF AloneOK, Rendering
<1>10. ProcessOK(p)'
  BY <1>7, <1>8, <1>9 DEF ProcessOK
<1>11. r.pc \notin Rendering
  BY <1>2 DEF Rendering
<1> QED
  BY <1>1, <1>2, <1>3, <1>4, <1>5, <1>6, <1>10, <1>11, SpeechStep

LEMMA EndSpeechStep ==
    ASSUME MediaInv, NEW p \in Procs, EndSpeech(p)
    PROVE  MediaInv'
<1> DEFINE r == [proc[p] EXCEPT !.pc = "spoken"]
<1>1. /\ proc[p].pc = "speak" /\ wav' = [wav EXCEPT !.script = proc[p].script]
      /\ Goes(p, "spoken")
      /\ UNCHANGED <<row, proof, video, captions, locks, player, files>>
  BY DEF EndSpeech
<1>2. /\ Does(p, r) /\ r \in Process /\ proc'[p] = r /\ r.pc = "spoken"
      /\ r.script = proc[p].script /\ r.kind = proc[p].kind /\ r.alone = proc[p].alone
  BY <1>1, GoesFacts
<1> HIDE DEF r
<1>3. files \in Nat /\ files' = files /\ files' \in 0..MaxFiles
  BY <1>1, Parts, Types DEF MediaTypeOK
<1>4. /\ wav # None /\ wav \in WavFile /\ wav.script = 0 /\ wav.n <= files
      /\ proc[p].script \in Nat /\ proc[p].script # 0
  BY <1>1, Parts, Types DEF SpeakerOK, FilesOK
<1>5. /\ wav' \in WavFile /\ wav'.n = wav.n /\ wav'.script = proc[p].script /\ wav' # None
      /\ \A old \in WavFile : Later(old, wav) => Later(old, wav')
  BY <1>1, <1>4, LaterSame, LaterWritten, NoneIsNoFile
<1>6. WavGrows
  BY <1>5 DEF WavGrows
<1>7. proof' # None => /\ proof' \in ProofFile /\ Later(proof'.wav, wav')
                       /\ proof'.script # 0 /\ proof'.wav.script = proof'.script
  <2>1. proof # None => /\ proof \in ProofFile /\ proof.wav \in WavFile /\ Later(proof.wav, wav)
                        /\ proof.script # 0 /\ proof.wav.script = proof.script
    BY Parts, Types DEF FilesOK, ProofFile
  <2> QED
    BY <1>1, <1>5, <2>1
<1>8. audioLock /\ audioLock' = TRUE /\ videoLock' = videoLock
  BY <1>1, Parts DEF LocksHeld, Speaking, locks, MediaTypeOK
<1>9. LocksHeld(p)' /\ SpeakerOK(p)'
  BY <1>2, <1>4, <1>5, <1>8 DEF LocksHeld, SpeakerOK, Rendering
<1>10. RendererOK(p)' /\ CaptionerOK(p)'
  BY <1>2 DEF RendererOK, CaptionerOK
<1>11. AloneOK(p)'
  BY <1>1, <1>2, Parts DEF AloneOK, Rendering
<1>12. ProcessOK(p)'
  BY <1>9, <1>10, <1>11 DEF ProcessOK
<1>13. r.pc \notin Rendering /\ proc[p].pc \in Speaking
  BY <1>1, <1>2 DEF Rendering, Speaking
<1> QED
  BY <1>1, <1>2, <1>3, <1>4, <1>5, <1>6, <1>7, <1>8, <1>12, <1>13, SpeechStep

LEMMA ProveSpeechStep ==
    ASSUME MediaInv, NEW p \in Procs, ProveSpeech(p)
    PROVE  MediaInv'
<1>1. /\ proc[p].pc = "spoken" /\ proof' = [script |-> proc[p].script, wav |-> wav]
      /\ audioLock' = FALSE /\ Does(p, AfterSpeech(p))
      /\ UNCHANGED <<row, wav, video, captions, videoLock, player, files>>
  BY DEF ProveSpeech
<1>2. /\ wav # None /\ wav \in WavFile /\ wav.script = proc[p].script /\ wav.n <= files
      /\ proc[p].script \in Nat /\ proc[p].script # 0
  BY <1>1, Parts, Types DEF SpeakerOK, FilesOK
<1>3. /\ AfterSpeech(p) \in Process /\ AfterSpeech(p).pc \notin Rendering /\ ProcessOK(p)'
  BY <1>1, <1>2, AfterSpeechOK
<1>4. /\ proof' \in ProofFile /\ proof'.wav = wav /\ proof'.script = proc[p].script
      /\ Later(wav, wav)
  BY <1>1, <1>2, LaterSame DEF ProofFile
<1>5. files \in Nat /\ files' \in 0..MaxFiles /\ files <= files' /\ WavGrows
  BY <1>1, Parts, Types, WavStays DEF MediaTypeOK
<1>6. proc[p].pc \in Speaking
  BY <1>1 DEF Speaking
<1>7. proof' # None => /\ proof' \in ProofFile /\ wav' # None /\ Later(proof'.wav, wav')
                       /\ proof'.script # 0 /\ proof'.wav.script = proof'.script
  BY <1>1, <1>2, <1>4
<1> QED
  BY <1>1, <1>2, <1>3, <1>5, <1>6, <1>7, SpeechStep

-----------------------------------------------------------------------------
(* The video and its captions.                                             *)

\* A step of p that holds the video's lock, or takes it.
LEMMA RenderStep ==
    ASSUME MediaInv, NEW p \in Procs, NEW r \in Process, Does(p, r),
           UNCHANGED <<row, narration, audioLock, videoLock, player>>,
           proc[p].pc \in Rendering, r.pc \notin Speaking, ProcessOK(p)',
           files' \in 0..MaxFiles, files <= files', mp4 # None => mp4' # None,
           {mp4', hls'} \subseteq {None} \cup VideoFile, source' \in {None} \cup SourceFile,
           {vtt', meta'} \subseteq {None} \cup CaptionFile,
           FilesOK'
    PROVE  MediaInv'
<1>1. /\ proc' \in [Procs -> Process] /\ proc'[p] = r
      /\ \A q \in Procs \ {p} : Same(proc'[q], proc[q]) /\ proc'[q].alone = FALSE
  BY Parts, DoesFacts
<1>2. MediaTypeOK'
  BY <1>1, Parts DEF MediaTypeOK, narration
<1>3. files' \in Nat /\ WavGrows
  BY MediaNumbers, WavStays DEF narration
<1>4. ASSUME NEW q \in Procs \ {p}
      PROVE  ProcessOK(q)'
  <2>1. Exclude(p, q) /\ LocksHeld(q)
    BY DEF MediaInv, ProcessOK
  <2>2. proc[q].pc \notin Rendering
    BY <2>1 DEF Exclude
  <2>3. proc[q].pc \in Speaking => audioLock'
    BY <2>1 DEF LocksHeld
  <2> QED
    BY <1>1, <1>3, <2>2, <2>3, Bystander DEF narration
<1>5. \A a, b \in Procs : Exclude(a, b)'
  BY Exclusive
<1> QED
  BY <1>1, <1>2, <1>4, <1>5 DEF MediaInv

LEMMA VideoTypes ==
    ASSUME MediaInv
    PROVE  /\ mp4 \in {None} \cup VideoFile /\ hls \in {None} \cup VideoFile
           /\ source \in {None} \cup SourceFile /\ files \in 0..MaxFiles
           /\ vtt \in {None} \cup CaptionFile /\ meta \in {None} \cup CaptionFile
           /\ player.meta \in {None} \cup CaptionFile
  BY DEF MediaInv, MediaTypeOK

LEMMA PublishVideoStep ==
    ASSUME MediaInv, NEW p \in Procs, PublishVideo(p)
    PROVE  MediaInv'
<1> DEFINE r == [proc[p] EXCEPT !.pc = "package"]
<1>1. /\ proc[p].pc = "encode" /\ files < MaxFiles /\ files' = files + 1
      /\ mp4' = [n |-> files', wav |-> wav] /\ Goes(p, "package")
      /\ row' = row /\ wav' = wav /\ proof' = proof /\ hls' = hls /\ source' = source
      /\ vtt' = vtt /\ meta' = meta /\ audioLock' = audioLock /\ videoLock' = videoLock
      /\ player' = player
  BY DEF PublishVideo, narration, captions, locks
<1>2. /\ Does(p, r) /\ r \in Process /\ proc'[p] = r /\ r.pc = "package"
      /\ r.script = proc[p].script /\ r.kind = proc[p].kind /\ r.alone = proc[p].alone
      /\ r.wav = proc[p].wav
  BY <1>1, GoesFacts
<1> HIDE DEF r
<1>3. files \in Nat /\ files' \in 0..MaxFiles /\ files < files'
  BY <1>1, Parts, Types, MediaNumbers DEF MediaTypeOK
<1>4. /\ wav # None /\ wav \in WavFile /\ wav.n <= files /\ wav.n \in Nat
      /\ r.wav # None /\ Later(r.wav, wav)
  BY <1>1, <1>2, Parts, Types DEF RendererOK, FilesOK, WavFile
<1>5. mp4' \in VideoFile /\ mp4' # None /\ mp4'.n = files' /\ mp4'.wav = wav
  BY <1>1, <1>3, <1>4, NoneIsNoFile DEF VideoFile
<1>6. FilesOK'
  <2>1. source # None => Spoken(source)'
    BY <1>1, <1>3, <1>5, Parts, Types DEF FilesOK, Spoken, SourceFile
  <2>2. FitsVideo(vtt)' /\ FitsVideo(meta)' /\ FitsVideo(player.meta)'
    <3>1. FitsVideo(vtt) /\ FitsVideo(meta) /\ FitsVideo(player.meta)
      BY Parts DEF FilesOK, PlayerOK
    <3> QED
      BY <1>1, <1>3, <1>5, <3>1, VideoTypes DEF FitsVideo, Spoken, CaptionFile
  <2>3. PlayerOK'
    BY <1>1, <2>2, Parts DEF FilesOK, PlayerOK
  <2>4. wav'.n <= files' /\ mp4'.n <= files' /\ Later(mp4'.wav, wav')
    BY <1>1, <1>3, <1>4, <1>5, LaterSame
  <2>5. proof' # None => /\ wav' # None /\ Later(proof'.wav, wav')
                         /\ proof'.script # 0 /\ proof'.wav.script = proof'.script
    BY <1>1, Parts DEF FilesOK
  <2> QED
    BY <1>1, <1>4, <1>5, <2>1, <2>2, <2>3, <2>4, <2>5 DEF FilesOK
<1>7. LocksHeld(p)' /\ SpeakerOK(p)'
  BY <1>1, <1>2, Parts DEF LocksHeld, SpeakerOK, Speaking, Rendering
<1>8. RendererOK(p)' /\ CaptionerOK(p)'
  BY <1>1, <1>2, <1>4, <1>5 DEF RendererOK, CaptionerOK
<1>9. AloneOK(p)'
  <2>1. proc[p].kind = "video" /\ proc[p].alone => proc[p].script = row /\ wav.script = row
    <3>1. proc[p].kind = "video" /\ proc[p].alone =>
            proc[p].script = row /\ proof = [script |-> proc[p].script, wav |-> wav]
      BY <1>1, Parts DEF AloneOK, Matches
    <3>2. proof # None => proof.wav.script = proof.script
      BY Parts DEF FilesOK
    <3>3. proc[p].kind = "video" /\ proc[p].alone => proof # None
      BY <3>1, <1>4, Parts, Types, NoneIsNoFile DEF ProofFile
    <3> QED
      BY <3>1, <3>2, <3>3
  <2> QED
    BY <1>1, <1>2, <1>5, <2>1 DEF AloneOK, Rendering
<1>10. ProcessOK(p)'
  BY <1>7, <1>8, <1>9 DEF ProcessOK
<1>11. r.pc \notin Speaking /\ proc[p].pc \in Rendering
  BY <1>1, <1>2 DEF Speaking, Rendering
<1> QED
  BY <1>1, <1>2, <1>3, <1>5, <1>6, <1>10, <1>11, VideoTypes, RenderStep DEF narration

LEMMA PackageStep ==
    ASSUME MediaInv, NEW p \in Procs, Package(p)
    PROVE  MediaInv'
<1> DEFINE r == [proc[p] EXCEPT !.pc = "record"]
<1>1. /\ proc[p].pc = "package" /\ hls' = mp4 /\ Goes(p, "record")
      /\ row' = row /\ wav' = wav /\ proof' = proof /\ mp4' = mp4 /\ source' = source
      /\ vtt' = vtt /\ meta' = meta /\ audioLock' = audioLock /\ videoLock' = videoLock
      /\ player' = player /\ files' = files
  BY DEF Package, narration, captions, locks
<1>2. /\ Does(p, r) /\ r \in Process /\ proc'[p] = r /\ r.pc = "record"
      /\ r.script = proc[p].script /\ r.kind = proc[p].kind /\ r.alone = proc[p].alone
      /\ r.wav = proc[p].wav
  BY <1>1, GoesFacts
<1> HIDE DEF r
<1>3. FilesOK'
  BY <1>1, Parts, FilesStand
<1>4. LocksHeld(p)' /\ SpeakerOK(p)'
  BY <1>1, <1>2, Parts DEF LocksHeld, SpeakerOK, Speaking, Rendering
<1>5. RendererOK(p)' /\ CaptionerOK(p)'
  BY <1>1, <1>2, Parts DEF RendererOK, CaptionerOK
<1>6. AloneOK(p)'
  BY <1>1, <1>2, Parts DEF AloneOK, Rendering
<1>7. ProcessOK(p)'
  BY <1>4, <1>5, <1>6 DEF ProcessOK
<1>8. r.pc \notin Speaking /\ proc[p].pc \in Rendering
  BY <1>1, <1>2 DEF Speaking, Rendering
<1>9. files \in Nat
  BY Parts, Types
<1> QED
  BY <1>1, <1>2, <1>3, <1>7, <1>8, <1>9, VideoTypes, RenderStep DEF narration

\* A video whose inputs are still what was read contains that narration.
LEMMA RenderedWhatWasRead ==
    ASSUME MediaInv, NEW p \in Procs, proc[p].pc = "record", Unchanged(p)
    PROVE  mp4 # None /\ mp4.wav = wav /\ wav.script = proc[p].script /\ wav # None
<1>1. /\ wav # None /\ wav = proc[p].wav /\ mp4 # None
      /\ Later(wav, mp4.wav) /\ Later(mp4.wav, wav)
  BY Parts DEF RendererOK, FilesOK, Unchanged, Matches
<1>2. wav \in WavFile /\ mp4.wav \in WavFile
  BY <1>1, Parts, Types
<1>3. proof = [script |-> proc[p].script, wav |-> wav] /\ proof # None
  <2>1. proc[p].script \in Nat
    BY Parts, Types
  <2>2. [script |-> proc[p].script, wav |-> wav] \in ProofFile
    BY <1>2, <2>1 DEF ProofFile
  <2> QED
    BY <2>2, NoneIsNoFile DEF Unchanged, Matches
<1>4. wav.script = proc[p].script /\ wav.script # 0
  BY <1>3, Parts DEF FilesOK
<1>5. mp4.wav = wav
  BY <1>1, <1>2, <1>4 DEF Later, WavFile
<1> QED
  BY <1>1, <1>4, <1>5

LEMMA RecordSourceStep ==
    ASSUME MediaInv, NEW p \in Procs, RecordSource(p)
    PROVE  MediaInv'
<1>1. /\ proc[p].pc = "record"
      /\ row' = row /\ wav' = wav /\ proof' = proof /\ mp4' = mp4 /\ hls' = hls
      /\ vtt' = vtt /\ meta' = meta /\ audioLock' = audioLock /\ videoLock' = videoLock
      /\ player' = player /\ files' = files
  BY DEF RecordSource, narration, captions, locks
<1>2. files \in Nat /\ videoLock = TRUE /\ proc[p].pc \in Rendering
  BY <1>1, Parts, Types DEF LocksHeld, Rendering, MediaTypeOK
<1>3. CASE Unchanged(p)
  <2> DEFINE r == [proc[p] EXCEPT !.pc = "rendered"]
  <2>1. source' = [video |-> mp4.n, script |-> proc[p].script, wav |-> wav] /\ Goes(p, "rendered")
    BY <1>3 DEF RecordSource
  <2>2. /\ Does(p, r) /\ r \in Process /\ proc'[p] = r /\ r.pc = "rendered"
        /\ r.script = proc[p].script /\ r.kind = proc[p].kind /\ r.alone = proc[p].alone
    BY <2>1, GoesFacts
  <2> HIDE DEF r
  <2>3. mp4 # None /\ mp4.wav = wav /\ wav.script = proc[p].script /\ wav # None
    BY <1>1, <1>3, RenderedWhatWasRead
  <2>4. mp4.n \in Nat /\ mp4.n <= files /\ wav \in WavFile /\ proc[p].script \in Nat
    BY <2>3, Parts, Types DEF FilesOK
  <2>5. source' \in SourceFile /\ Spoken(source)'
    BY <1>1, <2>1, <2>3, <2>4 DEF SourceFile, Spoken
  <2>6. FilesOK'
    BY <1>1, <2>3, <2>5, Parts DEF FilesOK, PlayerOK, FitsVideo, Spoken
  <2>7. LocksHeld(p)' /\ SpeakerOK(p)'
    BY <1>1, <2>2, Parts DEF LocksHeld, SpeakerOK, Speaking, Rendering
  <2>8. RendererOK(p)' /\ CaptionerOK(p)'
    BY <1>1, <2>2, <2>3 DEF RendererOK, CaptionerOK
  <2>9. AloneOK(p)'
    BY <1>1, <2>2, Parts DEF AloneOK, Rendering
  <2>10. ProcessOK(p)'
    BY <2>7, <2>8, <2>9 DEF ProcessOK
  <2>11. r.pc \notin Speaking
    BY <2>2 DEF Speaking
  <2> QED
    BY <1>1, <1>2, <2>2, <2>5, <2>6, <2>10, <2>11, VideoTypes, RenderStep DEF narration
<1>4. CASE ~Unchanged(p)
  <2>1. source' = source /\ Ends(p)
    BY <1>4 DEF RecordSource
  <2>2. audioLock \in BOOLEAN
    BY Parts DEF MediaTypeOK
  <2> QED
    BY <1>1, <1>2, <2>1, <2>2, EndsOK, QuietStep
    DEF Ends, Speaking, Rendering, narration, video, captions
<1> QED
  BY <1>3, <1>4

LEMMA WriteCaptionsStep ==
    ASSUME MediaInv, NEW p \in Procs, WriteCaptions(p)
    PROVE  MediaInv'
<1> DEFINE r == [proc[p] EXCEPT !.pc = "meta"]
<1>1. PICK aligned \in BOOLEAN :
        vtt' = [video |-> mp4.n, script |-> proc[p].script, wav |-> proc[p].wav,
                aligned |-> aligned, legacy |-> proc[p].legacy]
  BY DEF WriteCaptions
<1>2. /\ proc[p].pc = "time" /\ mp4.n = proc[p].video /\ Goes(p, "meta")
      /\ row' = row /\ wav' = wav /\ proof' = proof /\ mp4' = mp4 /\ hls' = hls /\ source' = source
      /\ meta' = meta /\ audioLock' = audioLock /\ videoLock' = videoLock
      /\ player' = player /\ files' = files
  BY DEF WriteCaptions, narration, video, locks
<1>3. /\ Does(p, r) /\ r \in Process /\ proc'[p] = r /\ r.pc = "meta"
      /\ r.script = proc[p].script /\ r.kind = proc[p].kind /\ r.alone = proc[p].alone
  BY <1>2, GoesFacts
<1> HIDE DEF r
<1>4. /\ mp4 # None /\ mp4.n \in Nat /\ mp4.n <= files /\ files \in Nat
      /\ proc[p].wav \in WavFile /\ proc[p].script \in Nat /\ proc[p].legacy \in BOOLEAN
      /\ ~proc[p].legacy => Spoken(proc[p])
  BY <1>2, Parts, Types DEF RendererOK, CaptionerOK, FilesOK, Process
<1>5. vtt' \in CaptionFile /\ vtt' # None
  BY <1>1, <1>4, NoneIsNoFile DEF CaptionFile
<1>6. FitsVideo(vtt)'
  BY <1>1, <1>2, <1>4 DEF FitsVideo, Spoken
<1>7. FilesOK'
  BY <1>2, <1>6, Parts DEF FilesOK, PlayerOK, FitsVideo, Spoken
<1>8. LocksHeld(p)' /\ SpeakerOK(p)'
  BY <1>2, <1>3, Parts DEF LocksHeld, SpeakerOK, Speaking, Rendering
<1>9. RendererOK(p)' /\ CaptionerOK(p)'
  BY <1>2, <1>3, <1>4, <1>5 DEF RendererOK, CaptionerOK
<1>10. AloneOK(p)'
  BY <1>2, <1>3, Parts DEF AloneOK, Rendering
<1>11. ProcessOK(p)'
  BY <1>8, <1>9, <1>10 DEF ProcessOK
<1>12. r.pc \notin Speaking /\ proc[p].pc \in Rendering
  BY <1>2, <1>3 DEF Speaking, Rendering
<1> QED
  BY <1>2, <1>3, <1>4, <1>5, <1>7, <1>11, <1>12, VideoTypes, RenderStep DEF narration

LEMMA WriteMetaStep ==
    ASSUME MediaInv, NEW p \in Procs, WriteMeta(p)
    PROVE  MediaInv'
<1> DEFINE r == [proc[p] EXCEPT !.pc = "finish", !.wav = None, !.video = None]
<1>1. /\ proc[p].pc = "meta" /\ meta' = vtt /\ Ends(p)
      /\ row' = row /\ wav' = wav /\ proof' = proof /\ mp4' = mp4 /\ hls' = hls /\ source' = source
      /\ vtt' = vtt /\ audioLock' = audioLock /\ videoLock' = videoLock
      /\ player' = player /\ files' = files
  BY DEF WriteMeta, narration, video, locks
<1>2. videoLock /\ files \in Nat /\ proc[p].pc \in Rendering
  BY <1>1, Parts, Types DEF LocksHeld, Rendering
<1>3. Does(p, r) /\ r \in Process /\ r.pc = "finish" /\ ProcessOK(p)'
  BY <1>1, <1>2, EndsOK DEF Ends
<1> HIDE DEF r
<1>4. FilesOK'
  BY <1>1, Parts DEF FilesOK, PlayerOK, FitsVideo, Spoken
<1>5. r.pc \notin Speaking
  BY <1>3 DEF Speaking
<1> QED
  BY <1>1, <1>2, <1>3, <1>4, <1>5, VideoTypes, RenderStep DEF narration

-----------------------------------------------------------------------------
(* Operators, editors and players.                                         *)

LEMMA RemoveLocksStep ==
    ASSUME MediaInv, RemoveLocks
    PROVE  MediaInv'
<1>1. /\ \A p \in Procs : proc[p].pc = "idle"
      /\ audioLock' = FALSE /\ videoLock' = FALSE
      /\ row' = row /\ wav' = wav /\ proof' = proof /\ mp4' = mp4 /\ hls' = hls /\ source' = source
      /\ vtt' = vtt /\ meta' = meta /\ proc' = proc /\ player' = player /\ files' = files
  BY DEF RemoveLocks, narration, video, captions
<1>2. MediaTypeOK'
  BY <1>1 DEF MediaInv, MediaTypeOK
<1>3. FilesOK'
  BY <1>1, FilesStand DEF MediaInv
<1>4. ASSUME NEW p \in Procs
      PROVE  ProcessOK(p)'
  <2>1. LocksHeld(p)' /\ SpeakerOK(p)'
    BY <1>1 DEF LocksHeld, SpeakerOK, Speaking, Rendering
  <2>2. RendererOK(p)' /\ CaptionerOK(p)'
    BY <1>1 DEF RendererOK, CaptionerOK
  <2>3. AloneOK(p)'
    BY <1>1, Parts DEF AloneOK, Rendering
  <2> QED
    BY <2>1, <2>2, <2>3 DEF ProcessOK
<1>5. \A p, q \in Procs : Exclude(p, q)'
  BY <1>1 DEF Exclude, Speaking, Rendering
<1> QED
  BY <1>2, <1>3, <1>4, <1>5 DEF MediaInv

LEMMA RewriteStep ==
    ASSUME MediaInv, Rewrite
    PROVE  MediaInv'
<1>1. /\ row < MaxScripts /\ row' = row + 1
      /\ proc' = [p \in Procs |-> [proc[p] EXCEPT !.alone = FALSE]]
      /\ wav' = wav /\ proof' = proof /\ mp4' = mp4 /\ hls' = hls /\ source' = source
      /\ vtt' = vtt /\ meta' = meta /\ audioLock' = audioLock /\ videoLock' = videoLock
      /\ player' = player /\ files' = files
  BY DEF Rewrite, narration, video, captions, locks
<1>2. \A p \in Procs : /\ [proc[p] EXCEPT !.alone = FALSE] \in Process
                       /\ Same([proc[p] EXCEPT !.alone = FALSE], proc[p])
                       /\ [proc[p] EXCEPT !.alone = FALSE].alone = FALSE
  BY Types DEF MediaInv, Process, Same
<1>3. proc' \in [Procs -> Process]
  BY <1>1, <1>2
<1>4. \A p \in Procs : Same(proc'[p], proc[p]) /\ proc'[p].alone = FALSE
  <2> SUFFICES ASSUME NEW p \in Procs PROVE Same(proc'[p], proc[p]) /\ proc'[p].alone = FALSE
    OBVIOUS
  <2>1. proc'[p] = [proc[p] EXCEPT !.alone = FALSE]
    BY <1>1
  <2> QED
    BY <1>2, <2>1
<1>5. MediaTypeOK'
  <2>1. row \in Nat /\ row' \in 1..MaxScripts
    BY <1>1, MediaNumbers DEF MediaInv, MediaTypeOK
  <2> QED
    BY <1>1, <1>3, <2>1 DEF MediaInv, MediaTypeOK
<1>6. FilesOK'
  BY <1>1, FilesStand DEF MediaInv
<1>7. ASSUME NEW p \in Procs
      PROVE  ProcessOK(p)'
  <2>1. files' \in Nat /\ files <= files' /\ WavGrows
    BY <1>1, Parts, Types, WavStays
  <2>2. /\ proc[p].pc \in Speaking => audioLock' /\ wav' = wav
        /\ proc[p].pc \in Rendering => videoLock' /\ mp4' = mp4 /\ vtt' = vtt /\ meta' = meta
    BY <1>1, Parts DEF LocksHeld
  <2>3. Same(proc'[p], proc[p]) /\ proc'[p].alone = FALSE /\ (mp4 # None => mp4' # None)
    BY <1>1, <1>4
  <2> QED
    BY <2>1, <2>2, <2>3, Bystander
<1>8. \A p, q \in Procs : Exclude(p, q)'
  BY <1>4 DEF MediaInv, Exclude, Same
<1> QED
  BY <1>5, <1>6, <1>7, <1>8 DEF MediaInv

\* A step that disturbs nothing but the player.
LEMMA PlayerMoves ==
    ASSUME MediaInv, PlayerOK',
           UNCHANGED <<row, narration, video, captions, locks, proc, files>>,
           player' \in [pc : {"closed", "meta", "head", "shown"}, meta : {None} \cup CaptionFile,
                        heard : {None} \cup VideoFile]
    PROVE  MediaInv'
<1>1. /\ row' = row /\ wav' = wav /\ proof' = proof /\ mp4' = mp4 /\ hls' = hls /\ source' = source
      /\ vtt' = vtt /\ meta' = meta /\ audioLock' = audioLock /\ videoLock' = videoLock
      /\ proc' = proc /\ files' = files
  BY DEF narration, video, captions, locks
<1>2. MediaTypeOK'
  BY <1>1 DEF MediaInv, MediaTypeOK
<1>3. FilesOK'
  BY <1>1 DEF MediaInv, FilesOK, FitsVideo, Spoken
<1>4. ASSUME NEW p \in Procs
      PROVE  ProcessOK(p)'
  <2>1. LocksHeld(p)' /\ SpeakerOK(p)'
    BY <1>1, Parts DEF LocksHeld, SpeakerOK
  <2>2. RendererOK(p)' /\ CaptionerOK(p)'
    BY <1>1, Parts DEF RendererOK, CaptionerOK, Best, Spoken
  <2>3. AloneOK(p)'
    BY <1>1, Parts DEF AloneOK, Matches
  <2> QED
    BY <2>1, <2>2, <2>3 DEF ProcessOK
<1>5. \A p, q \in Procs : Exclude(p, q)'
  BY <1>1 DEF MediaInv, Exclude
<1> QED
  BY <1>2, <1>3, <1>4, <1>5 DEF MediaInv

LEMMA PlayerSteps ==
    ASSUME MediaInv, LoadMeta \/ LookAtVideo \/ LoadCaptions \/ Leave
    PROVE  MediaInv'
<1> DEFINE P == [pc : {"closed", "meta", "head", "shown"}, meta : {None} \cup CaptionFile,
                 heard : {None} \cup VideoFile]
<1>1. /\ player \in P /\ PlayerOK /\ FitsVideo(meta) /\ meta \in {None} \cup CaptionFile
      /\ mp4 \in {None} \cup VideoFile
  BY DEF MediaInv, MediaTypeOK, FilesOK
<1>2. /\ Closed \in P /\ Closed.pc = "closed" /\ Closed.meta = None
  BY DEF Closed
<1>3. CASE player' = Closed /\ UNCHANGED <<row, narration, video, captions, locks, proc, files>>
  <2>1. PlayerOK'
    BY <1>2, <1>3 DEF PlayerOK, FitsVideo
  <2> QED
    BY <1>2, <1>3, <2>1, PlayerMoves
<1>4. CASE LoadMeta
  <2>1. /\ meta # None /\ player' = [Closed EXCEPT !.pc = "meta", !.meta = meta]
        /\ UNCHANGED <<row, narration, video, captions, locks, proc, files>>
    BY <1>4 DEF LoadMeta
  <2>2. player' \in P /\ player'.pc = "meta" /\ player'.meta = meta
    BY <1>1, <2>1 DEF Closed
  <2>3. PlayerOK'
    BY <1>1, <2>1, <2>2 DEF PlayerOK, FitsVideo, Spoken, video
  <2> QED
    BY <2>1, <2>2, <2>3, PlayerMoves
<1>5. CASE LookAtVideo
  <2>1. player.pc = "meta" /\ UNCHANGED <<row, narration, video, captions, locks, proc, files>>
    BY <1>5 DEF LookAtVideo
  <2>2. CASE player.meta.video = mp4.n
    <3>1. player' = [player EXCEPT !.pc = "head", !.heard = mp4]
      BY <1>5, <2>2 DEF LookAtVideo
    <3>2. player' \in P /\ player'.pc = "head" /\ player'.meta = player.meta /\ player'.heard = mp4
      BY <1>1, <3>1
    <3>3. player.meta # None /\ mp4 # None /\ (~player.meta.legacy => Spoken(player.meta))
      BY <1>1, <2>1 DEF PlayerOK, FitsVideo
    <3>4. PlayerOK'
      BY <1>1, <2>1, <2>2, <3>2, <3>3 DEF PlayerOK, FitsVideo, Spoken, video
    <3> QED
      BY <2>1, <3>2, <3>4, PlayerMoves
  <2>3. CASE player.meta.video # mp4.n
    BY <1>3, <1>5, <2>1, <2>3 DEF LookAtVideo
  <2> QED
    BY <2>2, <2>3
<1>6. CASE LoadCaptions
  <2>1. player.pc = "head" /\ UNCHANGED <<row, narration, video, captions, locks, proc, files>>
    BY <1>6 DEF LoadCaptions
  <2>2. CASE vtt = player.meta
    <3>1. player' = [player EXCEPT !.pc = "shown"]
      BY <1>6, <2>2 DEF LoadCaptions
    <3>2. /\ player' \in P /\ player'.pc = "shown" /\ player'.meta = player.meta
          /\ player'.heard = player.heard
      BY <1>1, <3>1
    <3>3. PlayerOK'
      BY <1>1, <2>1, <3>2 DEF PlayerOK, FitsVideo, Spoken, video
    <3> QED
      BY <2>1, <3>2, <3>3, PlayerMoves
  <2>3. CASE vtt # player.meta
    BY <1>3, <1>6, <2>1, <2>3 DEF LoadCaptions
  <2> QED
    BY <2>2, <2>3
<1>7. CASE Leave
  BY <1>3, <1>7 DEF Leave
<1> QED
  BY <1>4, <1>5, <1>6, <1>7

-----------------------------------------------------------------------------
(* Theorems.                                                               *)

LEMMA InvInit == MediaInit => MediaInv
<1> SUFFICES ASSUME MediaInit PROVE MediaInv
  OBVIOUS
<1>1. /\ row = 1 /\ files = 0 /\ wav = None /\ proof = None /\ mp4 = None /\ hls = None
      /\ source = None /\ vtt = None /\ meta = None /\ audioLock = FALSE /\ videoLock = FALSE
      /\ proc = [p \in Procs |-> Idle] /\ player = Closed
  BY DEF MediaInit
<1>2. /\ Closed \in [pc : {"closed", "meta", "head", "shown"}, meta : {None} \cup CaptionFile,
                     heard : {None} \cup VideoFile]
      /\ Closed.pc = "closed" /\ Closed.meta = None
  BY DEF Closed
<1>3. MediaTypeOK
  <2>1. row \in 1..MaxScripts /\ files \in 0..MaxFiles
    BY <1>1, MediaNumbers
  <2>2. proc \in [Procs -> Process]
    BY <1>1, IdleIsProcess
  <2> QED
    BY <1>1, <1>2, <2>1, <2>2 DEF MediaTypeOK
<1>4. FilesOK
  BY <1>1, <1>2 DEF FilesOK, PlayerOK, FitsVideo
<1>5. \A p \in Procs : proc[p].pc = "idle" /\ proc[p].alone = FALSE
  BY <1>1, IdleIsProcess
<1>6. \A p \in Procs : ProcessOK(p)
  BY <1>5 DEF ProcessOK, LocksHeld, SpeakerOK, RendererOK, CaptionerOK, AloneOK, Speaking, Rendering
<1>7. \A p, q \in Procs : Exclude(p, q)
  BY <1>5 DEF Exclude, Speaking, Rendering
<1> QED
  BY <1>3, <1>4, <1>6, <1>7 DEF MediaInv

LEMMA InvNext == MediaInv /\ [MediaNext]_mediaVars => MediaInv'
<1> SUFFICES ASSUME MediaInv, [MediaNext]_mediaVars PROVE MediaInv'
  OBVIOUS
<1>1. ASSUME NEW p \in Procs, MediaStep(p)
      PROVE  MediaInv'
  <2>1. CASE Start(p)
    BY <2>1, StartStep
  <2>2. CASE Refused(p) \/ SpeechFails(p) \/ RenderFails(p) \/ Finish(p) \/ Dies(p)
    BY <2>2, IdleSteps
  <2>3. CASE SkipSpeech(p) \/ BeginSpeech(p) \/ EndSpeech(p) \/ ProveSpeech(p)
    BY <2>3, SkipSpeechStep, BeginSpeechStep, EndSpeechStep, ProveSpeechStep
  <2>4. CASE BeginRender(p) \/ PublishVideo(p) \/ Package(p) \/ RecordSource(p)
    BY <2>4, BeginRenderStep, PublishVideoStep, PackageStep, RecordSourceStep
  <2>5. CASE CheckCaptions(p) \/ TimingFails(p) \/ WriteCaptions(p) \/ WriteMeta(p)
    BY <2>5, CheckCaptionsStep, TimingFailsStep, WriteCaptionsStep, WriteMetaStep
  <2> QED
    BY <1>1, <2>1, <2>2, <2>3, <2>4, <2>5 DEF MediaStep
<1>2. CASE RemoveLocks
  BY <1>2, RemoveLocksStep
<1>3. CASE Rewrite
  BY <1>3, RewriteStep
<1>4. CASE LoadMeta \/ LookAtVideo \/ LoadCaptions \/ Leave
  BY <1>4, PlayerSteps
<1>5. CASE UNCHANGED mediaVars
  <2>1. PlayerOK'
    BY <1>5 DEF mediaVars, MediaInv, FilesOK, PlayerOK, FitsVideo, Spoken, video
  <2>2. UNCHANGED <<row, narration, video, captions, locks, proc, files>> /\ player' = player
    BY <1>5 DEF mediaVars, narration, video, captions, locks
  <2> QED
    BY <2>1, <2>2, PlayerMoves DEF MediaInv, MediaTypeOK
<1> QED
  BY <1>1, <1>2, <1>3, <1>4, <1>5 DEF MediaNext

LEMMA InvAlways == MediaSpec => []MediaInv
  BY InvInit, InvNext, PTL DEF MediaSpec

\* Files, locks, processes and the player have their types.
THEOREM MediaTypeCorrect == MediaSpec => []MediaTypeOK
<1>1. MediaInv => MediaTypeOK
  BY DEF MediaInv
<1> QED
  BY <1>1, InvAlways, PTL

\* What a player accepts fits the video it looked at (loadCaptions,
\* _existing_captions and the order in which captions are written).
THEOREM AcceptedCaptionsFit == MediaSpec => []AcceptedFits
<1>1. MediaInv => AcceptedFits
  BY DEF MediaInv, FilesOK, PlayerOK, AcceptedFits
<1> QED
  BY <1>1, InvAlways, PTL

\* A video that one process made undisturbed speaks the script it was asked
\* for (narration_matches, module_lock, record_video_source).
THEOREM UndisturbedVideoIsRight == MediaSpec => []SpokenIsWritten
<1>1. MediaInv => SpokenIsWritten
  BY DEF MediaInv, ProcessOK, AloneOK, Rendering, SpokenIsWritten
<1> QED
  BY <1>1, InvAlways, PTL

\* Aligned captions are not replaced by estimated ones (_keep_existing).
THEOREM AlignmentStays == MediaSpec => NeverDowngraded
<1> DEFINE Keeps == meta # None /\ meta = vtt /\ meta.aligned /\ ~meta.legacy /\ meta.video = mp4.n
                    /\ mp4' = mp4 => vtt'.aligned
<1>1. MediaInv /\ [MediaNext]_mediaVars => [Keeps]_<<vtt, meta>>
  <2> SUFFICES ASSUME MediaInv, [MediaNext]_mediaVars, Best PROVE vtt'.aligned \/ UNCHANGED <<vtt, meta>>
    BY DEF Best
  <2>1. vtt.aligned
    BY DEF Best
  <2>2. ASSUME NEW p \in Procs, WriteCaptions(p)
        PROVE  FALSE
    BY <2>2, Parts DEF WriteCaptions, CaptionerOK
  <2>3. CASE vtt' = vtt
    BY <2>1, <2>3
  <2>4. ASSUME NEW p \in Procs, MediaStep(p)
        PROVE  vtt' = vtt \/ WriteCaptions(p)
    BY <2>4 DEF MediaStep, Start, Refused, SkipSpeech, BeginSpeech, EndSpeech, SpeechFails, ProveSpeech,
       BeginRender, PublishVideo, Package, RenderFails, RecordSource, CheckCaptions, TimingFails,
       WriteMeta, Finish, Dies, captions
  <2>5. CASE RemoveLocks \/ Rewrite \/ LoadMeta \/ LookAtVideo \/ LoadCaptions \/ Leave
    BY <2>3, <2>5 DEF RemoveLocks, Rewrite, LoadMeta, LookAtVideo, LoadCaptions, Leave, captions
  <2>6. CASE UNCHANGED mediaVars
    BY <2>6 DEF mediaVars
  <2> QED
    BY <2>2, <2>3, <2>4, <2>5, <2>6 DEF MediaNext
<1> QED
  BY <1>1, InvAlways, PTL DEF MediaSpec, NeverDowngraded

-----------------------------------------------------------------------------
(***************************************************************************)
(* VideoService                                                            *)
(*                                                                         *)
(* The inductive invariant says why a request id that is saved before it   *)
(* is sent suffices: a run that the service works on for what is asked for *)
(* now has the id that the record in the database and the thread's copy    *)
(* hold, and an id is given up only when its run has ended.                *)
(***************************************************************************)

\* A run that was deleted has ended, and runs of the present round show the
\* present text.
RunsInv(m) == \A r \in DOMAIN runs[m] :
    /\ runs[m][r].deleted => runs[m][r].status # "processing"
    /\ runs[m][r].round <= round[m]
    /\ runs[m][r].round = round[m] => runs[m][r].edition = edition

\* What a record (the saved one or the thread's) knows of the runs.
Knows(m, rec) ==
    /\ rec.request <= Len(runs[m]) + 1
    /\ rec.run # 0 /\ rec.request # 0 => rec.run = rec.request
    /\ rec.request \in DOMAIN runs[m] => runs[m][rec.request].round = round[m]
    /\ \A r \in Active(m) : runs[m][r].round = round[m] => rec.request = r

HasRun == {"answered", "poll", "retry", "download", "delete", "stored", "save"}

\* The run of the thread has ended, as far as the thread acts on that.
Ended(m) ==
    \/ pc[m] \in {"answered", "poll"} /\ local[m].status \in Terminal
    \/ pc[m] \in {"retry", "download", "delete", "discard"}

ThreadInv(m) ==
    /\ local[m].request # 0 => record[m].request = local[m].request
    /\ pc[m] \in HasRun => local[m].run # 0 /\ local[m].request = local[m].run
    /\ Ended(m) /\ local[m].run \in DOMAIN runs[m] => runs[m][local[m].run].status # "processing"
    /\ pc[m] \in {"delete", "stored", "save"} \/ m \in videoPath => videoFile[m] = edition
    /\ videoStage = "idle" => pc[m] = "idle"

ModuleInv(m) == RunsInv(m) /\ Knows(m, record[m]) /\ Knows(m, local[m]) /\ ThreadInv(m)
ServiceInv == TypeOK /\ \A m \in Modules : ModuleInv(m)

LEMMA ServiceNumbers == MaxRetries \in Nat /\ MaxRejections \in Nat /\ MaxRounds \in Nat /\ MaxFaults \in Nat
  BY VideoAssumption DEF VideoAssumption

LEMMA NoRecordType == NoRecord \in ServiceRecord
  BY ServiceNumbers DEF NoRecord, ServiceRecord

LEMMA InitInv == Init => ServiceInv
<1> SUFFICES ASSUME Init PROVE ServiceInv
  OBVIOUS
<1>1. << >> \in Seq(Run) /\ Len(<< >>) = 0 /\ DOMAIN << >> = {}
  OBVIOUS
<1>2. TypeOK
  BY <1>1, NoRecordType, ServiceNumbers DEF Init, TypeOK, ThreadSteps
<1>3. ASSUME NEW m \in Modules PROVE ModuleInv(m)
  <2>1. runs[m] = << >> /\ record[m] = NoRecord /\ local[m] = NoRecord /\ pc[m] = "idle"
        /\ videoPath = {}
    BY <1>3 DEF Init
  <2> QED
    BY <1>1, <2>1 DEF ModuleInv, RunsInv, Knows, ThreadInv, Active, NoRecord, HasRun, Ended
<1> QED
  BY <1>2, <1>3 DEF ServiceInv

-----------------------------------------------------------------------------
(* A step of one module leaves the others' invariant alone.                *)

Kept(n) ==
    /\ runs'[n] = runs[n] /\ round'[n] = round[n]
    /\ record'[n] = record[n] /\ local'[n] = local[n] /\ pc'[n] = pc[n]
    /\ videoFile'[n] = videoFile[n] /\ (n \in videoPath' <=> n \in videoPath)

LEMMA KeptInv ==
    ASSUME NEW n \in Modules, ModuleInv(n), Kept(n), edition' = edition, videoStage' = videoStage
    PROVE  ModuleInv(n)'
  BY DEF Kept, ModuleInv, RunsInv, Knows, ThreadInv, Active, Ended

LEMMA OneModule ==
    ASSUME ServiceInv, NEW m \in Modules, TypeOK', ModuleInv(m)', edition' = edition, videoStage' = videoStage,
           \A n \in Modules \ {m} : Kept(n)
    PROVE  ServiceInv'
<1>1. ASSUME NEW n \in Modules PROVE ModuleInv(n)'
  BY <1>1, KeptInv DEF ServiceInv
<1> QED
  BY <1>1 DEF ServiceInv

\* The steps that change no run: what is left to show of the module.
LEMMA ThreadStep ==
    ASSUME ServiceInv, NEW m \in Modules,
           NEW saved \in ServiceRecord, NEW own \in ServiceRecord, NEW label \in ThreadSteps,
           UNCHANGED <<edition, round, runs, videoStage, videoPath, videoFile>>,
           record' = [record EXCEPT ![m] = saved], local' = [local EXCEPT ![m] = own],
           pc' = [pc EXCEPT ![m] = label],
           rejections' \in [Modules -> Nat], faults' \in 0..MaxFaults,
           Knows(m, saved), Knows(m, own), ThreadInv(m)'
    PROVE  ServiceInv'
<1>1. TypeOK'
  BY DEF ServiceInv, TypeOK
<1>2. record'[m] = saved /\ local'[m] = own
  BY DEF ServiceInv, TypeOK
<1>3. ModuleInv(m)'
  BY <1>2 DEF ServiceInv, ModuleInv, RunsInv, Knows, Active
<1>4. \A n \in Modules \ {m} : Kept(n)
  BY DEF ServiceInv, TypeOK, Kept
<1> QED
  BY <1>1, <1>3, <1>4, OneModule

\* The steps that change one of the module's runs.
LEMMA RunStep ==
    ASSUME ServiceInv, NEW m \in Modules, NEW r \in DOMAIN runs[m], NEW run \in Run,
           NEW own \in ServiceRecord, NEW label \in ThreadSteps,
           runs' = [runs EXCEPT ![m] = [runs[m] EXCEPT ![r] = run]],
           UNCHANGED <<edition, round, record, videoStage, videoPath, videoFile>>,
           local' = [local EXCEPT ![m] = own], pc' = [pc EXCEPT ![m] = label],
           rejections' \in [Modules -> Nat], faults' \in 0..MaxFaults,
           run.round = runs[m][r].round, run.edition = runs[m][r].edition,
           run.deleted => run.status # "processing",
           run.status = "processing" /\ run.round = round[m] => r = record[m].request /\ r = own.request,
           own.run = local[m].run, own.request = local[m].request, ThreadInv(m)'
    PROVE  ServiceInv'
<1>0. /\ TypeOK /\ runs[m] \in Seq(Run) /\ r \in 1..Len(runs[m]) /\ m \in DOMAIN runs
      /\ DOMAIN runs[m] = 1..Len(runs[m]) /\ RunsInv(m) /\ Knows(m, record[m]) /\ Knows(m, local[m])
  BY DEF ServiceInv, TypeOK, ModuleInv
<1> DEFINE new == [runs[m] EXCEPT ![r] = run]
<1>1. /\ new \in Seq(Run) /\ Len(new) = Len(runs[m])
      /\ \A j \in 1..Len(runs[m]) : new[j] = IF j = r THEN run ELSE runs[m][j]
  BY <1>0, ExceptSeq
<1>2. runs'[m] = new /\ DOMAIN new = 1..Len(runs[m]) /\ local'[m] = own /\ pc'[m] = label
  BY <1>0, <1>1 DEF TypeOK
<1> HIDE DEF new
<1>3. TypeOK'
  BY <1>0, <1>1 DEF TypeOK, new
<1>4. RunsInv(m)'
  BY <1>0, <1>1, <1>2 DEF RunsInv
<1>5. \A q \in Active(m)' : q = r \/ q \in Active(m)
  BY <1>0, <1>1, <1>2 DEF Active
<1>6. Knows(m, record[m])'
  BY <1>0, <1>1, <1>2, <1>5 DEF Knows, Active
<1>7. Knows(m, local[m])'
  BY <1>0, <1>1, <1>2, <1>5 DEF Knows, Active
<1>8. \A n \in Modules \ {m} : Kept(n)
  BY <1>0 DEF TypeOK, Kept
<1> QED
  BY <1>3, <1>4, <1>6, <1>7, <1>8, OneModule DEF ModuleInv

-----------------------------------------------------------------------------
(* The steps of a thread that leave the runs alone.                        *)

LEMMA Facts ==
    ASSUME ServiceInv, NEW m \in Modules
    PROVE  /\ TypeOK /\ runs[m] \in Seq(Run) /\ DOMAIN runs[m] = 1..Len(runs[m]) /\ Len(runs[m]) \in Nat
           /\ record[m] \in ServiceRecord /\ local[m] \in ServiceRecord /\ pc[m] \in ThreadSteps
           /\ RunsInv(m) /\ Knows(m, record[m]) /\ Knows(m, local[m]) /\ ThreadInv(m)
           /\ record = [record EXCEPT ![m] = record[m]] /\ local = [local EXCEPT ![m] = local[m]]
           /\ pc = [pc EXCEPT ![m] = pc[m]]
           /\ rejections \in [Modules -> Nat] /\ faults \in 0..MaxFaults
  BY DEF ServiceInv, TypeOK, ModuleInv

LEMMA FaultType == ASSUME TypeOK, Fault PROVE faults' \in 0..MaxFaults
  BY ServiceNumbers DEF TypeOK, Fault

\* A step of the thread to a label where it has no run in hand.
LEMMA LabelStep ==
    ASSUME ServiceInv, NEW m \in Modules, NEW label \in {"start", "submit", "failed"},
           videoStage = "running",
           UNCHANGED <<edition, round, runs, videoStage, videoPath, videoFile, record, local>>,
           pc' = [pc EXCEPT ![m] = label],
           rejections' \in [Modules -> Nat], faults' \in 0..MaxFaults
    PROVE  ServiceInv'
<1>1. pc'[m] = label
  BY DEF ServiceInv, TypeOK
<1>2. ThreadInv(m)'
  BY <1>1, Facts DEF ThreadInv, HasRun, Ended
<1> QED
  BY <1>2, Facts, ThreadStep DEF ThreadSteps

\* Whoever is not idle runs in a stage.
LEMMA Running == ASSUME ServiceInv, NEW m \in Modules, pc[m] # "idle" PROVE videoStage = "running"
  BY Facts DEF ThreadInv, TypeOK

LEMMA CallFailsInv == ASSUME ServiceInv, NEW m \in Modules, CallFails(m) PROVE ServiceInv'
<1>1. videoStage = "running"
  BY Running DEF CallFails
<1>2. faults' \in 0..MaxFaults
  BY Facts, FaultType DEF CallFails
<1> QED
  BY <1>1, <1>2, Facts, LabelStep DEF CallFails, GoTo, serviceVars, savedVars

LEMMA PickUpInv == ASSUME ServiceInv, NEW m \in Modules, PickUp(m) PROVE ServiceInv'
<1>1. videoStage = "running"
  BY Running DEF PickUp
<1> QED
  BY <1>1, Facts, LabelStep DEF PickUp, GoTo, serviceVars, savedVars

LEMMA CurrentStatusInv == ASSUME ServiceInv, NEW m \in Modules, CurrentStatus(m) PROVE ServiceInv'
<1> DEFINE rec == local[m]
<1>1. videoStage = "running" /\ pc[m] = "start"
  BY Running DEF CurrentStatus
<1>2. CASE Resumes(m) /\ Known(m, rec.run) /\ Persist(m, [rec EXCEPT !.status = runs[m][rec.run].status])
           /\ GoTo(m, "poll")
  <2> DEFINE new == [rec EXCEPT !.status = runs[m][rec.run].status]
  <2>1. rec.run \in DOMAIN runs[m] /\ runs[m][rec.run] \in Run
    BY <1>2, Facts DEF Known
  <2>2. /\ new \in ServiceRecord /\ new.request = rec.request /\ new.run = rec.run
        /\ new.status = runs[m][rec.run].status
    <3>1. rec \in ServiceRecord
      BY Facts
    <3>2. runs[m][rec.run].status \in Terminal \cup {"processing"}
      BY <2>1 DEF Run
    <3> QED
      BY <3>1, <3>2 DEF ServiceRecord
  <2>3. Knows(m, new)
    BY <2>2, Facts DEF Knows
  <2>4. record' = [record EXCEPT ![m] = new] /\ local' = [local EXCEPT ![m] = new]
        /\ pc' = [pc EXCEPT ![m] = "poll"]
    BY <1>2 DEF Persist, GoTo
  <2> HIDE DEF new
  <2>5. record'[m] = new /\ local'[m] = new /\ pc'[m] = "poll"
    BY <2>4, Facts DEF TypeOK
  <2>6. UNCHANGED <<edition, round, runs, videoStage, videoPath, videoFile, rejections, faults>>
    BY DEF CurrentStatus, serviceVars
  <2>7. rec.run # 0 /\ rec.run = rec.request
    BY <1>2, Facts DEF Resumes, Knows
  <2>8. ThreadInv(m)'
    BY <1>1, <2>1, <2>2, <2>5, <2>6, <2>7, Facts DEF ThreadInv, HasRun, Ended, Terminal
  <2> QED
    BY <2>2, <2>3, <2>4, <2>6, <2>8, Facts, ThreadStep DEF ThreadSteps
<1>3. CASE /\ Resumes(m) /\ ~Known(m, rec.run) /\ GoTo(m, "submit") /\ UNCHANGED record
           /\ local' = [local EXCEPT ![m].request = 0]
  <2> DEFINE new == [rec EXCEPT !.request = 0]
  <2>1. new \in ServiceRecord /\ new.request = 0 /\ new.run = rec.run
    BY Facts DEF ServiceRecord
  <2>2. local' = [local EXCEPT ![m] = new] /\ pc' = [pc EXCEPT ![m] = "submit"]
    BY <1>3 DEF GoTo
  <2> HIDE DEF new
  <2>3. local'[m] = new /\ pc'[m] = "submit"
    BY <2>2, Facts DEF TypeOK
  <2>4. UNCHANGED <<edition, round, runs, videoStage, videoPath, videoFile, record, rejections, faults>>
    BY <1>3 DEF CurrentStatus, serviceVars
  <2>5. \A r \in Active(m) : runs[m][r].round # round[m]
    <3>1. rec.run = rec.request
      BY <1>3, Facts DEF Resumes, Knows
    <3>2. rec.run \in DOMAIN runs[m] => runs[m][rec.run].status # "processing"
      BY <1>3, Facts DEF Known, RunsInv
    <3> QED
      BY <3>1, <3>2, Facts DEF Knows, Active
  <2>6. Knows(m, new)
    BY <2>1, <2>5, Facts DEF Knows
  <2>7. ThreadInv(m)'
    BY <1>1, <2>1, <2>3, <2>4, Facts DEF ThreadInv, HasRun, Ended
  <2> QED
    BY <2>1, <2>2, <2>4, <2>6, <2>7, Facts, ThreadStep DEF ThreadSteps
<1>4. CASE ~Resumes(m) /\ GoTo(m, "submit") /\ UNCHANGED <<local, record>>
  BY <1>1, <1>4, Facts, LabelStep DEF CurrentStatus, GoTo, serviceVars
<1> QED
  BY <1>2, <1>3, <1>4 DEF CurrentStatus

LEMMA NewRequestInv == ASSUME ServiceInv, NEW m \in Modules, NewRequest(m) PROVE ServiceInv'
<1> DEFINE new == [local[m] EXCEPT !.request = Len(runs[m]) + 1, !.run = 0, !.status = "submitting"]
<1>1. videoStage = "running" /\ pc[m] = "submit" /\ local[m].request = 0
  BY Running DEF NewRequest
<1>2. new \in ServiceRecord /\ new.request = Len(runs[m]) + 1 /\ new.run = 0
  <2>1. local[m] \in ServiceRecord /\ Len(runs[m]) + 1 \in Nat
    BY Facts
  <2> QED
    BY <2>1 DEF ServiceRecord
<1>3. record' = [record EXCEPT ![m] = new] /\ local' = [local EXCEPT ![m] = new]
  BY DEF NewRequest, Persist
<1> HIDE DEF new
<1>4. UNCHANGED <<edition, round, runs, videoStage, videoPath, videoFile, rejections, pc, faults>>
  BY DEF NewRequest, serviceVars
<1>5. record'[m] = new /\ local'[m] = new
  BY <1>3, Facts DEF TypeOK
<1>6. Knows(m, new)
  BY <1>1, <1>2, Facts DEF Knows, Active
<1>7. ThreadInv(m)'
  BY <1>1, <1>2, <1>4, <1>5, Facts DEF ThreadInv, HasRun, Ended
<1>8. pc' = [pc EXCEPT ![m] = pc[m]]
  BY <1>4, Facts
<1> QED
  BY <1>2, <1>3, <1>4, <1>6, <1>7, <1>8, Facts, ThreadStep

LEMMA RejectedInv == ASSUME ServiceInv, NEW m \in Modules, Rejected(m) PROVE ServiceInv'
<1> DEFINE r == local[m].request
           new == [local[m] EXCEPT !.request = 0]
<1>1. videoStage = "running" /\ pc[m] = "submit" /\ r # 0
  BY Running DEF Rejected
<1>2. UNCHANGED <<edition, round, runs, videoStage, videoPath, videoFile, record>>
  BY DEF Rejected, serviceVars, savedVars
<1>3. rejections' \in [Modules -> Nat] /\ faults' \in 0..MaxFaults
  <2>1. rejections' = [rejections EXCEPT ![m] = @ + 1] /\ (faults' = faults \/ Fault)
    BY DEF Rejected
  <2> QED
    BY <2>1, Facts, FaultType
<1>4. CASE GoTo(m, "failed") /\ UNCHANGED local
  BY <1>1, <1>2, <1>3, <1>4, LabelStep DEF GoTo
<1>5. CASE local' = [local EXCEPT ![m].request = 0] /\ UNCHANGED pc
  <2>1. new \in ServiceRecord /\ new.request = 0 /\ new.run = local[m].run
    <3>1. local[m] \in ServiceRecord
      BY Facts
    <3> QED
      BY <3>1 DEF ServiceRecord
  <2>2. local' = [local EXCEPT ![m] = new] /\ pc' = [pc EXCEPT ![m] = pc[m]]
    BY <1>5, Facts
  <2> HIDE DEF new
  <2>3. local'[m] = new /\ pc'[m] = "submit"
    BY <1>1, <2>2, Facts DEF TypeOK
  <2>4. \A q \in Active(m) : runs[m][q].round # round[m]
    <3>1. r \notin DOMAIN runs[m] \/ runs[m][r].deleted \/ runs[m][r].edition # edition
      BY DEF Rejected
    <3>2. ASSUME r \in Active(m) PROVE runs[m][r].round # round[m]
      BY <3>1, <3>2, Facts DEF RunsInv, Active
    <3> QED
      BY <3>2, Facts DEF Knows
  <2>5. Knows(m, new)
    BY <2>1, <2>4, Facts DEF Knows
  <2>6. ThreadInv(m)'
    BY <1>1, <1>2, <2>1, <2>3, Facts DEF ThreadInv, HasRun, Ended
  <2> QED
    BY <1>2, <1>3, <2>1, <2>2, <2>5, <2>6, Facts, ThreadStep
<1> QED
  BY <1>4, <1>5 DEF Rejected

\* Steps that save the thread's record, changed in what no run is known by.
LEMMA PersistStep ==
    ASSUME ServiceInv, NEW m \in Modules, NEW new \in ServiceRecord, NEW label \in ThreadSteps,
           pc[m] # "idle", Persist(m, new), pc' = [pc EXCEPT ![m] = label],
           UNCHANGED <<edition, round, runs, videoStage, videoPath, videoFile, rejections, faults>>,
           new.run = local[m].run, new.request = local[m].request,
           label \in HasRun => pc[m] \in HasRun,
           \/ label \notin {"answered", "poll"} \/ new.status \notin Terminal
           \/ local[m].run \in DOMAIN runs[m] => runs[m][local[m].run].status # "processing",
           \/ label \notin {"retry", "download", "delete", "discard"}
           \/ local[m].run \in DOMAIN runs[m] => runs[m][local[m].run].status # "processing",
           label \in {"delete", "stored", "save"} => videoFile[m] = edition
    PROVE  ServiceInv'
<1>1. Knows(m, new)
  BY Facts DEF Knows
<1>2. record' = [record EXCEPT ![m] = new] /\ local' = [local EXCEPT ![m] = new]
  BY DEF Persist
<1>3. record'[m] = new /\ local'[m] = new /\ pc'[m] = label
  BY <1>2, Facts DEF TypeOK
<1>4. videoStage = "running"
  BY Running
<1>5. ThreadInv(m)'
  BY <1>3, <1>4, Facts DEF ThreadInv, HasRun, Ended
<1> QED
  BY <1>1, <1>2, <1>5, Facts, ThreadStep

LEMMA AnsweredInv == ASSUME ServiceInv, NEW m \in Modules, Answered(m) PROVE ServiceInv'
<1>1. pc[m] = "answered" /\ local[m] \in ServiceRecord
  BY Facts DEF Answered
<1>2. local[m].status \in Terminal /\ local[m].run \in DOMAIN runs[m] =>
         runs[m][local[m].run].status # "processing"
  BY <1>1, Facts DEF ThreadInv, Ended
<1> QED
  BY <1>1, <1>2, PersistStep DEF Answered, GoTo, serviceVars, ThreadSteps, HasRun

LEMMA PollInv == ASSUME ServiceInv, NEW m \in Modules, Poll(m) PROVE ServiceInv'
<1> DEFINE r == local[m].run
           new == [local[m] EXCEPT !.status = runs[m][r].status]
<1>1. pc[m] = "poll" /\ videoStage = "running" /\ UNCHANGED <<rejections, faults, videoStage>>
      /\ UNCHANGED <<edition, round, runs, videoPath, videoFile>>
  BY Running DEF Poll, serviceVars
<1>2. CASE Known(m, r) /\ Persist(m, new) /\ UNCHANGED pc
  <2>1. r \in DOMAIN runs[m] /\ runs[m][r] \in Run /\ local[m] \in ServiceRecord
    BY <1>2, Facts DEF Known
  <2>2. runs[m][r].status \in Terminal \cup {"processing"} /\ "processing" \notin Terminal
    BY <2>1 DEF Run, Terminal
  <2>3. /\ new \in ServiceRecord /\ new.request = local[m].request /\ new.run = r
        /\ new.status = runs[m][r].status
    BY <2>1, <2>2 DEF ServiceRecord
  <2>4. pc' = [pc EXCEPT ![m] = "poll"]
    BY <1>1, <1>2, Facts
  <2> HIDE DEF new
  <2> QED
    BY ZenonT(60), <1>1, <1>2, <2>2, <2>3, <2>4, PersistStep DEF ThreadSteps, HasRun
<1>3. CASE GoTo(m, "failed") /\ UNCHANGED <<local, record>>
  BY <1>1, <1>3, Facts, LabelStep DEF GoTo
<1> QED
  BY <1>2, <1>3 DEF Poll

LEMMA StoredInv == ASSUME ServiceInv, NEW m \in Modules, Stored(m) PROVE ServiceInv'
<1> DEFINE new == [local[m] EXCEPT !.status = "stored"]
<1>1. pc[m] = "stored" /\ UNCHANGED <<edition, round, runs, videoStage, videoPath, videoFile, rejections, faults>>
  BY DEF Stored, serviceVars
<1>2. new \in ServiceRecord /\ new.request = local[m].request /\ new.run = local[m].run
  <2>1. local[m] \in ServiceRecord
    BY Facts
  <2> QED
    BY <2>1 DEF ServiceRecord
<1>3. Persist(m, new) /\ pc' = [pc EXCEPT ![m] = "save"] /\ videoFile[m] = edition
  BY Facts DEF Stored, GoTo, ThreadInv
<1> HIDE DEF new
<1> QED
  BY <1>1, <1>2, <1>3, PersistStep DEF ThreadSteps, HasRun

LEMMA DecideInv == ASSUME ServiceInv, NEW m \in Modules, Decide(m) PROVE ServiceInv'
<1> DEFINE rec == local[m]
           ended == rec.run \in DOMAIN runs[m] => runs[m][rec.run].status # "processing"
<1>1. /\ pc[m] = "poll" /\ rec.status \in Terminal /\ videoStage = "running" /\ rec \in ServiceRecord
      /\ UNCHANGED <<edition, round, runs, videoStage, videoPath, videoFile, rejections, faults>>
  BY Running, Facts DEF Decide, serviceVars
<1>2. ended /\ rec.run # 0 /\ rec.request = rec.run
  BY <1>1, Facts DEF ThreadInv, Ended, HasRun
<1>3. CASE GoTo(m, "download") /\ UNCHANGED <<local, record>>
  <2>1. pc' = [pc EXCEPT ![m] = "download"] /\ pc'[m] = "download"
    BY <1>3, Facts DEF GoTo, TypeOK
  <2>2. ThreadInv(m)'
    BY <1>1, <1>2, <1>3, <2>1, Facts DEF ThreadInv, HasRun, Ended
  <2> QED
    BY <1>1, <1>3, <2>1, <2>2, Facts, ThreadStep DEF ThreadSteps
<1>4. CASE MayRetry(rec) /\ CountRetry(m) /\ GoTo(m, "retry")
  <2> DEFINE new == [rec EXCEPT !.retries = @ + 1]
  <2>1. rec.retries + 1 \in 0..MaxRetries
    BY <1>1, <1>4, ServiceNumbers DEF MayRetry, ServiceRecord
  <2>2. new \in ServiceRecord /\ new.request = rec.request /\ new.run = rec.run
    BY <1>1, <2>1 DEF ServiceRecord
  <2>3. Persist(m, new) /\ pc' = [pc EXCEPT ![m] = "retry"]
    BY <1>4 DEF CountRetry, GoTo
  <2> HIDE DEF new
  <2> QED
    BY <1>1, <1>2, <2>2, <2>3, PersistStep DEF ThreadSteps, HasRun
<1>5. CASE Persist(m, Forgotten(rec)) /\ \E label \in {"failed", "discard"} : GoTo(m, label)
  <2> DEFINE new == Forgotten(rec)
  <2>1. new \in ServiceRecord /\ new.request = 0 /\ new.run = rec.run
    BY <1>1 DEF Forgotten, ServiceRecord
  <2>2. record' = [record EXCEPT ![m] = new] /\ local' = [local EXCEPT ![m] = new]
    BY <1>5 DEF Persist
  <2> HIDE DEF new
  <2>3. PICK label \in {"failed", "discard"} : pc' = [pc EXCEPT ![m] = label]
    BY <1>5 DEF GoTo
  <2>4. record'[m] = new /\ local'[m] = new /\ pc'[m] = label
    BY <2>2, <2>3, Facts DEF TypeOK
  <2>5. \A r \in Active(m) : runs[m][r].round # round[m]
    BY <1>2, Facts DEF Knows, Active
  <2>6. Knows(m, new)
    BY <2>1, <2>5, Facts DEF Knows
  <2>7. ThreadInv(m)'
    BY <1>1, <1>2, <2>1, <2>4, Facts DEF ThreadInv, HasRun, Ended
  <2> QED
    BY <1>1, <2>1, <2>2, <2>3, <2>6, <2>7, Facts, ThreadStep DEF ThreadSteps
<1>6. ASSUME rec.status # "succeeded", ~MayRetry(rec)
      PROVE  Persist(m, Forgotten(rec)) /\ \E label \in {"failed", "discard"} : GoTo(m, label)
  BY <1>6 DEF Decide
<1> QED
  BY <1>3, <1>4, <1>5, <1>6 DEF Decide

-----------------------------------------------------------------------------
(* The steps at the service.                                               *)

\* The service accepts a new request.
LEMMA AppendStep ==
    ASSUME ServiceInv, NEW m \in Modules, NEW run \in Run, NEW own \in ServiceRecord,
           NEW label \in ThreadSteps,
           runs' = [runs EXCEPT ![m] = Append(runs[m], run)],
           UNCHANGED <<edition, round, record, videoStage, videoPath, videoFile>>,
           local' = [local EXCEPT ![m] = own], pc' = [pc EXCEPT ![m] = label],
           rejections' \in [Modules -> Nat], faults' \in 0..MaxFaults,
           run.round = round[m], run.edition = edition, ~run.deleted,
           local[m].request # 0, local[m].request \notin DOMAIN runs[m],
           own.request = local[m].request, own.run \in {own.request, local[m].run},
           ThreadInv(m)'
    PROVE  ServiceInv'
<1> DEFINE new == Append(runs[m], run)
           r == local[m].request
<1>0. /\ TypeOK /\ runs[m] \in Seq(Run) /\ RunsInv(m) /\ Knows(m, record[m]) /\ Knows(m, local[m])
      /\ DOMAIN runs[m] = 1..Len(runs[m]) /\ Len(runs[m]) \in Nat /\ r \in Nat /\ record[m].request = r
      /\ round[m] \in Nat
  BY Facts DEF ThreadInv, ServiceRecord, TypeOK
<1>1. r = Len(runs[m]) + 1
  BY <1>0 DEF Knows
<1>2. /\ new \in Seq(Run) /\ Len(new) = Len(runs[m]) + 1 /\ new[r] = run
      /\ \A j \in 1..Len(runs[m]) : new[j] = runs[m][j]
  BY <1>0, <1>1, AppendProperties
<1>3. runs'[m] = new /\ DOMAIN new = 1..(Len(runs[m]) + 1) /\ local'[m] = own
  BY <1>0, <1>2 DEF TypeOK
<1> HIDE DEF new
<1>4. TypeOK'
  BY <1>0, <1>2 DEF TypeOK, new
<1>5. \A q \in DOMAIN runs'[m] : q = r \/ (q \in DOMAIN runs[m] /\ runs'[m][q] = runs[m][q])
  BY <1>0, <1>1, <1>2, <1>3
<1>6. RunsInv(m)'
  BY <1>0, <1>2, <1>3, <1>5 DEF RunsInv
<1>7. ASSUME NEW q \in Active(m)', runs'[m][q].round = round[m] PROVE q = r
  BY <1>0, <1>5, <1>7 DEF Active, Knows
<1>8. ASSUME NEW rec \in ServiceRecord, rec.request = r, rec.run # 0 => rec.run = r
      PROVE  /\ rec.request <= Len(runs'[m]) + 1
             /\ rec.run # 0 /\ rec.request # 0 => rec.run = rec.request
             /\ rec.request \in DOMAIN runs'[m] => runs'[m][rec.request].round = round'[m]
             /\ \A q \in Active(m)' : runs'[m][q].round = round'[m] => rec.request = q
  <2>1. Len(runs'[m]) = r /\ runs'[m][r] = run /\ round'[m] = round[m]
    BY <1>0, <1>1, <1>2, <1>3
  <2>2. \A q \in Active(m)' : runs'[m][q].round = round'[m] => rec.request = q
    BY <1>7, <1>8, <2>1
  <2>3. rec.request <= Len(runs'[m]) + 1
    BY <1>0, <1>8, <2>1
  <2> QED
    BY <1>8, <2>1, <2>2, <2>3
<1>k. record[m] \in ServiceRecord /\ (record[m].run # 0 => record[m].run = r)
  BY <1>0, Facts DEF Knows
<1>l. own.run # 0 => own.run = r
  BY <1>0 DEF Knows
<1>s. Knows(m, record[m])'
  BY <1>0, <1>8, <1>k DEF Knows
<1>o. Knows(m, local[m])'
  BY <1>3, <1>8, <1>l DEF Knows
<1>9. \A n \in Modules \ {m} : Kept(n)
  BY <1>0 DEF TypeOK, Kept
<1> QED
  BY <1>4, <1>6, <1>s, <1>o, <1>9, OneModule DEF ModuleInv

NewRun(m) == [status |-> "processing", deleted |-> FALSE, edition |-> edition, round |-> round[m],
              retries |-> 0]

LEMMA SubmitInv == ASSUME ServiceInv, NEW m \in Modules, Submit(m) PROVE ServiceInv'
<1> DEFINE r == local[m].request
           own == [local[m] EXCEPT !.run = r, !.status = runs'[m][r].status, !.retries = 0]
<1>1. /\ pc[m] = "submit" /\ videoStage = "running" /\ r # 0 /\ local[m] \in ServiceRecord
      /\ record[m].request = r /\ runs[m] \in Seq(Run) /\ Knows(m, local[m]) /\ r \in Nat
      /\ DOMAIN runs[m] = 1..Len(runs[m])
      /\ UNCHANGED <<edition, round, record, videoStage, videoPath, videoFile, rejections, faults>>
  BY Running, Facts DEF Submit, Accepts, ThreadInv, savedVars, ServiceRecord
<1>2. local' = [local EXCEPT ![m] = own] /\ pc' = [pc EXCEPT ![m] = "answered"]
  BY DEF Submit, GoTo
<1>3. ASSUME runs'[m][r].status \in Terminal \cup {"processing"}
      PROVE  /\ own \in ServiceRecord /\ own.request = r /\ own.run = r
             /\ own.status = runs'[m][r].status
  <2> DEFINE status == runs'[m][r].status
  <2> HIDE DEF status
  <2>1. status \in Terminal \cup {"processing"} /\ 0 \in 0..MaxRetries
    BY <1>3, ServiceNumbers DEF status
  <2>2. LET new == [local[m] EXCEPT !.run = r, !.status = status, !.retries = 0]
        IN new \in ServiceRecord /\ new.request = r /\ new.run = r /\ new.status = status
    BY <1>1, <2>1 DEF ServiceRecord
  <2> QED
    BY <2>2 DEF status
<1> HIDE DEF own
<1>4. local'[m] = own /\ pc'[m] = "answered"
  BY <1>2, Facts DEF TypeOK
<1>5. ASSUME own.request = r, own.run = r, own.status = runs'[m][r].status
      PROVE  ThreadInv(m)'
  BY <1>1, <1>4, <1>5, Facts DEF ThreadInv, HasRun, Ended, Terminal
<1>6. CASE r \notin DOMAIN runs[m] /\ runs' = [runs EXCEPT ![m] = Append(@, NewRun(m))]
  <2>1. NewRun(m) \in Run /\ NewRun(m).round = round[m] /\ NewRun(m).edition = edition
        /\ ~NewRun(m).deleted /\ NewRun(m).status = "processing"
    BY Facts DEF NewRun, Run, TypeOK
  <2>2. r = Len(runs[m]) + 1
    BY <1>1, <1>6 DEF Knows
  <2>3. runs'[m][r] = NewRun(m)
    BY <1>1, <1>6, <2>1, <2>2, AppendProperties, Facts DEF TypeOK
  <2>4. runs' = [runs EXCEPT ![m] = Append(runs[m], NewRun(m))]
    BY <1>6
  <2>5. /\ own \in ServiceRecord /\ own.request = r /\ own.run = r
        /\ own.status = runs'[m][r].status
    BY <1>3, <2>1, <2>3
  <2>6. ThreadInv(m)' /\ rejections' \in [Modules -> Nat] /\ faults' \in 0..MaxFaults
    BY <1>1, <1>5, <2>5, Facts
  <2>7. UNCHANGED <<edition, round, record, videoStage, videoPath, videoFile>> /\ "answered" \in ThreadSteps
        /\ local[m].request # 0 /\ local[m].request \notin DOMAIN runs[m]
    BY <1>1, <1>6 DEF ThreadSteps
  <2> HIDE DEF r
  <2>8. own.request = local[m].request /\ own.run \in {own.request, local[m].run}
    BY <2>5 DEF r
  <2> QED
    BY <1>2, <2>1, <2>4, <2>5, <2>6, <2>7, <2>8, AppendStep
<1>7. CASE Known(m, r) /\ UNCHANGED runs
  <2>0. r \in DOMAIN runs[m]
    BY <1>7 DEF Known
  <2>e. runs[m][r] \in Run
    BY <1>1, <2>0
  <2>1. runs[m][r].status \in Terminal \cup {"processing"}
    BY <2>e DEF Run
  <2>2. /\ own \in ServiceRecord /\ own.request = r /\ own.run = r
        /\ own.status = runs'[m][r].status
    BY <1>3, <1>7, <2>1
  <2>3. Knows(m, own)
    BY <1>1, <2>2 DEF Knows
  <2>4. record' = [record EXCEPT ![m] = record[m]]
    BY <1>1, Facts
  <2> QED
    BY <1>1, <1>2, <1>5, <1>7, <2>2, <2>3, <2>4, ThreadStep, Facts DEF ThreadSteps
<1> QED
  BY <1>6, <1>7 DEF Submit, Accepts, NewRun

LEMMA SubmitUnansweredInv ==
    ASSUME ServiceInv, NEW m \in Modules, SubmitUnanswered(m) PROVE ServiceInv'
<1>1. /\ pc[m] = "submit" /\ videoStage = "running" /\ faults' \in 0..MaxFaults
      /\ UNCHANGED <<edition, round, record, local, videoStage, videoPath, videoFile, rejections>>
      /\ pc' = [pc EXCEPT ![m] = "failed"]
  BY Running, Facts, FaultType DEF SubmitUnanswered, savedVars, GoTo
<1>2. CASE /\ local[m].request # 0 /\ local[m].request \notin DOMAIN runs[m]
           /\ runs' = [runs EXCEPT ![m] = Append(@, NewRun(m))]
  <2>1. NewRun(m) \in Run /\ NewRun(m).round = round[m] /\ NewRun(m).edition = edition
        /\ ~NewRun(m).deleted
    BY Facts DEF NewRun, Run, TypeOK
  <2>2. runs' = [runs EXCEPT ![m] = Append(runs[m], NewRun(m))]
    BY <1>2
  <2>3. pc'[m] = "failed"
    BY <1>1, Facts DEF TypeOK
  <2>4. ThreadInv(m)'
    BY <1>1, <2>3, Facts DEF ThreadInv, HasRun, Ended
  <2>5. /\ local[m] \in ServiceRecord /\ local' = [local EXCEPT ![m] = local[m]]
        /\ rejections' \in [Modules -> Nat] /\ "failed" \in ThreadSteps
    BY <1>1, Facts DEF ThreadSteps
  <2> QED
    BY <1>1, <1>2, <2>1, <2>2, <2>4, <2>5, AppendStep
<1>3. CASE UNCHANGED runs
  BY <1>1, <1>3, Facts, LabelStep
<1> QED
  BY <1>2, <1>3 DEF SubmitUnanswered, Accepts, NewRun

\* What the steps make of a run.
Patches(run, old) == run \in Run /\ run.round = old.round /\ run.edition = old.edition

LEMMA PatchedRun ==
    ASSUME NEW old \in Run, NEW status \in Terminal \cup {"processing"}
    PROVE  /\ LET run == [old EXCEPT !.status = status]
              IN  Patches(run, old) /\ run.status = status /\ run.deleted = old.deleted
           /\ LET run == [old EXCEPT !.deleted = TRUE]
              IN  Patches(run, old) /\ run.status = old.status
           /\ LET run == [old EXCEPT !.status = "processing", !.retries = @ + 1]
              IN  Patches(run, old) /\ run.status = "processing" /\ run.deleted = old.deleted
<1>1. LET run == [old EXCEPT !.status = status]
      IN  Patches(run, old) /\ run.status = status /\ run.deleted = old.deleted
  BY DEF Run, Patches
<1>2. LET run == [old EXCEPT !.deleted = TRUE]
      IN  Patches(run, old) /\ run.status = old.status
  BY DEF Run, Patches
<1>3. LET run == [old EXCEPT !.status = "processing", !.retries = @ + 1]
      IN  Patches(run, old) /\ run.status = "processing" /\ run.deleted = old.deleted
  <2>1. old.retries + 1 \in Nat
    BY DEF Run
  <2> QED
    BY <2>1 DEF Run, Patches
<1> QED
  BY <1>1, <1>2, <1>3

\* The service's own steps, which end a run or delete one that has ended.
LEMMA RunEndsInv ==
    ASSUME ServiceInv, NEW m \in Modules, NEW r \in DOMAIN runs[m], NEW run \in Run,
           Patches(run, runs[m][r]), run.status # "processing",
           runs' = [runs EXCEPT ![m] = [runs[m] EXCEPT ![r] = run]],
           UNCHANGED <<edition, round, savedVars, local, rejections, videoStage, pc>>,
           faults' \in 0..MaxFaults
    PROVE  ServiceInv'
<1>1. /\ UNCHANGED <<record, videoPath, videoFile>>
      /\ local' = [local EXCEPT ![m] = local[m]] /\ pc' = [pc EXCEPT ![m] = pc[m]]
      /\ local[m] \in ServiceRecord /\ pc[m] \in ThreadSteps /\ rejections' \in [Modules -> Nat]
  BY Facts DEF savedVars
<1>2. DOMAIN runs'[m] = DOMAIN runs[m]
      /\ \A j \in DOMAIN runs[m] : runs'[m][j] = IF j = r THEN run ELSE runs[m][j]
  <2>1. runs[m] \in Seq(Run) /\ r \in 1..Len(runs[m]) /\ m \in DOMAIN runs
        /\ DOMAIN runs[m] = 1..Len(runs[m])
    BY Facts DEF TypeOK
  <2> DEFINE new == [runs[m] EXCEPT ![r] = run]
  <2>2. /\ new \in Seq(Run) /\ Len(new) = Len(runs[m])
        /\ \A j \in 1..Len(runs[m]) : new[j] = IF j = r THEN run ELSE runs[m][j]
    BY <2>1, ExceptSeq
  <2>3. runs'[m] = new
    BY <2>1
  <2> HIDE DEF new
  <2> QED
    BY <2>1, <2>2, <2>3
<1>3. ThreadInv(m)'
  <2>1. UNCHANGED <<edition, record, local, pc, videoFile, videoPath, videoStage>> /\ ThreadInv(m)
    BY <1>1, Facts
  <2>2. Ended(m)' = Ended(m)
    BY <2>1 DEF Ended
  <2>3. Ended(m) /\ local[m].run \in DOMAIN runs'[m] => runs'[m][local[m].run].status # "processing"
    BY <1>2, <2>1 DEF ThreadInv
  <2> QED
    BY <2>1, <2>2, <2>3 DEF ThreadInv
<1> QED
  BY <1>1, <1>3, RunStep DEF Patches

LEMMA RunSucceedsInv ==
    ASSUME ServiceInv, NEW m \in Modules, NEW r \in DOMAIN runs[m], RunSucceeds(m, r)
    PROVE  ServiceInv'
<1> DEFINE run == [runs[m][r] EXCEPT !.status = "succeeded"]
<1>1. runs[m][r] \in Run
  BY Facts
<1>2. Patches(run, runs[m][r]) /\ run.status = "succeeded"
  BY <1>1, PatchedRun DEF Terminal
<1>3. runs' = [runs EXCEPT ![m] = [runs[m] EXCEPT ![r] = run]]
  BY DEF RunSucceeds
<1> HIDE DEF run
<1>4. run \in Run /\ faults' \in 0..MaxFaults
  BY <1>2, Facts DEF Patches, RunSucceeds
<1> QED
  BY <1>2, <1>3, <1>4, RunEndsInv DEF RunSucceeds

LEMMA RunFailsInv ==
    ASSUME ServiceInv, NEW m \in Modules, NEW r \in DOMAIN runs[m], RunFails(m, r)
    PROVE  ServiceInv'
<1>1. PICK status \in Terminal \ {"succeeded"} : runs' = [runs EXCEPT ![m][r].status = status]
  BY DEF RunFails
<1> DEFINE run == [runs[m][r] EXCEPT !.status = status]
<1>2. runs[m][r] \in Run
  BY Facts
<1>3. Patches(run, runs[m][r]) /\ run.status = status
  BY <1>2, PatchedRun
<1>4. runs' = [runs EXCEPT ![m] = [runs[m] EXCEPT ![r] = run]]
  BY <1>1
<1> HIDE DEF run
<1>5. run \in Run /\ faults' \in 0..MaxFaults /\ run.status # "processing"
  BY <1>3, Facts, FaultType DEF Patches, RunFails, Terminal
<1> QED
  BY <1>3, <1>4, <1>5, RunEndsInv DEF RunFails

LEMMA PurgeInv ==
    ASSUME ServiceInv, NEW m \in Modules, NEW r \in DOMAIN runs[m], Purge(m, r)
    PROVE  ServiceInv'
<1> DEFINE run == [runs[m][r] EXCEPT !.deleted = TRUE]
<1>1. runs[m][r] \in Run /\ "processing" \in Terminal \cup {"processing"}
  BY Facts
<1>2. Patches(run, runs[m][r]) /\ run.status = runs[m][r].status
  BY <1>1, PatchedRun
<1>3. runs' = [runs EXCEPT ![m] = [runs[m] EXCEPT ![r] = run]]
  BY DEF Purge
<1> HIDE DEF run
<1>4. run \in Run /\ faults' \in 0..MaxFaults /\ run.status # "processing"
  BY <1>2, Facts, FaultType DEF Patches, Purge, Terminal
<1> QED
  BY <1>2, <1>3, <1>4, RunEndsInv DEF Purge

LEMMA RetryRunInv == ASSUME ServiceInv, NEW m \in Modules, RetryRun(m) PROVE ServiceInv'
<1> DEFINE r == local[m].run
           run == [runs[m][r] EXCEPT !.status = "processing", !.retries = @ + 1]
<1>1. /\ pc[m] = "retry" /\ videoStage = "running" /\ faults' \in 0..MaxFaults
      /\ UNCHANGED <<edition, round, record, videoStage, videoPath, videoFile, rejections>>
  <2>1. faults' = faults \/ Fault
    BY DEF RetryRun
  <2> QED
    BY <2>1, Running, Facts, FaultType DEF RetryRun, savedVars
<1>2. /\ local[m] \in ServiceRecord /\ r = local[m].request /\ r = record[m].request
      /\ rejections' \in [Modules -> Nat]
  BY <1>1, Facts DEF ThreadInv, HasRun
<1>3. ASSUME Restarts(m)
      PROVE  /\ r \in DOMAIN runs[m] /\ run \in Run /\ Patches(run, runs[m][r])
             /\ run.status = "processing" /\ ~run.deleted
             /\ runs' = [runs EXCEPT ![m] = [runs[m] EXCEPT ![r] = run]]
  <2>1. r \in DOMAIN runs[m] /\ ~runs[m][r].deleted
    BY <1>3 DEF Restarts, Known
  <2>2. runs[m][r] \in Run /\ "processing" \in Terminal \cup {"processing"}
    BY <2>1, Facts
  <2>3. Patches(run, runs[m][r]) /\ run.status = "processing" /\ run.deleted = runs[m][r].deleted
    BY <2>2, PatchedRun
  <2>4. runs' = [runs EXCEPT ![m] = [runs[m] EXCEPT ![r] = run]]
    BY <1>3 DEF Restarts
  <2> QED
    BY <2>1, <2>3, <2>4 DEF Patches
<1> HIDE DEF run
<1>4. CASE Restarts(m) /\ local' = [local EXCEPT ![m].status = "processing"] /\ GoTo(m, "answered")
  <2> DEFINE own == [local[m] EXCEPT !.status = "processing"]
  <2>1. own \in ServiceRecord /\ own.run = r /\ own.request = r /\ own.status = "processing"
    BY <1>2 DEF ServiceRecord
  <2>2. local' = [local EXCEPT ![m] = own] /\ pc' = [pc EXCEPT ![m] = "answered"]
    BY <1>4 DEF GoTo
  <2> HIDE DEF own
  <2>3. local'[m] = own /\ pc'[m] = "answered"
    BY <2>2, Facts DEF TypeOK
  <2>4. ThreadInv(m)'
    BY <1>1, <1>2, <2>1, <2>3, Facts DEF ThreadInv, HasRun, Ended, Terminal
  <2>5. /\ r \in DOMAIN runs[m] /\ run \in Run /\ run.round = runs[m][r].round
        /\ run.edition = runs[m][r].edition /\ ~run.deleted
        /\ runs' = [runs EXCEPT ![m] = [runs[m] EXCEPT ![r] = run]]
    BY <1>3, <1>4 DEF Patches
  <2>6. "answered" \in ThreadSteps
    BY DEF ThreadSteps
  <2>7. r = record[m].request /\ own.request = local[m].request
    BY <1>2, <2>1
  <2> HIDE DEF r
  <2> QED
    BY <1>1, <1>2, <2>1, <2>2, <2>4, <2>5, <2>6, <2>7, RunStep DEF r
<1>5. CASE Restarts(m) /\ GoTo(m, "failed") /\ UNCHANGED local
  <2>1. local' = [local EXCEPT ![m] = local[m]] /\ pc' = [pc EXCEPT ![m] = "failed"]
    BY <1>5, Facts DEF GoTo
  <2>2. local'[m] = local[m] /\ pc'[m] = "failed"
    BY <1>5, <2>1, Facts DEF TypeOK
  <2>3. ThreadInv(m)'
    BY <1>1, <2>2, Facts DEF ThreadInv, HasRun, Ended
  <2> QED
    BY <1>1, <1>2, <1>3, <1>5, <2>1, <2>3, RunStep DEF ThreadSteps, Patches
<1>6. CASE GoTo(m, "failed") /\ UNCHANGED <<runs, local>>
  BY <1>1, <1>2, <1>6, LabelStep DEF GoTo
<1> QED
  BY <1>4, <1>5, <1>6 DEF RetryRun

LEMMA DeleteRemoteInv == ASSUME ServiceInv, NEW m \in Modules, DeleteRemote(m) PROVE ServiceInv'
<1> DEFINE r == local[m].run
           label == IF pc[m] = "delete" THEN "stored" ELSE "failed"
<1>1. /\ pc[m] \in {"delete", "discard"} /\ videoStage = "running" /\ faults' \in 0..MaxFaults
      /\ UNCHANGED <<edition, round, record, local, videoStage, videoPath, videoFile, rejections>>
      /\ pc' = [pc EXCEPT ![m] = label]
  <2>1. faults' = faults \/ Fault
    BY DEF DeleteRemote
  <2> QED
    BY <2>1, Running, Facts, FaultType DEF DeleteRemote, savedVars, GoTo
<1>2. /\ local[m] \in ServiceRecord /\ local' = [local EXCEPT ![m] = local[m]]
      /\ record' = [record EXCEPT ![m] = record[m]] /\ record[m] \in ServiceRecord
      /\ rejections' \in [Modules -> Nat] /\ label \in ThreadSteps
      /\ Knows(m, local[m]) /\ Knows(m, record[m])
  BY <1>1, Facts DEF ThreadSteps
<1>3. r \in DOMAIN runs[m] => runs[m][r].status # "processing"
  BY <1>1, Facts DEF ThreadInv, Ended
<1>4. ThreadInv(m)'
  <2>1. pc'[m] = label
    BY <1>1, Facts DEF TypeOK
  <2> QED
    BY <1>1, <2>1, Facts DEF ThreadInv, HasRun, Ended
<1> HIDE DEF label
<1>5. CASE UNCHANGED runs
  BY <1>1, <1>2, <1>4, <1>5, ThreadStep
<1>6. CASE Known(m, r) /\ runs' = [runs EXCEPT ![m][r].deleted = TRUE]
  <2> DEFINE run == [runs[m][r] EXCEPT !.deleted = TRUE]
  <2>1. r \in DOMAIN runs[m] /\ "processing" \in Terminal \cup {"processing"}
    BY <1>6 DEF Known
  <2>2. Patches(run, runs[m][r]) /\ run.status # "processing"
    <3>1. runs[m][r] \in Run
      BY <2>1, Facts
    <3> QED
      BY <1>3, <2>1, <3>1, PatchedRun
  <2>3. runs' = [runs EXCEPT ![m] = [runs[m] EXCEPT ![r] = run]]
    BY <1>6
  <2> HIDE DEF run
  <2> QED
    BY <1>1, <1>2, <1>4, <2>1, <2>2, <2>3, RunStep DEF Patches
<1> QED
  BY <1>5, <1>6 DEF DeleteRemote

LEMMA DownloadInv == ASSUME ServiceInv, NEW m \in Modules, Download(m) PROVE ServiceInv'
<1> DEFINE r == local[m].run
<1>1. pc[m] = "download" /\ videoStage = "running"
      /\ UNCHANGED <<edition, round, runs, record, local, videoStage, videoPath, rejections, faults>>
  BY Running DEF Download, serviceVars
<1>2. r = local[m].request /\ r # 0
  BY <1>1, Facts DEF ThreadInv, HasRun
<1>3. CASE Known(m, r) /\ videoFile' = [videoFile EXCEPT ![m] = runs[m][r].edition] /\ GoTo(m, "delete")
  <2>1. runs[m][r].edition = edition /\ edition \in Nat
    <3>1. r \in DOMAIN runs[m] /\ edition \in Nat
      BY <1>3, Facts DEF Known, TypeOK
    <3>2. runs[m][r].round = round[m]
      BY <1>2, <3>1, Facts DEF Knows
    <3> QED
      BY <3>1, <3>2, Facts DEF RunsInv
  <2>2. videoFile' = [videoFile EXCEPT ![m] = edition] /\ pc' = [pc EXCEPT ![m] = "delete"]
    BY <1>3, <2>1 DEF GoTo
  <2>3. videoFile'[m] = edition /\ pc'[m] = "delete"
    BY <2>2, Facts DEF TypeOK
  <2>4. TypeOK'
    BY <1>1, <2>1, <2>2, Facts DEF TypeOK, ThreadSteps
  <2>5. ThreadInv(m)'
    BY <1>1, <2>3, Facts DEF ThreadInv, HasRun, Ended
  <2>6. ModuleInv(m)'
    BY <1>1, <2>5, Facts DEF ModuleInv, RunsInv, Knows, Active
  <2>7. \A n \in Modules \ {m} : Kept(n)
    BY <1>1, <2>2, Facts DEF TypeOK, Kept
  <2> QED
    BY <1>1, <2>4, <2>6, <2>7, OneModule
<1>4. CASE GoTo(m, "failed") /\ UNCHANGED videoFile
  BY <1>1, <1>4, Facts, LabelStep DEF GoTo
<1> QED
  BY <1>3, <1>4 DEF Download

LEMMA SavePathInv == ASSUME ServiceInv, NEW m \in Modules, SavePath(m) PROVE ServiceInv'
<1>1. pc[m] = "save" /\ videoStage = "running"
      /\ UNCHANGED <<edition, round, runs, record, local, videoStage, videoFile, rejections, faults>>
      /\ videoPath' = videoPath \cup {m} /\ pc' = [pc EXCEPT ![m] = "done"]
  BY Running DEF SavePath, serviceVars, GoTo
<1>2. TypeOK'
  BY <1>1, Facts DEF TypeOK, ThreadSteps
<1>3. ThreadInv(m)'
  <2>1. pc'[m] = "done"
    BY <1>1, Facts DEF TypeOK
  <2> QED
    BY <1>1, <2>1, Facts DEF ThreadInv, HasRun, Ended
<1>4. ModuleInv(m)'
  BY <1>1, <1>3, Facts DEF ModuleInv, RunsInv, Knows, Active
<1>5. \A n \in Modules \ {m} : Kept(n)
  BY <1>1, Facts DEF TypeOK, Kept
<1> QED
  BY <1>1, <1>2, <1>4, <1>5, OneModule

-----------------------------------------------------------------------------
(* The stage begins and ends, and the trainer asks for videos anew.        *)

LEMMA StageStep ==
    ASSUME ServiceInv, UNCHANGED <<edition, round, runs, record, videoPath, videoFile>>,
           local' = record, pc' \in [Modules -> {"idle", "waiting"}], videoStage' \in {"idle", "running"},
           videoStage' = "idle" => \A m \in Modules : pc'[m] = "idle",
           rejections' \in [Modules -> Nat], faults' \in 0..MaxFaults
    PROVE  ServiceInv'
<1>1. TypeOK'
  BY DEF ServiceInv, TypeOK, ThreadSteps
<1>2. ASSUME NEW m \in Modules PROVE ModuleInv(m)'
  <2>1. pc'[m] \in {"idle", "waiting"}
    BY <1>2
  <2>2. ThreadInv(m)'
    BY <1>2, <2>1, Facts DEF ThreadInv, HasRun, Ended
  <2> QED
    BY <1>2, <2>2, Facts DEF ModuleInv, RunsInv, Knows, Active
<1> QED
  BY <1>1, <1>2 DEF ServiceInv

LEMMA StageInv == ASSUME ServiceInv, StageStarts \/ StageEnds \/ ProcessDies PROVE ServiceInv'
<1>0. TypeOK /\ faults \in 0..MaxFaults /\ rejections \in [Modules -> Nat]
  BY DEF ServiceInv, TypeOK
<1>1. CASE StageStarts
  BY <1>0, <1>1, StageStep DEF StageStarts, serviceVars, savedVars
<1>2. CASE StageEnds
  BY <1>0, <1>2, StageStep DEF StageEnds, serviceVars, savedVars
<1>3. CASE ProcessDies
  BY <1>0, <1>3, StageStep, FaultType DEF ProcessDies, serviceVars, savedVars
<1> QED
  BY <1>1, <1>2, <1>3

\* A module whose round has just begun: no run belongs to it.
LEMMA NewRound ==
    ASSUME ServiceInv, NEW m \in Modules, runs' = runs, round'[m] = round[m] + 1,
           record'[m] = NoRecord, local'[m] = NoRecord, pc'[m] \in {"idle", "waiting"},
           m \in videoPath' => videoFile'[m] = edition', videoStage' = "idle" => pc'[m] = "idle"
    PROVE  ModuleInv(m)'
<1>1. NoRecord.request = 0 /\ NoRecord.run = 0 /\ NoRecord.status = "none"
  BY DEF NoRecord
<1>2. round[m] \in Nat /\ \A r \in DOMAIN runs[m] : runs[m][r].round \in Nat
  <2>1. TypeOK /\ runs[m] \in Seq(Run)
    BY Facts
  <2>2. ASSUME NEW r \in DOMAIN runs[m] PROVE runs[m][r].round \in Nat
    <3>1. runs[m][r] \in Run
      BY <2>1
    <3> QED
      BY <3>1 DEF Run
  <2> QED
    BY <2>1, <2>2 DEF TypeOK
<1>3. \A r \in DOMAIN runs[m] : runs[m][r].round < round'[m]
  BY <1>2, Facts DEF RunsInv
<1>4. RunsInv(m)'
  BY <1>2, <1>3, Facts DEF RunsInv
<1>5. Knows(m, NoRecord)'
  <2>1. Len(runs[m]) \in Nat /\ DOMAIN runs[m] = 1..Len(runs[m])
    BY Facts
  <2> QED
    BY <1>1, <1>2, <1>3, <2>1 DEF Knows, Active, NoRecord
<1>6. Knows(m, record[m])' /\ Knows(m, local[m])'
  BY <1>5 DEF Knows
<1>7. ThreadInv(m)'
  BY <1>1 DEF ThreadInv, HasRun, Ended
<1> QED
  BY <1>4, <1>6, <1>7 DEF ModuleInv

LEMMA StartsOverInv == ASSUME ServiceInv, StartsOver PROVE ServiceInv'
<1>1. /\ TypeOK /\ videoStage = "idle" /\ UNCHANGED <<runs, videoFile, rejections, videoStage, pc, faults>>
      /\ round' = [m \in Modules |-> round[m] + 1] /\ edition' \in {edition, edition + 1}
      /\ record' = [m \in Modules |-> NoRecord] /\ local' = record' /\ videoPath' = {}
  BY DEF ServiceInv, StartsOver
<1>2. TypeOK'
  BY <1>1, NoRecordType DEF TypeOK
<1>3. ASSUME NEW m \in Modules PROVE ModuleInv(m)'
  <2>1. pc[m] = "idle"
    BY <1>1, Facts DEF ThreadInv
  <2>2. round'[m] = round[m] + 1 /\ record'[m] = NoRecord /\ local'[m] = NoRecord
        /\ pc'[m] \in {"idle", "waiting"}
    BY <1>1, <2>1
  <2>3. m \notin videoPath' /\ (videoStage' = "idle" => pc'[m] = "idle")
    BY <1>1, <2>1
  <2> QED
    BY <1>1, <2>2, <2>3, NewRound
<1> QED
  BY <1>2, <1>3 DEF ServiceInv

LEMMA RegenerateInv == ASSUME ServiceInv, NEW m \in Modules, Regenerate(m) PROVE ServiceInv'
<1>1. /\ TypeOK /\ videoStage = "idle" /\ UNCHANGED <<edition, runs, videoPath, videoFile, faults>>
      /\ round' = [round EXCEPT ![m] = @ + 1] /\ record' = [record EXCEPT ![m] = NoRecord]
      /\ local' = record' /\ rejections' = [rejections EXCEPT ![m] = 0]
      /\ videoStage' = "running" /\ pc' = [pc EXCEPT ![m] = "waiting"]
  BY DEF ServiceInv, Regenerate
<1>2. TypeOK'
  <2>1. round' \in [Modules -> Nat] /\ rejections' \in [Modules -> Nat]
    BY <1>1 DEF TypeOK
  <2>2. record' \in [Modules -> ServiceRecord] /\ local' \in [Modules -> ServiceRecord]
    BY <1>1, NoRecordType DEF TypeOK
  <2>3. pc' \in [Modules -> ThreadSteps]
    BY <1>1 DEF TypeOK, ThreadSteps
  <2> QED
    BY <1>1, <2>1, <2>2, <2>3 DEF TypeOK
<1>3. ModuleInv(m)'
  <2>1. round'[m] = round[m] + 1 /\ record'[m] = NoRecord /\ local'[m] = NoRecord
        /\ pc'[m] = "waiting"
    BY <1>1 DEF TypeOK
  <2>2. m \in videoPath' => videoFile'[m] = edition'
    BY <1>1, Facts DEF ThreadInv
  <2> QED
    BY <1>1, <2>1, <2>2, NewRound
<1>4. ASSUME NEW n \in Modules, n # m PROVE ModuleInv(n)'
  <2>1. /\ runs'[n] = runs[n] /\ round'[n] = round[n] /\ record'[n] = record[n]
        /\ local'[n] = record[n] /\ pc'[n] = pc[n] /\ pc[n] = "idle"
    BY <1>1, <1>4, Facts DEF TypeOK, ThreadInv
  <2>2. ThreadInv(n)'
    BY <1>1, <1>4, <2>1, Facts DEF ThreadInv, HasRun, Ended
  <2> QED
    BY <1>1, <1>4, <2>1, <2>2, Facts DEF ModuleInv, RunsInv, Knows, Active
<1> QED
  BY <1>2, <1>3, <1>4 DEF ServiceInv

LEMMA NextInv == ServiceInv /\ [Next]_vars => ServiceInv'
<1> SUFFICES ASSUME ServiceInv, [Next]_vars PROVE ServiceInv'
  OBVIOUS
<1>1. ASSUME NEW m \in Modules, Thread(m) PROVE ServiceInv'
  BY <1>1, PickUpInv, CurrentStatusInv, NewRequestInv, SubmitInv, RejectedInv, AnsweredInv, PollInv,
     DecideInv, RetryRunInv, DownloadInv, DeleteRemoteInv, StoredInv, SavePathInv DEF Thread
<1>2. ASSUME NEW m \in Modules, CallFails(m) \/ SubmitUnanswered(m) PROVE ServiceInv'
  BY <1>2, CallFailsInv, SubmitUnansweredInv
<1>3. ASSUME NEW m \in Modules, NEW r \in DOMAIN runs[m],
             RunSucceeds(m, r) \/ RunFails(m, r) \/ Purge(m, r)
      PROVE  ServiceInv'
  BY <1>3, RunSucceedsInv, RunFailsInv, PurgeInv
<1>4. CASE Trainer \/ StageEnds \/ ProcessDies
  BY <1>4, StageInv, StartsOverInv, RegenerateInv DEF Trainer
<1>5. CASE UNCHANGED vars
  BY <1>5 DEF vars, serviceVars, savedVars, ServiceInv, TypeOK, ModuleInv, RunsInv, Knows, ThreadInv,
     Active, Ended
<1> QED
  BY <1>1, <1>2, <1>3, <1>4, <1>5 DEF Next

LEMMA AlwaysInv == Spec => []ServiceInv
  BY InitInv, NextInv, PTL DEF Spec

-----------------------------------------------------------------------------
\* Runs, records and threads keep their types.
THEOREM TypeCorrect == Spec => []TypeOK
<1>1. ServiceInv => TypeOK
  BY DEF ServiceInv
<1> QED
  BY <1>1, AlwaysInv, PTL

\* Crashes between any two steps, lost answers, timeouts and retries never make
\* the service work twice at the same time on the video that was asked for.
THEOREM NeverTwice == Spec => []NoDuplicateRun
<1>1. ASSUME ServiceInv, NEW m \in Modules
      PROVE  Cardinality({r \in Active(m) : runs[m][r].round = round[m]}) <= 1
  <2> DEFINE now == {r \in Active(m) : runs[m][r].round = round[m]}
  <2>1. now \subseteq {record[m].request}
    BY <1>1, Facts DEF Knows
  <2>2. now = {} \/ now = {record[m].request}
    BY <2>1
  <2> HIDE DEF now
  <2>3. Cardinality({}) = 0 /\ Cardinality({record[m].request}) = 1
    BY FS_EmptySet, FS_Singleton
  <2>4. Cardinality(now) <= 1
    BY <2>2, <2>3
  <2> QED
    BY <2>4 DEF now
<1>2. ServiceInv => NoDuplicateRun
  BY <1>1 DEF NoDuplicateRun
<1> QED
  BY <1>2, AlwaysInv, PTL

\* Whatever was edited, regenerated and continued: a module that has a video
\* path has a video of the text that the course has now.
THEOREM VideoIsCurrent == Spec => []ShowsCurrentText
<1>1. ServiceInv => ShowsCurrentText
  BY DEF ServiceInv, TypeOK, ModuleInv, ThreadInv, ShowsCurrentText
<1> QED
  BY <1>1, AlwaysInv, PTL
=============================================================================

----------------------- MODULE DirectorySyncProofs -----------------------
(***************************************************************************)
(* Theorems about DirectorySync: that the rows follow the Hub              *)
(* (SyncedIsCurrent), that the course follows the rows                     *)
(* (CourseFollowsDirectory), and the types of both.                        *)
(*                                                                         *)
(* The inductive invariant IInv says of each row how far it has come: each *)
(* of its facts is one that the Hub gave at its last change or later, and  *)
(* the log has nothing newer of it, neither up to the cursor nor up to     *)
(* where the run of changes is.  What the full import has in hand is kept  *)
(* to the same, because it may be written at any time.  FollowInv and      *)
(* CalmInv do the same for the courses: whoever is not as the rule says is *)
(* still on somebody's list.                                               *)
(***************************************************************************)
EXTENDS DirectorySync, SequenceTheorems, FiniteSetTheorems, WellFoundedInduction, TLAPS

-----------------------------------------------------------------------------
(***************************************************************************)
(* Induction and recursion over an interval of the naturals, stated of a   *)
(* set and of a function, so that they can be used for any formula.        *)
(***************************************************************************)

LEMMA IntervalInduction ==
    ASSUME NEW N \in Nat, NEW T, 0 \in T,
           \A n \in 0..(N - 1) : n \in T => n + 1 \in T
    PROVE  \A n \in 0..N : n \in T
<1> DEFINE Missed == {n \in Nat : n <= N /\ n \notin T}
           Less == OpToRel(<, Nat)
<1> SUFFICES ASSUME Missed # {} PROVE FALSE
  OBVIOUS
<1>a. IsWellFoundedOn(Less, Nat)
  BY NatLessThanWellFounded
<1>b. \A k \in Nat : <<k, k + 1>> \in Less
  BY DEF OpToRel
<1> HIDE DEF Less
<1>1. PICK n \in Missed : \A k \in Missed : <<k, n>> \notin Less
  BY <1>a, WFMin, Missed \subseteq Nat
<1>2. n \in Nat /\ n <= N /\ n \notin T /\ n # 0
  OBVIOUS
<1>3. n - 1 \in 0..(N - 1) /\ n = (n - 1) + 1
  BY <1>2
<1>4. <<n - 1, n>> \in Less
  BY <1>b, <1>3
<1>5. n - 1 \in T
  BY <1>1, <1>3, <1>4
<1> QED
  BY <1>2, <1>3, <1>5

Iterated(f, N, base, Step) ==
    f[0] = base /\ \A n \in 1..N : f[n] = Step[<<n, f[n - 1]>>]

LEMMA IntervalRecursion ==
    ASSUME NEW N \in Nat, NEW V, NEW base \in V, NEW Step \in [(1..N) \X V -> V]
    PROVE  \E f \in [0..N -> V] : Iterated(f, N, base, Step)
<1> DEFINE Is(f, k) == Iterated(f, k, base, Step)
           T == {k \in 0..N : \E f \in [0..k -> V] : Is(f, k)}
<1>1. 0 \in T
  <2> DEFINE f == [n \in 0..0 |-> base]
  <2>1. f \in [0..0 -> V] /\ Is(f, 0)
    BY DEF Iterated
  <2> HIDE DEF f
  <2>2. \E h \in [0..0 -> V] : Is(h, 0)
    BY <2>1
  <2> QED
    BY <2>2
<1>2. ASSUME NEW k \in 0..(N - 1), k \in T
      PROVE  k + 1 \in T
  <2>1. PICK f \in [0..k -> V] : Is(f, k)
    BY <1>2
  <2> DEFINE g == [n \in 0..(k + 1) |-> IF n <= k THEN f[n] ELSE Step[<<k + 1, f[k]>>]]
  <2>2. k + 1 \in 1..N /\ k + 1 \in 0..N /\ f[k] \in V
    BY <2>1
  <2>3. g \in [0..(k + 1) -> V]
    BY <2>1, <2>2
  <2>4. Is(g, k + 1)
    <3>1. g[0] = base
      BY <2>1 DEF Iterated
    <3>2. ASSUME NEW n \in 1..(k + 1)
          PROVE  g[n] = Step[<<n, g[n - 1]>>]
      <4>1. n - 1 \in 0..k /\ g[n - 1] = f[n - 1]
        BY <2>2
      <4>2. CASE n <= k
        <5>1. n \in 1..k /\ g[n] = f[n]
          BY <4>2
        <5> QED
          BY <2>1, <4>1, <5>1 DEF Iterated
      <4>3. CASE n = k + 1
        BY <4>1, <4>3, <2>2
      <4> QED
        BY <4>2, <4>3
    <3> QED
      BY <3>1, <3>2 DEF Iterated
  <2> QED
    BY <2>2, <2>3, <2>4
<1>3. N \in T
  <2> HIDE DEF T
  <2>1. \A n \in 0..N : n \in T
    BY <1>1, <1>2, IntervalInduction
  <2> QED
    BY <2>1
<1> QED
  BY <1>3

-----------------------------------------------------------------------------
(***************************************************************************)
(* Facts.                                                                  *)
(***************************************************************************)
AnyValue == {"active", "inactive", "ours", "other", None} \cup Employees
\* All facts of an employee, and some of them.
Whole == {facts \in [Fields -> AnyValue] : \A f \in Fields : facts[f] \in Values[f]}
Parts == {set \in UNION {[D -> AnyValue] : D \in SUBSET Fields} :
             \A f \in DOMAIN set : set[f] \in Values[f]}
FactSets == {<<>>} \cup Whole
Entries == [who : Employees, set : Parts]

LEMMA Fact ==
    /\ Fields = {"status", "team", "boss"}
    /\ Values["status"] = {"active", "inactive"}
    /\ Values["team"] = {"ours", "other"}
    /\ Values["boss"] = Employees \cup {None}
    /\ \A f \in Fields : Values[f] \subseteq AnyValue /\ None \in AnyValue
  BY DEF Fields, Values, AnyValue

LEMMA Nothing == DOMAIN <<>> = {} /\ <<>> \notin Whole
<1>1. DOMAIN <<>> = {}
  OBVIOUS
<1>2. \A facts \in Whole : DOMAIN facts = Fields
  BY DEF Whole
<1>3. Fields # {}
  BY DEF Fields
<1> QED
  BY <1>1, <1>2, <1>3

LEMMA PartsFacts ==
    ASSUME NEW set \in Parts
    PROVE  /\ set = [f \in DOMAIN set |-> set[f]]
           /\ DOMAIN set \subseteq Fields
           /\ \A f \in DOMAIN set : set[f] \in Values[f]
  BY DEF Parts

LEMMA WholeFacts ==
    ASSUME NEW facts \in Whole
    PROVE  /\ facts \in Parts /\ facts # <<>>
           /\ DOMAIN facts = Fields
           /\ \A f \in Fields : facts[f] \in Values[f] /\ Get(facts, f) = facts[f]
  BY Nothing DEF Whole, Parts, Get

LEMMA FirstWhole ==
    ASSUME NEW e \in Employees
    PROVE  FirstFacts[e] \in FactSets
<1> DEFINE R == [status : {"active", "inactive"}, team : {"ours", "other"},
                 boss : Employees \cup {None}]
<1>1. FirstFacts[e] \in {<<>>} \cup R
  BY DirectoryAssumption
<1>2. ASSUME NEW r \in R PROVE r \in Whole
  <2>1. r \in [Fields -> AnyValue]
    BY <1>2 DEF Fields, AnyValue
  <2>2. r["status"] \in Values["status"] /\ r["team"] \in Values["team"] /\ r["boss"] \in Values["boss"]
    BY <1>2, Fact
  <2>3. \A f \in Fields : r[f] \in Values[f]
    BY <2>2, Fact
  <2> QED
    BY <2>1, <2>3 DEF Whole
<1> QED
  BY <1>1, <1>2 DEF FactSets

\* What an update does to a record of facts.
LEMMA UpdatedGet ==
    ASSUME NEW facts, NEW set, NEW f
    PROVE  Get(Updated(facts, set), f) = IF f \in DOMAIN set THEN set[f] ELSE Get(facts, f)
  BY DEF Updated, Get

LEMMA UpdatedWhole ==
    ASSUME NEW facts \in FactSets, NEW set \in Parts, facts \in Whole \/ set \in Whole
    PROVE  Updated(facts, set) \in Whole
<1>1. DOMAIN facts \subseteq Fields /\ \A f \in DOMAIN facts : facts[f] \in Values[f]
  BY Nothing, WholeFacts DEF FactSets
<1>2. DOMAIN set \subseteq Fields /\ \A f \in DOMAIN set : set[f] \in Values[f]
  BY PartsFacts
<1>3. DOMAIN set \cup DOMAIN facts = Fields
  BY <1>1, <1>2, WholeFacts
<1> HIDE DEF Fields
<1>4. Updated(facts, set) = [f \in Fields |-> IF f \in DOMAIN set THEN set[f] ELSE facts[f]]
  BY <1>3 DEF Updated
<1>5. ASSUME NEW f \in Fields
      PROVE  Updated(facts, set)[f] \in Values[f] /\ Updated(facts, set)[f] \in AnyValue
  BY <1>1, <1>2, <1>3, <1>4, Fact
<1>6. Updated(facts, set) \in [Fields -> AnyValue]
  BY <1>4, <1>5
<1> QED
  BY <1>5, <1>6 DEF Whole

-----------------------------------------------------------------------------
(***************************************************************************)
(* The Hub's log.  HubOf is HubAt of any log.                              *)
(***************************************************************************)
AfterEntry(facts, e, entry) == IF entry.who = e THEN Updated(facts, entry.set) ELSE facts
HubFrom(l, e, k, hub) ==
    [n \in 0..k |-> IF n = 0 THEN FirstFacts[e] ELSE AfterEntry(hub[n - 1], e, l[n])]
HubOf(l, e, k) == LET hub == CHOOSE hub : hub = HubFrom(l, e, k, hub) IN hub[k]

LEMMA HubIs == \A e, k : HubAt(e, k) = HubOf(log, e, k)
  BY DEF HubAt, HubOf, HubFrom, AfterEntry

Some == {<<>>} \cup UNION {[D -> AnyValue] : D \in SUBSET Fields}

LEMMA UpdatedSome ==
    ASSUME NEW facts \in Some, NEW set \in Parts
    PROVE  Updated(facts, set) \in Some
<1>1. PICK D \in SUBSET Fields : facts \in [D -> AnyValue] \/ (facts = <<>> /\ D = {})
  BY DEF Some
<1>2. PICK E \in SUBSET Fields : set \in [E -> AnyValue]
  BY DEF Parts
<1>3. DOMAIN facts = D /\ DOMAIN set = E
  BY <1>1, <1>2, Nothing
<1>4. Updated(facts, set) \in [E \cup D -> AnyValue]
  BY <1>1, <1>2, <1>3 DEF Updated
<1>5. E \cup D \in SUBSET Fields
  OBVIOUS
<1> QED
  BY <1>4, <1>5 DEF Some

\* One function gives what the Hub says after any number of changes.
LEMMA HubFunction ==
    ASSUME NEW l \in Seq(Entries), NEW e \in Employees
    PROVE  \E f \in [0..Len(l) -> Some] :
              /\ f[0] = FirstFacts[e]
              /\ \A n \in 1..Len(l) : f[n] = AfterEntry(f[n - 1], e, l[n])
              /\ \A k \in 0..Len(l) : HubOf(l, e, k) = f[k]
<1> DEFINE N == Len(l)
           Step == [p \in (1..N) \X Some |-> AfterEntry(p[2], e, l[p[1]])]
<1>1. N \in Nat /\ \A n \in 1..N : l[n] \in Entries
  BY ElementOfSeq, LenProperties
<1> HIDE DEF N
<1>2. FirstFacts[e] \in Some
  BY FirstWhole DEF FactSets, Some, Whole
<1>3. \A facts \in Some : \A n \in 1..N : AfterEntry(facts, e, l[n]) \in Some
  BY <1>1, UpdatedSome DEF AfterEntry, Entries
<1>4. Step \in [(1..N) \X Some -> Some]
  BY <1>3
<1>5. PICK f \in [0..N -> Some] : Iterated(f, N, FirstFacts[e], Step)
  <2> HIDE DEF Step
  <2> QED
    BY <1>1, <1>2, <1>4, IntervalRecursion
<1>6. f[0] = FirstFacts[e]
  BY <1>5 DEF Iterated
<1>7. ASSUME NEW n \in 1..N
      PROVE  f[n] = AfterEntry(f[n - 1], e, l[n])
  <2>1. f[n] = Step[<<n, f[n - 1]>>]
    BY <1>5 DEF Iterated
  <2>2. <<n, f[n - 1]>> \in (1..N) \X Some
    BY <1>1, <1>5
  <2> QED
    BY <2>1, <2>2
<1> HIDE DEF Step
<1>8. ASSUME NEW k \in 0..N
      PROVE  HubOf(l, e, k) = f[k]
  <2> DEFINE g == [n \in 0..k |-> f[n]]
             hub == CHOOSE hub : hub = HubFrom(l, e, k, hub)
             Same == {n \in 0..k : hub[n] = f[n]}
  <2>1. g = HubFrom(l, e, k, g)
    <3>1. ASSUME NEW n \in 0..k
          PROVE  f[n] = IF n = 0 THEN FirstFacts[e] ELSE AfterEntry(g[n - 1], e, l[n])
      <4>1. CASE n = 0
        BY <1>6, <4>1
      <4>2. CASE n # 0
        <5>1. n \in 1..N /\ n - 1 \in 0..k
          BY <1>1, <4>2
        <5> QED
          BY <1>7, <4>2, <5>1
      <4> QED
        BY <4>1, <4>2
    <3> QED
      BY <3>1 DEF HubFrom
  <2>2. hub = HubFrom(l, e, k, hub)
    <3> HIDE DEF g
    <3> QED
      BY <2>1
  <2>3. HubOf(l, e, k) = hub[k]
    BY DEF HubOf
  <2> HIDE DEF hub
  <2>4. \A n \in 0..k : hub[n] = IF n = 0 THEN FirstFacts[e] ELSE AfterEntry(hub[n - 1], e, l[n])
    BY <2>2 DEF HubFrom
  <2>5. 0 \in Same
    BY <1>1, <1>6, <2>4
  <2>6. ASSUME NEW n \in 0..(k - 1), n \in Same
        PROVE  n + 1 \in Same
    <3>1. n + 1 \in 1..N /\ n + 1 \in 0..k /\ (n + 1) - 1 = n /\ n + 1 # 0
      BY <1>1
    <3>2. hub[n + 1] = AfterEntry(hub[n], e, l[n + 1])
      BY <2>4, <3>1
    <3>3. f[n + 1] = AfterEntry(f[n], e, l[n + 1])
      BY <1>7, <3>1
    <3> QED
      BY <2>6, <3>1, <3>2, <3>3
  <2>7. k \in Same
    <3> HIDE DEF Same
    <3>1. k \in Nat
      BY <1>1
    <3>2. \A n \in 0..k : n \in Same
      BY <2>5, <2>6, <3>1, IntervalInduction
    <3> QED
      BY <3>1, <3>2
  <2> QED
    BY <2>3, <2>7
<1> QED
  BY <1>5, <1>6, <1>7, <1>8 DEF N

LEMMA HubSteps ==
    ASSUME NEW l \in Seq(Entries), NEW e \in Employees
    PROVE  /\ HubOf(l, e, 0) = FirstFacts[e]
           /\ \A n \in 1..Len(l) : HubOf(l, e, n) = AfterEntry(HubOf(l, e, n - 1), e, l[n])
<1>1. PICK f \in [0..Len(l) -> Some] :
              /\ f[0] = FirstFacts[e]
              /\ \A n \in 1..Len(l) : f[n] = AfterEntry(f[n - 1], e, l[n])
              /\ \A k \in 0..Len(l) : HubOf(l, e, k) = f[k]
  BY HubFunction
<1>2. Len(l) \in Nat
  BY LenProperties
<1>3. 0 \in 0..Len(l)
  BY <1>2
<1>4. \A n \in 1..Len(l) : n \in 0..Len(l) /\ n - 1 \in 0..Len(l)
  BY <1>2
<1> QED
  BY <1>1, <1>3, <1>4

\* A new change leaves what the Hub said before it.
LEMMA HubKept ==
    ASSUME NEW l \in Seq(Entries), NEW entry \in Entries, NEW e \in Employees
    PROVE  \A k \in 0..Len(l) : HubOf(Append(l, entry), e, k) = HubOf(l, e, k)
<1> DEFINE m == Append(l, entry)
           N == Len(l)
           Same == {k \in 0..N : HubOf(m, e, k) = HubOf(l, e, k)}
<1>1. N \in Nat /\ m \in Seq(Entries) /\ Len(m) = N + 1 /\ \A n \in 1..N : m[n] = l[n]
  BY AppendProperties, LenProperties
<1> HIDE DEF m, N
<1>2. HubOf(m, e, 0) = FirstFacts[e] /\ HubOf(l, e, 0) = FirstFacts[e]
  BY <1>1, HubSteps
<1>3. 0 \in Same
  BY <1>1, <1>2
<1>4. ASSUME NEW k \in 0..(N - 1), k \in Same PROVE k + 1 \in Same
  <2>1. k + 1 \in 1..N /\ k + 1 \in 1..Len(m) /\ (k + 1) - 1 = k /\ k + 1 \in 0..N
    BY <1>1
  <2>2. HubOf(m, e, k + 1) = AfterEntry(HubOf(m, e, k), e, m[k + 1])
    BY <1>1, <2>1, HubSteps
  <2>3. HubOf(l, e, k + 1) = AfterEntry(HubOf(l, e, k), e, l[k + 1])
    BY <2>1, HubSteps DEF N
  <2> QED
    BY <1>1, <1>4, <2>1, <2>2, <2>3
<1>5. \A k \in 0..N : k \in Same
  <2> HIDE DEF Same
  <2> QED
    BY <1>1, <1>3, <1>4, IntervalInduction
<1> QED
  BY <1>5 DEF N, m

\* Where the log has nothing of e, the Hub says the same.
LEMMA HubStays ==
    ASSUME NEW l \in Seq(Entries), NEW e \in Employees, NEW a \in 0..Len(l), NEW b \in a..Len(l),
           \A i \in 1..b : l[i].who = e => i <= a
    PROVE  \A k \in a..b : HubOf(l, e, k) = HubOf(l, e, a)
<1> DEFINE Same == {n \in Nat : n <= b - a /\ HubOf(l, e, a + n) = HubOf(l, e, a)}
<1>1. Len(l) \in Nat /\ a \in Nat /\ b \in Nat /\ b - a \in Nat /\ b <= Len(l)
  BY LenProperties
<1>2. 0 \in Same
  BY <1>1
<1>3. ASSUME NEW n \in 0..((b - a) - 1), n \in Same PROVE n + 1 \in Same
  <2>1. a + (n + 1) \in 1..Len(l) /\ (a + (n + 1)) - 1 = a + n /\ n + 1 <= b - a
        /\ a + (n + 1) \in 1..b /\ ~(a + (n + 1) <= a)
    BY <1>1
  <2>2. HubOf(l, e, a + (n + 1)) = AfterEntry(HubOf(l, e, a + n), e, l[a + (n + 1)])
    BY <2>1, HubSteps
  <2>3. l[a + (n + 1)].who # e
    BY <2>1
  <2> QED
    BY <1>1, <1>3, <2>1, <2>2, <2>3 DEF AfterEntry
<1>4. \A n \in 0..(b - a) : n \in Same
  <2> HIDE DEF Same
  <2> QED
    BY <1>1, <1>2, <1>3, IntervalInduction
<1> SUFFICES ASSUME NEW k \in a..b PROVE HubOf(l, e, k) = HubOf(l, e, a)
  OBVIOUS
<1>5. k - a \in 0..(b - a) /\ a + (k - a) = k
  BY <1>1
<1> QED
  BY <1>4, <1>5

\* Every entry of the log but a hiring names facts of someone already hired.
HiredFirst(l) ==
    \A n \in 1..Len(l) : l[n].set \in Whole \/ HubOf(l, l[n].who, n - 1) \in Whole

LEMMA HubTyped ==
    ASSUME NEW l \in Seq(Entries), HiredFirst(l), NEW e \in Employees
    PROVE  \A k \in 0..Len(l) : HubOf(l, e, k) \in FactSets
<1> DEFINE N == Len(l)
           Typed == {k \in 0..N : HubOf(l, e, k) \in FactSets}
<1>1. N \in Nat /\ \A n \in 1..N : l[n] \in Entries
  BY ElementOfSeq, LenProperties
<1> HIDE DEF N
<1>2. 0 \in Typed
  BY <1>1, HubSteps, FirstWhole
<1>3. ASSUME NEW k \in 0..(N - 1), k \in Typed PROVE k + 1 \in Typed
  <2>1. k + 1 \in 1..N /\ (k + 1) - 1 = k /\ k + 1 \in 0..N
    BY <1>1
  <2>2. HubOf(l, e, k + 1) = AfterEntry(HubOf(l, e, k), e, l[k + 1])
    BY <2>1, HubSteps DEF N
  <2>3. l[k + 1].who = e => l[k + 1].set \in Whole \/ HubOf(l, e, k) \in Whole
    BY <2>1 DEF HiredFirst, N
  <2>4. l[k + 1].set \in Parts
    BY <1>1, <2>1 DEF Entries
  <2>5. AfterEntry(HubOf(l, e, k), e, l[k + 1]) \in FactSets
    BY <1>3, <2>3, <2>4, UpdatedWhole DEF AfterEntry, FactSets
  <2> QED
    BY <2>1, <2>2, <2>5
<1>4. \A k \in 0..N : k \in Typed
  <2> HIDE DEF Typed
  <2> QED
    BY <1>1, <1>2, <1>3, IntervalInduction
<1> QED
  BY <1>4 DEF N

\* Who was hired stays in the directory.
LEMMA HubHired ==
    ASSUME NEW l \in Seq(Entries), HiredFirst(l), NEW e \in Employees,
           NEW a \in 0..Len(l), HubOf(l, e, a) \in Whole
    PROVE  \A k \in a..Len(l) : HubOf(l, e, k) \in Whole
<1> DEFINE N == Len(l)
           Hired == {n \in Nat : n <= N - a /\ HubOf(l, e, a + n) \in Whole}
<1>1. N \in Nat /\ a \in Nat /\ N - a \in Nat /\ (\A n \in 1..N : l[n] \in Entries)
  BY ElementOfSeq, LenProperties
<1> HIDE DEF N
<1>2. 0 \in Hired
  BY <1>1
<1>3. ASSUME NEW n \in 0..((N - a) - 1), n \in Hired PROVE n + 1 \in Hired
  <2>1. a + (n + 1) \in 1..N /\ (a + (n + 1)) - 1 = a + n /\ n + 1 <= N - a
    BY <1>1
  <2>2. HubOf(l, e, a + (n + 1)) = AfterEntry(HubOf(l, e, a + n), e, l[a + (n + 1)])
    BY <2>1, HubSteps DEF N
  <2>3. l[a + (n + 1)].set \in Parts
    BY <1>1, <2>1 DEF Entries
  <2>4. AfterEntry(HubOf(l, e, a + n), e, l[a + (n + 1)]) \in Whole
    BY <1>3, <2>3, UpdatedWhole DEF AfterEntry, FactSets
  <2> QED
    BY <1>1, <1>3, <2>1, <2>2, <2>4
<1>4. \A n \in 0..(N - a) : n \in Hired
  <2> HIDE DEF Hired
  <2> QED
    BY <1>1, <1>2, <1>3, IntervalInduction
<1> SUFFICES ASSUME NEW k \in a..N PROVE HubOf(l, e, k) \in Whole
  BY DEF N
<1>5. k - a \in 0..(N - a) /\ a + (k - a) = k
  BY <1>1
<1> QED
  BY <1>4, <1>5

\* The last change of e is one of his, and there is none after it.
LEMMA ChangedFacts ==
    ASSUME NEW k \in 0..Len(log), log \in Seq(Entries), NEW e \in Employees
    PROVE  /\ ChangedAt(e, k) \in 0..k
           /\ ChangedAt(e, k) # 0 => log[ChangedAt(e, k)].who = e
           /\ Covers(e, ChangedAt(e, k), k)
<1> DEFINE own(n) == {i \in 1..n : log[i].who = e}
           Last(n, i) == i \in own(n) /\ \A j \in own(n) : j <= i
           T == {n \in 0..k : own(n) = {} \/ \E i \in own(n) : Last(n, i)}
<1>1. k \in Nat
  BY LenProperties
<1>2. 0 \in T
  BY <1>1
<1>3. ASSUME NEW n \in 0..(k - 1), n \in T PROVE n + 1 \in T
  <2>1. n + 1 \in 0..k /\ n \in Nat /\ own(n + 1) = own(n) \cup {i \in {n + 1} : log[i].who = e}
    BY <1>1
  <2>2. CASE log[n + 1].who = e
    <3>1. Last(n + 1, n + 1)
      BY <2>1, <2>2
    <3> QED
      BY <2>1, <3>1
  <2>3. CASE log[n + 1].who # e
    <3>1. own(n + 1) = own(n)
      BY <2>1, <2>3
    <3> QED
      BY <1>3, <2>1, <3>1
  <2> QED
    BY <2>2, <2>3
<1>4. own(k) = {} \/ \E i \in own(k) : Last(k, i)
  <2>1. k \in T
    <3> HIDE DEF T
    <3>1. \A n \in 0..k : n \in T
      BY <1>1, <1>2, <1>3, IntervalInduction
    <3> QED
      BY <1>1, <3>1
  <2> QED
    BY <2>1
<1>5. CASE own(k) = {}
  BY <1>1, <1>5 DEF ChangedAt, Covers
<1>6. CASE \E i \in own(k) : Last(k, i)
  <2>1. Last(k, ChangedAt(e, k))
    BY <1>6 DEF ChangedAt
  <2> QED
    BY <1>1, <2>1 DEF Covers
<1> QED
  BY <1>4, <1>5, <1>6

-----------------------------------------------------------------------------
(***************************************************************************)
(* Types, and what a run has in hand.                                      *)
(***************************************************************************)
RunSteps == {"idle", "fetch", "apply", "save", "managers", "missing", "reconcile", "give"}
Rows == [facts : Some, mgr : Employees \cup {None}, at : Nat]
Items == [who : Employees, set : Parts, at : Nat]
RunStates == [step : RunSteps, scheduled : BOOLEAN, pos : Nat, items : Seq(Items), next : Nat,
              more : BOOLEAN, read : Rows, changed : SUBSET Employees, todo : SUBSET Employees,
              who : Employees \cup {None}]
SyncStates == [cursor : Nat, last_status : {"success", "failed"}, last_success_at : Nat \cup {None}]

TypeInv ==
    /\ log \in Seq(Entries)
    /\ row \in [Employees -> Rows]
    /\ course \in SUBSET Employees
    /\ state \in {<<>>} \cup SyncStates
    /\ run \in [Runs -> RunStates]
    /\ sched \in {"down", "asleep", "due", "syncing", "reconciling"}
    /\ {clock, asked, faults} \subseteq Nat
    /\ outdated \in SUBSET Employees /\ unsettled \in SUBSET Employees
    /\ calm \in {"no", "maybe", "yes"}

InPage(r) == run[r].step \in {"apply", "save"}
\* How many changes the run of changes has got through.
Reached == IF Idle("changes") THEN Cursor
           ELSE IF InPage("changes") THEN run["changes"].next - Len(run["changes"].items)
           ELSE run["changes"].pos

\* The page of changes is a piece of the log, up to where the run asks for more.
ChangesPage ==
    LET c == run["changes"] IN
    /\ c.step # "missing" /\ c.pos <= Len(log) /\ Cursor <= Len(log)
    /\ InPage("changes") =>
         /\ c.next <= Len(log) /\ c.pos + Len(c.items) <= c.next
         /\ \A i \in 1..Len(c.items) :
              LET k == (c.next - Len(c.items)) + i IN c.items[i] = Item(log[k].who, log[k].set, k)
FullPage ==
    LET c == run["full"] IN
    /\ c.step = "fetch" => c.pos < Len(Listing)
    /\ InPage("full") =>
         /\ Len(c.items) <= 1
         /\ \A i \in 1..Len(c.items) : c.items[i].at <= Len(log)
         /\ c.more => c.next < Len(Listing)
LocalInv ==
    /\ run["daily"].step \in {"idle", "reconcile", "give"}
    /\ \A r \in Runs : /\ run[r].step = "save" => run[r].items # <<>>
                       /\ IF run[r].step = "give" THEN run[r].who \in Employees ELSE run[r].who = None
    /\ \A e \in Employees : row[e].at <= Len(log)
PageInv == ChangesPage /\ FullPage /\ LocalInv

LEMMA RunNames == Runs = {"changes", "full", "daily"} /\ None \notin Employees
  BY DirectoryAssumption DEF Runs

LEMMA RowTypes == NoRow \in Rows /\ <<>> \in Some /\ FactSets \subseteq Some
<1>1. <<>> \in Some /\ FactSets \subseteq Some
  BY DEF Some, FactSets, Whole
<1> QED
  BY <1>1 DEF NoRow, Rows

LEMMA IdleTypes == IdleRun \in RunStates
  BY RowTypes, EmptySeq DEF IdleRun, RunStates, RunSteps

LEMMA OfRun ==
    ASSUME run \in [Runs -> RunStates], NEW r \in Runs, NEW local \in RunStates, run' = Of(r, local)
    PROVE  /\ run' \in [Runs -> RunStates] /\ run'[r] = local
           /\ \A q \in Runs : q # r => run'[q] = run[q]
  BY DEF Of

LEMMA Recording ==
    ASSUME TypeInv, NEW pos \in Nat, NEW status \in {"success", "failed"}
    PROVE  /\ Recorded(pos, status) \in SyncStates /\ Recorded(pos, status) # <<>>
           /\ Recorded(pos, status).cursor = pos
<1>1. state # <<>> => state.last_success_at \in Nat \cup {None}
  BY DEF TypeInv, SyncStates
<1>2. clock \in Nat
  BY DEF TypeInv
<1>3. Recorded(pos, status) \in SyncStates /\ Recorded(pos, status).cursor = pos
  BY <1>1, <1>2 DEF Recorded, SyncStates
<1>4. DOMAIN Recorded(pos, status) # {}
  BY DEF Recorded
<1> QED
  BY <1>3, <1>4, Nothing

\* What a run does when it starts.
LEMMA StartDoes ==
    ASSUME TypeInv, NEW r \in Runs, NEW pos \in Nat, NEW scheduled \in BOOLEAN, Start(r, pos, scheduled)
    PROVE  /\ run' \in [Runs -> RunStates] /\ calm' \in {"no", "maybe"}
           /\ Idle(r) /\ run'[r] = [IdleRun EXCEPT !.step = "fetch", !.pos = pos, !.scheduled = scheduled]
           /\ run'[r].step = "fetch" /\ run'[r].pos = pos /\ run'[r].scheduled = scheduled
           /\ run'[r].who = None /\ run'[r].changed = {} /\ run'[r].todo = {}
           /\ \A q \in Runs : q # r => run'[q] = run[q]
<1> DEFINE local == [IdleRun EXCEPT !.step = "fetch", !.pos = pos, !.scheduled = scheduled]
<1>1. local \in RunStates
  BY IdleTypes DEF RunStates, RunSteps
<1>2. /\ local.step = "fetch" /\ local.pos = pos /\ local.scheduled = scheduled
      /\ local.who = None /\ local.changed = {} /\ local.todo = {}
  BY DEF IdleRun
<1>3. run' = Of(r, local) /\ Idle(r) /\ calm' \in {"no", "maybe"}
  BY DEF Start
<1> HIDE DEF local
<1>4. /\ run' \in [Runs -> RunStates] /\ run'[r] = local
      /\ \A q \in Runs : q # r => run'[q] = run[q]
  BY <1>1, <1>3, OfRun DEF TypeInv
<1> QED
  BY <1>2, <1>3, <1>4 DEF local

LEMMA PageTypes ==
    ASSUME TypeInv, PageInv
    PROVE  /\ Len(log) \in Nat /\ Cursor \in 0..Len(log) /\ Reached \in 0..Len(log)
           /\ \A n \in 1..Len(log) : log[n] \in Entries
           /\ \A e \in Employees : row[e] \in Rows /\ row[e].at \in 0..Len(log)
           /\ \A r \in Runs : run[r] \in RunStates /\ Len(run[r].items) \in Nat
<1>1. Len(log) \in Nat /\ \A n \in 1..Len(log) : log[n] \in Entries
  BY LenProperties, ElementOfSeq DEF TypeInv
<1>2. \A r \in Runs : run[r] \in RunStates /\ Len(run[r].items) \in Nat
  BY LenProperties DEF TypeInv, RunStates
<1>3. Cursor \in Nat
  BY DEF TypeInv, SyncStates, Cursor
<1>4. Cursor \in 0..Len(log)
  BY <1>1, <1>3 DEF PageInv, ChangesPage
<1>5. run["changes"].pos \in Nat /\ run["changes"].next \in Nat /\ Len(run["changes"].items) \in Nat
  BY <1>2, RunNames DEF RunStates
<1>6. Reached \in 0..Len(log)
  <2>1. run["changes"].pos <= Len(log)
    BY DEF PageInv, ChangesPage
  <2>2. InPage("changes") => /\ run["changes"].next <= Len(log)
                             /\ run["changes"].pos + Len(run["changes"].items) <= run["changes"].next
    BY DEF PageInv, ChangesPage
  <2>5. CASE Idle("changes")
    BY <1>4, <2>5 DEF Reached
  <2>3. CASE ~Idle("changes") /\ InPage("changes")
    <3>1. Reached = run["changes"].next - Len(run["changes"].items)
      BY <2>3 DEF Reached
    <3> DEFINE n == run["changes"].next
               k == Len(run["changes"].items)
               l == Len(log)
    <3>2. n \in Nat /\ k \in Nat /\ l \in Nat /\ run["changes"].pos \in Nat
      BY <1>1, <1>5
    <3>3. n <= l /\ run["changes"].pos + k <= n
      BY <2>2, <2>3
    <3> HIDE DEF n, k, l
    <3>4. n - k \in 0..l
      BY <3>2, <3>3
    <3> QED
      BY <3>1, <3>4 DEF n, k, l
  <2>4. CASE ~Idle("changes") /\ ~InPage("changes")
    <3>1. Reached = run["changes"].pos
      BY <2>4 DEF Reached
    <3> QED
      BY <1>1, <1>5, <2>1, <3>1
  <2> QED
    BY <2>3, <2>4, <2>5
<1>7. \A e \in Employees : row[e] \in Rows /\ row[e].at \in 0..Len(log)
  BY <1>1 DEF TypeInv, PageInv, LocalInv, Rows
<1> QED
  BY <1>1, <1>2, <1>4, <1>6, <1>7

-----------------------------------------------------------------------------
(***************************************************************************)
(* What a step does to the run that takes it.                              *)
(***************************************************************************)
LEMMA FetchChangesDoes ==
    ASSUME TypeInv, PageInv, FetchChanges
    PROVE  LET c == run["changes"]
               d == run'["changes"] IN
           /\ run' \in [Runs -> RunStates]
           /\ \A q \in Runs : q # "changes" => run'[q] = run[q]
           /\ c.step = "fetch" /\ d.step = "apply" /\ d.next = EndOfPage
           /\ d.next \in c.pos..Len(log) /\ (~d.more => d.next = Len(log))
           /\ Len(d.items) = d.next - c.pos
           /\ \A i \in 1..(d.next - c.pos) :
                d.items[i] = Item(log[c.pos + i].who, log[c.pos + i].set, c.pos + i)
           /\ d.pos = c.pos /\ d.scheduled = c.scheduled /\ d.changed = c.changed
           /\ d.todo = c.todo /\ d.who = c.who
<1> DEFINE c == run["changes"]
           pos == c.pos
           end == EndOfPage
           items == [i \in 1..(end - pos) |-> Item(log[pos + i].who, log[pos + i].set, pos + i)]
           more == end < Len(log)
           local == [c EXCEPT !.step = "apply", !.next = end, !.more = more, !.items = items]
<1>1. c \in RunStates /\ Len(log) \in Nat /\ \A n \in 1..Len(log) : log[n] \in Entries
  BY PageTypes, RunNames
<1>2. pos \in 0..Len(log)
  BY <1>1 DEF RunStates, PageInv, ChangesPage
<1>3. end \in pos..Len(log) /\ (~(end < Len(log)) => end = Len(log))
  <2>1. PageSize \in Nat \ {0} /\ Len(log) \in Nat /\ pos \in Nat
    BY <1>1, <1>2, DirectoryAssumption
  <2> QED
    BY SMTT(30), <1>2, <2>1 DEF EndOfPage
<1>4. end - pos \in Nat
  BY <1>1, <1>2, <1>3
<1>5. \A i \in 1..(end - pos) : pos + i \in 1..Len(log)
  BY <1>1, <1>2, <1>3
<1>6. c.step = "fetch" /\ run' = Of("changes", local)
  BY DEF FetchChanges
<1> HIDE DEF c, pos, end
<1>7. items \in Seq(Items) /\ Len(items) = end - pos
  <2>1. \A i \in 1..(end - pos) : Item(log[pos + i].who, log[pos + i].set, pos + i) \in Items
    BY <1>1, <1>5 DEF Item, Items, Entries
  <2>2. items \in [1..(end - pos) -> Items]
    BY <2>1
  <2> HIDE DEF items
  <2> QED
    BY <1>4, <2>2, SeqDef, LenProperties
<1>8. \A i \in 1..(end - pos) : items[i] = Item(log[pos + i].who, log[pos + i].set, pos + i)
  OBVIOUS
<1>a. more \in BOOLEAN /\ (~more => end = Len(log)) /\ end \in Nat
  BY <1>1, <1>2, <1>3
<1> HIDE DEF items, more
<1>9. local \in RunStates
  BY <1>1, <1>7, <1>a DEF RunStates, RunSteps
<1>10. /\ local.step = "apply" /\ local.next = end /\ local.more = more /\ local.items = items
       /\ local.pos = c.pos /\ local.scheduled = c.scheduled /\ local.changed = c.changed
       /\ local.todo = c.todo /\ local.who = c.who
  BY <1>1 DEF RunStates
<1> HIDE DEF local
<1>11. run' \in [Runs -> RunStates] /\ run'["changes"] = local
       /\ \A q \in Runs : q # "changes" => run'[q] = run[q]
  BY <1>6, <1>9, OfRun, RunNames DEF TypeInv
<1> QED
  BY <1>3, <1>6, <1>7, <1>8, <1>10, <1>11, <1>a DEF c, pos, end

LEMMA OneSeq == ASSUME NEW S, NEW s \in S
                PROVE  <<s>> \in Seq(S) /\ Len(<<s>>) = 1 /\ <<s>>[1] = s /\ <<s>> # <<>>
  OBVIOUS

LEMMA FetchListedDoes ==
    ASSUME TypeInv, PageInv, HiredFirst(log), FetchListed
    PROVE  LET c == run["full"]
               d == run'["full"]
               e == Listing[c.pos + 1] IN
           /\ run' \in [Runs -> RunStates]
           /\ \A q \in Runs : q # "full" => run'[q] = run[q]
           /\ c.step = "fetch" /\ d.step = "apply" /\ d.next = c.pos + 1
           /\ d.more = (d.next < Len(Listing))
           /\ e \in Employees
           /\ \/ d.items = <<>>
              \/ /\ Hub(e) \in Whole /\ Hub(e)["status"] = "active"
                 /\ d.items = <<Item(e, Hub(e), ChangedAt(e, Len(log)))>>
                 /\ Item(e, Hub(e), ChangedAt(e, Len(log))) \in Items
           /\ d.pos = c.pos /\ d.scheduled = c.scheduled /\ d.changed = c.changed
           /\ d.todo = c.todo /\ d.who = c.who
<1> DEFINE c == run["full"]
           next == c.pos + 1
           e == Listing[next]
           items == Listed(e)
           more == next < Len(Listing)
           local == [c EXCEPT !.step = "apply", !.next = next, !.more = more, !.items = items]
<1>1. c \in RunStates /\ Len(log) \in Nat /\ log \in Seq(Entries)
  BY PageTypes, RunNames DEF TypeInv
<1>2. c.step = "fetch" /\ run' = Of("full", local)
  BY DEF FetchListed
<1>3. next \in Nat /\ e \in Employees
  <2>1. Listing \in Seq(Employees) /\ Len(Listing) \in Nat
    BY DirectoryAssumption, LenProperties
  <2>2. c.pos \in Nat /\ c.pos < Len(Listing)
    BY <1>1, <1>2 DEF RunStates, PageInv, FullPage
  <2>3. next \in 1..Len(Listing)
    BY <2>1, <2>2
  <2> QED
    BY <2>1, <2>3, ElementOfSeq
<1> HIDE DEF c, e, next
<1>4. Hub(e) \in FactSets
  <2>1. HubOf(log, e, Len(log)) \in FactSets
    BY <1>1, <1>3, HubTyped
  <2> QED
    BY <2>1, HubIs DEF Hub
<1>5. ChangedAt(e, Len(log)) \in Nat
  <2>1. ChangedAt(e, Len(log)) \in 0..Len(log)
    BY <1>1, <1>3, ChangedFacts
  <2> QED
    BY <2>1
<1>6. /\ items \in Seq(Items)
      /\ \/ items = <<>>
         \/ /\ Hub(e) \in Whole /\ Hub(e)["status"] = "active"
            /\ items = <<Item(e, Hub(e), ChangedAt(e, Len(log)))>>
            /\ Item(e, Hub(e), ChangedAt(e, Len(log))) \in Items
  <2>1. CASE Hub(e) # <<>> /\ Hub(e)["status"] = "active"
    <3>1. Hub(e) \in Whole
      BY <1>4, <2>1 DEF FactSets
    <3>2. Item(e, Hub(e), ChangedAt(e, Len(log))) \in Items
      BY <1>3, <1>5, <3>1, WholeFacts DEF Item, Items
    <3> QED
      BY <2>1, <3>1, <3>2, OneSeq DEF Listed
  <2>2. CASE ~(Hub(e) # <<>> /\ Hub(e)["status"] = "active")
    BY <2>2, EmptySeq DEF Listed
  <2> QED
    BY <2>1, <2>2
<1>a. more \in BOOLEAN /\ more = (next < Len(Listing))
  OBVIOUS
<1> HIDE DEF items, more
<1>7. local \in RunStates
  BY <1>1, <1>3, <1>6, <1>a DEF RunStates, RunSteps
<1>8. /\ local.step = "apply" /\ local.next = next /\ local.more = more /\ local.items = items
      /\ local.pos = c.pos /\ local.scheduled = c.scheduled /\ local.changed = c.changed
      /\ local.todo = c.todo /\ local.who = c.who
  BY <1>1 DEF RunStates
<1> HIDE DEF local
<1>9. run' \in [Runs -> RunStates] /\ run'["full"] = local
      /\ \A q \in Runs : q # "full" => run'[q] = run[q]
  BY <1>2, <1>7, OfRun, RunNames DEF TypeInv
<1> QED
  BY <1>2, <1>3, <1>6, <1>8, <1>9, <1>a DEF c, next, e

\* The item in hand, and those after it.
LEMMA InHand ==
    ASSUME TypeInv, PageInv, NEW r \in Runs, run[r].items # <<>>
    PROVE  LET s == run[r].items IN
           /\ Len(s) \in Nat \ {0} /\ Head(s) = s[1] /\ Head(s) \in Items
           /\ Tail(s) \in Seq(Items) /\ Len(Tail(s)) = Len(s) - 1
           /\ \A i \in 1..(Len(s) - 1) : Tail(s)[i] = s[i + 1]
<1> DEFINE s == run[r].items
<1>1. s \in Seq(Items) /\ s # <<>>
  BY PageTypes DEF RunStates
<1> HIDE DEF s
<1> SUFFICES /\ Len(s) \in Nat \ {0} /\ Head(s) = s[1] /\ Head(s) \in Items
             /\ Tail(s) \in Seq(Items) /\ Len(Tail(s)) = Len(s) - 1
             /\ \A i \in 1..(Len(s) - 1) : Tail(s)[i] = s[i + 1]
  BY DEF s
<1>2. Len(s) \in Nat \ {0}
  BY <1>1, LenProperties, EmptySeq
<1>3. Head(s) = s[1] /\ s[1] \in Items
  BY <1>1, <1>2, ElementOfSeq, HeadTailProperties
<1> QED
  BY <1>1, <1>2, <1>3, HeadTailProperties

LEMMA ReadDoes ==
    ASSUME TypeInv, PageInv, NEW r \in {"changes", "full"}, Read(r)
    PROVE  LET c == run[r]
               d == run'[r]
               item == Head(c.items) IN
           /\ run' \in [Runs -> RunStates]
           /\ \A q \in Runs : q # r => run'[q] = run[q]
           /\ c.step = "apply" /\ c.items # <<>> /\ item \in Items
           /\ \/ /\ r = "changes" /\ item.at < row[item.who].at
                 /\ d.step = "apply" /\ d.items = Tail(c.items)
              \/ /\ ~(r = "changes" /\ item.at < row[item.who].at)
                 /\ d.step = "save" /\ d.items = c.items /\ d.read = row[item.who]
           /\ d.pos = c.pos /\ d.next = c.next /\ d.more = c.more
           /\ d.scheduled = c.scheduled /\ d.changed = c.changed /\ d.todo = c.todo /\ d.who = c.who
<1> DEFINE c == run[r]
           item == Head(c.items)
           rest == Tail(c.items)
           read == row[item.who]
           skipped == [c EXCEPT !.items = rest]
           saving == [c EXCEPT !.step = "save", !.read = read]
           skips == r = "changes" /\ Stale(read, item)
<1>1. c \in RunStates /\ r \in Runs
  BY PageTypes, RunNames
<1>2. c.step = "apply" /\ c.items # <<>> /\ run' = Of(r, IF skips THEN skipped ELSE saving)
  BY DEF Read
<1>3. item \in Items /\ rest \in Seq(Items)
  BY <1>1, <1>2, InHand
<1>4. read \in Rows
  BY <1>3, PageTypes DEF Items
<1>5. skips = (r = "changes" /\ item.at < read.at)
  BY DEF Stale
<1> HIDE DEF c, item, rest, read, skips
<1>6. skipped \in RunStates /\ saving \in RunStates
  BY <1>1, <1>3, <1>4 DEF RunStates, RunSteps
<1>7. /\ skipped.step = c.step /\ skipped.items = rest /\ saving.step = "save" /\ saving.items = c.items
      /\ saving.read = read
      /\ \A local \in {skipped, saving} :
           /\ local.pos = c.pos /\ local.next = c.next /\ local.more = c.more /\ local.scheduled = c.scheduled
           /\ local.changed = c.changed /\ local.todo = c.todo /\ local.who = c.who
  BY <1>1 DEF RunStates
<1> HIDE DEF skipped, saving
<1>8. CASE skips
  <2>1. run' \in [Runs -> RunStates] /\ run'[r] = skipped /\ \A q \in Runs : q # r => run'[q] = run[q]
    BY <1>1, <1>2, <1>6, <1>8, OfRun DEF TypeInv
  <2> QED
    BY <1>2, <1>3, <1>5, <1>7, <1>8, <2>1 DEF c, item, rest, read
<1>9. CASE ~skips
  <2>1. run' \in [Runs -> RunStates] /\ run'[r] = saving /\ \A q \in Runs : q # r => run'[q] = run[q]
    BY <1>1, <1>2, <1>6, <1>9, OfRun DEF TypeInv
  <2> QED
    BY <1>2, <1>3, <1>5, <1>7, <1>9, <2>1 DEF c, item, rest, read
<1> QED
  BY <1>8, <1>9

LEMMA SaveDoes ==
    ASSUME TypeInv, PageInv, NEW r \in {"changes", "full"}, Save(r)
    PROVE  LET c == run[r]
               d == run'[r]
               item == Head(c.items)
               e == item.who
               new == Merged(c.read, item) IN
           /\ run' \in [Runs -> RunStates]
           /\ \A q \in Runs : q # r => run'[q] = run[q]
           /\ c.step = "save" /\ c.items # <<>> /\ item \in Items /\ c.read \in Rows
           /\ e \in Employees /\ new \in Rows
           /\ row' \in [Employees -> Rows] /\ row'[e] = new
           /\ \A x \in Employees : x # e => row'[x] = row[x]
           /\ d.step = "apply" /\ d.items = Tail(c.items) /\ d.changed = c.changed \cup {e}
           /\ d.pos = c.pos /\ d.next = c.next /\ d.more = c.more
           /\ d.scheduled = c.scheduled /\ d.todo = c.todo /\ d.who = c.who
<1> DEFINE c == run[r]
           item == Head(c.items)
           e == item.who
           new == Merged(c.read, item)
           rest == Tail(c.items)
           local == [c EXCEPT !.step = "apply", !.items = rest, !.read = NoRow, !.changed = @ \cup {e}]
<1>1. c \in RunStates /\ r \in Runs
  BY PageTypes, RunNames
<1>2. c.step = "save" /\ run' = Of(r, local) /\ row' = [row EXCEPT ![e] = new]
  BY DEF Save
<1>3. c.items # <<>>
  BY <1>1, <1>2 DEF PageInv, LocalInv
<1>4. item \in Items /\ rest \in Seq(Items)
  BY <1>1, <1>3, InHand
<1>5. c.read \in Rows /\ e \in Employees
  BY <1>1, <1>4 DEF RunStates, Items
<1>6. new \in Rows
  <2>1. c.read.facts \in Some /\ item.set \in Parts /\ item.at \in Nat
        /\ c.read.mgr \in Employees \cup {None}
    BY <1>4, <1>5 DEF Rows, Items
  <2>2. Updated(c.read.facts, item.set) \in Some
    BY <2>1, UpdatedSome
  <2> QED
    BY <2>1, <2>2 DEF Merged, Rows
<1> HIDE DEF c, item, e, new, rest
<1>7. local \in RunStates
  BY <1>1, <1>4, <1>5, RowTypes DEF RunStates, RunSteps
<1>8. /\ local.step = "apply" /\ local.items = rest /\ local.changed = c.changed \cup {e}
      /\ local.pos = c.pos /\ local.next = c.next /\ local.more = c.more /\ local.scheduled = c.scheduled
      /\ local.todo = c.todo /\ local.who = c.who
  BY <1>1 DEF RunStates
<1> HIDE DEF local
<1>9. run' \in [Runs -> RunStates] /\ run'[r] = local /\ \A q \in Runs : q # r => run'[q] = run[q]
  BY <1>1, <1>2, <1>7, OfRun DEF TypeInv
<1>10. row' \in [Employees -> Rows] /\ row'[e] = new /\ \A x \in Employees : x # e => row'[x] = row[x]
  BY <1>2, <1>5, <1>6 DEF TypeInv
<1> QED
  BY <1>2, <1>3, <1>4, <1>5, <1>6, <1>8, <1>9, <1>10 DEF c, item, e, new, rest

LEMMA EndPageDoes ==
    ASSUME TypeInv, PageInv, NEW r \in {"changes", "full"}, EndPage(r)
    PROVE  LET c == run[r]
               d == run'[r] IN
           /\ run' \in [Runs -> RunStates]
           /\ \A q \in Runs : q # r => run'[q] = run[q]
           /\ c.step = "apply" /\ c.items = <<>>
           /\ d.step = IF c.more THEN "fetch" ELSE "managers"
           /\ d.pos = c.next /\ d.items = <<>>
           /\ d.scheduled = c.scheduled /\ d.changed = c.changed /\ d.todo = c.todo /\ d.who = c.who
<1> DEFINE c == run[r]
           step == IF c.more THEN "fetch" ELSE "managers"
           local == [c EXCEPT !.pos = c.next, !.next = 0, !.more = FALSE, !.step = step]
<1>1. c \in RunStates /\ r \in Runs
  BY PageTypes, RunNames
<1>2. c.step = "apply" /\ c.items = <<>> /\ run' = Of(r, local)
  BY DEF EndPage
<1>3. step \in {"fetch", "managers"} /\ c.next \in Nat
  BY <1>1 DEF RunStates
<1> HIDE DEF c, step
<1>4. local \in RunStates
  BY <1>1, <1>3 DEF RunStates, RunSteps
<1>5. /\ local.step = step /\ local.pos = c.next /\ local.items = c.items /\ local.scheduled = c.scheduled
      /\ local.changed = c.changed /\ local.todo = c.todo /\ local.who = c.who
  BY <1>1 DEF RunStates
<1> HIDE DEF local
<1>6. run' \in [Runs -> RunStates] /\ run'[r] = local /\ \A q \in Runs : q # r => run'[q] = run[q]
  BY <1>1, <1>2, <1>4, OfRun DEF TypeInv
<1> QED
  BY <1>2, <1>5, <1>6 DEF c, step

-----------------------------------------------------------------------------
(***************************************************************************)
(* A row has all facts or is not there at all, and no item is merged into  *)
(* a row that would lack some.                                             *)
(***************************************************************************)
WholeInv ==
    /\ HiredFirst(log)
    /\ \A e \in Employees : row[e].facts \in FactSets /\ (row[e].facts = <<>> => row[e] = NoRow)
    /\ \A r \in Runs : run[r].step = "save" =>
         /\ run[r].read.facts \in FactSets
         /\ run[r].read.facts \in Whole \/ Head(run[r].items).set \in Whole

LEMMA ManagersDoes ==
    ASSUME TypeInv, PageInv, WholeInv, NEW r \in {"changes", "full"}, Managers(r)
    PROVE  LET c == run[r]
               d == run'[r] IN
           /\ run' \in [Runs -> RunStates]
           /\ \A q \in Runs : q # r => run'[q] = run[q]
           /\ row' \in [Employees -> Rows]
           /\ \A e \in Employees : /\ row'[e].facts = row[e].facts /\ row'[e].at = row[e].at
                                   /\ row[e].facts = <<>> => row'[e] = row[e]
           /\ c.step = "managers" /\ d.step = IF r = "full" THEN "missing" ELSE "reconcile"
           /\ r = "changes" => d.todo = c.changed
           /\ d.pos = c.pos /\ d.scheduled = c.scheduled /\ d.changed = c.changed /\ d.who = c.who
<1> DEFINE c == run[r]
           full == [c EXCEPT !.step = "missing"]
           changes == [c EXCEPT !.step = "reconcile", !.todo = c.changed]
<1>1. c \in RunStates /\ r \in Runs
  BY PageTypes, RunNames
<1>2. c.step = "managers" /\ run' = Of(r, IF r = "full" THEN full ELSE changes) /\ row' = Resolved
  BY DEF Managers
<1> HIDE DEF c
<1>3. full \in RunStates /\ changes \in RunStates
  BY <1>1 DEF RunStates, RunSteps
<1>4. /\ full.step = "missing" /\ changes.step = "reconcile" /\ changes.todo = c.changed
      /\ \A local \in {full, changes} : local.pos = c.pos /\ local.scheduled = c.scheduled
                                        /\ local.changed = c.changed /\ local.who = c.who
  BY <1>1 DEF RunStates
<1> HIDE DEF full, changes
<1>5. /\ run' \in [Runs -> RunStates] /\ run'[r] = (IF r = "full" THEN full ELSE changes)
      /\ \A q \in Runs : q # r => run'[q] = run[q]
  BY <1>1, <1>2, <1>3, OfRun DEF TypeInv
<1>6. ASSUME NEW e \in Employees
      PROVE  /\ Resolved[e] \in Rows
             /\ Resolved[e].facts = row[e].facts /\ Resolved[e].at = row[e].at
             /\ row[e].facts = <<>> => Resolved[e] = row[e]
  <2> DEFINE boss == row[e].facts["boss"]
             resolves == Existing(e) /\ boss # None /\ Existing(boss)
  <2>1. Resolved[e] = IF resolves THEN [row[e] EXCEPT !.mgr = boss] ELSE row[e]
    BY DEF Resolved
  <2>2. row[e] \in Rows
    BY PageTypes
  <2>3. CASE resolves
    <3>1. row[e].facts \in Whole
      BY <2>3 DEF WholeInv, FactSets, Existing
    <3>2. boss \in Values["boss"]
      BY <3>1, WholeFacts, Fact
    <3>3. boss \in Employees
      BY <2>3, <3>2, Fact
    <3> QED
      BY <2>1, <2>2, <2>3, <3>1, <3>3, WholeFacts DEF Rows
  <2>4. CASE ~resolves
    BY <2>1, <2>2, <2>4
  <2> QED
    BY <2>3, <2>4
<1>7. row' \in [Employees -> Rows]
  BY <1>2, <1>6 DEF Resolved
<1> QED
  BY <1>2, <1>4, <1>5, <1>6, <1>7 DEF c

LEMMA MarkMissingDoes ==
    ASSUME TypeInv, PageInv, WholeInv, MarkMissing
    PROVE  LET c == run["full"]
               d == run'["full"]
               missing == Missing(c.changed) IN
           /\ run' \in [Runs -> RunStates]
           /\ \A q \in Runs : q # "full" => run'[q] = run[q]
           /\ row' \in [Employees -> Rows] /\ missing \in SUBSET Employees
           /\ \A e \in missing :
                /\ row[e].facts \in Whole /\ row[e].facts["status"] = "active"
                /\ row'[e].facts \in Whole /\ row'[e].at = row[e].at
                /\ row'[e].facts["status"] = "inactive"
                /\ \A f \in Fields \ {"status"} : row'[e].facts[f] = row[e].facts[f]
           /\ \A e \in Employees \ missing : row'[e] = row[e]
           /\ c.step = "missing" /\ d.step = "reconcile"
           /\ d.changed = c.changed \cup missing /\ d.todo = c.changed \cup missing
           /\ d.pos = c.pos /\ d.scheduled = c.scheduled /\ d.who = c.who
<1> DEFINE c == run["full"]
           missing == Missing(c.changed)
           local == [c EXCEPT !.step = "reconcile", !.changed = @ \cup missing,
                              !.todo = c.changed \cup missing]
           Marked(e) == [row[e] EXCEPT !.facts["status"] = "inactive"]
<1>1. c \in RunStates
  BY PageTypes, RunNames
<1>2. /\ c.step = "missing" /\ run' = Of("full", local)
      /\ row' = [e \in Employees |-> IF e \in missing THEN Marked(e) ELSE row[e]]
  BY DEF MarkMissing
<1>3. missing \in SUBSET Employees /\ \A e \in missing : Active(row[e])
  BY DEF Missing
<1> HIDE DEF c, missing
<1>4. local \in RunStates
  BY <1>1, <1>3 DEF RunStates, RunSteps
<1>5. /\ local.step = "reconcile" /\ local.changed = c.changed \cup missing
      /\ local.todo = c.changed \cup missing
      /\ local.pos = c.pos /\ local.scheduled = c.scheduled /\ local.who = c.who
  BY <1>1 DEF RunStates
<1> HIDE DEF local
<1>6. /\ run' \in [Runs -> RunStates] /\ run'["full"] = local
      /\ \A q \in Runs : q # "full" => run'[q] = run[q]
  BY <1>2, <1>4, OfRun, RunNames DEF TypeInv
<1>7. ASSUME NEW e \in missing
      PROVE  /\ row[e].facts \in Whole /\ row[e].facts["status"] = "active"
             /\ Marked(e) \in Rows /\ Marked(e).facts \in Whole /\ Marked(e).at = row[e].at
             /\ Marked(e).facts["status"] = "inactive"
             /\ \A f \in Fields \ {"status"} : Marked(e).facts[f] = row[e].facts[f]
  <2> DEFINE facts == row[e].facts
             marked == [facts EXCEPT !["status"] = "inactive"]
  <2>1. row[e] \in Rows /\ Active(row[e]) /\ e \in Employees
    BY <1>3, PageTypes
  <2>2. facts \in Whole /\ facts["status"] = "active"
    BY <2>1 DEF WholeInv, FactSets, Active
  <2>3. Marked(e) = [row[e] EXCEPT !.facts = marked]
    BY <2>1 DEF Rows
  <2>4. /\ marked \in Whole /\ marked["status"] = "inactive"
        /\ \A f \in Fields \ {"status"} : marked[f] = facts[f]
    <3>1. facts \in [Fields -> AnyValue] /\ \A f \in Fields : facts[f] \in Values[f]
      BY <2>2 DEF Whole
    <3>2. "inactive" \in AnyValue /\ "inactive" \in Values["status"] /\ "status" \in Fields
      BY Fact DEF AnyValue
    <3> HIDE DEF facts
    <3> QED
      BY <3>1, <3>2 DEF Whole
  <2> HIDE DEF marked
  <2>5. Marked(e).facts = marked /\ Marked(e).at = row[e].at
    BY <2>1, <2>3 DEF Rows
  <2>6. Marked(e) \in Rows
    BY <2>1, <2>3, <2>4, RowTypes DEF Rows, FactSets
  <2> QED
    BY <2>2, <2>4, <2>5, <2>6
<1> HIDE DEF Marked
<1>8. row' \in [Employees -> Rows]
  BY <1>2, <1>7, PageTypes
<1> QED
  BY <1>2, <1>3, <1>5, <1>6, <1>7, <1>8 DEF c, missing

LEMMA ReconcileDoes ==
    ASSUME TypeInv, PageInv, NEW r \in Runs, NEW e \in Employees, Reconcile(r, e)
    PROVE  LET c == run[r]
               d == run'[r] IN
           /\ run' \in [Runs -> RunStates]
           /\ \A q \in Runs : q # r => run'[q] = run[q]
           /\ c.step = "reconcile" /\ e \in c.todo /\ c.who = None
           /\ d.step = "give" /\ d.who = e /\ d.read = row[e] /\ d.todo = c.todo \ {e}
           /\ d.pos = c.pos /\ d.scheduled = c.scheduled /\ d.changed = c.changed
<1> DEFINE c == run[r]
           read == row[e]
           local == [c EXCEPT !.step = "give", !.who = e, !.read = read, !.todo = @ \ {e}]
<1>1. c \in RunStates /\ read \in Rows
  BY PageTypes
<1>2. c.step = "reconcile" /\ e \in c.todo /\ run' = Of(r, local)
  BY DEF Reconcile
<1>3. c.who = None
  BY <1>2 DEF PageInv, LocalInv
<1> HIDE DEF c, read
<1>4. local \in RunStates
  BY <1>1 DEF RunStates, RunSteps
<1>5. /\ local.step = "give" /\ local.who = e /\ local.read = read /\ local.todo = c.todo \ {e}
      /\ local.pos = c.pos /\ local.scheduled = c.scheduled /\ local.changed = c.changed
  BY <1>1 DEF RunStates
<1> HIDE DEF local
<1>6. run' \in [Runs -> RunStates] /\ run'[r] = local /\ \A q \in Runs : q # r => run'[q] = run[q]
  BY <1>2, <1>4, OfRun DEF TypeInv
<1> QED
  BY <1>2, <1>3, <1>5, <1>6 DEF c, read

LEMMA GiveDoes ==
    ASSUME TypeInv, PageInv, NEW r \in Runs, Give(r)
    PROVE  LET c == run[r]
               d == run'[r]
               e == c.who IN
           /\ run' \in [Runs -> RunStates]
           /\ \A q \in Runs : q # r => run'[q] = run[q]
           /\ c.step = "give" /\ e \in Employees /\ d.step = "reconcile" /\ d.who = None
           /\ course' \in SUBSET Employees
           /\ \A x \in Employees : x # e => (x \in course' <=> x \in course)
           /\ e \in course' <=> Wants(c.read)
           /\ unsettled' = IF c.read = row[e] THEN unsettled \ {e} ELSE unsettled \cup {e}
           /\ d.todo = c.todo /\ d.pos = c.pos /\ d.scheduled = c.scheduled /\ d.changed = c.changed
<1> DEFINE c == run[r]
           e == c.who
           local == [c EXCEPT !.step = "reconcile", !.who = None, !.read = NoRow]
<1>1. c \in RunStates
  BY PageTypes
<1>2. /\ c.step = "give" /\ run' = Of(r, local)
      /\ course' = IF Wants(c.read) THEN course \cup {e} ELSE course \ {e}
      /\ unsettled' = IF c.read = row[e] THEN unsettled \ {e} ELSE unsettled \cup {e}
  BY DEF Give
<1>3. e \in Employees
  BY <1>2 DEF PageInv, LocalInv
<1> HIDE DEF c, e
<1>4. local \in RunStates
  BY <1>1, RowTypes DEF RunStates, RunSteps
<1>5. /\ local.step = "reconcile" /\ local.who = None /\ local.todo = c.todo
      /\ local.pos = c.pos /\ local.scheduled = c.scheduled /\ local.changed = c.changed
  BY <1>1 DEF RunStates
<1> HIDE DEF local
<1>6. run' \in [Runs -> RunStates] /\ run'[r] = local /\ \A q \in Runs : q # r => run'[q] = run[q]
  BY <1>2, <1>4, OfRun DEF TypeInv
<1>7. /\ course' \in SUBSET Employees /\ (e \in course' <=> Wants(c.read))
      /\ \A x \in Employees : x # e => (x \in course' <=> x \in course)
  BY <1>2, <1>3 DEF TypeInv
<1> QED
  BY <1>2, <1>3, <1>5, <1>6, <1>7 DEF c, e

\* What follows the end of a run.
LEMMA EndedDoes ==
    ASSUME TypeInv, PageInv, NEW r \in Runs, NEW mood, Ended(r, mood)
    PROVE  LET daily == r = "changes" /\ run[r].scheduled IN
           /\ run' \in [Runs -> RunStates] /\ calm' = mood
           /\ sched' = IF daily THEN "reconciling" ELSE IF r = "daily" THEN "asleep" ELSE sched
           /\ run'[r] = IdleRun
           /\ \A q \in Runs : q \notin {r, "daily"} => run'[q] = run[q]
           /\ ~daily /\ r # "daily" => run'["daily"] = run["daily"]
           /\ daily => /\ run'["daily"].step = "reconcile" /\ run'["daily"].who = None
                       /\ run'["daily"].todo = {e \in Employees : Active(row[e])}
                       /\ run'["daily"].changed = {}
<1> DEFINE daily == r = "changes" /\ run[r].scheduled
           active == {e \in Employees : Active(row[e])}
           local == [IdleRun EXCEPT !.step = "reconcile", !.todo = active]
           next == IF daily THEN local ELSE IF r = "daily" THEN IdleRun ELSE run["daily"]
<1>1. run' = [run EXCEPT ![r] = IdleRun,
                         !["daily"] = IF daily THEN local ELSE IF r = "daily" THEN IdleRun ELSE @]
      /\ calm' = mood
      /\ sched' = IF daily THEN "reconciling" ELSE IF r = "daily" THEN "asleep" ELSE sched
  BY DEF Ended
<1>2. local \in RunStates
  BY IdleTypes DEF RunStates, RunSteps
<1>3. local.step = "reconcile" /\ local.who = None /\ local.todo = active /\ local.changed = {}
  BY DEF IdleRun
<1> HIDE DEF local
<1>4. run' = [run EXCEPT ![r] = IdleRun, !["daily"] = next]
  BY <1>1, RunNames DEF TypeInv
<1>5. next \in RunStates
  BY <1>2, IdleTypes, RunNames DEF TypeInv
<1>6. run' \in [Runs -> RunStates] /\ run'["daily"] = next
      /\ (r # "daily" => run'[r] = IdleRun)
      /\ \A q \in Runs : q \notin {r, "daily"} => run'[q] = run[q]
  <2> HIDE DEF next
  <2> QED
    BY <1>4, <1>5, IdleTypes, RunNames DEF TypeInv
<1> QED
  BY <1>1, <1>3, <1>6

LEMMA CrashDoes ==
    ASSUME TypeInv, Crash
    PROVE  /\ run' \in [Runs -> RunStates] /\ \A r \in Runs : run'[r] = IdleRun
           /\ sched' = "down" /\ calm' = "no"
           /\ unsettled' = unsettled \cup Left("full") \cup Left("daily")
                             \cup {e \in Left("changes") : row[e].at <= Cursor}
           /\ unsettled' \in SUBSET Employees
<1>1. \A r \in Runs : Left(r) \in SUBSET Employees
  BY RunNames DEF Left, TypeInv, RunStates
<1> QED
  BY <1>1, IdleTypes, RunNames DEF Crash, TypeInv

LEMMA IdleFields ==
    /\ IdleRun.step = "idle" /\ IdleRun.pos = 0 /\ IdleRun.items = <<>> /\ IdleRun.who = None
    /\ IdleRun.changed = {} /\ IdleRun.todo = {} /\ IdleRun.scheduled = FALSE
  BY DEF IdleRun

\* A hiring names all facts, another change one fact of someone hired.
LEMMA ChangeDoes ==
    ASSUME TypeInv, WholeInv, NEW e \in Employees, Change(e)
    PROVE  \E entry \in Entries :
              /\ log' = Append(log, entry) /\ entry.who = e
              /\ entry.set \in Whole \/ Hub(e) \in Whole
<1>1. PICK set \in IF Hub(e) = <<>>
                   THEN {[status |-> "active", team |-> "ours", boss |-> None]}
                   ELSE UNION {[{f} -> Values[f] \ {Hub(e)[f], e}] : f \in Fields} :
              log' = Append(log, [who |-> e, set |-> set])
  BY DEF Change
<1>2. Hub(e) \in FactSets
  <2>1. Len(log) \in Nat /\ log \in Seq(Entries)
    BY LenProperties DEF TypeInv
  <2>2. HubOf(log, e, Len(log)) \in FactSets
    BY <2>1, HubTyped DEF WholeInv
  <2> QED
    BY <2>2, HubIs DEF Hub
<1>3. CASE Hub(e) = <<>>
  <2> DEFINE all == [status |-> "active", team |-> "ours", boss |-> None]
  <2>1. set = all
    BY <1>1, <1>3
  <2>2. all["status"] = "active" /\ all["team"] = "ours" /\ all["boss"] = None
    OBVIOUS
  <2>3. all \in [Fields -> AnyValue]
    BY DEF Fields, AnyValue
  <2> HIDE DEF all
  <2>4. all \in Whole
    BY <2>2, <2>3, Fact DEF Whole
  <2>5. [who |-> e, set |-> all] \in Entries
    BY <2>4, WholeFacts DEF Entries
  <2> QED
    BY <1>1, <2>1, <2>4, <2>5
<1>4. CASE Hub(e) # <<>>
  <2>1. PICK f \in Fields : set \in [{f} -> Values[f] \ {Hub(e)[f], e}]
    BY <1>1, <1>4
  <2>2. set \in [{f} -> AnyValue] /\ \A x \in DOMAIN set : set[x] \in Values[x]
    BY <2>1, Fact
  <2>3. {f} \in SUBSET Fields
    OBVIOUS
  <2>4. set \in Parts
    BY <2>2, <2>3 DEF Parts
  <2>5. [who |-> e, set |-> set] \in Entries
    BY <2>4 DEF Entries
  <2> QED
    BY <1>1, <1>2, <1>4, <2>5 DEF FactSets
<1> QED
  BY <1>3, <1>4

-----------------------------------------------------------------------------
(***************************************************************************)
(* Types and pages are kept.                                               *)
(***************************************************************************)
BaseInv == TypeInv /\ PageInv /\ WholeInv

LEMMA NextTypeInv == BaseInv /\ [Next]_vars => TypeInv'
<1> SUFFICES ASSUME BaseInv, [Next]_vars PROVE TypeInv'
  OBVIOUS
<1>a. TypeInv /\ PageInv /\ WholeInv
  BY DEF BaseInv
<1>b. {"changes", "full"} \subseteq Runs /\ "daily" \in Runs
  BY RunNames
<1>1. ASSUME NEW e \in Employees, Change(e) PROVE TypeInv'
  <2>1. PICK entry \in Entries : log' = Append(log, entry)
    BY <1>a, <1>1, ChangeDoes
  <2>2. log' \in Seq(Entries)
    BY <1>a, <2>1, AppendProperties DEF TypeInv
  <2> QED
    BY <1>a, <1>1, <2>2 DEF TypeInv, Change
<1>2. ASSUME AskChanges \/ AskFull \/ Due PROVE TypeInv'
  <2>1. Cursor \in Nat
    BY <1>a DEF TypeInv, SyncStates, Cursor
  <2>2. PICK r \in Runs : \E pos \in Nat : \E scheduled \in BOOLEAN : Start(r, pos, scheduled)
    BY <1>2, <1>b, <2>1 DEF AskChanges, AskFull, Due
  <2>3. run' \in [Runs -> RunStates] /\ calm' \in {"no", "maybe"}
    BY <1>a, <2>2, StartDoes
  <2>4. /\ UNCHANGED <<log, row, course, state, clock, faults, outdated, unsettled>>
        /\ sched' \in {sched, "syncing"} /\ asked' \in {asked, asked + 1}
    BY <1>2 DEF AskChanges, AskFull, Due
  <2> QED
    BY <1>a, <2>3, <2>4 DEF TypeInv
<1>3. CASE FetchChanges
  <2>1. run' \in [Runs -> RunStates]
    BY <1>a, <1>3, FetchChangesDoes
  <2> QED
    BY <1>a, <1>3, <2>1 DEF TypeInv, FetchChanges
<1>4. CASE FetchListed
  <2>1. run' \in [Runs -> RunStates]
    BY <1>a, <1>4, FetchListedDoes DEF WholeInv
  <2> QED
    BY <1>a, <1>4, <2>1 DEF TypeInv, FetchListed
<1>5. CASE MarkMissing
  <2>1. run' \in [Runs -> RunStates] /\ row' \in [Employees -> Rows]
        /\ Missing(run["full"].changed) \in SUBSET Employees
    BY <1>a, <1>5, MarkMissingDoes
  <2>2. outdated' \in SUBSET Employees
    BY <1>a, <1>5, <2>1 DEF TypeInv, MarkMissing
  <2> QED
    BY <1>a, <1>5, <2>1, <2>2 DEF TypeInv, MarkMissing
<1>6. ASSUME NEW r \in {"changes", "full"}, Read(r) PROVE TypeInv'
  <2>1. run' \in [Runs -> RunStates]
    BY <1>a, <1>6, ReadDoes
  <2> QED
    BY <1>a, <1>6, <2>1 DEF TypeInv, Read
<1>7. ASSUME NEW r \in {"changes", "full"}, Save(r) PROVE TypeInv'
  <2> DEFINE e == Head(run[r].items).who
  <2>1. run' \in [Runs -> RunStates] /\ row' \in [Employees -> Rows] /\ e \in Employees
    BY <1>a, <1>7, SaveDoes
  <2>2. outdated' \in {outdated \cup {e}, outdated \ {e}, outdated}
    BY <1>7 DEF Save
  <2> HIDE DEF e
  <2>3. outdated' \in SUBSET Employees
    BY <1>a, <2>1, <2>2 DEF TypeInv
  <2> QED
    BY <1>a, <1>7, <2>1, <2>3 DEF TypeInv, Save
<1>8. ASSUME NEW r \in {"changes", "full"}, EndPage(r) PROVE TypeInv'
  <2>1. run' \in [Runs -> RunStates]
    BY <1>a, <1>8, EndPageDoes
  <2> QED
    BY <1>a, <1>8, <2>1 DEF TypeInv, EndPage
<1>9. ASSUME NEW r \in {"changes", "full"}, Managers(r) PROVE TypeInv'
  <2>1. run' \in [Runs -> RunStates] /\ row' \in [Employees -> Rows]
    BY <1>a, <1>9, ManagersDoes
  <2> QED
    BY <1>a, <1>9, <2>1 DEF TypeInv, Managers
<1>10. ASSUME NEW r \in Runs, Give(r) PROVE TypeInv'
  <2>1. /\ run' \in [Runs -> RunStates] /\ course' \in SUBSET Employees /\ run[r].who \in Employees
        /\ unsettled' \in {unsettled \ {run[r].who}, unsettled \cup {run[r].who}}
    BY <1>a, <1>10, GiveDoes
  <2> QED
    BY <1>a, <1>10, <2>1 DEF TypeInv, Give
<1>11. ASSUME NEW r \in Runs, NEW mood \in {"no", "maybe", "yes"}, Ended(r, mood),
              NEW status \in {"success", "failed"},
              state' = (IF r = "changes" THEN Recorded(run[r].pos, status) ELSE state),
              unsettled' \in {unsettled, unsettled \cup Left(r)}, faults' \in {faults, faults + 1},
              UNCHANGED <<log, row, course, clock, asked, outdated>>
       PROVE TypeInv'
  <2>1. /\ run' \in [Runs -> RunStates] /\ calm' = mood
        /\ sched' = IF r = "changes" /\ run[r].scheduled THEN "reconciling"
                    ELSE IF r = "daily" THEN "asleep" ELSE sched
    BY <1>a, <1>11, EndedDoes
  <2>2. run[r].pos \in Nat /\ Left(r) \in SUBSET Employees
    BY <1>a DEF Left, TypeInv, RunStates
  <2>3. state' \in {<<>>} \cup SyncStates
    BY <1>a, <1>11, <2>2, Recording DEF TypeInv
  <2>4. unsettled' \in SUBSET Employees /\ {clock', asked', faults'} \subseteq Nat
    BY <1>a, <1>11, <2>2 DEF TypeInv
  <2> QED
    BY <1>a, <1>11, <2>1, <2>3, <2>4 DEF TypeInv
<1>12. ASSUME NEW r \in Runs, Succeed(r) PROVE TypeInv'
  <2>1. PICK mood \in {"no", "maybe", "yes"} : Ended(r, mood)
    <3>1. calm \in {"no", "maybe", "yes"}
      BY <1>a DEF TypeInv
    <3> QED
      BY <1>12, <3>1 DEF Succeed
  <2> QED
    BY <1>11, <1>12, <2>1 DEF Succeed
<1>13. ASSUME NEW r \in Runs, Fail(r) PROVE TypeInv'
  BY <1>11, <1>13 DEF Fail
<1>14. ASSUME NEW r \in Runs, NEW e \in Employees, Reconcile(r, e) PROVE TypeInv'
  <2>1. run' \in [Runs -> RunStates]
    BY <1>a, <1>14, ReconcileDoes
  <2> QED
    BY <1>a, <1>14, <2>1 DEF TypeInv, Reconcile
<1>15. CASE Tick
  BY <1>a, <1>15 DEF TypeInv, Tick
<1>16. CASE Boot
  BY <1>a, <1>16 DEF TypeInv, Boot
<1>17. CASE Crash
  <2>1. /\ run' \in [Runs -> RunStates] /\ unsettled' \in SUBSET Employees /\ sched' = "down" /\ calm' = "no"
    BY <1>a, <1>17, CrashDoes
  <2> QED
    BY <1>a, <1>17, <2>1 DEF TypeInv, Crash
<1>18. CASE UNCHANGED vars
  BY <1>a, <1>18 DEF TypeInv, vars
<1> QED
  BY <1>1, <1>2, <1>3, <1>4, <1>5, <1>6, <1>7, <1>8, <1>9, <1>10, <1>12, <1>13, <1>14, <1>15, <1>16,
     <1>17, <1>18 DEF Next

LEMMA ChangesPageKept ==
    ASSUME TypeInv, PageInv, run'["changes"] = run["changes"], log' = log, state' = state
    PROVE  ChangesPage'
  BY DEF PageInv, ChangesPage, InPage, Cursor

LEMMA FullPageKept ==
    ASSUME PageInv, run'["full"] = run["full"], log' = log
    PROVE  FullPage'
  BY DEF PageInv, FullPage, InPage

\* Between two pages.
LEMMA ChangesPageOut ==
    ASSUME TypeInv, PageInv, log' = log, Cursor' \in 0..Len(log), run'["changes"].pos \in 0..Len(log),
           run'["changes"].step \notin {"apply", "save", "missing"}
    PROVE  ChangesPage'
  BY PageTypes DEF ChangesPage, InPage

LEMMA FullPageOut ==
    ASSUME run'["full"].step \notin {"fetch", "apply", "save"}
    PROVE  FullPage'
  BY DEF FullPage, InPage

LEMMA LocalKept ==
    ASSUME PageInv, log' = log, NEW r \in Runs,
           \A q \in Runs : q # r => run'[q] = run[q],
           r = "daily" => run'[r].step \in {"idle", "reconcile", "give"},
           \A e \in Employees : row'[e].at <= Len(log),
           run'[r].step = "save" => run'[r].items # <<>>,
           IF run'[r].step = "give" THEN run'[r].who \in Employees ELSE run'[r].who = None
    PROVE  LocalInv'
  BY RunNames DEF PageInv, LocalInv

\* What an item does to the bounds of the page it is taken from.
LEMMA PageTail ==
    ASSUME TypeInv, PageInv, InPage("changes"), run["changes"].items # <<>>,
           log' = log, state' = state,
           InPage("changes")', run'["changes"].items = Tail(run["changes"].items),
           run'["changes"].pos = run["changes"].pos, run'["changes"].next = run["changes"].next
    PROVE  ChangesPage' /\ Reached' = Reached + 1
<1> DEFINE s == run["changes"].items
           n == run["changes"].next
           t == Tail(s)
<1>1. Len(s) \in Nat \ {0} /\ Len(t) = Len(s) - 1 /\ \A i \in 1..(Len(s) - 1) : t[i] = s[i + 1]
  BY InHand, RunNames
<1>2. n \in Nat /\ run["changes"].pos \in Nat
  BY PageTypes, RunNames DEF RunStates
<1>3. /\ n <= Len(log) /\ run["changes"].pos + Len(s) <= n /\ run["changes"].pos <= Len(log)
      /\ Cursor <= Len(log)
      /\ \A i \in 1..Len(s) : s[i] = Item(log[(n - Len(s)) + i].who, log[(n - Len(s)) + i].set, (n - Len(s)) + i)
  BY DEF PageInv, ChangesPage
<1>4. run'["changes"].step \in {"apply", "save"} /\ run["changes"].step \in {"apply", "save"}
  BY DEF InPage
<1> HIDE DEF s, n, t
<1>5. \A i \in 1..Len(t) :
         t[i] = Item(log[(n - Len(t)) + i].who, log[(n - Len(t)) + i].set, (n - Len(t)) + i)
  <2> SUFFICES ASSUME NEW i \in 1..Len(t)
               PROVE  t[i] = Item(log[(n - Len(t)) + i].who, log[(n - Len(t)) + i].set, (n - Len(t)) + i)
    OBVIOUS
  <2>1. i + 1 \in 1..Len(s) /\ t[i] = s[i + 1] /\ (n - Len(s)) + (i + 1) = (n - Len(t)) + i
    <3>1. i \in Nat /\ i >= 1 /\ i <= Len(s) - 1 /\ Len(s) \in Nat /\ Len(t) = Len(s) - 1
      BY <1>1
    <3>2. i \in 1..(Len(s) - 1)
      BY <3>1
    <3>3. t[i] = s[i + 1]
      BY <1>1, <3>2
    <3>4. i + 1 \in 1..Len(s)
      BY <3>1
    <3>5. (n - Len(s)) + (i + 1) = (n - Len(t)) + i
      BY <1>2, <3>1
    <3> QED
      BY <3>3, <3>4, <3>5
  <2> QED
    BY <1>3, <2>1
<1>6. run["changes"].pos + Len(t) <= n
  BY <1>1, <1>2, <1>3
<1>7. Cursor' = Cursor
  BY DEF Cursor
<1>8. ChangesPage'
  BY <1>3, <1>4, <1>5, <1>6, <1>7 DEF ChangesPage, n, t, s
<1>9. n - Len(t) = (n - Len(s)) + 1
  BY <1>1, <1>2
<1>10. Reached' = n - Len(t) /\ Reached = n - Len(s)
  BY <1>4 DEF Reached, Idle, InPage, n, t, s
<1> QED
  BY <1>8, <1>9, <1>10

\* The item in hand is the next entry of the log.
LEMMA NextEntry ==
    ASSUME TypeInv, PageInv, InPage("changes"), run["changes"].items # <<>>
    PROVE  /\ Reached \in Nat /\ Reached + 1 \in 1..Len(log) /\ (Reached + 1) - 1 = Reached
           /\ Head(run["changes"].items) = Item(log[Reached + 1].who, log[Reached + 1].set, Reached + 1)
<1> DEFINE s == run["changes"].items
           n == run["changes"].next
<1>1. Len(s) \in Nat \ {0} /\ Head(s) = s[1]
  BY InHand, RunNames
<1>2. n \in Nat /\ run["changes"].pos \in Nat /\ Len(log) \in Nat
  BY PageTypes, RunNames DEF RunStates
<1>3. /\ n <= Len(log) /\ run["changes"].pos + Len(s) <= n
      /\ \A i \in 1..Len(s) : s[i] = Item(log[(n - Len(s)) + i].who, log[(n - Len(s)) + i].set, (n - Len(s)) + i)
  BY DEF PageInv, ChangesPage
<1>4. Reached = n - Len(s)
  BY DEF Reached, Idle, InPage
<1> HIDE DEF s, n
<1>5. 1 \in 1..Len(s)
  BY <1>1
<1>6. s[1] = Item(log[Reached + 1].who, log[Reached + 1].set, Reached + 1)
  BY <1>3, <1>4, <1>5
<1>7. Reached \in Nat /\ Reached + 1 \in 1..Len(log) /\ (Reached + 1) - 1 = Reached
  BY <1>1, <1>2, <1>3, <1>4
<1>8. Head(s) = Item(log[Reached + 1].who, log[Reached + 1].set, Reached + 1)
  BY <1>1, <1>6
<1> QED
  BY <1>7, <1>8 DEF s

\* The item in hand is no newer than the log.
LEMMA ItemInLog ==
    ASSUME TypeInv, PageInv, NEW r \in {"changes", "full"}, InPage(r), run[r].items # <<>>
    PROVE  Head(run[r].items).at \in 0..Len(log)
<1>1. Head(run[r].items) \in Items /\ Head(run[r].items) = run[r].items[1]
      /\ Len(run[r].items) \in Nat \ {0} /\ Len(log) \in Nat
  BY InHand, RunNames, PageTypes
<1>2. CASE r = "changes"
  <2>1. Head(run[r].items).at = Reached + 1 /\ Reached + 1 \in 1..Len(log)
    BY <1>2, NextEntry DEF Item
  <2> QED
    BY <1>1, <2>1
<1>3. CASE r = "full"
  <2>1. run[r].items[1].at <= Len(log)
    BY <1>1, <1>3 DEF PageInv, FullPage
  <2> QED
    BY <1>1, <2>1 DEF Items
<1> QED
  BY <1>2, <1>3

LEMMA NextPageInv == BaseInv /\ [Next]_vars => PageInv'
<1> SUFFICES ASSUME BaseInv, [Next]_vars PROVE PageInv'
  OBVIOUS
<1>a. TypeInv /\ PageInv /\ WholeInv
  BY DEF BaseInv
<1>b. {"changes", "full"} \subseteq Runs /\ "daily" \in Runs /\ None \notin Employees
  BY RunNames
<1>c. /\ Len(log) \in Nat /\ Cursor \in 0..Len(log)
      /\ (\A e \in Employees : row[e].at <= Len(log))
      /\ \A r \in Runs : /\ run[r].pos \in Nat /\ run[r].next \in Nat /\ Len(run[r].items) \in Nat
                         /\ run[r].step # "give" => run[r].who = None
                         /\ run[r].step = "save" => run[r].items # <<>>
                         /\ run[r].step = "give" => run[r].who \in Employees
  BY <1>a, PageTypes DEF RunStates, PageInv, LocalInv
<1>d. ChangesPage /\ FullPage /\ LocalInv
  BY <1>a DEF PageInv
<1>1. ASSUME NEW e \in Employees, Change(e) PROVE PageInv'
  <2>1. PICK entry \in Entries : log' = Append(log, entry)
    BY <1>a, <1>1, ChangeDoes
  <2>2. Len(log') = Len(log) + 1 /\ \A n \in 1..Len(log) : log'[n] = log[n]
    BY <1>a, <2>1, AppendProperties DEF TypeInv
  <2>3. run' = run /\ row' = row /\ state' = state
    BY <1>1 DEF Change
  <2>4. ChangesPage'
    <3> DEFINE c == run["changes"]
    <3>1. Cursor' = Cursor /\ Cursor <= Len(log')
      BY <1>c, <2>2, <2>3 DEF Cursor
    <3>2. c.step # "missing" /\ c.pos <= Len(log')
      BY <1>b, <1>c, <1>d, <2>2 DEF ChangesPage
    <3>3. ASSUME InPage("changes")
          PROVE  /\ c.next <= Len(log') /\ c.pos + Len(c.items) <= c.next
                 /\ \A i \in 1..Len(c.items) :
                      LET k == (c.next - Len(c.items)) + i IN c.items[i] = Item(log'[k].who, log'[k].set, k)
      <4>1. /\ c.next <= Len(log) /\ c.pos + Len(c.items) <= c.next
            /\ \A i \in 1..Len(c.items) :
                 LET k == (c.next - Len(c.items)) + i IN c.items[i] = Item(log[k].who, log[k].set, k)
        BY <1>d, <3>3 DEF ChangesPage
      <4>2. c.next \in Nat /\ c.pos \in Nat /\ Len(c.items) \in Nat
        BY <1>b, <1>c
      <4> HIDE DEF c
      <4>3. \A i \in 1..Len(c.items) : (c.next - Len(c.items)) + i \in 1..Len(log)
        BY SMTT(30), <1>c, <4>1, <4>2
      <4>4. c.next <= Len(log')
        BY <1>c, <2>2, <4>1, <4>2
      <4>5. ASSUME NEW i \in 1..Len(c.items)
            PROVE  LET k == (c.next - Len(c.items)) + i IN c.items[i] = Item(log'[k].who, log'[k].set, k)
        <5> DEFINE k == (c.next - Len(c.items)) + i
        <5>1. c.items[i] = Item(log[k].who, log[k].set, k)
          BY <4>1
        <5>2. log'[k] = log[k]
          BY <2>2, <4>3
        <5> QED
          BY <5>1, <5>2
      <4> QED
        BY <4>1, <4>4, <4>5
    <3> QED
      BY <2>3, <3>1, <3>2, <3>3 DEF ChangesPage, InPage
  <2>5. FullPage'
    <3>1. ASSUME InPage("full"), NEW i \in 1..Len(run["full"].items)
          PROVE  run["full"].items[i].at <= Len(log')
      <4>1. run["full"].items[i].at <= Len(log)
        BY <1>d, <3>1 DEF FullPage
      <4>2. run["full"].items[i] \in Items
        BY <1>b, <1>a, ElementOfSeq DEF TypeInv, RunStates
      <4> QED
        BY <1>c, <2>2, <4>1, <4>2 DEF Items
    <3> QED
      BY <1>d, <2>3, <3>1 DEF FullPage, InPage
  <2>6. LocalInv'
    <3>1. \A e1 \in Employees : row[e1].at \in Nat
      BY <1>a, PageTypes DEF Rows
    <3> QED
      BY <1>c, <1>d, <2>2, <2>3, <3>1 DEF LocalInv
  <2> QED
    BY <2>4, <2>5, <2>6 DEF PageInv
<1>2. ASSUME AskChanges \/ Due PROVE PageInv'
  <2>1. PICK pos \in {0, Cursor} : Start("changes", pos, TRUE) \/ Start("changes", pos, FALSE)
    BY <1>2 DEF AskChanges, Due
  <2>2. UNCHANGED <<log, row, state>>
    BY <1>2 DEF AskChanges, Due
  <2>3. pos \in 0..Len(log) /\ pos \in Nat
    BY <1>c
  <2>4. /\ run'["changes"].step = "fetch" /\ run'["changes"].pos = pos /\ run'["changes"].who = None
        /\ \A q \in Runs : q # "changes" => run'[q] = run[q]
    <3>1. CASE Start("changes", pos, TRUE)
      BY <1>a, <1>b, <2>3, <3>1, StartDoes
    <3>2. CASE Start("changes", pos, FALSE)
      BY <1>a, <1>b, <2>3, <3>2, StartDoes
    <3> QED
      BY <2>1, <3>1, <3>2
  <2>5. Cursor' = Cursor
    BY <2>2 DEF Cursor
  <2>6. ChangesPage'
    BY <1>a, <1>c, <2>2, <2>3, <2>4, <2>5, ChangesPageOut
  <2>7. FullPage'
    BY <1>a, <1>b, <2>2, <2>4, FullPageKept
  <2>8. LocalInv'
    BY <1>a, <1>b, <1>c, <2>2, <2>4, LocalKept
  <2> QED
    BY <2>6, <2>7, <2>8 DEF PageInv
<1>3. CASE AskFull
  <2>1. Start("full", 0, FALSE) /\ UNCHANGED <<log, row, state>>
    BY <1>3 DEF AskFull
  <2>2. /\ run'["full"].step = "fetch" /\ run'["full"].pos = 0 /\ run'["full"].who = None
        /\ \A q \in Runs : q # "full" => run'[q] = run[q]
    BY <1>a, <1>b, <2>1, StartDoes
  <2>3. ChangesPage'
    BY <1>a, <1>b, <2>1, <2>2, ChangesPageKept
  <2>4. FullPage'
    <3>1. 0 < Len(Listing)
      BY DirectoryAssumption, LenProperties, EmptySeq
    <3> QED
      BY <2>2, <3>1 DEF FullPage, InPage
  <2>5. LocalInv'
    BY <1>a, <1>b, <1>c, <2>1, <2>2, LocalKept
  <2> QED
    BY <2>3, <2>4, <2>5 DEF PageInv
<1>4. CASE FetchChanges
  <2> DEFINE c == run["changes"]
             d == run'["changes"]
  <2>1. UNCHANGED <<log, row, state>>
    BY <1>4 DEF FetchChanges
  <2>2. /\ \A q \in Runs : q # "changes" => run'[q] = run[q]
        /\ c.step = "fetch" /\ d.step = "apply" /\ d.next \in c.pos..Len(log)
        /\ Len(d.items) = d.next - c.pos
        /\ \A i \in 1..(d.next - c.pos) : d.items[i] = Item(log[c.pos + i].who, log[c.pos + i].set, c.pos + i)
        /\ d.pos = c.pos /\ d.who = c.who
    BY <1>a, <1>4, FetchChangesDoes
  <2>3. c.pos \in 0..Len(log) /\ c.pos \in Nat
    BY <1>b, <1>c, <1>d DEF ChangesPage
  <2>4. c.who = None
    BY <1>b, <1>c, <2>2
  <2> HIDE DEF c, d
  <2>5. d.next - Len(d.items) = c.pos /\ d.next <= Len(log) /\ d.pos + Len(d.items) <= d.next /\ d.pos <= Len(log)
    BY <1>c, <2>2, <2>3
  <2>6. ChangesPage'
    <3>1. Cursor' <= Len(log)
      BY <1>c, <2>1 DEF Cursor
    <3>2. \A i \in 1..Len(d.items) : LET k == (d.next - Len(d.items)) + i IN d.items[i] = Item(log[k].who, log[k].set, k)
      BY <2>2, <2>5
    <3> QED
      BY <2>1, <2>2, <2>5, <3>1, <3>2 DEF ChangesPage, d
  <2>7. FullPage'
    BY <1>a, <1>b, <2>1, <2>2, FullPageKept
  <2>8. LocalInv'
    BY <1>a, <1>b, <1>c, <2>1, <2>2, <2>4, LocalKept DEF d
  <2> QED
    BY <2>6, <2>7, <2>8 DEF PageInv
<1>5. CASE FetchListed
  <2> DEFINE c == run["full"]
             d == run'["full"]
             e == Listing[c.pos + 1]
  <2>1. UNCHANGED <<log, row, state>>
    BY <1>5 DEF FetchListed
  <2>2. /\ \A q \in Runs : q # "full" => run'[q] = run[q]
        /\ c.step = "fetch" /\ d.step = "apply" /\ d.next = c.pos + 1 /\ d.more = (d.next < Len(Listing))
        /\ e \in Employees
        /\ d.items = <<>> \/ d.items = <<Item(e, Hub(e), ChangedAt(e, Len(log)))>>
        /\ d.who = c.who
    BY <1>a, <1>5, FetchListedDoes DEF WholeInv
  <2>3. c.who = None
    BY <1>b, <1>c, <2>2
  <2>4. ChangedAt(e, Len(log)) <= Len(log)
    <3>1. ChangedAt(e, Len(log)) \in 0..Len(log)
      BY SMTT(30), <1>a, <1>c, <2>2, ChangedFacts DEF TypeInv
    <3> QED
      BY <1>c, <3>1
  <2> HIDE DEF c, d, e
  <2>5. Len(d.items) <= 1 /\ \A i \in 1..Len(d.items) : d.items[i].at <= Len(log)
    <3>1. CASE d.items = <<>>
      BY <3>1
    <3>2. CASE d.items = <<Item(e, Hub(e), ChangedAt(e, Len(log)))>>
      <4> DEFINE item == Item(e, Hub(e), ChangedAt(e, Len(log)))
      <4>1. item.at <= Len(log)
        BY <2>4 DEF Item
      <4> HIDE DEF item
      <4>2. Len(<<item>>) = 1 /\ <<item>>[1] = item
        OBVIOUS
      <4>3. d.items = <<item>>
        BY <3>2 DEF item
      <4> QED
        BY <4>1, <4>2, <4>3
    <3> QED
      BY <2>2, <3>1, <3>2
  <2>6. FullPage'
    BY <2>1, <2>2, <2>5 DEF FullPage, d
  <2>7. ChangesPage'
    BY <1>a, <1>b, <2>1, <2>2, ChangesPageKept
  <2>8. LocalInv'
    BY <1>a, <1>b, <1>c, <2>1, <2>2, <2>3, LocalKept DEF d
  <2> QED
    BY <2>6, <2>7, <2>8 DEF PageInv
<1>6. CASE MarkMissing
  <2> DEFINE c == run["full"]
             d == run'["full"]
  <2>1. UNCHANGED <<log, state>>
    BY <1>6 DEF MarkMissing
  <2>2. /\ \A q \in Runs : q # "full" => run'[q] = run[q]
        /\ c.step = "missing" /\ d.step = "reconcile" /\ d.who = c.who
        /\ \A e \in Employees : row'[e].at = row[e].at
    BY <1>a, <1>6, MarkMissingDoes
  <2>3. c.who = None
    BY <1>b, <1>c, <2>2
  <2> HIDE DEF c, d
  <2>4. ChangesPage'
    BY <1>a, <1>b, <2>1, <2>2, ChangesPageKept
  <2>5. FullPage'
    BY <2>2, FullPageOut DEF d
  <2>6. LocalInv'
    BY <1>a, <1>b, <1>c, <2>1, <2>2, <2>3, LocalKept DEF d
  <2> QED
    BY <2>4, <2>5, <2>6 DEF PageInv
<1>7. ASSUME NEW r \in {"changes", "full"}, Read(r) \/ Save(r) PROVE PageInv'
  <2> DEFINE c == run[r]
             d == run'[r]
  <2>1. UNCHANGED <<log, state>>
    BY <1>7 DEF Read, Save
  <2>2. /\ \A q \in Runs : q # r => run'[q] = run[q]
        /\ c.step \in {"apply", "save"} /\ c.items # <<>>
        /\ \/ d.step = "apply" /\ d.items = Tail(c.items)
           \/ d.step = "save" /\ d.items = c.items
        /\ d.pos = c.pos /\ d.next = c.next /\ d.more = c.more /\ d.who = c.who
    BY <1>a, <1>7, ReadDoes, SaveDoes
  <2>3. c.who = None
    BY <1>b, <1>c, <2>2
  <2>4. \A e \in Employees : row'[e].at <= Len(log)
    <3>1. CASE Read(r)
      BY <1>c, <3>1 DEF Read
    <3>2. CASE Save(r)
      <4> DEFINE item == Head(c.items)
      <4>1. /\ row'[item.who] = Merged(c.read, item)
            /\ \A x \in Employees : x # item.who => row'[x] = row[x]
        BY <1>a, <3>2, SaveDoes
      <4>2. item.at \in 0..Len(log)
        BY <1>a, <2>2, ItemInLog DEF InPage
      <4>3. Merged(c.read, item).at = item.at
        BY DEF Merged
      <4> HIDE DEF item
      <4> QED
        BY <1>c, <4>1, <4>2, <4>3
    <3> QED
      BY <1>7, <3>1, <3>2
  <2>5. InPage(r) /\ InPage(r)'
    BY <2>2 DEF InPage
  <2>6. ChangesPage'
    <3>1. CASE r = "full"
      BY <1>a, <1>b, <2>1, <2>2, <3>1, ChangesPageKept
    <3>2. CASE r = "changes" /\ d.items = Tail(c.items)
      BY <1>a, <2>1, <2>2, <2>5, <3>2, PageTail
    <3>3. CASE r = "changes" /\ d.items = c.items
      <4>1. Cursor' = Cursor
        BY <2>1 DEF Cursor
      <4> QED
        BY <1>d, <2>1, <2>2, <2>5, <3>3, <4>1 DEF ChangesPage, InPage
    <3> QED
      BY <2>2, <3>1, <3>2, <3>3
  <2>7. FullPage'
    <3>1. CASE r = "changes"
      BY <1>a, <1>b, <2>1, <2>2, <3>1, FullPageKept
    <3>2. CASE r = "full" /\ d.items = Tail(c.items)
      <4>1. Len(c.items) <= 1 /\ (c.more => c.next < Len(Listing))
        BY <1>d, <2>5, <3>2 DEF FullPage
      <4>2. Len(d.items) = Len(c.items) - 1 /\ Len(c.items) \in Nat \ {0}
        BY <1>a, <1>b, <2>2, <3>2, InHand
      <4>a. \A m, n : n \in Nat \ {0} /\ n <= 1 /\ m = n - 1 => m = 0
        OBVIOUS
      <4> HIDE DEF c, d
      <4>3. Len(d.items) = 0
        BY <4>1, <4>2, <4>a
      <4> QED
        BY <2>2, <3>2, <4>1, <4>3 DEF FullPage, c, d
    <3>3. CASE r = "full" /\ d.items = c.items
      BY <1>d, <2>1, <2>2, <2>5, <3>3 DEF FullPage, InPage
    <3> QED
      BY <2>2, <3>1, <3>2, <3>3
  <2>8. LocalInv'
    BY <1>a, <1>b, <2>1, <2>2, <2>3, <2>4, LocalKept
  <2> QED
    BY <2>6, <2>7, <2>8 DEF PageInv
<1>8. ASSUME NEW r \in {"changes", "full"}, EndPage(r) PROVE PageInv'
  <2> DEFINE c == run[r]
             d == run'[r]
  <2>1. UNCHANGED <<log, row, state>>
    BY <1>8 DEF EndPage
  <2>2. /\ \A q \in Runs : q # r => run'[q] = run[q]
        /\ c.step = "apply" /\ d.step = IF c.more THEN "fetch" ELSE "managers"
        /\ d.pos = c.next /\ d.who = c.who
    BY <1>a, <1>8, EndPageDoes
  <2>3. c.who = None
    BY <1>b, <1>c, <2>2
  <2>4. InPage(r)
    BY <2>2 DEF InPage
  <2>5. ChangesPage'
    <3>1. CASE r = "full"
      BY <1>a, <1>b, <2>1, <2>2, <3>1, ChangesPageKept
    <3>2. CASE r = "changes"
      <4>1. d.pos \in 0..Len(log)
        <5>1. c.next <= Len(log)
          BY <1>d, <2>4, <3>2 DEF ChangesPage
        <5> QED
          BY <1>b, <1>c, <2>2, <5>1
      <4>2. Cursor' = Cursor
        BY <2>1 DEF Cursor
      <4> QED
        BY <1>a, <1>c, <2>1, <2>2, <3>2, <4>1, <4>2, ChangesPageOut
    <3> QED
      BY <3>1, <3>2
  <2>6. FullPage'
    <3>1. CASE r = "changes"
      BY <1>a, <1>b, <2>1, <2>2, <3>1, FullPageKept
    <3>2. CASE r = "full"
      BY <1>d, <2>2, <2>4, <3>2 DEF FullPage, InPage
    <3> QED
      BY <3>1, <3>2
  <2>7. LocalInv'
    BY <1>a, <1>b, <1>c, <2>1, <2>2, <2>3, LocalKept
  <2> QED
    BY <2>5, <2>6, <2>7 DEF PageInv
\* Outside the pages.
<1>9. ASSUME NEW r \in Runs, UNCHANGED <<log, state>>, \A q \in Runs : q # r => run'[q] = run[q],
             \A e \in Employees : row'[e].at = row[e].at,
             run[r].step \notin {"idle", "fetch", "apply", "save"}, run'[r].pos = run[r].pos,
             \/ run'[r].step = "missing" /\ r = "full" /\ run'[r].who = None
             \/ run'[r].step = "reconcile" /\ run'[r].who = None
             \/ run'[r].step = "give" /\ run'[r].who \in Employees
      PROVE  PageInv'
  <2>1. LocalInv'
    BY <1>a, <1>b, <1>c, <1>9, LocalKept
  <2>2. ChangesPage'
    <3>1. CASE r = "changes"
      <4>1. run'["changes"].pos \in 0..Len(log)
        BY <1>b, <1>c, <1>d, <1>9, <3>1 DEF ChangesPage
      <4>2. Cursor' = Cursor
        BY <1>9 DEF Cursor
      <4> QED
        BY <1>a, <1>c, <1>9, <3>1, <4>1, <4>2, ChangesPageOut
    <3>2. CASE r # "changes"
      BY <1>a, <1>b, <1>9, <3>2, ChangesPageKept
    <3> QED
      BY <3>1, <3>2
  <2>3. FullPage'
    <3>1. CASE r = "full"
      BY <1>9, <3>1, FullPageOut
    <3>2. CASE r # "full"
      BY <1>a, <1>b, <1>9, <3>2, FullPageKept
    <3> QED
      BY <3>1, <3>2
  <2> QED
    BY <2>1, <2>2, <2>3 DEF PageInv
<1>10. ASSUME NEW r \in {"changes", "full"}, Managers(r) PROVE PageInv'
  <2>1. UNCHANGED <<log, state>>
    BY <1>10 DEF Managers
  <2>2. /\ \A q \in Runs : q # r => run'[q] = run[q]
        /\ \A e \in Employees : row'[e].at = row[e].at
        /\ run[r].step = "managers" /\ run'[r].step = IF r = "full" THEN "missing" ELSE "reconcile"
        /\ run'[r].pos = run[r].pos /\ run'[r].who = run[r].who
    BY <1>a, <1>10, ManagersDoes
  <2>3. run'[r].who = None
    BY <1>b, <1>c, <2>2
  <2> QED
    BY <1>9, <1>b, <2>1, <2>2, <2>3
<1>11. ASSUME NEW r \in Runs, Give(r) PROVE PageInv'
  <2>1. UNCHANGED <<log, state, row>>
    BY <1>11 DEF Give
  <2>2. /\ \A q \in Runs : q # r => run'[q] = run[q]
        /\ run[r].step = "give" /\ run'[r].step = "reconcile" /\ run'[r].who = None
        /\ run'[r].pos = run[r].pos
    BY <1>a, <1>11, GiveDoes
  <2> QED
    BY <1>9, <2>1, <2>2
<1>12. ASSUME NEW r \in Runs, NEW e \in Employees, Reconcile(r, e) PROVE PageInv'
  <2>1. UNCHANGED <<log, state, row>>
    BY <1>12 DEF Reconcile
  <2>2. /\ \A q \in Runs : q # r => run'[q] = run[q]
        /\ run[r].step = "reconcile" /\ run'[r].step = "give" /\ run'[r].who = e
        /\ run'[r].pos = run[r].pos
    BY <1>a, <1>12, ReconcileDoes
  <2> QED
    BY <1>9, <2>1, <2>2
<1>13. ASSUME NEW r \in Runs, NEW mood, Ended(r, mood), UNCHANGED <<log, row>>,
              NEW status \in {"success", "failed"},
              state' = (IF r = "changes" THEN Recorded(run[r].pos, status) ELSE state)
       PROVE  PageInv'
  <2>1. /\ run'[r] = IdleRun /\ \A q \in Runs : q \notin {r, "daily"} => run'[q] = run[q]
        /\ r \notin {"changes", "daily"} => run'["daily"] = run["daily"]
        /\ \/ run'["daily"] = run["daily"] \/ run'["daily"] = IdleRun
           \/ run'["daily"].step = "reconcile" /\ run'["daily"].who = None
    BY <1>a, <1>13, <1>b, EndedDoes
  <2>2. Cursor' \in 0..Len(log)
    <3>1. CASE r = "changes"
      <4>1. state' # <<>> /\ state'.cursor = run[r].pos
        BY <1>a, <1>c, <1>13, <3>1, Recording
      <4> QED
        BY <1>b, <1>c, <1>d, <3>1, <4>1 DEF Cursor, ChangesPage
    <3>2. CASE r # "changes"
      BY <1>c, <1>13, <3>2 DEF Cursor
    <3> QED
      BY <3>1, <3>2
  <2>3. ChangesPage'
    <3>1. CASE r = "changes"
      BY <1>a, <1>c, <1>13, <2>1, <2>2, <3>1, IdleFields, ChangesPageOut
    <3>2. CASE r # "changes"
      BY <1>a, <1>b, <1>13, <2>1, <3>2, ChangesPageKept
    <3> QED
      BY <3>1, <3>2
  <2>4. FullPage'
    <3>1. CASE r = "full"
      BY <2>1, <3>1, IdleFields, FullPageOut
    <3>2. CASE r # "full"
      BY <1>a, <1>b, <1>13, <2>1, <3>2, FullPageKept
    <3> QED
      BY <3>1, <3>2
  <2>5. LocalInv'
    <3>1. run'["daily"].step \in {"idle", "reconcile", "give"}
      BY <1>d, <2>1, IdleFields DEF LocalInv
    <3>2. ASSUME NEW q \in Runs
          PROVE  /\ run'[q].step = "save" => run'[q].items # <<>>
                 /\ IF run'[q].step = "give" THEN run'[q].who \in Employees ELSE run'[q].who = None
      <4>1. \/ run'[q] = run[q] \/ run'[q] = IdleRun
            \/ run'[q].step = "reconcile" /\ run'[q].who = None
        BY <2>1
      <4> QED
        BY <1>c, <4>1, IdleFields
    <3> QED
      BY <1>c, <1>13, <3>1, <3>2 DEF LocalInv
  <2> QED
    BY <2>3, <2>4, <2>5 DEF PageInv
<1>14. ASSUME NEW r \in Runs, Succeed(r) \/ Fail(r) PROVE PageInv'
  BY <1>13, <1>14 DEF Succeed, Fail
<1>15. CASE Crash
  <2>1. \A r \in Runs : run'[r] = IdleRun
    BY <1>a, <1>15, CrashDoes
  <2>2. UNCHANGED <<log, row, state>>
    BY <1>15 DEF Crash
  <2>3. Cursor' = Cursor
    BY <2>2 DEF Cursor
  <2>4. ChangesPage'
    BY <1>a, <1>b, <1>c, <2>1, <2>2, <2>3, IdleFields, ChangesPageOut
  <2>5. FullPage'
    BY <1>b, <2>1, IdleFields, FullPageOut
  <2>6. LocalInv'
    BY <1>b, <1>c, <2>1, <2>2, IdleFields DEF LocalInv
  <2> QED
    BY <2>4, <2>5, <2>6 DEF PageInv
<1>16. ASSUME UNCHANGED <<log, row, state, run>> PROVE PageInv'
  <2>1. ChangesPage'
    BY <1>a, <1>16, ChangesPageKept
  <2>2. FullPage'
    BY <1>a, <1>16, FullPageKept
  <2>3. LocalInv'
    BY <1>d, <1>16 DEF LocalInv
  <2> QED
    BY <2>1, <2>2, <2>3 DEF PageInv
<1>17. ASSUME Tick \/ Boot \/ UNCHANGED vars PROVE PageInv'
  BY <1>16, <1>17 DEF Tick, Boot, vars
<1> QED
  BY <1>1, <1>2, <1>3, <1>4, <1>5, <1>6, <1>7, <1>8, <1>10, <1>11, <1>12, <1>14, <1>15, <1>17 DEF Next

-----------------------------------------------------------------------------
(***************************************************************************)
(* What a row owes to the Hub.  Reached is how far the run of changes has  *)
(* come.                                                                   *)
(***************************************************************************)
\* Covers of any log.
CoversOf(l, e, at, k) == \A i \in 1..k : l[i].who = e => i <= at

Told(e, f) == \E k \in row[e].at..Len(log) : Get(row[e].facts, f) = Get(HubOf(log, e, k), f)
CurrentOf(e) ==
    /\ \A f \in Fields : Told(e, f)
    /\ CoversOf(log, e, row[e].at, Cursor) /\ CoversOf(log, e, row[e].at, Reached)
CurrentInv == \A e \in Employees \ outdated : CurrentOf(e)

\* What the full import has in hand: what the Hub said after the last change it
\* names or later, and no change was passed over since, unless the row is newer.
ListedInv ==
    InPage("full") /\ run["full"].items # <<>> =>
        LET item == Head(run["full"].items)
            e    == item.who
        IN  /\ item.set \in Whole
            /\ \E k \in item.at..Len(log) : item.set = HubOf(log, e, k)
            /\ item.at # 0 => log[item.at].who = e
            /\ row[e].at <= item.at =>
                 CoversOf(log, e, item.at, Cursor) /\ CoversOf(log, e, item.at, Reached)
            /\ run["changes"].step = "save" /\ Head(run["changes"].items).who = e =>
                 row[e].at <= item.at \/ row[e].at <= Head(run["changes"].items).at

\* A row's last change is one of its employee; who was overwritten has a row.
RowInv ==
    /\ \A e \in Employees : row[e].at # 0 => log[row[e].at].who = e
    /\ \A e \in outdated : row[e].facts \in Whole

IInv == BaseInv /\ CurrentInv /\ ListedInv /\ RowInv

LEMMA CoversLess ==
    ASSUME NEW l, NEW e, NEW at \in Nat, NEW k \in Nat, NEW n \in 0..k, CoversOf(l, e, at, k)
    PROVE  CoversOf(l, e, at, n)
  BY DEF CoversOf

LEMMA CoversMore ==
    ASSUME NEW l, NEW e, NEW at \in Nat, NEW to \in Nat, at <= to, NEW k \in Nat, CoversOf(l, e, at, k)
    PROVE  CoversOf(l, e, to, k)
  BY DEF CoversOf

LEMMA CoversNext ==
    ASSUME NEW l, NEW e, NEW at \in Nat, NEW k \in Nat, CoversOf(l, e, at, k), l[k + 1].who = e => k + 1 <= at
    PROVE  CoversOf(l, e, at, k + 1)
<1> SUFFICES ASSUME NEW i \in 1..(k + 1), l[i].who = e PROVE i <= at
  BY DEF CoversOf
<1>1. CASE i = k + 1
  BY <1>1
<1>2. CASE i # k + 1
  <2>1. i \in 1..k
    BY <1>2
  <2> QED
    BY <2>1 DEF CoversOf
<1> QED
  BY <1>1, <1>2

\* A step that leaves the row's facts alone and gets no further.
LEMMA CurrentKept ==
    ASSUME TypeInv, PageInv, NEW e \in Employees, CurrentOf(e), log' = log,
           row'[e].facts = row[e].facts, row'[e].at = row[e].at,
           Cursor' \in (0..Cursor) \cup (0..Reached), Reached' \in (0..Cursor) \cup (0..Reached)
    PROVE  CurrentOf(e)'
<1>1. row[e].at \in Nat /\ Cursor \in Nat /\ Reached \in Nat
  BY PageTypes
<1>2. \A f \in Fields : Told(e, f)'
  BY DEF CurrentOf, Told
<1>3. CoversOf(log, e, row[e].at, Cursor') /\ CoversOf(log, e, row[e].at, Reached')
  BY <1>1, CoversLess DEF CurrentOf
<1> QED
  BY <1>2, <1>3 DEF CurrentOf

-----------------------------------------------------------------------------
(***************************************************************************)
(* IInv is kept, one action at a time.                                     *)
(***************************************************************************)
DataInv == WholeInv /\ CurrentInv /\ ListedInv /\ RowInv

LEMMA InvParts ==
    ASSUME IInv
    PROVE  TypeInv /\ PageInv /\ WholeInv /\ CurrentInv /\ ListedInv /\ RowInv
  BY DEF IInv, BaseInv

LEMMA ReachedFrame ==
    ASSUME run'["changes"] = run["changes"], state' = state
    PROVE  Reached' = Reached /\ Cursor' = Cursor
  BY DEF Reached, Cursor, InPage, Idle

\* Rows whose facts stay, and runs that read none.
LEMMA WholeKept ==
    ASSUME IInv, log' = log,
           \A e \in Employees : /\ row'[e].facts = row[e].facts
                                /\ row[e].facts = <<>> => row'[e] = row[e],
           \A r \in Runs : run'[r].step = "save" =>
               run[r].step = "save" /\ run'[r].read = run[r].read /\ run'[r].items = run[r].items
    PROVE  WholeInv'
  BY InvParts DEF WholeInv

LEMMA CurrentRowsKept ==
    ASSUME IInv, log' = log, outdated' = outdated,
           \A e \in Employees : row'[e].facts = row[e].facts /\ row'[e].at = row[e].at,
           Cursor' \in (0..Cursor) \cup (0..Reached), Reached' \in (0..Cursor) \cup (0..Reached)
    PROVE  CurrentInv' /\ RowInv'
<1>a. TypeInv /\ PageInv /\ CurrentInv /\ RowInv
  BY InvParts
<1>1. CurrentInv'
  BY <1>a, CurrentKept DEF CurrentInv
<1>2. \A e \in Employees : row'[e].at # 0 => log'[row'[e].at].who = e
  BY <1>a DEF RowInv
<1>3. \A e \in outdated' : row'[e].facts \in Whole
  BY <1>a DEF RowInv, TypeInv
<1> QED
  BY <1>1, <1>2, <1>3 DEF RowInv

LEMMA ListedKept ==
    ASSUME IInv, log' = log,
           \A e \in Employees : row'[e].at = row[e].at,
           Cursor' \in (0..Cursor) \cup (0..Reached), Reached' \in (0..Cursor) \cup (0..Reached),
           InPage("full")' /\ run'["full"].items # <<>> =>
               InPage("full") /\ run'["full"].items = run["full"].items,
           run'["changes"].step = "save" =>
               \/ run["changes"].step = "save" /\ run'["changes"].items = run["changes"].items
               \/ row[Head(run'["changes"].items).who].at <= Head(run'["changes"].items).at
    PROVE  ListedInv'
<1>a. TypeInv /\ PageInv /\ ListedInv
  BY InvParts
<1> SUFFICES ASSUME InPage("full")', run'["full"].items # <<>>
             PROVE  LET item == Head(run["full"].items)
                        e    == item.who
                    IN  /\ item.set \in Whole
                        /\ \E k \in item.at..Len(log) : item.set = HubOf(log, e, k)
                        /\ item.at # 0 => log[item.at].who = e
                        /\ row'[e].at <= item.at =>
                             CoversOf(log, e, item.at, Cursor') /\ CoversOf(log, e, item.at, Reached')
                        /\ run'["changes"].step = "save" /\ Head(run'["changes"].items).who = e =>
                             row'[e].at <= item.at \/ row'[e].at <= Head(run'["changes"].items).at
  BY DEF ListedInv
<1> DEFINE item == Head(run["full"].items)
           e    == item.who
<1>1. InPage("full") /\ run["full"].items # <<>>
  OBVIOUS
<1>2. /\ item.set \in Whole
      /\ \E k \in item.at..Len(log) : item.set = HubOf(log, e, k)
      /\ item.at # 0 => log[item.at].who = e
      /\ row[e].at <= item.at => CoversOf(log, e, item.at, Cursor) /\ CoversOf(log, e, item.at, Reached)
      /\ run["changes"].step = "save" /\ Head(run["changes"].items).who = e =>
           row[e].at <= item.at \/ row[e].at <= Head(run["changes"].items).at
  BY <1>a, <1>1 DEF ListedInv
<1>3. item \in Items
  BY <1>a, <1>1, InHand, RunNames
<1> HIDE DEF item
<1>4. item.at \in Nat /\ e \in Employees /\ Cursor \in Nat /\ Reached \in Nat
  BY <1>a, <1>3, PageTypes DEF Items
<1>5. row'[e].at <= item.at => CoversOf(log, e, item.at, Cursor') /\ CoversOf(log, e, item.at, Reached')
  BY <1>2, <1>4, CoversLess
<1>6. run'["changes"].step = "save" /\ Head(run'["changes"].items).who = e =>
           row'[e].at <= item.at \/ row'[e].at <= Head(run'["changes"].items).at
  BY <1>2, <1>4, RunNames
<1> QED
  BY <1>2, <1>5, <1>6 DEF item

\* The cursor and the run of changes get no further.
NoFurther ==
    Cursor' \in (0..Cursor) \cup (0..Reached) /\ Reached' \in (0..Cursor) \cup (0..Reached)

\* A step that changes no facts and takes nothing in hand.
LEMMA QuietKeeps ==
    ASSUME IInv, log' = log, outdated' = outdated,
           \A e \in Employees : /\ row'[e].facts = row[e].facts /\ row'[e].at = row[e].at
                                /\ row[e].facts = <<>> => row'[e] = row[e],
           Cursor' \in (0..Cursor) \cup (0..Reached), Reached' \in (0..Cursor) \cup (0..Reached),
           \A r \in Runs : run'[r].step = "save" =>
               run[r].step = "save" /\ run'[r].read = run[r].read /\ run'[r].items = run[r].items,
           InPage("full")' /\ run'["full"].items # <<>> =>
               InPage("full") /\ run'["full"].items = run["full"].items
    PROVE  DataInv' /\ NoFurther
  BY WholeKept, CurrentRowsKept, ListedKept, RunNames DEF DataInv, NoFurther

LEMMA NextHired ==
    ASSUME NEW l \in Seq(Entries), HiredFirst(l), NEW entry \in Entries,
           entry.set \in Whole \/ HubOf(l, entry.who, Len(l)) \in Whole
    PROVE  HiredFirst(Append(l, entry))
<1> DEFINE m == Append(l, entry)
           N == Len(l)
<1>1. /\ N \in Nat /\ m \in Seq(Entries) /\ Len(m) = N + 1 /\ (\A n \in 1..N : m[n] = l[n])
      /\ m[N + 1] = entry /\ \A n \in 1..N : l[n] \in Entries
  BY AppendProperties, LenProperties, ElementOfSeq
<1>2. \A e \in Employees : \A k \in 0..N : HubOf(m, e, k) = HubOf(l, e, k)
  BY HubKept
<1> HIDE DEF m, N
<1> SUFFICES ASSUME NEW n \in 1..(N + 1)
             PROVE  m[n].set \in Whole \/ HubOf(m, m[n].who, n - 1) \in Whole
  BY <1>1 DEF HiredFirst, m
<1>3. CASE n = N + 1
  <2>1. entry.who \in Employees /\ n - 1 = N /\ N \in 0..N
    BY <1>1, <1>3 DEF Entries
  <2> QED
    BY <1>1, <1>2, <1>3, <2>1 DEF N
<1>4. CASE n # N + 1
  <2>1. n \in 1..N /\ n - 1 \in 0..N /\ l[n].who \in Employees
    BY <1>1, <1>4 DEF Entries
  <2> QED
    BY <1>1, <1>2, <2>1 DEF HiredFirst, N
<1> QED
  BY <1>3, <1>4

LEMMA ChangeKeeps ==
    ASSUME IInv, NEW x \in Employees, Change(x)
    PROVE  DataInv'
<1>a. TypeInv /\ PageInv /\ WholeInv /\ CurrentInv /\ ListedInv /\ RowInv
  BY InvParts
<1>1. PICK entry \in Entries : /\ log' = Append(log, entry) /\ entry.who = x
                               /\ entry.set \in Whole \/ Hub(x) \in Whole
  BY <1>a, ChangeDoes
<1>2. /\ Len(log) \in Nat /\ Len(log') = Len(log) + 1 /\ (\A n \in 1..Len(log) : log'[n] = log[n])
      /\ log \in Seq(Entries)
  BY <1>a, <1>1, AppendProperties, LenProperties DEF TypeInv
<1>3. UNCHANGED <<row, state, run, outdated>>
  BY DEF Change
<1>4. Cursor' = Cursor /\ Reached' = Reached /\ Cursor \in 0..Len(log) /\ Reached \in 0..Len(log)
      /\ \A e \in Employees : row[e].at \in 0..Len(log)
  BY <1>a, <1>3, ReachedFrame, PageTypes
<1>5. ASSUME NEW e \in Employees, NEW k \in 0..Len(log)
      PROVE  HubOf(log', e, k) = HubOf(log, e, k)
  BY <1>1, <1>2, HubKept
<1>6. ASSUME NEW e, NEW at, NEW k \in 0..Len(log)
      PROVE  CoversOf(log', e, at, k) <=> CoversOf(log, e, at, k)
  <2>1. \A i \in 1..k : log'[i] = log[i]
    BY <1>2
  <2> QED
    BY <2>1 DEF CoversOf
<1>7. WholeInv'
  <2>1. HiredFirst(log')
    BY <1>a, <1>1, <1>2, NextHired, HubIs DEF WholeInv, Hub
  <2> QED
    BY <1>a, <1>3, <2>1 DEF WholeInv
<1>8. CurrentInv'
  <2> SUFFICES ASSUME NEW e \in Employees \ outdated PROVE CurrentOf(e)'
    BY <1>3 DEF CurrentInv
  <2>1. CurrentOf(e)
    BY <1>a DEF CurrentInv
  <2>2. ASSUME NEW f \in Fields PROVE Told(e, f)'
    <3>1. PICK k \in row[e].at..Len(log) : Get(row[e].facts, f) = Get(HubOf(log, e, k), f)
      BY <2>1 DEF CurrentOf, Told
    <3>2. k \in 0..Len(log) /\ k \in row[e].at..Len(log')
      BY <1>2, <1>4
    <3>3. HubOf(log', e, k) = HubOf(log, e, k)
      BY <1>5, <3>2
    <3> QED
      BY <1>3, <3>1, <3>2, <3>3 DEF Told
  <2>3. CoversOf(log', e, row[e].at, Cursor) /\ CoversOf(log', e, row[e].at, Reached)
    <3>1. CoversOf(log, e, row[e].at, Cursor) /\ CoversOf(log, e, row[e].at, Reached)
      BY <2>1 DEF CurrentOf
    <3>2. \A i \in 1..Cursor : log'[i] = log[i]
      BY <1>2, <1>4
    <3>3. \A i \in 1..Reached : log'[i] = log[i]
      BY <1>2, <1>4
    <3> QED
      BY <1>3, <1>4, <3>1, <3>2, <3>3 DEF CoversOf
  <2> QED
    BY <1>3, <1>4, <2>2, <2>3 DEF CurrentOf
<1>9. RowInv'
  BY <1>a, <1>2, <1>3, <1>4 DEF RowInv
<1>10. ListedInv'
  <2> SUFFICES ASSUME InPage("full"), run["full"].items # <<>>
               PROVE  LET item == Head(run["full"].items)
                          e    == item.who
                      IN  /\ item.set \in Whole
                          /\ \E k \in item.at..Len(log') : item.set = HubOf(log', e, k)
                          /\ item.at # 0 => log'[item.at].who = e
                          /\ row[e].at <= item.at =>
                               CoversOf(log', e, item.at, Cursor) /\ CoversOf(log', e, item.at, Reached)
                          /\ run["changes"].step = "save" /\ Head(run["changes"].items).who = e =>
                               row[e].at <= item.at \/ row[e].at <= Head(run["changes"].items).at
    BY <1>3, <1>4 DEF ListedInv, InPage
  <2> DEFINE item == Head(run["full"].items)
             e    == item.who
  <2>1. /\ item.set \in Whole
        /\ \E k \in item.at..Len(log) : item.set = HubOf(log, e, k)
        /\ item.at # 0 => log[item.at].who = e
        /\ row[e].at <= item.at => CoversOf(log, e, item.at, Cursor) /\ CoversOf(log, e, item.at, Reached)
        /\ run["changes"].step = "save" /\ Head(run["changes"].items).who = e =>
             row[e].at <= item.at \/ row[e].at <= Head(run["changes"].items).at
    BY <1>a DEF ListedInv
  <2>2. item \in Items /\ item.at \in 0..Len(log)
    BY <1>a, InHand, ItemInLog, RunNames
  <2> HIDE DEF item
  <2>3. e \in Employees
    BY <2>2 DEF Items
  <2>4. \E k \in item.at..Len(log') : item.set = HubOf(log', e, k)
    <3>1. PICK k \in item.at..Len(log) : item.set = HubOf(log, e, k)
      BY <2>1
    <3>2. k \in 0..Len(log) /\ k \in item.at..Len(log')
      BY <1>2, <2>2
    <3> QED
      BY <1>5, <2>3, <3>1, <3>2
  <2>5. item.at # 0 => log'[item.at].who = e
    BY <1>2, <2>1, <2>2
  <2>6. row[e].at <= item.at => CoversOf(log', e, item.at, Cursor) /\ CoversOf(log', e, item.at, Reached)
    <3>2. \A i \in 1..Cursor : log'[i] = log[i]
      BY <1>2, <1>4
    <3>3. \A i \in 1..Reached : log'[i] = log[i]
      BY <1>2, <1>4
    <3> SUFFICES ASSUME row[e].at <= item.at
                 PROVE  CoversOf(log', e, item.at, Cursor) /\ CoversOf(log', e, item.at, Reached)
      OBVIOUS
    <3>4. CoversOf(log, e, item.at, Cursor) /\ CoversOf(log, e, item.at, Reached)
      BY <2>1
    <3>5. run' = run
      BY <1>3
    <3>6. item' = item
      BY <3>5 DEF item
    <3> QED
      BY <1>4, <3>2, <3>3, <3>4, <3>6 DEF CoversOf
  <2> QED
    BY <2>1, <2>4, <2>5, <2>6 DEF item
<1> QED
  BY <1>7, <1>8, <1>9, <1>10 DEF DataInv

LEMMA ReachedOut ==
    /\ run["changes"].step \notin {"idle", "apply", "save"} => Reached = run["changes"].pos
    /\ run'["changes"].step \notin {"idle", "apply", "save"} => Reached' = run'["changes"].pos
    /\ run'["changes"].step = "idle" => Reached' = Cursor'
    /\ run["changes"].step \in {"apply", "save"} =>
         Reached = run["changes"].next - Len(run["changes"].items)
    /\ run'["changes"].step \in {"apply", "save"} =>
         Reached' = run'["changes"].next - Len(run'["changes"].items)
    /\ state' = state => Cursor' = Cursor
  BY DEF Reached, Idle, InPage, Cursor

\* The steps that write no facts and take nothing in hand.
Quiet ==
    \/ AskChanges \/ AskFull \/ FetchChanges
    \/ \E r \in {"changes", "full"} : EndPage(r) \/ Managers(r)
    \/ \E r \in Runs : Give(r) \/ Succeed(r) \/ Fail(r) \/ \E e \in Employees : Reconcile(r, e)
    \/ Tick \/ Due \/ Boot \/ Crash \/ UNCHANGED vars

LEMMA QuietSteps ==
    ASSUME IInv, Quiet
    PROVE  DataInv' /\ NoFurther
<1>a. TypeInv /\ PageInv /\ WholeInv
  BY InvParts
<1>b. {"changes", "full"} \subseteq Runs /\ "daily" \in Runs
  BY RunNames
<1>c. /\ Len(log) \in Nat /\ Cursor \in 0..Len(log) /\ Reached \in 0..Len(log)
      /\ Cursor \in 0..Cursor /\ Reached \in 0..Reached
      /\ \A r \in Runs : run[r].pos \in Nat /\ run[r].next \in Nat /\ Len(run[r].items) \in Nat
  BY <1>a, PageTypes DEF RunStates
<1>1. ASSUME AskChanges \/ Due PROVE DataInv' /\ NoFurther
  <2>1. PICK pos \in {0, Cursor} : Start("changes", pos, TRUE) \/ Start("changes", pos, FALSE)
    BY <1>1 DEF AskChanges, Due
  <2>2. UNCHANGED <<log, row, state, outdated>>
    BY <1>1 DEF AskChanges, Due
  <2>3. pos \in 0..Cursor /\ pos \in Nat
    BY <1>c
  <2>4. /\ run'["changes"].step = "fetch" /\ run'["changes"].pos = pos
        /\ \A q \in Runs : q # "changes" => run'[q] = run[q]
    <3>1. CASE Start("changes", pos, TRUE)
      BY <1>a, <1>b, <2>3, <3>1, StartDoes
    <3>2. CASE Start("changes", pos, FALSE)
      BY <1>a, <1>b, <2>3, <3>2, StartDoes
    <3> QED
      BY <2>1, <3>1, <3>2
  <2>5. Reached' \in 0..Cursor /\ Cursor' = Cursor
    BY <2>2, <2>3, <2>4, ReachedOut
  <2> QED
    BY <1>b, <1>c, <2>2, <2>4, <2>5, QuietKeeps DEF InPage
<1>2. CASE AskFull
  <2>1. Start("full", 0, FALSE) /\ UNCHANGED <<log, row, state, outdated>>
    BY <1>2 DEF AskFull
  <2>2. run'["full"].step = "fetch" /\ \A q \in Runs : q # "full" => run'[q] = run[q]
    BY <1>a, <1>b, <2>1, StartDoes
  <2>3. Reached' = Reached /\ Cursor' = Cursor
    BY <1>b, <2>1, <2>2, ReachedFrame
  <2> QED
    BY <1>b, <1>c, <2>1, <2>2, <2>3, QuietKeeps DEF InPage
<1>3. CASE FetchChanges
  <2>1. UNCHANGED <<log, row, state, outdated>>
    BY <1>3 DEF FetchChanges
  <2>2. /\ \A q \in Runs : q # "changes" => run'[q] = run[q]
        /\ run["changes"].step = "fetch" /\ run'["changes"].step = "apply"
        /\ run'["changes"].next \in run["changes"].pos..Len(log)
        /\ Len(run'["changes"].items) = run'["changes"].next - run["changes"].pos
    BY <1>a, <1>3, FetchChangesDoes
  <2>3. Reached' = run["changes"].pos /\ Reached = run["changes"].pos /\ Cursor' = Cursor
    <3>1. Reached' = run'["changes"].next - Len(run'["changes"].items)
      BY <2>2, ReachedOut
    <3>2. Reached = run["changes"].pos /\ Cursor' = Cursor
      BY <2>1, <2>2, ReachedOut
    <3>3. \A n, m, p : p \in Nat /\ n \in p..Len(log) /\ m = n - p => n - m = p
      BY <1>c
    <3> QED
      BY <1>b, <1>c, <2>2, <3>1, <3>2, <3>3
  <2> QED
    BY <1>b, <1>c, <2>1, <2>2, <2>3, QuietKeeps DEF InPage
<1>4. ASSUME NEW r \in {"changes", "full"}, EndPage(r) PROVE DataInv' /\ NoFurther
  <2>1. UNCHANGED <<log, row, state, outdated>>
    BY <1>4 DEF EndPage
  <2>2. /\ \A q \in Runs : q # r => run'[q] = run[q]
        /\ run[r].step = "apply" /\ run[r].items = <<>> /\ run'[r].step \in {"fetch", "managers"}
        /\ run'[r].pos = run[r].next
    BY <1>a, <1>4, EndPageDoes
  <2>3. Reached' = Reached /\ Cursor' = Cursor
    <3>1. CASE r = "changes"
      <4>1. Reached = run["changes"].next - Len(run["changes"].items)
        BY <2>2, <3>1, ReachedOut
      <4>2. Len(run["changes"].items) = 0
        BY <2>2, <3>1
      <4>3. Reached = run["changes"].next
        BY <1>b, <1>c, <4>1, <4>2
      <4> QED
        BY <2>1, <2>2, <3>1, <4>3, ReachedOut
    <3>2. CASE r # "changes"
      BY <1>b, <2>1, <2>2, <3>2, ReachedFrame
    <3> QED
      BY <3>1, <3>2
  <2> QED
    BY <1>b, <1>c, <2>1, <2>2, <2>3, QuietKeeps DEF InPage
\* Past the pages.
<1>5. ASSUME NEW r \in Runs, UNCHANGED <<log, state, outdated>>, \A q \in Runs : q # r => run'[q] = run[q],
             \A e \in Employees : /\ row'[e].facts = row[e].facts /\ row'[e].at = row[e].at
                                  /\ row[e].facts = <<>> => row'[e] = row[e],
             run[r].step \notin {"idle", "apply", "save"}, run'[r].step \notin {"idle", "apply", "save"},
             run'[r].pos = run[r].pos
      PROVE  DataInv' /\ NoFurther
  <2>1. Reached' = Reached /\ Cursor' = Cursor
    <3>1. CASE r = "changes"
      BY <1>5, <3>1, ReachedOut
    <3>2. CASE r # "changes"
      BY <1>b, <1>5, <3>2, ReachedFrame
    <3> QED
      BY <3>1, <3>2
  <2> QED
    BY <1>b, <1>c, <1>5, <2>1, QuietKeeps DEF InPage
<1>6. ASSUME NEW r \in {"changes", "full"}, Managers(r) PROVE DataInv' /\ NoFurther
  <2>1. UNCHANGED <<log, state, outdated>>
    BY <1>6 DEF Managers
  <2>2. /\ \A q \in Runs : q # r => run'[q] = run[q]
        /\ \A e \in Employees : /\ row'[e].facts = row[e].facts /\ row'[e].at = row[e].at
                                /\ row[e].facts = <<>> => row'[e] = row[e]
        /\ run[r].step = "managers" /\ run'[r].step \in {"missing", "reconcile"}
        /\ run'[r].pos = run[r].pos
    BY <1>a, <1>6, ManagersDoes
  <2> QED
    BY <1>5, <1>b, <2>1, <2>2
<1>7. ASSUME NEW r \in Runs, Give(r) PROVE DataInv' /\ NoFurther
  <2>1. UNCHANGED <<log, state, row, outdated>>
    BY <1>7 DEF Give
  <2>2. /\ \A q \in Runs : q # r => run'[q] = run[q]
        /\ run[r].step = "give" /\ run'[r].step = "reconcile" /\ run'[r].pos = run[r].pos
    BY <1>a, <1>7, GiveDoes
  <2> QED
    BY <1>5, <2>1, <2>2
<1>8. ASSUME NEW r \in Runs, NEW e \in Employees, Reconcile(r, e) PROVE DataInv' /\ NoFurther
  <2>1. UNCHANGED <<log, state, row, outdated>>
    BY <1>8 DEF Reconcile
  <2>2. /\ \A q \in Runs : q # r => run'[q] = run[q]
        /\ run[r].step = "reconcile" /\ run'[r].step = "give" /\ run'[r].pos = run[r].pos
    BY <1>a, <1>8, ReconcileDoes
  <2> QED
    BY <1>5, <2>1, <2>2
<1>9. ASSUME NEW r \in Runs, NEW mood, run[r].step # "idle", Ended(r, mood),
             UNCHANGED <<log, row, outdated>>,
             NEW status \in {"success", "failed"},
             state' = (IF r = "changes" THEN Recorded(run[r].pos, status) ELSE state)
      PROVE  DataInv' /\ NoFurther
  <2>1. /\ run'[r] = IdleRun /\ (\A q \in Runs : q \notin {r, "daily"} => run'[q] = run[q])
        /\ run'["daily"] \in {IdleRun, run["daily"]} \/ run'["daily"].step = "reconcile"
    BY <1>a, <1>9, <1>b, EndedDoes
  <2>2. Cursor' \in (0..Cursor) \cup (0..Reached) /\ Reached' \in (0..Cursor) \cup (0..Reached)
    <3>1. CASE r = "changes"
      <4>1. state' # <<>> /\ state'.cursor = run[r].pos
        BY <1>a, <1>c, <1>9, <3>1, Recording
      <4>2. Cursor' = run["changes"].pos /\ Reached' = Cursor'
        BY <2>1, <3>1, <4>1, IdleFields, ReachedOut DEF Cursor
      <4>3. run["changes"].pos \in 0..Reached \/ run["changes"].step = "idle"
        <5>1. CASE run["changes"].step \in {"apply", "save"}
          <6>1. run["changes"].pos + Len(run["changes"].items) <= run["changes"].next
            BY <1>a, <5>1 DEF PageInv, ChangesPage, InPage
          <6>2. Reached = run["changes"].next - Len(run["changes"].items)
            BY <5>1, ReachedOut
          <6> QED
            BY SMTT(30), <1>b, <1>c, <6>1, <6>2
        <5>2. CASE run["changes"].step \notin {"idle", "apply", "save"}
          BY <1>c, <5>2, ReachedOut
        <5> QED
          BY <5>1, <5>2
      <4> QED
        BY <1>9, <3>1, <4>2, <4>3
    <3>2. CASE r # "changes"
      <4>1. run'["changes"] = run["changes"] /\ state' = state
        BY <1>9, <1>b, <2>1, <3>2, RunNames
      <4> QED
        BY <1>c, <4>1, ReachedFrame
    <3> QED
      BY <3>1, <3>2
  <2>3. \A q \in Runs : run'[q] = run[q] \/ run'[q].step \in {"idle", "reconcile"}
    BY <2>1, IdleFields
  <2> QED
    BY <1>9, <1>b, <2>2, <2>3, QuietKeeps DEF InPage
<1>10. ASSUME NEW r \in Runs, Succeed(r) \/ Fail(r) PROVE DataInv' /\ NoFurther
  BY <1>9, <1>10 DEF Succeed, Fail, Idle
<1>11. CASE Crash
  <2>1. (\A r \in Runs : run'[r] = IdleRun) /\ UNCHANGED <<log, row, state, outdated>>
    BY <1>a, <1>11, CrashDoes DEF Crash
  <2>2. Cursor' = Cursor /\ Reached' = Cursor
    BY <1>b, <2>1, IdleFields, ReachedOut
  <2> QED
    BY <1>b, <1>c, <2>1, <2>2, IdleFields, QuietKeeps DEF InPage
<1>12. ASSUME Tick \/ Boot \/ UNCHANGED vars PROVE DataInv' /\ NoFurther
  <2>1. UNCHANGED <<log, row, state, outdated, run>>
    BY <1>12 DEF Tick, Boot, vars
  <2>2. Reached' = Reached /\ Cursor' = Cursor
    BY <2>1, ReachedFrame
  <2> QED
    BY <1>c, <2>1, <2>2, QuietKeeps DEF InPage
<1> QED
  BY <1>1, <1>2, <1>3, <1>4, <1>6, <1>7, <1>8, <1>10, <1>11, <1>12 DEF Quiet

LEMMA FetchListedKeeps ==
    ASSUME IInv, FetchListed
    PROVE  DataInv'
<1> DEFINE c == run["full"]
           d == run'["full"]
           e == Listing[c.pos + 1]
           at == ChangedAt(e, Len(log))
           item == Item(e, Hub(e), at)
<1>a. TypeInv /\ PageInv /\ WholeInv /\ RowInv
  BY InvParts
<1>1. UNCHANGED <<log, row, state, outdated>>
  BY DEF FetchListed
<1>2. /\ \A q \in Runs : q # "full" => run'[q] = run[q]
      /\ d.step = "apply" /\ e \in Employees
      /\ \/ d.items = <<>>
         \/ Hub(e) \in Whole /\ d.items = <<item>>
  BY <1>a, FetchListedDoes DEF WholeInv
<1>3. Cursor' = Cursor /\ Reached' = Reached
  BY <1>1, <1>2, RunNames, ReachedFrame
<1>4. Cursor \in 0..Len(log) /\ Reached \in 0..Len(log) /\ Len(log) \in Nat /\ log \in Seq(Entries)
      /\ row[e].at \in 0..Len(log)
  BY <1>a, <1>2, PageTypes DEF TypeInv
<1>5. at \in 0..Len(log) /\ (at # 0 => log[at].who = e) /\ CoversOf(log, e, at, Len(log))
  <2> HIDE DEF e
  <2>1. Len(log) \in 0..Len(log)
    BY <1>4
  <2>2. Covers(e, at, Len(log)) /\ at \in 0..Len(log) /\ (at # 0 => log[at].who = e)
    BY <1>2, <1>4, <2>1, ChangedFacts
  <2> QED
    BY <2>2 DEF Covers, CoversOf
<1>6. item.who = e /\ item.set = Hub(e) /\ item.at = at
  BY DEF Item
<1>7. WholeInv'
  BY <1>1, <1>2, WholeKept
<1>8. CurrentInv' /\ RowInv'
  BY <1>1, <1>3, <1>4, CurrentRowsKept
<1>b. UNCHANGED <<log, row, outdated>> /\ run'["changes"] = run["changes"]
  BY <1>1, <1>2, RunNames
<1>c. d.items = run'["full"].items
  OBVIOUS
<1> HIDE DEF c, d, e, at, item
<1>9. ListedInv'
  <2>1. CASE d.items = <<>>
    BY <1>c, <2>1 DEF ListedInv
  <2>2. CASE Hub(e) \in Whole /\ d.items = <<item>>
    <3>1. Head(d.items) = item
      BY <2>2
    <3>2. Hub(e) = HubOf(log, e, Len(log)) /\ Len(log) \in at..Len(log)
      BY <1>4, <1>5, HubIs DEF Hub
    <3>3. CoversOf(log, e, at, Cursor) /\ CoversOf(log, e, at, Reached)
      BY <1>4, <1>5, CoversLess
    <3>4. row[e].at <= at
      BY <1>2, <1>4, <1>5, <1>a DEF RowInv, CoversOf
    <3>5. Head(run'["full"].items) = item
      BY <1>c, <3>1
    <3>6. item.set \in Whole /\ \E k \in item.at..Len(log) : item.set = HubOf(log, item.who, k)
      BY <1>6, <2>2, <3>2
    <3>7. /\ item.at # 0 => log[item.at].who = item.who
          /\ CoversOf(log, item.who, item.at, Cursor) /\ CoversOf(log, item.who, item.at, Reached)
          /\ row[item.who].at <= item.at
      BY <1>5, <1>6, <3>3, <3>4
    <3> QED
      BY <1>3, <1>b, <3>5, <3>6, <3>7 DEF ListedInv
  <2> QED
    BY <1>2, <2>1, <2>2
<1> QED
  BY <1>7, <1>8, <1>9 DEF DataInv

\* An entry that names but some facts is of someone who has a row already.
LEMMA ReadWhole ==
    ASSUME IInv, InPage("changes"), run["changes"].items # <<>>
    PROVE  LET item == Head(run["changes"].items)
           IN  item.set \in Whole \/ row[item.who].facts \in Whole
<1> DEFINE item == Head(run["changes"].items)
           e == item.who
           p == Reached + 1
<1>a. TypeInv /\ PageInv /\ WholeInv /\ CurrentInv /\ RowInv
  BY InvParts
<1>1. /\ Reached \in Nat /\ p \in 1..Len(log) /\ p - 1 = Reached
      /\ item = Item(log[p].who, log[p].set, p)
  BY <1>a, NextEntry
<1>2. item.who = log[p].who /\ item.set = log[p].set
  BY <1>1 DEF Item
<1>3. log \in Seq(Entries) /\ HiredFirst(log) /\ Len(log) \in Nat /\ log[p].who \in Employees
  BY <1>1, <1>a, PageTypes DEF TypeInv, WholeInv, Entries
<1> HIDE DEF item
<1>4. item.set \in Whole \/ HubOf(log, e, Reached) \in Whole
  BY <1>1, <1>2, <1>3 DEF HiredFirst
<1> SUFFICES ASSUME HubOf(log, e, Reached) \in Whole, row[e].facts \notin Whole PROVE FALSE
  BY <1>4 DEF item
<1>5. e \in Employees /\ e \notin outdated /\ row[e].facts = <<>> /\ row[e].at = 0
  BY <1>2, <1>3, <1>a DEF WholeInv, RowInv, FactSets, NoRow
<1>6. CoversOf(log, e, 0, Reached) /\ Told(e, "status")
  BY <1>5, <1>a, Fact DEF CurrentInv, CurrentOf
<1>7. PICK k \in 0..Len(log) : Get(row[e].facts, "status") = Get(HubOf(log, e, k), "status")
  BY <1>5, <1>6 DEF Told
<1>8. Get(row[e].facts, "status") = None
  BY <1>5, Nothing DEF Get
<1>9. HubOf(log, e, k) \in Whole
  <2>1. Reached \in 0..Len(log) /\ Reached \in 0..Reached
    BY <1>1, <1>3
  <2>2. CASE k \in 0..Reached
    <3>1. 0 \in 0..Len(log) /\ Reached \in 0..Len(log)
      BY <1>3, <2>1
    <3>2. \A i \in 1..Reached : log[i].who = e => i <= 0
      BY <1>6 DEF CoversOf
    <3>3. \A n \in 0..Reached : HubOf(log, e, n) = HubOf(log, e, 0)
      BY <1>3, <1>5, <3>1, <3>2, HubStays
    <3> QED
      BY <2>1, <2>2, <3>3
  <2>3. CASE k \notin 0..Reached
    <3>1. k \in Reached..Len(log)
      BY <1>3, <2>1, <2>3
    <3> QED
      BY <1>3, <1>5, <2>1, <3>1, HubHired
  <2> QED
    BY <2>2, <2>3
<1>10. Get(HubOf(log, e, k), "status") \in {"active", "inactive"}
  BY <1>9, WholeFacts, Fact
<1> QED
  BY <1>7, <1>8, <1>10, DirectoryAssumption

LEMMA ReadFullKeeps ==
    ASSUME IInv, Read("full")
    PROVE  DataInv'
<1> DEFINE c == run["full"]
           d == run'["full"]
           item == Head(c.items)
<1>a. TypeInv /\ PageInv /\ WholeInv /\ ListedInv
  BY InvParts
<1>1. UNCHANGED <<log, row, state, outdated>>
  BY DEF Read
<1>2. /\ \A q \in Runs : q # "full" => run'[q] = run[q]
      /\ c.step = "apply" /\ c.items # <<>> /\ item \in Items
      /\ d.step = "save" /\ d.items = c.items /\ d.read = row[item.who]
  BY <1>a, ReadDoes
<1>3. Cursor' = Cursor /\ Reached' = Reached /\ Cursor \in 0..Cursor /\ Reached \in 0..Reached
  BY <1>1, <1>2, <1>a, RunNames, ReachedFrame, PageTypes
<1>4. CurrentInv' /\ RowInv'
  BY <1>1, <1>3, CurrentRowsKept
<1>5. ListedInv'
  BY <1>1, <1>2, <1>3, RunNames, ListedKept DEF InPage
<1>6. item.set \in Whole /\ item.who \in Employees
  BY <1>2, <1>a DEF ListedInv, InPage, Items
<1>7. WholeInv'
  <2>1. HiredFirst(log) /\ \A e \in Employees : row[e].facts \in FactSets /\ (row[e].facts = <<>> => row[e] = NoRow)
    BY <1>a DEF WholeInv
  <2>2. ASSUME NEW r \in Runs, run'[r].step = "save"
        PROVE  /\ run'[r].read.facts \in FactSets
               /\ run'[r].read.facts \in Whole \/ Head(run'[r].items).set \in Whole
    <3>1. CASE r = "full"
      BY <1>2, <1>6, <2>1, <3>1
    <3>2. CASE r # "full"
      BY <1>2, <1>a, <2>2, <3>2 DEF WholeInv
    <3> QED
      BY <3>1, <3>2
  <2> QED
    BY <1>1, <2>1, <2>2 DEF WholeInv
<1> QED
  BY <1>4, <1>5, <1>7 DEF DataInv

LEMMA ReadChangesKeeps ==
    ASSUME IInv, Read("changes")
    PROVE  DataInv'
<1> DEFINE c == run["changes"]
           d == run'["changes"]
           item == Head(c.items)
           e == item.who
           p == Reached + 1
<1>a. TypeInv /\ PageInv /\ WholeInv /\ CurrentInv /\ ListedInv /\ RowInv
  BY InvParts
<1>1. UNCHANGED <<log, row, state, outdated>>
  BY DEF Read
<1>2. /\ \A q \in Runs : q # "changes" => run'[q] = run[q]
      /\ c.step = "apply" /\ c.items # <<>> /\ item \in Items
      /\ \/ item.at < row[e].at /\ d.step = "apply" /\ d.items = Tail(c.items)
         \/ /\ ~(item.at < row[e].at)
            /\ d.step = "save" /\ d.items = c.items /\ d.read = row[e]
      /\ d.pos = c.pos /\ d.next = c.next
  BY <1>a, ReadDoes
<1>3. InPage("changes") /\ e \in Employees /\ item.at \in Nat
  BY <1>2 DEF InPage, Items
<1>4. /\ Reached \in Nat /\ p \in 1..Len(log) /\ item = Item(log[p].who, log[p].set, p)
      /\ item.at = p /\ log[p].who = e
  BY <1>2, <1>3, <1>a, NextEntry DEF Item
<1>5. Cursor' = Cursor /\ Cursor \in 0..Cursor /\ Reached \in 0..Reached /\ Cursor \in Nat
      /\ \A x \in Employees : row[x].at \in Nat
  BY <1>1, <1>a, PageTypes DEF Cursor
<1>6. CASE item.at < row[e].at /\ d.step = "apply" /\ d.items = Tail(c.items)
  <2>1. Reached' = p
    <3>1. InPage("changes")'
      BY <1>6 DEF InPage
    <3> QED
      BY <1>1, <1>2, <1>3, <1>6, <1>a, <3>1, PageTail
  <2>2. WholeInv'
    BY <1>1, <1>2, <1>6, WholeKept
  <2>0. p < row[e].at /\ p \in Nat /\ e \in Employees /\ log[p].who = e
    BY <1>3, <1>4, <1>6
  <2> HIDE DEF item, e, p
  <2>3. CurrentInv'
    <3> SUFFICES ASSUME NEW x \in Employees \ outdated PROVE CurrentOf(x)'
      BY <1>1 DEF CurrentInv
    <3>1. CurrentOf(x)
      BY <1>a DEF CurrentInv
    <3>2. log[p].who = x => p <= row[x].at
      BY <1>5, <2>0
    <3>3. CoversOf(log, x, row[x].at, p)
      BY <1>4, <1>5, <3>1, <3>2, CoversNext DEF CurrentOf, p
    <3> QED
      BY <1>1, <1>5, <2>1, <3>1, <3>3 DEF CurrentOf, Told
  <2>4. RowInv'
    BY <1>1, <1>a DEF RowInv
  <2>5. ListedInv'
    <3> SUFFICES ASSUME InPage("full"), run["full"].items # <<>>
                 PROVE  LET it == Head(run["full"].items)
                            x  == it.who
                        IN  /\ it.set \in Whole
                            /\ \E k \in it.at..Len(log) : it.set = HubOf(log, x, k)
                            /\ it.at # 0 => log[it.at].who = x
                            /\ row[x].at <= it.at =>
                                 CoversOf(log, x, it.at, Cursor) /\ CoversOf(log, x, it.at, p)
      BY <1>1, <1>2, <1>5, <1>6, <2>1, RunNames DEF ListedInv, InPage
    <3> DEFINE it == Head(run["full"].items)
               x  == it.who
    <3>1. /\ it.set \in Whole
          /\ \E k \in it.at..Len(log) : it.set = HubOf(log, x, k)
          /\ it.at # 0 => log[it.at].who = x
          /\ row[x].at <= it.at => CoversOf(log, x, it.at, Cursor) /\ CoversOf(log, x, it.at, Reached)
      BY <1>a DEF ListedInv
    <3>2. it \in Items
      BY <1>a, InHand, RunNames
    <3> HIDE DEF it
    <3>3. it.at \in Nat /\ x \in Employees
      BY <3>2 DEF Items
    <3>4. row[x].at <= it.at => CoversOf(log, x, it.at, p)
      <4> SUFFICES ASSUME row[x].at <= it.at PROVE CoversOf(log, x, it.at, p)
        OBVIOUS
      <4>1. log[p].who = x => p <= it.at
        BY <1>5, <2>0, <3>3
      <4> QED
        BY <1>4, <3>1, <3>3, <4>1, CoversNext DEF p
    <3> QED
      BY <3>1, <3>4 DEF it
  <2> QED
    BY <2>2, <2>3, <2>4, <2>5 DEF DataInv
<1>7. CASE ~(item.at < row[e].at) /\ d.step = "save" /\ d.items = c.items /\ d.read = row[e]
  <2>1. Reached' = Reached
    BY <1>2, <1>7, ReachedOut
  <2>2. CurrentInv' /\ RowInv'
    BY <1>1, <1>5, <2>1, CurrentRowsKept
  <2>3. ListedInv'
    <3>1. row[Head(d.items).who].at <= Head(d.items).at
      <4> HIDE DEF item
      <4>1. row[e].at <= item.at
        BY <1>3, <1>5, <1>7
      <4> QED
        BY <1>7, <4>1 DEF item
    <3> QED
      BY <1>1, <1>2, <1>5, <2>1, <3>1, RunNames, ListedKept DEF InPage
  <2>4. WholeInv'
    <3>1. HiredFirst(log) /\ \A x \in Employees : row[x].facts \in FactSets /\ (row[x].facts = <<>> => row[x] = NoRow)
      BY <1>a DEF WholeInv
    <3>2. item.set \in Whole \/ row[e].facts \in Whole
      BY <1>2, <1>3, ReadWhole
    <3>3. ASSUME NEW r \in Runs, run'[r].step = "save"
          PROVE  /\ run'[r].read.facts \in FactSets
                 /\ run'[r].read.facts \in Whole \/ Head(run'[r].items).set \in Whole
      <4>1. CASE r = "changes"
        BY <1>3, <1>7, <3>1, <3>2, <4>1
      <4>2. CASE r # "changes"
        BY <1>2, <1>a, <3>3, <4>2 DEF WholeInv
      <4> QED
        BY <4>1, <4>2
    <3> QED
      BY <1>1, <3>1, <3>3 DEF WholeInv
  <2> QED
    BY <2>2, <2>3, <2>4 DEF DataInv
<1> QED
  BY <1>2, <1>6, <1>7

\* What a save does to the record of those who are overwritten.
LEMMA SaveOutdates ==
    ASSUME TypeInv, PageInv, NEW r \in {"changes", "full"}, Save(r)
    PROVE  LET item == Head(run[r].items)
               e == item.who
               new == Merged(run[r].read, item)
           IN  /\ \A x \in Employees : x # e => (x \in outdated' <=> x \in outdated)
               /\ outdated' \subseteq outdated \cup {e}
               /\ e \notin outdated' =>
                    /\ ~(row[e].at > item.at)
                    /\ row[e] = run[r].read \/ new.facts = HubOf(log, e, item.at)
                    /\ e \notin outdated \/ (/\ new.facts = HubOf(log, e, item.at)
                                             /\ CoversOf(log, e, item.at, Cursor))
<1> DEFINE item == Head(run[r].items)
           e == item.who
           new == Merged(run[r].read, item)
           worse == row[e].at > item.at \/ (row[e] # run[r].read /\ new.facts # HubOf(log, e, item.at))
           better == new.facts = HubOf(log, e, item.at) /\ CoversOf(log, e, item.at, Cursor)
<1>1. new.at = item.at
  BY DEF Merged
<1>2. outdated' = IF worse THEN outdated \cup {e} ELSE IF better THEN outdated \ {e} ELSE outdated
  BY <1>1, HubIs DEF Save, Covers, CoversOf
<1>3. e \in Employees
  BY SaveDoes
<1> HIDE DEF item, worse, better
<1>4. /\ \A x \in Employees : x # e => (x \in outdated' <=> x \in outdated)
      /\ outdated' \subseteq outdated \cup {e}
      /\ e \notin outdated' => ~worse /\ (e \notin outdated \/ better)
  BY <1>2
<1> QED
  BY <1>4 DEF item, worse, better

\* What a save of the run of changes makes of a row that was as it had been read.
LEMMA ToldNext ==
    ASSUME IInv, NEW e \in Employees, NEW p \in 1..Len(log), p - 1 = Reached, log[p].who = e,
           CurrentOf(e), row[e].at <= p, NEW f \in Fields
    PROVE  \E k \in p..Len(log) :
              Get(Updated(row[e].facts, log[p].set), f) = Get(HubOf(log, e, k), f)
<1>a. TypeInv /\ PageInv
  BY InvParts
<1>1. /\ log \in Seq(Entries) /\ Len(log) \in Nat /\ p \in p..Len(log) /\ p - 1 \in 0..Len(log)
      /\ row[e].at \in 0..Len(log)
  BY <1>a, PageTypes DEF TypeInv
<1>2. HubOf(log, e, p) = Updated(HubOf(log, e, p - 1), log[p].set)
  BY <1>1, HubSteps DEF AfterEntry
<1>3. CASE f \in DOMAIN log[p].set
  <2>1. Get(Updated(row[e].facts, log[p].set), f) = Get(HubOf(log, e, p), f)
    BY <1>2, <1>3, UpdatedGet
  <2> QED
    BY <1>1, <2>1
<1>4. CASE f \notin DOMAIN log[p].set
  <2>1. PICK n \in row[e].at..Len(log) : Get(row[e].facts, f) = Get(HubOf(log, e, n), f)
    BY DEF CurrentOf, Told
  <2>2. Get(Updated(row[e].facts, log[p].set), f) = Get(HubOf(log, e, n), f)
    BY <1>4, <2>1, UpdatedGet
  <2>3. CASE n >= p
    <3>1. n \in p..Len(log)
      BY <1>1, <2>1, <2>3
    <3> QED
      BY <2>2, <3>1
  <2>4. CASE ~(n >= p)
    <3> DEFINE at == row[e].at
    <3>1. n \in at..(p - 1) /\ p - 1 \in at..Len(log) /\ p - 1 \in at..(p - 1)
      BY <1>1, <2>1, <2>4
    <3>2. \A i \in 1..(p - 1) : log[i].who = e => i <= at
      BY DEF CurrentOf, CoversOf
    <3>3. at \in 0..Len(log)
      BY <1>1
    <3> HIDE DEF at
    <3>4. \A k \in at..(p - 1) : HubOf(log, e, k) = HubOf(log, e, at)
      BY <1>1, <3>1, <3>2, <3>3, HubStays
    <3>5. HubOf(log, e, n) = HubOf(log, e, p - 1)
      BY <3>1, <3>4
    <3>6. Get(HubOf(log, e, p), f) = Get(HubOf(log, e, p - 1), f)
      BY <1>2, <1>4, UpdatedGet
    <3> QED
      BY <1>1, <2>2, <3>5, <3>6
  <2> QED
    BY <2>3, <2>4
<1> QED
  BY <1>3, <1>4

\* Whole sets replace all facts.
LEMMA ToldListed ==
    ASSUME NEW facts, NEW set \in Whole, NEW f \in Fields
    PROVE  Get(Updated(facts, set), f) = Get(set, f)
  BY UpdatedGet, WholeFacts

\* The row that a save writes.
LEMMA SaveWhole ==
    ASSUME IInv, NEW r \in {"changes", "full"}, Save(r)
    PROVE  /\ Merged(run[r].read, Head(run[r].items)).facts \in Whole
           /\ WholeInv'
<1> DEFINE item == Head(run[r].items)
           e == item.who
           new == Merged(run[r].read, item)
<1>a. TypeInv /\ PageInv /\ WholeInv
  BY InvParts
<1>1. /\ \A q \in Runs : q # r => run'[q] = run[q]
      /\ run[r].step = "save" /\ item \in Items /\ e \in Employees
      /\ row'[e] = new /\ \A x \in Employees : x # e => row'[x] = row[x]
      /\ run'[r].step = "apply"
  BY <1>a, SaveDoes
<1>2. log' = log
  BY DEF Save
<1>3. new.facts \in Whole
  <2>1. /\ run[r].read.facts \in FactSets
        /\ run[r].read.facts \in Whole \/ item.set \in Whole
        /\ item.set \in Parts
    BY <1>1, <1>a, RunNames DEF WholeInv, Items
  <2>2. Updated(run[r].read.facts, item.set) \in Whole
    BY <2>1, UpdatedWhole
  <2> QED
    BY <2>2 DEF Merged
<1> HIDE DEF item, new
<1>4. WholeInv'
  <2>1. \A x \in Employees : row'[x].facts \in FactSets /\ (row'[x].facts = <<>> => row'[x] = NoRow)
    BY <1>1, <1>3, <1>a, WholeFacts DEF WholeInv, FactSets
  <2>2. \A q \in Runs : run'[q].step = "save" => q # r /\ run'[q] = run[q]
    BY <1>1
  <2>3. HiredFirst(log')
    BY <1>2, <1>a DEF WholeInv
  <2>4. \A q \in Runs : run'[q].step = "save" =>
           /\ run'[q].read.facts \in FactSets
           /\ run'[q].read.facts \in Whole \/ Head(run'[q].items).set \in Whole
    BY <1>a, <2>2 DEF WholeInv
  <2> QED
    BY <2>1, <2>3, <2>4 DEF WholeInv
<1> QED
  BY <1>3, <1>4 DEF item, new

LEMMA SaveRows ==
    ASSUME IInv, NEW r \in {"changes", "full"}, Save(r),
           LET item == Head(run[r].items) IN item.at # 0 => log[item.at].who = item.who
    PROVE  RowInv'
<1> DEFINE item == Head(run[r].items)
           e == item.who
           new == Merged(run[r].read, item)
<1>a. TypeInv /\ PageInv /\ RowInv
  BY InvParts
<1>1. /\ e \in Employees /\ row'[e] = new /\ \A x \in Employees : x # e => row'[x] = row[x]
  BY <1>a, SaveDoes
<1>2. log' = log
  BY DEF Save
<1>3. new.facts \in Whole /\ new.at = item.at
  BY SaveWhole DEF Merged
<1>4. outdated' \subseteq outdated \cup {e} /\ outdated \subseteq Employees
  BY <1>a, SaveOutdates DEF TypeInv
<1> HIDE DEF new, e
<1>5. \A x \in Employees : row'[x].at # 0 => log'[row'[x].at].who = x
  BY <1>1, <1>2, <1>3, <1>a DEF RowInv, e
<1>6. \A x \in outdated' : row'[x].facts \in Whole
  BY <1>1, <1>3, <1>4, <1>a DEF RowInv
<1> QED
  BY <1>5, <1>6 DEF RowInv

LEMMA SaveFullKeeps ==
    ASSUME IInv, Save("full")
    PROVE  DataInv'
<1> DEFINE c == run["full"]
           item == Head(c.items)
           e == item.who
           at == item.at
           new == Merged(c.read, item)
<1>a. TypeInv /\ PageInv /\ CurrentInv /\ ListedInv
  BY InvParts
<1>1. /\ run'["changes"] = run["changes"]
      /\ c.step = "save" /\ c.items # <<>> /\ item \in Items /\ e \in Employees
      /\ row'[e] = new /\ \A x \in Employees : x # e => row'[x] = row[x]
      /\ run'["full"].items = Tail(c.items)
  BY <1>a, SaveDoes, RunNames
<1>2. UNCHANGED <<log, state>>
  BY DEF Save
<1>3. InPage("full")
  BY <1>1 DEF InPage
<1>4. /\ item.set \in Whole
      /\ \E k \in at..Len(log) : item.set = HubOf(log, e, k)
      /\ at # 0 => log[at].who = e
      /\ row[e].at <= at => CoversOf(log, e, at, Cursor) /\ CoversOf(log, e, at, Reached)
  BY <1>1, <1>3, <1>a DEF ListedInv
<1>5. at \in 0..Len(log)
  BY <1>1, <1>3, <1>a, ItemInLog
<1>6. Cursor' = Cursor /\ Reached' = Reached
  BY <1>1, <1>2, ReachedFrame
<1>7. row[e].at \in Nat /\ Cursor \in Nat /\ Reached \in Nat /\ Len(log) \in Nat
  BY <1>1, <1>a, PageTypes
<1>8. /\ outdated' \subseteq outdated \cup {e}
      /\ \A x \in Employees : x # e => (x \in outdated' <=> x \in outdated)
      /\ e \notin outdated' =>
           /\ ~(row[e].at > at)
           /\ row[e] = c.read \/ new.facts = HubOf(log, e, at)
           /\ e \notin outdated \/ (new.facts = HubOf(log, e, at) /\ CoversOf(log, e, at, Cursor))
  BY <1>a, SaveOutdates
<1>9. new.at = at /\ new.facts = Updated(c.read.facts, item.set)
  BY DEF Merged
<1> HIDE DEF new
<1>10. RowInv'
  BY <1>4, SaveRows
<1>11. WholeInv'
  BY SaveWhole
<1>12. ListedInv'
  <2>1. Len(c.items) <= 1 /\ Len(c.items) \in Nat \ {0} /\ Len(Tail(c.items)) = Len(c.items) - 1
        /\ Tail(c.items) \in Seq(Items)
    BY <1>1, <1>3, <1>a, InHand, RunNames DEF PageInv, FullPage
  <2>2. \A m, n : n \in Nat \ {0} /\ n <= 1 /\ m = n - 1 => m = 0
    OBVIOUS
  <2> HIDE DEF c
  <2>3. Len(Tail(c.items)) = 0
    BY <2>1, <2>2
  <2>4. Tail(c.items) = <<>>
    BY <2>1, <2>3, EmptySeq
  <2> QED
    BY <1>1, <2>4 DEF ListedInv
<1>13. ASSUME NEW x \in Employees, x \notin outdated'
       PROVE  CurrentOf(x)'
  <2>1. CASE x # e
    <3>1. CurrentOf(x) /\ row'[x] = row[x]
      BY <1>1, <1>8, <1>13, <1>a, <2>1 DEF CurrentInv
    <3> QED
      BY <1>2, <1>6, <3>1 DEF CurrentOf, Told
  <2>2. CASE x = e
    <3> HIDE DEF item, e, at
    <3>1. row[e].at <= at /\ (e \notin outdated => CurrentOf(e))
      BY <1>1, <1>5, <1>7, <1>8, <1>13, <1>a, <2>2 DEF CurrentInv
    <3>2. CoversOf(log, e, at, Cursor) /\ CoversOf(log, e, at, Reached)
      BY <1>4, <3>1
    <3>3. ASSUME NEW f \in Fields
          PROVE  \E k \in at..Len(log) : Get(new.facts, f) = Get(HubOf(log, e, k), f)
      BY <1>4, <1>9, <3>3, ToldListed
    <3> QED
      BY <1>1, <1>2, <1>6, <1>9, <2>2, <3>2, <3>3 DEF CurrentOf, Told
  <2> QED
    BY <2>1, <2>2
<1>14. CurrentInv'
  BY <1>13 DEF CurrentInv
<1> QED
  BY <1>10, <1>11, <1>12, <1>14 DEF DataInv

LEMMA SaveChangesKeeps ==
    ASSUME IInv, Save("changes")
    PROVE  DataInv'
<1> DEFINE c == run["changes"]
           item == Head(c.items)
           e == item.who
           p == Reached + 1
           new == Merged(c.read, item)
<1>a. TypeInv /\ PageInv /\ CurrentInv /\ ListedInv
  BY InvParts
<1>1. /\ run'["full"] = run["full"] /\ \A q \in Runs : q # "changes" => run'[q] = run[q]
      /\ c.step = "save" /\ c.items # <<>> /\ item \in Items /\ e \in Employees
      /\ row'[e] = new /\ \A x \in Employees : x # e => row'[x] = row[x]
      /\ run'["changes"].step = "apply" /\ run'["changes"].items = Tail(c.items)
      /\ run'["changes"].pos = c.pos /\ run'["changes"].next = c.next
  BY <1>a, SaveDoes, RunNames
<1>2. UNCHANGED <<log, state>>
  BY DEF Save
<1>3. InPage("changes") /\ InPage("changes")'
  BY <1>1 DEF InPage
<1>4. /\ Reached \in Nat /\ p \in 1..Len(log) /\ p - 1 = Reached /\ item = Item(log[p].who, log[p].set, p)
      /\ item.at = p /\ log[p].who = e /\ item.set = log[p].set
  BY <1>1, <1>3, <1>a, NextEntry DEF Item
<1>5. Cursor' = Cursor /\ Reached' = p
  BY <1>1, <1>2, <1>3, <1>a, PageTail, ReachedOut
<1>6. /\ Cursor \in Nat /\ Len(log) \in Nat
      /\ \A x \in Employees : row[x].at \in Nat
  BY <1>a, PageTypes
<1>7. /\ outdated' \subseteq outdated \cup {e}
      /\ \A x \in Employees : x # e => (x \in outdated' <=> x \in outdated)
      /\ e \notin outdated' =>
           /\ ~(row[e].at > p)
           /\ row[e] = c.read \/ new.facts = HubOf(log, e, p)
           /\ e \notin outdated \/ (new.facts = HubOf(log, e, p) /\ CoversOf(log, e, p, Cursor))
  BY <1>4, <1>a, SaveOutdates
<1>8. new.at = p /\ new.facts = Updated(c.read.facts, log[p].set)
  BY <1>4 DEF Merged
<1>9. RowInv'
  BY <1>4, SaveRows
<1>10. WholeInv'
  BY SaveWhole
<1>b. ASSUME NEW x
      PROVE  /\ CoversOf(log, x, p, p)
             /\ \A at \in Nat : CoversOf(log, x, at, Reached) /\ x # e => CoversOf(log, x, at, p)
  <2>1. CoversOf(log, x, p, p)
    BY <1>4 DEF CoversOf
  <2>2. ASSUME NEW at \in Nat, CoversOf(log, x, at, Reached), x # e PROVE CoversOf(log, x, at, p)
    BY <1>4, <2>2, CoversNext
  <2> QED
    BY <2>1, <2>2
<1>c. run["changes"].step = "save" /\ Head(run["changes"].items) = item
  BY <1>1
<1>d. p \in Nat
  BY <1>4
<1> HIDE DEF new, item, e, p, c
<1>11. ASSUME NEW x \in Employees, x \notin outdated'
       PROVE  CurrentOf(x)'
  <2>1. CASE x # e
    <3>1. CurrentOf(x) /\ row'[x] = row[x]
      BY <1>1, <1>7, <1>11, <1>a, <2>1 DEF CurrentInv
    <3>2. CoversOf(log, x, row[x].at, p)
      BY <1>6, <1>b, <2>1, <3>1 DEF CurrentOf
    <3> QED
      BY <1>2, <1>5, <3>1, <3>2 DEF CurrentOf, Told
  <2>2. CASE x = e
    <3>1. row[e].at <= p /\ (e \notin outdated => CurrentOf(e))
      BY <1>1, <1>4, <1>6, <1>7, <1>11, <1>a, <2>2 DEF CurrentInv
    <3>2. CoversOf(log, e, p, Cursor)
      <4>1. CASE e \notin outdated
        BY <1>1, <1>4, <1>6, <3>1, <4>1, CoversMore DEF CurrentOf
      <4> QED
        BY <1>7, <1>11, <2>2, <4>1
    <3>3. ASSUME NEW f \in Fields
          PROVE  \E k \in p..Len(log) : Get(new.facts, f) = Get(HubOf(log, e, k), f)
      <4>1. CASE new.facts = HubOf(log, e, p)
        <5>1. p \in p..Len(log)
          BY <1>4, <1>6
        <5> QED
          BY <4>1, <5>1
      <4>2. CASE new.facts # HubOf(log, e, p)
        <5>1. row[e] = c.read /\ CurrentOf(e)
          BY <1>7, <1>11, <2>2, <3>1, <4>2
        <5>2. \E k \in p..Len(log) :
                 Get(Updated(row[e].facts, log[p].set), f) = Get(HubOf(log, e, k), f)
          BY <1>1, <1>4, <3>1, <5>1, ToldNext
        <5> QED
          BY <1>8, <5>1, <5>2
      <4> QED
        BY <4>1, <4>2
    <3> QED
      BY <1>1, <1>2, <1>5, <1>8, <1>b, <2>2, <3>2, <3>3 DEF CurrentOf, Told
  <2> QED
    BY <2>1, <2>2
<1>12. CurrentInv'
  BY <1>11 DEF CurrentInv
<1>13. ListedInv'
  <2> SUFFICES ASSUME InPage("full"), run["full"].items # <<>>
               PROVE  LET it == Head(run["full"].items)
                          x  == it.who
                      IN  /\ it.set \in Whole
                          /\ \E k \in it.at..Len(log) : it.set = HubOf(log, x, k)
                          /\ it.at # 0 => log[it.at].who = x
                          /\ row'[x].at <= it.at =>
                               CoversOf(log, x, it.at, Cursor) /\ CoversOf(log, x, it.at, p)
    BY <1>1, <1>2, <1>5, RunNames DEF ListedInv, InPage
  <2> DEFINE it == Head(run["full"].items)
             x  == it.who
  <2>1. /\ it.set \in Whole
        /\ \E k \in it.at..Len(log) : it.set = HubOf(log, x, k)
        /\ it.at # 0 => log[it.at].who = x
        /\ row[x].at <= it.at => CoversOf(log, x, it.at, Cursor) /\ CoversOf(log, x, it.at, Reached)
        /\ item.who = x => row[x].at <= it.at \/ row[x].at <= item.at
    BY <1>a, <1>c DEF ListedInv
  <2>2. it \in Items
    BY <1>a, InHand, RunNames
  <2> HIDE DEF it
  <2>3. it.at \in Nat /\ x \in Employees
    BY <2>2 DEF Items
  <2>4. ASSUME row'[x].at <= it.at
        PROVE  CoversOf(log, x, it.at, Cursor) /\ CoversOf(log, x, it.at, p)
    <3>1. CASE x # e
      BY <1>1, <1>b, <2>1, <2>3, <2>4, <3>1
    <3>2. CASE x = e
      <4>1. p <= it.at /\ row'[x].at = p
        BY <1>1, <1>8, <2>3, <2>4, <3>2
      <4>2. row[x].at <= it.at
        <5>1. item.who = x
          BY <3>2 DEF e
        <5>2. item.at = p /\ row[x].at \in Nat
          BY <1>4, <1>6, <2>3
        <5>3. row[x].at <= it.at \/ row[x].at <= p
          BY <2>1, <5>1, <5>2
        <5> QED
          BY <1>d, <2>3, <4>1, <5>2, <5>3
      <4>3. CoversOf(log, x, it.at, p)
        BY <1>b, <1>d, <2>3, <4>1, CoversMore
      <4> QED
        BY <2>1, <4>2, <4>3
    <3> QED
      BY <3>1, <3>2
  <2> QED
    BY <2>1, <2>4 DEF it
<1> QED
  BY <1>9, <1>10, <1>12, <1>13 DEF DataInv

\* Who is marked inactive is inactive at the Hub too, or counts as overwritten.
LEMMA MarkedIsTold ==
    ASSUME IInv, NEW e \in Employees \ outdated, row[e].facts \in Whole, row[e].facts["status"] = "active",
           Hub(e)["status"] # "active"
    PROVE  Get(HubOf(log, e, Len(log)), "status") = "inactive"
<1>a. TypeInv /\ PageInv /\ WholeInv /\ CurrentInv
  BY InvParts
<1>1. log \in Seq(Entries) /\ HiredFirst(log) /\ Len(log) \in Nat /\ row[e].at \in 0..Len(log)
  BY <1>a, PageTypes DEF TypeInv, WholeInv
<1>2. "status" \in Fields /\ Get(row[e].facts, "status") = "active"
  BY Fact, WholeFacts
<1>3. PICK k \in row[e].at..Len(log) : Get(HubOf(log, e, k), "status") = "active"
  BY <1>2, <1>a DEF CurrentInv, CurrentOf, Told
<1>4. k \in 0..Len(log) /\ Len(log) \in k..Len(log)
  BY <1>1, <1>3
<1>5. HubOf(log, e, k) # <<>>
  <2>1. Get(<<>>, "status") # "active"
    BY Nothing, DirectoryAssumption DEF Get
  <2> QED
    BY <1>3, <2>1
<1>6. HubOf(log, e, k) \in Whole
  BY <1>1, <1>4, <1>5, HubTyped DEF FactSets
<1>7. HubOf(log, e, Len(log)) \in Whole
  BY <1>1, <1>4, <1>6, HubHired
<1>8. HubOf(log, e, Len(log))["status"] \in {"active", "inactive"}
  BY <1>2, <1>7, WholeFacts, Fact
<1>9. Hub(e) = HubOf(log, e, Len(log))
  BY HubIs DEF Hub
<1> QED
  BY <1>2, <1>7, <1>8, <1>9, WholeFacts

LEMMA MarkMissingKeeps ==
    ASSUME IInv, MarkMissing
    PROVE  DataInv'
<1> DEFINE missing == Missing(run["full"].changed)
<1>a. TypeInv /\ PageInv /\ WholeInv /\ CurrentInv /\ ListedInv /\ RowInv
  BY InvParts
<1>1. /\ \A q \in Runs : q # "full" => run'[q] = run[q]
      /\ missing \in SUBSET Employees
      /\ \A e \in missing :
           /\ row[e].facts \in Whole /\ row[e].facts["status"] = "active"
           /\ row'[e].facts \in Whole /\ row'[e].at = row[e].at
           /\ row'[e].facts["status"] = "inactive"
           /\ \A f \in Fields \ {"status"} : row'[e].facts[f] = row[e].facts[f]
      /\ \A e \in Employees \ missing : row'[e] = row[e]
      /\ run'["full"].step = "reconcile"
  BY <1>a, MarkMissingDoes
<1>2. log' = log /\ state' = state
      /\ outdated' = outdated \cup {e \in missing : Hub(e)["status"] = "active"}
  BY DEF MarkMissing
<1> HIDE DEF missing
<1>3. run'["changes"] = run["changes"] /\ ~InPage("full")'
  BY <1>1, RunNames DEF InPage
<1>4. Cursor' = Cursor /\ Reached' = Reached
  BY <1>2, <1>3, ReachedFrame
<1>5. \A e \in Employees : row'[e].at = row[e].at
  BY <1>1
<1>6. WholeInv'
  <2>1. \A e \in Employees : row'[e].facts \in FactSets /\ (row'[e].facts = <<>> => row'[e] = NoRow)
    BY <1>1, <1>a, Nothing DEF WholeInv, FactSets
  <2>2. \A r \in Runs : run'[r].step = "save" => r # "full" /\ run'[r] = run[r]
    BY <1>1
  <2>3. \A r \in Runs : run'[r].step = "save" =>
           /\ run'[r].read.facts \in FactSets
           /\ run'[r].read.facts \in Whole \/ Head(run'[r].items).set \in Whole
    BY <1>a, <2>2 DEF WholeInv
  <2> QED
    BY <1>2, <1>a, <2>1, <2>3 DEF WholeInv
<1>7. ListedInv'
  BY <1>3 DEF ListedInv
<1>8. RowInv'
  BY <1>1, <1>2, <1>a DEF RowInv, TypeInv
<1>9. CurrentInv'
  <2> SUFFICES ASSUME NEW e \in Employees, e \notin outdated' PROVE CurrentOf(e)'
    BY DEF CurrentInv
  <2>1. CurrentOf(e)
    BY <1>2, <1>a DEF CurrentInv
  <2>2. CASE e \notin missing
    BY <1>1, <1>2, <1>4, <2>1, <2>2 DEF CurrentOf, Told
  <2>3. CASE e \in missing
    <3>1. Hub(e)["status"] # "active" /\ e \in Employees \ outdated
      BY <1>2, <2>3
    <3>2. Get(HubOf(log, e, Len(log)), "status") = "inactive"
      BY <1>1, <2>3, <3>1, MarkedIsTold
    <3>3. Len(log) \in row[e].at..Len(log)
      BY <1>a, PageTypes
    <3>4. ASSUME NEW f \in Fields PROVE Told(e, f)'
      <4>1. CASE f = "status"
        <5>1. Get(row'[e].facts, f) = "inactive"
          BY <1>1, <2>3, <4>1, WholeFacts
        <5> QED
          BY <1>2, <1>5, <3>2, <3>3, <4>1, <5>1 DEF Told
      <4>2. CASE f # "status"
        <5>1. Get(row'[e].facts, f) = Get(row[e].facts, f)
          BY <1>1, <2>3, <4>2, WholeFacts
        <5> QED
          BY <1>2, <1>5, <2>1, <5>1 DEF CurrentOf, Told
      <4> QED
        BY <4>1, <4>2
    <3> QED
      BY <1>2, <1>4, <1>5, <2>1, <3>4 DEF CurrentOf
  <2> QED
    BY <2>2, <2>3
<1> QED
  BY <1>6, <1>7, <1>8, <1>9 DEF DataInv

-----------------------------------------------------------------------------
(***************************************************************************)
(* IInv holds, and what it says of SyncedIsCurrent.                        *)
(***************************************************************************)
LEMMA InitIInv == Init => IInv
<1> SUFFICES ASSUME Init PROVE IInv
  OBVIOUS
<1>1. /\ log = <<>> /\ row = [e \in Employees |-> Synced(e)] /\ state = <<>>
      /\ run = [r \in Runs |-> IdleRun] /\ sched = "asleep" /\ clock = 0 /\ asked = 0 /\ faults = 0
      /\ outdated = {} /\ unsettled = {} /\ calm = "no"
      /\ course = {e \in Employees : Wants(Synced(e))}
  BY DEF Init
<1>2. log \in Seq(Entries) /\ Len(log) = 0
  BY <1>1
<1>3. ASSUME NEW e \in Employees
      PROVE  /\ Synced(e) \in Rows /\ Synced(e).at = 0 /\ Synced(e).facts = FirstFacts[e]
             /\ FirstFacts[e] \in FactSets /\ (FirstFacts[e] = <<>> => Synced(e) = NoRow)
  <2>1. FirstFacts[e] \in FactSets
    BY FirstWhole
  <2>2. CASE FirstFacts[e] = <<>>
    BY <2>1, <2>2, RowTypes DEF Synced, NoRow
  <2>3. CASE FirstFacts[e] # <<>>
    <3>1. FirstFacts[e] \in Whole
      BY <2>1, <2>3 DEF FactSets
    <3>2. FirstFacts[e]["boss"] \in Employees \cup {None}
      BY <3>1, WholeFacts, Fact
    <3> QED
      BY <2>1, <2>3, <3>2, RowTypes DEF Synced, Rows
  <2> QED
    BY <2>2, <2>3
<1>4. /\ \A e \in Employees : row[e] = Synced(e)
      /\ \A r \in Runs : run[r] = IdleRun
  BY <1>1
<1>5. IdleRun.step = "idle" /\ IdleRun.who = None
  BY DEF IdleRun
<1> HIDE DEF Init
<1>6. TypeInv
  <2>1. row \in [Employees -> Rows] /\ run \in [Runs -> RunStates]
    BY <1>1, <1>3, IdleTypes
  <2> QED
    BY <1>1, <1>2, <2>1 DEF TypeInv
<1>7. Cursor = 0 /\ Reached = 0 /\ ~InPage("changes") /\ ~InPage("full")
  BY <1>1, <1>4, <1>5, RunNames DEF Cursor, Reached, Idle, InPage
<1>8. PageInv
  <2>1. run["changes"].pos = 0
    BY <1>4, RunNames DEF IdleRun
  <2>2. ChangesPage
    BY <1>2, <1>4, <1>5, <1>7, <2>1, RunNames DEF ChangesPage
  <2>3. FullPage
    BY <1>4, <1>5, <1>7, RunNames DEF FullPage
  <2>4. LocalInv
    BY <1>2, <1>3, <1>4, <1>5, RunNames DEF LocalInv
  <2> QED
    BY <2>2, <2>3, <2>4 DEF PageInv
<1>9. WholeInv
  <2>1. HiredFirst(log)
    BY <1>2 DEF HiredFirst
  <2> QED
    BY <1>3, <1>4, <1>5, <2>1 DEF WholeInv
<1>10. CurrentInv
  <2> SUFFICES ASSUME NEW e \in Employees PROVE CurrentOf(e)
    BY DEF CurrentInv
  <2>1. HubOf(log, e, 0) = FirstFacts[e]
    BY <1>2, HubSteps
  <2>2. row[e].at = 0 /\ row[e].facts = FirstFacts[e] /\ 0 \in 0..Len(log)
    BY <1>2, <1>3, <1>4
  <2>3. \A f \in Fields : Told(e, f)
    BY <2>1, <2>2 DEF Told
  <2> QED
    BY <1>7, <2>3 DEF CurrentOf, CoversOf
<1>11. ListedInv
  BY <1>7 DEF ListedInv
<1>12. RowInv
  BY <1>1, <1>3, <1>4 DEF RowInv
<1> QED
  BY <1>6, <1>8, <1>9, <1>10, <1>11, <1>12 DEF IInv, BaseInv

LEMMA NextIInv == IInv /\ [Next]_vars => IInv'
<1> SUFFICES ASSUME IInv, [Next]_vars PROVE IInv'
  OBVIOUS
<1>1. TypeInv' /\ PageInv'
  BY NextTypeInv, NextPageInv DEF IInv
<1>2. DataInv'
  <2>1. ASSUME NEW e \in Employees, Change(e) PROVE DataInv'
    BY <2>1, ChangeKeeps
  <2>2. CASE Quiet
    BY <2>2, QuietSteps
  <2>3. CASE FetchListed
    BY <2>3, FetchListedKeeps
  <2>4. CASE MarkMissing
    BY <2>4, MarkMissingKeeps
  <2>5. ASSUME NEW r \in {"changes", "full"}, Read(r) PROVE DataInv'
    <3>1. CASE r = "changes"
      BY <2>5, <3>1, ReadChangesKeeps
    <3>2. CASE r = "full"
      BY <2>5, <3>2, ReadFullKeeps
    <3> QED
      BY <3>1, <3>2
  <2>6. ASSUME NEW r \in {"changes", "full"}, Save(r) PROVE DataInv'
    <3>1. CASE r = "changes"
      BY <2>6, <3>1, SaveChangesKeeps
    <3>2. CASE r = "full"
      BY <2>6, <3>2, SaveFullKeeps
    <3> QED
      BY <3>1, <3>2
  <2> QED
    BY <2>1, <2>2, <2>3, <2>4, <2>5, <2>6 DEF Next, Quiet
<1> QED
  BY <1>1, <1>2 DEF IInv, BaseInv, DataInv

\* A row that is current has of each fact what the Hub says at the cursor or later.
LEMMA CurrentIsSynced == IInv => SyncedIsCurrent
<1> SUFFICES ASSUME IInv, NEW e \in Employees \ outdated, NEW f \in Fields
             PROVE  \E k \in Cursor..Len(log) : Get(row[e].facts, f) = Get(HubAt(e, k), f)
  BY DEF SyncedIsCurrent
<1>a. TypeInv /\ PageInv /\ CurrentInv
  BY InvParts
<1> DEFINE at == row[e].at
<1>1. log \in Seq(Entries) /\ Len(log) \in Nat /\ at \in 0..Len(log) /\ Cursor \in 0..Len(log)
  BY <1>a, PageTypes DEF TypeInv
<1>2. CoversOf(log, e, at, Cursor) /\ Told(e, f)
  BY <1>a DEF CurrentInv, CurrentOf
<1>3. PICK k \in at..Len(log) : Get(row[e].facts, f) = Get(HubOf(log, e, k), f)
  BY <1>2 DEF Told
<1> HIDE DEF at
<1>4. CASE k >= Cursor
  <2>1. k \in Cursor..Len(log)
    BY <1>1, <1>3, <1>4
  <2> QED
    BY <1>3, <2>1, HubIs
<1>5. CASE ~(k >= Cursor)
  <2>1. Cursor \in at..Len(log) /\ k \in at..Cursor /\ Cursor \in at..Cursor /\ Cursor \in Cursor..Len(log)
    BY <1>1, <1>3, <1>5
  <2>2. \A n \in at..Cursor : HubOf(log, e, n) = HubOf(log, e, at)
    BY <1>1, <1>2, <2>1, HubStays DEF CoversOf
  <2>3. HubOf(log, e, k) = HubOf(log, e, Cursor)
    BY <2>1, <2>2
  <2> QED
    BY <1>3, <2>1, <2>3, HubIs
<1> QED
  BY <1>4, <1>5

\* SyncedIsCurrent for any employees, any size of a page and any bounds: a run
\* that breaks off, a change applied twice and two imports at a time never leave
\* a row behind the cursor, unless it is counted as overwritten.
THEOREM FactsAreCurrent == Spec => []SyncedIsCurrent
<1>1. IInv => SyncedIsCurrent
  BY CurrentIsSynced
<1> QED
  BY <1>1, InitIInv, NextIInv, PTL DEF Spec

-----------------------------------------------------------------------------
(***************************************************************************)
(* Who holds the course.                                                   *)
(***************************************************************************)
Mismatch(e) == (e \in course) # Wants(row[e])
\* A row whose last change is still to come to the run of changes.
Owed(e) == row[e].at > Cursor /\ row[e].at > Reached

\* Who is not as the rule says is on a list, or his row will be written again.
SettledOf(e) == Mismatch(e) => \/ e \in unsettled \/ Owed(e)
                               \/ \E r \in Runs : e \in Left(r)
SettledInv == \A e \in Employees : SettledOf(e)

\* The day's run and its reconciliation exclude each other.
SchedInv ==
    /\ ~Idle("daily") => sched = "reconciling"
    /\ ~Idle("changes") /\ run["changes"].scheduled => sched = "syncing"
    /\ \A r \in Runs : Idle(r) => run[r].changed = {}

LEMMA OwedKept ==
    ASSUME IInv, NEW x \in Employees, Owed(x), row'[x].at = row[x].at,
           \/ Quiet \/ FetchListed \/ MarkMissing
           \/ \E e \in Employees : Change(e)
           \/ \E r \in {"changes", "full"} : Read(r) \/ (Save(r) /\ Head(run[r].items).who # x)
    PROVE  Owed(x)'
<1>a. TypeInv /\ PageInv /\ RowInv /\ WholeInv
  BY InvParts
<1>b. row[x].at \in Nat /\ Cursor \in Nat /\ Reached \in Nat
  BY <1>a, PageTypes
<1>1. CASE Quiet
  <2>1. NoFurther
    BY <1>1, QuietSteps
  <2> QED
    BY <1>b, <2>1 DEF Owed, NoFurther
<1>2. ASSUME run'["changes"] = run["changes"], state' = state PROVE Owed(x)'
  BY <1>2, ReachedFrame DEF Owed
<1>3. CASE FetchListed
  <2>1. run'["changes"] = run["changes"] /\ state' = state
    BY <1>3, <1>a, FetchListedDoes, RunNames DEF FetchListed, WholeInv
  <2> QED
    BY <1>2, <2>1
<1>4. CASE MarkMissing
  <2>1. run'["changes"] = run["changes"] /\ state' = state
    BY <1>4, <1>a, MarkMissingDoes, RunNames DEF MarkMissing
  <2> QED
    BY <1>2, <2>1
<1>5. ASSUME NEW e \in Employees, Change(e) PROVE Owed(x)'
  BY <1>2, <1>5 DEF Change
\* The run of changes goes past one entry.
<1>6. ASSUME InPage("changes"), run["changes"].items # <<>>, UNCHANGED <<log, state>>, InPage("changes")',
             run'["changes"].items = Tail(run["changes"].items),
             run'["changes"].pos = run["changes"].pos, run'["changes"].next = run["changes"].next,
             Head(run["changes"].items).who = x => Head(run["changes"].items).at < row[x].at
      PROVE  Owed(x)'
  <2>1. Reached' = Reached + 1 /\ Cursor' = Cursor
    BY <1>6, <1>a, PageTail, ReachedOut
  <2>2. Head(run["changes"].items).who = log[Reached + 1].who
        /\ Head(run["changes"].items).at = Reached + 1
    BY <1>6, <1>a, NextEntry DEF Item
  <2>3. row[x].at # 0 => log[row[x].at].who = x
    BY <1>a DEF RowInv
  <2> HIDE DEF RowInv
  <2>4. row[x].at # Reached + 1
    BY <1>6, <1>b, <2>2, <2>3 DEF Owed
  <2> QED
    BY <1>b, <2>1, <2>4 DEF Owed
<1>7. ASSUME NEW r \in {"changes", "full"}, Read(r) PROVE Owed(x)'
  <2>1. UNCHANGED <<log, state>>
    BY <1>7 DEF Read
  <2> DEFINE c == run[r]
             d == run'[r]
             item == Head(c.items)
  <2>2. /\ \A q \in Runs : q # r => run'[q] = run[q]
        /\ c.step = "apply" /\ c.items # <<>> /\ item \in Items
        /\ \/ /\ r = "changes" /\ item.at < row[item.who].at
              /\ d.step = "apply" /\ d.items = Tail(c.items)
           \/ d.step = "save" /\ d.items = c.items
        /\ d.pos = c.pos /\ d.next = c.next
    BY <1>7, <1>a, ReadDoes
  <2>3. CASE r = "full"
    BY <1>2, <2>1, <2>2, <2>3, RunNames
  <2>4. CASE r = "changes" /\ d.step = "apply"
    <3>1. InPage("changes") /\ InPage("changes")'
      BY <2>2, <2>4 DEF InPage
    <3>2. item.at < row[item.who].at /\ d.items = Tail(c.items)
      BY <2>2, <2>4
    <3> QED
      BY <1>6, <2>1, <2>2, <2>4, <3>1, <3>2
  <2>5. CASE r = "changes" /\ d.step = "save"
    <3>1. d.items = c.items
      BY <2>2, <2>5
    <3>2. Reached' = Reached /\ Cursor' = Cursor
      BY <2>1, <2>2, <2>5, <3>1, ReachedOut
    <3> QED
      BY <3>2 DEF Owed
  <2> QED
    BY <2>2, <2>3, <2>4, <2>5
<1>8. ASSUME NEW r \in {"changes", "full"}, Save(r), Head(run[r].items).who # x PROVE Owed(x)'
  <2>1. UNCHANGED <<log, state>>
    BY <1>8 DEF Save
  <2>2. /\ \A q \in Runs : q # r => run'[q] = run[q]
        /\ run[r].step = "save" /\ run[r].items # <<>>
        /\ run'[r].step = "apply" /\ run'[r].items = Tail(run[r].items)
        /\ run'[r].pos = run[r].pos /\ run'[r].next = run[r].next
    BY <1>8, <1>a, SaveDoes
  <2>3. CASE r = "full"
    BY <1>2, <2>1, <2>2, <2>3, RunNames
  <2>4. CASE r = "changes"
    <3>1. InPage("changes") /\ InPage("changes")'
      BY <2>2, <2>4 DEF InPage
    <3> QED
      BY <1>6, <1>8, <2>1, <2>2, <2>4, <3>1
  <2> QED
    BY <2>3, <2>4
<1> QED
  BY <1>1, <1>3, <1>4, <1>5, <1>7, <1>8

\* A run under way goes on.
LEMMA GoesOn ==
    ASSUME SchedInv, sched' = sched, NEW r \in Runs, \A q \in Runs : q # r => run'[q] = run[q],
           run[r].step # "idle", run'[r].step # "idle", run'[r].scheduled = run[r].scheduled
    PROVE  SchedInv'
  BY RunNames DEF SchedInv, Idle

LEMMA NoneLeft ==
    ASSUME PageInv, SchedInv, NEW r \in Runs, Idle(r)
    PROVE  Left(r) = {}
  BY DEF PageInv, LocalInv, SchedInv, Idle, Left

LEMMA LeftFrame ==
    ASSUME NEW r, run'[r] = run[r]
    PROVE  Left(r)' = Left(r)
  BY DEF Left

\* A step that writes neither facts nor courses, and forgets nobody.
LEMMA StaysSettled ==
    ASSUME IInv, SettledInv, course' = course, unsettled \subseteq unsettled',
           \A x \in Employees : row'[x].facts = row[x].facts,
           \A x \in Employees : Owed(x) => Owed(x)',
           \A r \in Runs : \A x \in Left(r) : x \in Left(r)' \/ x \in unsettled' \/ Owed(x)'
    PROVE  SettledInv'
<1> SUFFICES ASSUME NEW x \in Employees, Mismatch(x)'
             PROVE  x \in unsettled' \/ Owed(x)' \/ \E r \in Runs : x \in Left(r)'
  BY DEF SettledInv, SettledOf
<1>1. Mismatch(x)
  BY DEF Mismatch, Wants, Active
<1>2. x \in unsettled \/ Owed(x) \/ \E r \in Runs : x \in Left(r)
  BY <1>1 DEF SettledInv, SettledOf
<1> QED
  BY <1>2

FollowInv == SchedInv /\ SettledInv

LEMMA StartsFollow ==
    ASSUME IInv, FollowInv, AskChanges \/ AskFull \/ Due
    PROVE  FollowInv'
<1>a. TypeInv /\ PageInv /\ SchedInv /\ SettledInv
  BY InvParts DEF FollowInv
<1>1. PICK r \in {"changes", "full"}, pos \in {0, Cursor}, scheduled \in BOOLEAN :
         /\ Start(r, pos, scheduled)
         /\ sched' = IF scheduled THEN "syncing" ELSE sched
         /\ scheduled => r = "changes" /\ sched = "due"
  <2>1. CASE AskChanges
    BY <2>1 DEF AskChanges
  <2>2. CASE AskFull
    BY <2>2 DEF AskFull
  <2>3. CASE Due
    BY <2>3 DEF Due
  <2> QED
    BY <2>1, <2>2, <2>3
<1>2. UNCHANGED <<row, course, unsettled>> /\ Quiet
  BY DEF AskChanges, AskFull, Due, Quiet
<1>3. pos \in Nat /\ r \in Runs
  BY <1>a, PageTypes, RunNames
<1>4. /\ Idle(r) /\ run'[r].step = "fetch" /\ run'[r].scheduled = scheduled
      /\ run'[r].changed = {}
      /\ \A q \in Runs : q # r => run'[q] = run[q]
  <2>1. CASE scheduled = TRUE
    <3>1. Start(r, pos, TRUE)
      BY <1>1, <2>1
    <3> QED
      BY <1>a, <1>3, <2>1, <3>1, StartDoes
  <2>2. CASE scheduled = FALSE
    <3>1. Start(r, pos, FALSE)
      BY <1>1, <2>2
    <3> QED
      BY <1>a, <1>3, <2>2, <3>1, StartDoes
  <2> QED
    BY <2>1, <2>2
<1>5. SchedInv'
  BY <1>a, <1>1, <1>4, RunNames DEF SchedInv, Idle
<1>6. SettledInv'
  <2>1. \A q \in Runs : Left(q) = {} \/ Left(q)' = Left(q)
    BY <1>a, <1>3, <1>4, NoneLeft, LeftFrame
  <2>2. \A x \in Employees : Owed(x) => Owed(x)'
    BY <1>2, OwedKept
  <2> QED
    BY <1>a, <1>2, <2>1, <2>2, StaysSettled
<1> QED
  BY <1>5, <1>6 DEF FollowInv

\* A run goes on, writing neither facts nor courses.
LEMMA WalksFollow ==
    ASSUME IInv, FollowInv,
           \/ FetchChanges \/ FetchListed
           \/ \E r \in {"changes", "full"} : Read(r) \/ EndPage(r) \/ Managers(r)
           \/ \E r \in Runs, e \in Employees : Reconcile(r, e)
    PROVE  FollowInv'
<1>a. TypeInv /\ PageInv /\ WholeInv /\ SchedInv /\ SettledInv
  BY InvParts DEF FollowInv
<1>b. {"changes", "full"} \subseteq Runs
  BY RunNames
<1>1. UNCHANGED <<course, unsettled, sched>>
  BY DEF FetchChanges, FetchListed, Read, EndPage, Managers, Reconcile
<1>2. \A x \in Employees : row'[x].facts = row[x].facts /\ row'[x].at = row[x].at
  <2>1. ASSUME NEW r \in {"changes", "full"}, Managers(r)
        PROVE  \A x \in Employees : row'[x].facts = row[x].facts /\ row'[x].at = row[x].at
    BY <1>a, <2>1, ManagersDoes
  <2> QED
    BY <2>1 DEF FetchChanges, FetchListed, Read, EndPage, Reconcile
<1>3. \A x \in Employees : Owed(x) => Owed(x)'
  <2>1. \/ Quiet \/ FetchListed \/ MarkMissing
        \/ \E e \in Employees : Change(e)
        \/ \E r \in {"changes", "full"} : Read(r)
    BY DEF Quiet
  <2> QED
    BY <1>2, <2>1, OwedKept
<1> DEFINE Walks(r) ==
             /\ r \in Runs
             /\ \A q \in Runs : q # r => run'[q] = run[q]
             /\ run[r].step # "idle" /\ run'[r].step # "idle"
             /\ run'[r].scheduled = run[r].scheduled
             /\ Left(r)' = Left(r)
<1>4. \E r \in Runs : Walks(r)
  <2>1. CASE FetchChanges
    <3>1. /\ \A q \in Runs : q # "changes" => run'[q] = run[q]
          /\ run["changes"].step = "fetch" /\ run'["changes"].step = "apply"
          /\ run'["changes"].scheduled = run["changes"].scheduled
          /\ run'["changes"].changed = run["changes"].changed /\ run'["changes"].who = run["changes"].who
      BY <1>a, <2>1, FetchChangesDoes
    <3> QED
      BY <1>b, <3>1 DEF Left
  <2>2. CASE FetchListed
    <3>1. /\ \A q \in Runs : q # "full" => run'[q] = run[q]
          /\ run["full"].step = "fetch" /\ run'["full"].step = "apply"
          /\ run'["full"].scheduled = run["full"].scheduled
          /\ run'["full"].changed = run["full"].changed /\ run'["full"].who = run["full"].who
      BY <1>a, <2>2, FetchListedDoes DEF WholeInv
    <3> QED
      BY <1>b, <3>1 DEF Left
  <2>3. ASSUME NEW r \in {"changes", "full"}, Read(r) PROVE Walks(r)
    <3>1. /\ \A q \in Runs : q # r => run'[q] = run[q]
          /\ run[r].step = "apply" /\ run'[r].step \in {"apply", "save"}
          /\ run'[r].scheduled = run[r].scheduled
          /\ run'[r].changed = run[r].changed /\ run'[r].who = run[r].who
      BY <1>a, <2>3, ReadDoes
    <3> QED
      BY <1>b, <3>1 DEF Left
  <2>4. ASSUME NEW r \in {"changes", "full"}, EndPage(r) PROVE Walks(r)
    <3>1. /\ \A q \in Runs : q # r => run'[q] = run[q]
          /\ run[r].step = "apply" /\ run'[r].step \in {"fetch", "managers"}
          /\ run'[r].scheduled = run[r].scheduled
          /\ run'[r].changed = run[r].changed /\ run'[r].who = run[r].who
      BY <1>a, <2>4, EndPageDoes
    <3> QED
      BY <1>b, <3>1 DEF Left
  <2>5. ASSUME NEW r \in {"changes", "full"}, Managers(r) PROVE Walks(r)
    <3>1. /\ \A q \in Runs : q # r => run'[q] = run[q]
          /\ run[r].step = "managers" /\ run'[r].step = IF r = "full" THEN "missing" ELSE "reconcile"
          /\ r = "changes" => run'[r].todo = run[r].changed
          /\ run'[r].scheduled = run[r].scheduled
          /\ run'[r].changed = run[r].changed /\ run'[r].who = run[r].who
      BY <1>a, <2>5, ManagersDoes
    <3> QED
      BY <1>b, <3>1 DEF Left
  <2>6. ASSUME NEW r \in Runs, NEW e \in Employees, Reconcile(r, e) PROVE Walks(r)
    <3>1. /\ \A q \in Runs : q # r => run'[q] = run[q]
          /\ run[r].step = "reconcile" /\ run'[r].step = "give" /\ e \in run[r].todo
          /\ run'[r].todo = run[r].todo \ {e} /\ run'[r].who = e /\ run[r].who = None
          /\ run'[r].scheduled = run[r].scheduled
      BY <1>a, <2>6, ReconcileDoes
    <3>2. e # None
      BY RunNames
    <3>3. Left(r) = run[r].todo /\ Left(r)' = (run[r].todo \ {e}) \cup {e}
      BY <3>1, <3>2 DEF Left
    <3> QED
      BY <3>1, <3>3
  <2> QED
    BY <1>b, <2>1, <2>2, <2>3, <2>4, <2>5, <2>6
<1>5. PICK r \in Runs : Walks(r)
  BY <1>4
<1>6. SchedInv'
  BY <1>1, <1>5, <1>a, GoesOn
<1>7. \A q \in Runs : Left(q)' = Left(q)
  BY <1>5, LeftFrame
<1>8. SettledInv'
  BY <1>1, <1>2, <1>3, <1>7, <1>a, StaysSettled
<1> QED
  BY <1>6, <1>8 DEF FollowInv

LEMMA SaveFollows ==
    ASSUME IInv, FollowInv, NEW r \in {"changes", "full"}, Save(r)
    PROVE  FollowInv'
<1> DEFINE e == Head(run[r].items).who
<1>a. TypeInv /\ PageInv /\ SchedInv /\ SettledInv
  BY InvParts DEF FollowInv
<1>1. UNCHANGED <<course, unsettled, sched>>
  BY DEF Save
<1>2. /\ \A q \in Runs : q # r => run'[q] = run[q]
      /\ run[r].step = "save" /\ run'[r].step = "apply" /\ run'[r].scheduled = run[r].scheduled
      /\ run'[r].changed = run[r].changed \cup {e} /\ run'[r].who = run[r].who
      /\ \A x \in Employees : x # e => row'[x] = row[x]
      /\ r \in Runs
  BY <1>a, SaveDoes, RunNames
<1> HIDE DEF e
<1>3. SchedInv'
  BY <1>1, <1>2, <1>a, GoesOn
<1>4. Left(r)' = Left(r) \cup {e}
  BY <1>2 DEF Left
<1>5. SettledInv'
  <2> SUFFICES ASSUME NEW x \in Employees, Mismatch(x)'
               PROVE  x \in unsettled' \/ Owed(x)' \/ \E q \in Runs : x \in Left(q)'
    BY DEF SettledInv, SettledOf
  <2>1. CASE x = e
    BY <1>2, <1>4, <2>1
  <2>2. CASE x # e
    <3>1. row'[x] = row[x]
      BY <1>2, <2>2
    <3>2. Mismatch(x)
      BY <1>1, <3>1 DEF Mismatch
    <3>3. x \in unsettled \/ Owed(x) \/ \E q \in Runs : x \in Left(q)
      BY <1>a, <3>2 DEF SettledInv, SettledOf
    <3>4. Owed(x) => Owed(x)'
      BY <2>2, <3>1, OwedKept DEF e
    <3>5. \A q \in Runs : Left(q) \subseteq Left(q)'
      BY <1>2, <1>4, LeftFrame
    <3> QED
      BY <1>1, <3>3, <3>4, <3>5
  <2> QED
    BY <2>1, <2>2
<1> QED
  BY <1>3, <1>5 DEF FollowInv

LEMMA MarkMissingFollows ==
    ASSUME IInv, FollowInv, MarkMissing
    PROVE  FollowInv'
<1> DEFINE missing == Missing(run["full"].changed)
<1>a. TypeInv /\ PageInv /\ WholeInv /\ SchedInv /\ SettledInv
  BY InvParts DEF FollowInv
<1>1. UNCHANGED <<course, unsettled, sched>>
  BY DEF MarkMissing
<1>2. /\ \A q \in Runs : q # "full" => run'[q] = run[q]
      /\ run["full"].step = "missing" /\ run'["full"].step = "reconcile"
      /\ run'["full"].todo = run["full"].changed \cup missing /\ run'["full"].who = run["full"].who
      /\ run'["full"].scheduled = run["full"].scheduled
      /\ \A x \in missing : row'[x].at = row[x].at
      /\ \A x \in Employees \ missing : row'[x] = row[x]
      /\ "full" \in Runs
  BY <1>a, MarkMissingDoes, RunNames
<1> HIDE DEF missing
<1>3. SchedInv'
  BY <1>1, <1>2, <1>a, GoesOn
<1>4. Left("full")' = Left("full") \cup missing
  BY <1>2 DEF Left
<1>5. SettledInv'
  <2> SUFFICES ASSUME NEW x \in Employees, Mismatch(x)'
               PROVE  x \in unsettled' \/ Owed(x)' \/ \E q \in Runs : x \in Left(q)'
    BY DEF SettledInv, SettledOf
  <2>1. CASE x \in missing
    BY <1>2, <1>4, <2>1
  <2>2. CASE x \notin missing
    <3>1. row'[x] = row[x]
      BY <1>2, <2>2
    <3>2. Mismatch(x)
      BY <1>1, <3>1 DEF Mismatch
    <3>3. x \in unsettled \/ Owed(x) \/ \E q \in Runs : x \in Left(q)
      BY <1>a, <3>2 DEF SettledInv, SettledOf
    <3>4. Owed(x) => Owed(x)'
      BY <3>1, OwedKept
    <3>5. \A q \in Runs : Left(q) \subseteq Left(q)'
      BY <1>2, <1>4, LeftFrame
    <3> QED
      BY <1>1, <3>3, <3>4, <3>5
  <2> QED
    BY <2>1, <2>2
<1> QED
  BY <1>3, <1>5 DEF FollowInv

LEMMA GiveFollows ==
    ASSUME IInv, FollowInv, NEW r \in Runs, Give(r)
    PROVE  FollowInv'
<1> DEFINE e == run[r].who
<1>a. TypeInv /\ PageInv /\ SchedInv /\ SettledInv
  BY InvParts DEF FollowInv
<1>1. UNCHANGED <<row, sched>> /\ Quiet
  BY DEF Give, Quiet
<1>2. /\ \A q \in Runs : q # r => run'[q] = run[q]
      /\ run[r].step = "give" /\ e \in Employees /\ run'[r].step = "reconcile"
      /\ (\A x \in Employees : x # e => (x \in course' <=> x \in course))
      /\ (e \in course' <=> Wants(run[r].read))
      /\ unsettled' = (IF run[r].read = row[e] THEN unsettled \ {e} ELSE unsettled \cup {e})
      /\ run'[r].todo = run[r].todo /\ run'[r].who = None /\ run'[r].scheduled = run[r].scheduled
  BY <1>a, GiveDoes
<1> HIDE DEF e
<1>3. SchedInv'
  BY <1>1, <1>2, <1>a, GoesOn
<1>4. Left(r) \subseteq Left(r)' \cup {e}
  BY <1>2 DEF Left, e
<1>5. SettledInv'
  <2> SUFFICES ASSUME NEW x \in Employees, Mismatch(x)'
               PROVE  x \in unsettled' \/ Owed(x)' \/ \E q \in Runs : x \in Left(q)'
    BY DEF SettledInv, SettledOf
  <2>1. CASE x = e
    <3>1. CASE run[r].read = row[e]
      <4>1. x \in course' <=> Wants(row'[x])
        BY <1>1, <1>2, <2>1, <3>1
      <4> QED
        BY <4>1 DEF Mismatch, Wants, Active
    <3>2. CASE run[r].read # row[e]
      BY <1>2, <2>1, <3>2
    <3> QED
      BY <3>1, <3>2
  <2>2. CASE x # e
    <3>2. Mismatch(x)
      BY <1>1, <1>2, <2>2 DEF Mismatch
    <3>3. x \in unsettled \/ Owed(x) \/ \E q \in Runs : x \in Left(q)
      BY <1>a, <3>2 DEF SettledInv, SettledOf
    <3>4. Owed(x) => Owed(x)'
      BY <1>1, OwedKept
    <3>5. \A q \in Runs : Left(q) \subseteq Left(q)' \cup {e}
      BY <1>2, <1>4, LeftFrame
    <3>6. x \in unsettled => x \in unsettled'
      BY <1>2, <2>2
    <3> QED
      BY <2>2, <3>3, <3>4, <3>5, <3>6
  <2> QED
    BY <2>1, <2>2
<1> QED
  BY <1>3, <1>5 DEF FollowInv

\* A run ends: who was left out by it is on the list.
LEMMA EndsFollow ==
    ASSUME IInv, FollowInv, NEW r \in Runs, Succeed(r) \/ Fail(r)
    PROVE  FollowInv'
<1>a. TypeInv /\ PageInv /\ SchedInv /\ SettledInv
  BY InvParts DEF FollowInv
<1>1. UNCHANGED <<row, course>> /\ Quiet /\ ~Idle(r)
  BY DEF Succeed, Fail, Quiet, Idle
<1>2. PICK mood : Ended(r, mood)
  BY DEF Succeed, Fail
<1> DEFINE daily == r = "changes" /\ run[r].scheduled
<1>3. /\ sched' = IF daily THEN "reconciling" ELSE IF r = "daily" THEN "asleep" ELSE sched
      /\ run'[r] = IdleRun
      /\ \A q \in Runs : q \notin {r, "daily"} => run'[q] = run[q]
      /\ ~daily /\ r # "daily" => run'["daily"] = run["daily"]
      /\ daily => run'["daily"].step = "reconcile" /\ run'["daily"].changed = {}
  BY <1>2, <1>a, EndedDoes
<1>4. daily => Idle("daily") /\ sched = "syncing"
  BY <1>1, <1>a DEF SchedInv
<1>5. SchedInv'
  BY <1>1, <1>3, <1>a, RunNames, IdleFields DEF SchedInv, Idle
<1>6. unsettled \subseteq unsettled' /\ Left(r) \subseteq unsettled'
  <2>1. CASE Fail(r)
    BY <2>1 DEF Fail
  <2>2. CASE Succeed(r)
    <3>1. run[r].step = "reconcile" /\ run[r].todo = {} /\ unsettled' = unsettled
      BY <2>2 DEF Succeed
    <3>2. run[r].who = None
      BY <1>a, <3>1 DEF PageInv, LocalInv
    <3> QED
      BY <3>1, <3>2 DEF Left
  <2> QED
    BY <2>1, <2>2
<1>7. \A q \in Runs : q = r \/ Left(q) = {} \/ Left(q)' = Left(q)
  <2> SUFFICES ASSUME NEW q \in Runs, q # r PROVE Left(q) = {} \/ Left(q)' = Left(q)
    OBVIOUS
  <2>1. CASE q = "daily" /\ daily
    BY <1>4, <1>a, <2>1, NoneLeft
  <2>2. CASE ~(q = "daily" /\ daily)
    BY <1>3, <2>2, LeftFrame
  <2> QED
    BY <2>1, <2>2
<1>8. SettledInv'
  <2>1. \A x \in Employees : Owed(x) => Owed(x)'
    BY <1>1, OwedKept
  <2> QED
    BY <1>1, <1>6, <1>7, <1>a, <2>1, StaysSettled
<1> QED
  BY <1>5, <1>8 DEF FollowInv

LEMMA CrashFollows ==
    ASSUME IInv, FollowInv, Crash
    PROVE  FollowInv'
<1>a. TypeInv /\ PageInv /\ SchedInv /\ SettledInv
  BY InvParts DEF FollowInv
<1>1. UNCHANGED <<row, course, state>> /\ Quiet
  BY DEF Crash, Quiet
<1>2. /\ \A r \in Runs : run'[r] = IdleRun
      /\ unsettled' = unsettled \cup Left("full") \cup Left("daily")
                        \cup {e \in Left("changes") : row[e].at <= Cursor}
  BY <1>a, CrashDoes
<1>3. SchedInv'
  BY <1>2, RunNames, IdleFields DEF SchedInv, Idle
<1>4. Cursor' = Cursor /\ Reached' = Cursor
  BY <1>1, <1>2, RunNames, IdleFields, ReachedOut
<1>5. ASSUME NEW x \in Left("changes") PROVE x \in unsettled' \/ Owed(x)'
  <2>1. x \in Employees
    <3>1. run["changes"].changed \subseteq Employees /\ run["changes"].todo \subseteq Employees
          /\ run["changes"].who \in Employees \cup {None}
      BY <1>a, PageTypes, RunNames DEF RunStates
    <3> QED
      BY <3>1 DEF Left
  <2>2. row[x].at \in Nat /\ Cursor \in Nat
    BY <1>a, <2>1, PageTypes
  <2>3. CASE row[x].at <= Cursor
    BY <1>2, <2>3
  <2>4. CASE ~(row[x].at <= Cursor)
    BY <1>1, <1>4, <2>2, <2>4 DEF Owed
  <2> QED
    BY <2>3, <2>4
<1>6. \A r \in Runs : \A x \in Left(r) : x \in unsettled' \/ Owed(x)'
  BY <1>2, <1>5, RunNames
<1>7. \A x \in Employees : Owed(x) => Owed(x)'
  BY <1>1, OwedKept
<1>8. SettledInv'
  BY <1>1, <1>2, <1>6, <1>7, <1>a, StaysSettled
<1> QED
  BY <1>3, <1>8 DEF FollowInv

LEMMA InitFollowInv == Init => FollowInv
<1> SUFFICES ASSUME Init PROVE FollowInv
  OBVIOUS
<1>1. \A r \in Runs : run[r] = IdleRun
  BY DEF Init
<1>2. SchedInv
  BY <1>1, RunNames, IdleFields DEF SchedInv, Idle
<1>3. ASSUME NEW e \in Employees PROVE ~Mismatch(e)
  <2>1. row[e] = Synced(e) /\ course = {x \in Employees : Wants(Synced(x))}
    BY DEF Init
  <2>2. e \in course <=> Wants(row[e])
    BY <2>1
  <2> QED
    BY <2>2 DEF Mismatch, Wants, Active
<1> QED
  BY <1>2, <1>3 DEF FollowInv, SettledInv, SettledOf

LEMMA NextFollowInv == IInv /\ FollowInv /\ [Next]_vars => FollowInv'
<1> SUFFICES ASSUME IInv, FollowInv, [Next]_vars PROVE FollowInv'
  OBVIOUS
<1>a. SchedInv /\ SettledInv
  BY DEF FollowInv
<1>1. ASSUME \/ \E e \in Employees : Change(e)
             \/ Tick \/ Boot \/ UNCHANGED vars
      PROVE  FollowInv'
  <2>1. UNCHANGED <<row, course, run, unsettled>>
    BY <1>1 DEF Change, Tick, Boot, vars
  <2>2. sched' = sched \/ sched \in {"asleep", "down"}
    BY <1>1 DEF Change, Tick, Boot, vars
  <2>3. SchedInv'
    BY <1>a, <2>1, <2>2 DEF SchedInv, Idle
  <2>4. \A x \in Employees : Owed(x) => Owed(x)'
    BY <1>1, <2>1, OwedKept DEF Quiet
  <2>5. \A r \in Runs : Left(r)' = Left(r)
    BY <2>1, LeftFrame
  <2>6. SettledInv'
    BY <1>a, <2>1, <2>4, <2>5, StaysSettled
  <2> QED
    BY <2>3, <2>6 DEF FollowInv
<1>2. CASE AskChanges \/ AskFull \/ Due
  BY <1>2, StartsFollow
<1>3. CASE \/ FetchChanges \/ FetchListed
           \/ \E r \in {"changes", "full"} : Read(r) \/ EndPage(r) \/ Managers(r)
           \/ \E r \in Runs, e \in Employees : Reconcile(r, e)
  BY <1>3, WalksFollow
<1>4. ASSUME NEW r \in {"changes", "full"}, Save(r) PROVE FollowInv'
  BY <1>4, SaveFollows
<1>5. CASE MarkMissing
  BY <1>5, MarkMissingFollows
<1>6. ASSUME NEW r \in Runs, Give(r) PROVE FollowInv'
  BY <1>6, GiveFollows
<1>7. ASSUME NEW r \in Runs, Succeed(r) \/ Fail(r) PROVE FollowInv'
  BY <1>7, EndsFollow
<1>8. CASE Crash
  BY <1>8, CrashFollows
<1> QED
  BY <1>1, <1>2, <1>3, <1>4, <1>5, <1>6, <1>7, <1>8 DEF Next

-----------------------------------------------------------------------------
(***************************************************************************)
(* The day's work, undisturbed: the run of changes, then the               *)
(* reconciliation of everyone who is active.                               *)
(***************************************************************************)
NoneAhead(k) == \A e \in Employees : row[e].at <= k
Syncing ==
    LET c == run["changes"] IN
    /\ ~Idle("changes") /\ c.scheduled /\ Idle("full") /\ Idle("daily")
    /\ InPage("changes") /\ ~c.more => NoneAhead(c.next)
    /\ c.step \in {"managers", "reconcile", "give"} => NoneAhead(c.pos)
Reconciling ==
    /\ Idle("changes") /\ Idle("full") /\ ~Idle("daily") /\ NoneAhead(Cursor)
    /\ \A e \in Employees : Active(row[e]) /\ Mismatch(e) => e \in Left("daily")
    /\ run["daily"].step = "give" => run["daily"].read = row[run["daily"].who]
Rested ==
    /\ \A r \in Runs : Idle(r)
    /\ NoneAhead(Cursor)
    /\ \A e \in Employees : Active(row[e]) => ~Mismatch(e)
CalmInv ==
    /\ calm = "maybe" => Syncing \/ Reconciling
    /\ calm = "yes" => Rested

LEMMA Restless ==
    ASSUME TypeInv, CalmInv, NEW r \in Runs, ~Idle(r)
    PROVE  /\ calm \in {"no", "maybe"}
           /\ r = "full" => calm = "no"
           /\ r = "changes" /\ calm = "maybe" => Syncing
           /\ r = "daily" /\ calm = "maybe" => Reconciling
  BY DEF CalmInv, TypeInv, Syncing, Reconciling, Rested

LEMMA CalmFull ==
    ASSUME IInv, CalmInv,
           \/ FetchListed \/ MarkMissing
           \/ Read("full") \/ Save("full") \/ EndPage("full") \/ Managers("full")
           \/ Give("full") \/ Succeed("full") \/ \E e \in Employees : Reconcile("full", e)
    PROVE  CalmInv'
<1>1. ~Idle("full")
  BY DEF FetchListed, MarkMissing, Read, Save, EndPage, Managers, Give, Succeed, Reconcile, Idle
<1>2. calm = "no"
  BY <1>1, Restless, InvParts, RunNames
<1>3. calm' = calm
  <2>1. CASE Succeed("full")
    BY <1>2, <2>1 DEF Succeed, Ended
  <2> QED
    BY <2>1 DEF FetchListed, MarkMissing, Read, Save, EndPage, Managers, Give, Reconcile
<1> QED
  BY <1>2, <1>3 DEF CalmInv

LEMMA CalmStarts ==
    ASSUME IInv, CalmInv, \/ AskChanges \/ AskFull \/ Due \/ Crash
                          \/ \E r \in Runs : Fail(r)
    PROVE  CalmInv'
<1>a. TypeInv /\ PageInv
  BY InvParts
<1>1. CASE AskChanges \/ AskFull \/ Crash \/ \E r \in Runs : Fail(r)
  <2>1. calm' = "no"
    BY <1>1 DEF AskChanges, AskFull, Crash, Fail, Start, Ended
  <2> QED
    BY <2>1 DEF CalmInv
<1>2. CASE Due
  <2>1. Start("changes", Cursor, TRUE)
    BY <1>2 DEF Due
  <2>2. calm' = IF \A r \in Runs : Idle(r) THEN "maybe" ELSE "no"
    BY <2>1 DEF Start
  <2>3. Cursor \in Nat
    BY <1>a, PageTypes
  <2>4. /\ run'["changes"].step = "fetch" /\ run'["changes"].scheduled = TRUE
        /\ \A q \in Runs : q # "changes" => run'[q] = run[q]
    BY <1>a, <2>1, <2>3, RunNames, StartDoes
  <2>5. calm' = "maybe" => Syncing'
    BY <2>2, <2>4, RunNames DEF Syncing, Idle, InPage
  <2> QED
    BY <2>2, <2>5 DEF CalmInv
<1> QED
  BY <1>1, <1>2

LEMMA CalmChanges ==
    ASSUME IInv, CalmInv,
           \/ FetchChanges
           \/ Read("changes") \/ Save("changes") \/ EndPage("changes") \/ Managers("changes")
           \/ Give("changes") \/ \E e \in Employees : Reconcile("changes", e)
    PROVE  CalmInv'
<1>a. TypeInv /\ PageInv /\ WholeInv /\ CalmInv
  BY InvParts
<1>b. "changes" \in Runs /\ "full" \in Runs /\ "daily" \in Runs
  BY RunNames
<1>c. /\ Len(log) \in Nat /\ NoneAhead(Len(log))
      /\ run["changes"].pos \in Nat /\ run["changes"].next \in Nat
      /\ \A e \in Employees : row[e].at \in Nat
  BY <1>a, <1>b, PageTypes DEF NoneAhead, RunStates
<1>1. calm' = calm /\ ~Idle("changes")
  BY DEF FetchChanges, Read, Save, EndPage, Managers, Give, Reconcile, Idle
<1>2. calm \in {"no", "maybe"}
  BY <1>1, <1>a, <1>b, Restless
<1> SUFFICES ASSUME calm = "maybe" PROVE Syncing'
  BY <1>1, <1>2 DEF CalmInv
<1> DEFINE c == run["changes"]
           d == run'["changes"]
<1>3. Syncing
  BY <1>1, <1>a, <1>b, Restless
\* What is left to show of each step.
<1>4. ASSUME \A q \in Runs : q # "changes" => run'[q] = run[q],
             d.step # "idle", d.scheduled = c.scheduled,
             InPage("changes")' /\ ~d.more => \A e \in Employees : row'[e].at <= d.next,
             d.step \in {"managers", "reconcile", "give"} => \A e \in Employees : row'[e].at <= d.pos
      PROVE  Syncing'
  BY <1>3, <1>4, <1>b DEF Syncing, Idle, NoneAhead
<1>5. CASE FetchChanges
  <2>1. /\ \A q \in Runs : q # "changes" => run'[q] = run[q]
        /\ d.step = "apply" /\ (~d.more => d.next = Len(log)) /\ d.scheduled = c.scheduled
    BY <1>a, <1>5, FetchChangesDoes
  <2>2. row' = row
    BY <1>5 DEF FetchChanges
  <2> QED
    BY <1>4, <1>c, <2>1, <2>2 DEF NoneAhead
<1>6. CASE Read("changes")
  <2>1. /\ \A q \in Runs : q # "changes" => run'[q] = run[q]
        /\ c.step = "apply" /\ d.step \in {"apply", "save"}
        /\ d.next = c.next /\ d.more = c.more /\ d.scheduled = c.scheduled
    BY <1>a, <1>6, ReadDoes
  <2>2. row' = row
    BY <1>6 DEF Read
  <2> QED
    BY <1>3, <1>4, <2>1, <2>2 DEF Syncing, InPage, NoneAhead
<1>7. CASE Save("changes")
  <2> DEFINE item == Head(c.items)
  <2>1. /\ \A q \in Runs : q # "changes" => run'[q] = run[q]
        /\ c.step = "save" /\ c.items # <<>> /\ d.step = "apply"
        /\ d.next = c.next /\ d.more = c.more /\ d.scheduled = c.scheduled
        /\ item.who \in Employees
        /\ row'[item.who] = Merged(c.read, item)
        /\ \A x \in Employees : x # item.who => row'[x] = row[x]
    BY <1>a, <1>7, SaveDoes
  <2>2. item.at <= c.next
    <3>1. InPage("changes") /\ Len(c.items) \in Nat \ {0}
      BY <1>a, <1>b, <2>1, InHand DEF InPage
    <3>2. Reached = c.next - Len(c.items)
      BY <2>1, ReachedOut
    <3>3. item.at = Reached + 1
      BY <1>a, <2>1, <3>1, NextEntry DEF Item
    <3> QED
      BY <1>c, <3>1, <3>2, <3>3
  <2>3. Merged(c.read, item).at = item.at
    BY DEF Merged
  <2> HIDE DEF item
  <2>4. ~c.more => \A e \in Employees : row[e].at <= c.next
    BY <1>3, <2>1 DEF Syncing, InPage, NoneAhead
  <2>5. ~c.more => \A e \in Employees : row'[e].at <= c.next
    BY <2>1, <2>2, <2>3, <2>4
  <2> QED
    BY <1>4, <2>1, <2>5
<1>8. CASE EndPage("changes")
  <2>1. /\ \A q \in Runs : q # "changes" => run'[q] = run[q]
        /\ c.step = "apply" /\ d.step = (IF c.more THEN "fetch" ELSE "managers")
        /\ d.pos = c.next /\ d.scheduled = c.scheduled
    BY <1>a, <1>8, EndPageDoes
  <2>2. row' = row
    BY <1>8 DEF EndPage
  <2> QED
    BY <1>3, <1>4, <2>1, <2>2 DEF Syncing, InPage, NoneAhead
<1>9. CASE Managers("changes")
  <2>1. /\ \A q \in Runs : q # "changes" => run'[q] = run[q]
        /\ c.step = "managers" /\ d.step = "reconcile"
        /\ d.pos = c.pos /\ d.scheduled = c.scheduled
        /\ \A e \in Employees : row'[e].at = row[e].at
    BY <1>a, <1>9, ManagersDoes
  <2> QED
    BY <1>3, <1>4, <2>1 DEF Syncing, InPage, NoneAhead
<1>10. CASE Give("changes")
  <2>1. /\ \A q \in Runs : q # "changes" => run'[q] = run[q]
        /\ c.step = "give" /\ d.step = "reconcile"
        /\ d.pos = c.pos /\ d.scheduled = c.scheduled
    BY <1>a, <1>b, <1>10, GiveDoes
  <2>2. row' = row
    BY <1>10 DEF Give
  <2> QED
    BY <1>3, <1>4, <2>1, <2>2 DEF Syncing, InPage, NoneAhead
<1>11. ASSUME NEW e \in Employees, Reconcile("changes", e) PROVE Syncing'
  <2>1. /\ \A q \in Runs : q # "changes" => run'[q] = run[q]
        /\ c.step = "reconcile" /\ d.step = "give"
        /\ d.pos = c.pos /\ d.scheduled = c.scheduled
    BY <1>a, <1>b, <1>11, ReconcileDoes
  <2>2. row' = row
    BY <1>11 DEF Reconcile
  <2> QED
    BY <1>3, <1>4, <2>1, <2>2 DEF Syncing, InPage, NoneAhead
<1> QED
  BY <1>5, <1>6, <1>7, <1>8, <1>9, <1>10, <1>11

LEMMA CalmChangesEnd ==
    ASSUME IInv, FollowInv, CalmInv, Succeed("changes")
    PROVE  CalmInv'
<1>a. TypeInv /\ PageInv /\ "changes" \in Runs
  BY InvParts, RunNames
<1> DEFINE c == run["changes"]
<1>1. /\ c.step = "reconcile" /\ state' = Recorded(c.pos, "success") /\ UNCHANGED <<row, course>>
      /\ Ended("changes", calm) /\ calm' = calm
  BY DEF Succeed, Ended
<1>2. calm \in {"no", "maybe"} /\ (calm = "maybe" => Syncing)
  BY <1>1, <1>a, Restless DEF Idle
<1> SUFFICES ASSUME calm = "maybe", Syncing PROVE Reconciling'
  BY <1>1, <1>2 DEF CalmInv
<1>3. c.scheduled /\ Idle("full") /\ NoneAhead(c.pos)
  BY <1>1 DEF Syncing
<1>4. /\ run'["changes"] = IdleRun /\ run'["full"] = run["full"]
      /\ run'["daily"].step = "reconcile" /\ run'["daily"].who = None
      /\ run'["daily"].todo = {e \in Employees : Active(row[e])}
  BY <1>1, <1>3, <1>a, EndedDoes, RunNames
<1>5. Cursor' = c.pos
  <2>1. c.pos \in Nat
    BY <1>a, PageTypes DEF RunStates
  <2>2. state' # <<>> /\ state'.cursor = c.pos
    BY <1>1, <1>a, <2>1, Recording
  <2> QED
    BY <2>2 DEF Cursor
<1>6. NoneAhead(Cursor)'
  BY <1>1, <1>3, <1>5 DEF NoneAhead
<1>7. \A e \in Employees : Active(row[e]) => e \in Left("daily")'
  BY <1>4, RunNames DEF Left
<1>8. Idle("changes")' /\ Idle("full")' /\ ~Idle("daily")' /\ run'["daily"].step # "give"
  BY <1>3, <1>4, IdleFields DEF Idle
<1> QED
  BY <1>1, <1>6, <1>7, <1>8 DEF Reconciling

LEMMA CalmDaily ==
    ASSUME IInv, FollowInv, CalmInv,
           Give("daily") \/ Succeed("daily") \/ \E e \in Employees : Reconcile("daily", e)
    PROVE  CalmInv'
<1>a. TypeInv /\ PageInv /\ "daily" \in Runs /\ "changes" \in Runs /\ "full" \in Runs
  BY InvParts, RunNames
<1> DEFINE c == run["daily"]
           d == run'["daily"]
<1>1. ~Idle("daily") /\ row' = row /\ state' = state
  BY DEF Give, Succeed, Reconcile, Idle
<1>2. calm \in {"no", "maybe"} /\ (calm = "maybe" => Reconciling)
  BY <1>1, <1>a, Restless
<1>c. Cursor' = Cursor
  BY <1>1 DEF Cursor
<1>3. CASE calm = "no"
  <2>1. calm' = "no"
    BY <1>3 DEF Give, Succeed, Reconcile, Ended
  <2> QED
    BY <2>1 DEF CalmInv
<1>4. CASE calm = "maybe"
  <2>a. Reconciling
    BY <1>2, <1>4
  <2>1. ASSUME calm' = "maybe", \A q \in Runs : q # "daily" => run'[q] = run[q],
               d.step \in {"reconcile", "give"}, d.step = "give" => d.read = row[d.who],
               \A e \in Employees : Active(row[e]) /\ Mismatch(e)' => e \in Left("daily")'
        PROVE  CalmInv'
    <3>1. Reconciling'
      BY <1>1, <1>a, <1>c, <2>a, <2>1 DEF Reconciling, Idle, NoneAhead
    <3> QED
      BY <2>1, <3>1 DEF CalmInv
  <2>2. ASSUME NEW e \in Employees, Reconcile("daily", e) PROVE CalmInv'
    <3>1. /\ \A q \in Runs : q # "daily" => run'[q] = run[q]
          /\ c.step = "reconcile" /\ c.who = None
          /\ d.step = "give" /\ d.who = e /\ d.read = row[e] /\ d.todo = c.todo \ {e}
      BY <1>a, <2>2, ReconcileDoes
    <3>2. calm' = "maybe" /\ course' = course
      BY <1>4, <2>2 DEF Reconcile
    <3>3. Left("daily") \subseteq Left("daily")'
      BY <3>1, RunNames DEF Left
    <3>4. \A x \in Employees : Active(row[x]) /\ Mismatch(x)' => x \in Left("daily")'
      BY <1>1, <2>a, <3>2, <3>3 DEF Reconciling, Mismatch
    <3> QED
      BY <2>1, <3>1, <3>2, <3>4
  <2>3. CASE Give("daily")
    <3>0. PICK e \in Employees : e = c.who
      BY <1>a, <2>3, GiveDoes
    <3>1. /\ \A q \in Runs : q # "daily" => run'[q] = run[q]
          /\ c.step = "give" /\ d.step = "reconcile" /\ d.who = None
          /\ \A x \in Employees : x # e => (x \in course' <=> x \in course)
          /\ e \in course' <=> Wants(c.read)
          /\ d.todo = c.todo
      BY <1>a, <2>3, <3>0, GiveDoes
    <3>2. calm' = "maybe"
      BY <1>4, <2>3 DEF Give
    <3>3. c.read = row[e]
      BY <2>a, <3>0, <3>1 DEF Reconciling
    <3>4. Left("daily") \subseteq Left("daily")' \cup {e}
      BY <3>0, <3>1 DEF Left
    <3>5. ~Mismatch(e)'
      <4>1. e \in course' <=> Wants(row'[e])
        BY <1>1, <3>1, <3>3
      <4> QED
        BY <4>1 DEF Mismatch, Wants, Active
    <3>6. \A x \in Employees : Active(row[x]) /\ Mismatch(x)' => x \in Left("daily")'
      <4> SUFFICES ASSUME NEW x \in Employees, Active(row[x]), Mismatch(x)', x # e
                   PROVE  x \in Left("daily")'
        BY <3>5
      <4>1. Mismatch(x)
        BY <1>1, <3>1 DEF Mismatch
      <4> QED
        BY <2>a, <3>4, <4>1 DEF Reconciling
    <3> QED
      BY <2>1, <3>1, <3>2, <3>6
  <2>4. CASE Succeed("daily")
    <3>1. c.step = "reconcile" /\ c.todo = {} /\ course' = course /\ Ended("daily", "yes")
      BY <1>4, <2>4 DEF Succeed
    <3>2. /\ calm' = "yes" /\ run'["daily"] = IdleRun
          /\ \A q \in Runs : q # "daily" => run'[q] = run[q]
      BY <1>a, <3>1, EndedDoes
    <3>3. c.who = None
      BY <1>a, <3>1 DEF PageInv, LocalInv
    <3>4. Left("daily") = {}
      BY <3>1, <3>3 DEF Left
    <3>5. \A x \in Employees : Active(row[x]) => ~Mismatch(x)
      BY <2>a, <3>4 DEF Reconciling
    <3>6. \A q \in Runs : Idle(q)'
      BY <2>a, <3>2, IdleFields, RunNames DEF Reconciling, Idle
    <3>7. Rested'
      BY <1>1, <1>c, <2>a, <3>1, <3>5, <3>6 DEF Rested, Reconciling, NoneAhead, Mismatch
    <3> QED
      BY <3>2, <3>7 DEF CalmInv
  <2> QED
    BY <2>2, <2>3, <2>4
<1> QED
  BY <1>2, <1>3, <1>4

LEMMA InitCalmInv == Init => CalmInv
  BY DEF Init, CalmInv

LEMMA NextCalmInv == IInv /\ FollowInv /\ CalmInv /\ [Next]_vars => CalmInv'
<1> SUFFICES ASSUME IInv, FollowInv, CalmInv, [Next]_vars PROVE CalmInv'
  OBVIOUS
<1>1. ASSUME \/ \E e \in Employees : Change(e)
             \/ Tick \/ Boot \/ UNCHANGED vars
      PROVE  CalmInv'
  <2>1. UNCHANGED <<row, course, run, state, calm>>
    BY <1>1 DEF Change, Tick, Boot, vars
  <2>2. Cursor' = Cursor
    BY <2>1 DEF Cursor
  <2>3. \A r \in Runs : Left(r)' = Left(r)
    BY <2>1, LeftFrame
  <2>4. Syncing' = Syncing
    BY <2>1 DEF Syncing, Idle, InPage, NoneAhead
  <2>5. Reconciling => Reconciling'
    BY <2>1, <2>2, <2>3, RunNames DEF Reconciling, Idle, NoneAhead, Mismatch
  <2>6. Rested => Rested'
    BY <2>1, <2>2 DEF Rested, Idle, NoneAhead, Mismatch
  <2> QED
    BY <2>1, <2>4, <2>5, <2>6 DEF CalmInv
<1>2. CASE AskChanges \/ AskFull \/ Due \/ Crash \/ \E r \in Runs : Fail(r)
  BY <1>2, CalmStarts
<1>3. CASE FetchChanges
  BY <1>3, CalmChanges
<1>4. CASE FetchListed \/ MarkMissing
  BY <1>4, CalmFull
<1>5. ASSUME NEW r \in {"changes", "full"}, Read(r) \/ Save(r) \/ EndPage(r) \/ Managers(r)
      PROVE  CalmInv'
  <2>1. CASE r = "changes"
    BY <1>5, <2>1, CalmChanges
  <2>2. CASE r = "full"
    BY <1>5, <2>2, CalmFull
  <2> QED
    BY <2>1, <2>2
<1>6. ASSUME NEW r \in Runs, Give(r) \/ Succeed(r) \/ \E e \in Employees : Reconcile(r, e)
      PROVE  CalmInv'
  <2>1. CASE r = "changes"
    BY <1>6, <2>1, CalmChanges, CalmChangesEnd
  <2>2. CASE r = "full"
    BY <1>6, <2>2, CalmFull
  <2>3. CASE r = "daily"
    BY <1>6, <2>3, CalmDaily
  <2> QED
    BY <2>1, <2>2, <2>3, RunNames
<1> QED
  BY <1>1, <1>2, <1>3, <1>4, <1>5, <1>6 DEF Next

LEMMA RestedFollows == IInv /\ FollowInv /\ CalmInv => CourseFollowsDirectory
<1> SUFFICES ASSUME IInv, FollowInv, CalmInv, calm = "yes", NEW e \in Employees, Mismatch(e)
             PROVE  ~Active(row[e]) /\ e \in unsettled
  BY DEF CourseFollowsDirectory, Mismatch
<1>a. TypeInv /\ PageInv /\ SchedInv
  BY InvParts DEF FollowInv
<1>1. Rested
  BY DEF CalmInv
<1>2. ~Active(row[e])
  BY <1>1 DEF Rested
<1>3. \A r \in Runs : Left(r) = {}
  BY <1>1, <1>a, NoneLeft DEF Rested
<1>4. row[e].at <= Cursor /\ row[e].at \in Nat /\ Cursor \in Nat
  BY <1>1, <1>a, PageTypes DEF Rested, NoneAhead
<1>5. ~Owed(e)
  BY <1>4 DEF Owed
<1> QED
  BY <1>2, <1>3, <1>5 DEF FollowInv, SettledInv, SettledOf

\* CourseFollowsDirectory for any employees, any size of a page and any bounds.
THEOREM CourseFollows == Spec => []CourseFollowsDirectory
<1>1. Init => IInv /\ FollowInv /\ CalmInv
  BY InitIInv, InitFollowInv, InitCalmInv
<1>2. IInv /\ FollowInv /\ CalmInv /\ [Next]_vars => (IInv /\ FollowInv /\ CalmInv)'
  BY NextIInv, NextFollowInv, NextCalmInv
<1> QED
  BY <1>1, <1>2, RestedFollows, PTL DEF Spec

\* The last success is not ahead of the clock.
StampInv == state # <<>> => state.last_success_at \in 0..clock \cup {None}

LEMMA NextStampInv == IInv /\ StampInv /\ [Next]_vars => StampInv'
<1> SUFFICES ASSUME IInv, StampInv, [Next]_vars PROVE StampInv'
  OBVIOUS
<1>a. TypeInv /\ PageInv /\ clock \in Nat
  BY InvParts DEF TypeInv
<1>1. state' = state \/ \E pos \in Nat, status \in {"success", "failed"} : state' = Recorded(pos, status)
  <2>1. ASSUME NEW r \in Runs, Succeed(r) \/ Fail(r)
        PROVE  state' = state \/ \E pos \in Nat, status \in {"success", "failed"} : state' = Recorded(pos, status)
    <3>1. run[r].pos \in Nat
      BY <1>a, PageTypes DEF RunStates
    <3> QED
      BY <2>1, <3>1 DEF Succeed, Fail
  <2> QED
    BY <2>1 DEF Next, vars, Change, AskChanges, AskFull, FetchChanges, FetchListed, MarkMissing, Read, Save,
                EndPage, Managers, Give, Reconcile, Tick, Due, Boot, Crash
<1>2. clock' \in {clock, clock + 1}
  BY DEF Next, vars, Change, AskChanges, AskFull, FetchChanges, FetchListed, MarkMissing, Read, Save,
         EndPage, Managers, Give, Reconcile, Tick, Due, Boot, Crash, Succeed, Fail
<1>3. CASE state' = state
  BY <1>2, <1>3, <1>a DEF StampInv
<1>4. ASSUME NEW pos \in Nat, NEW status \in {"success", "failed"}, state' = Recorded(pos, status)
      PROVE  StampInv'
  <2>1. state'.last_success_at = IF status = "success" THEN clock
                                 ELSE IF state = <<>> THEN None ELSE state.last_success_at
    BY <1>4 DEF Recorded
  <2>2. state'.last_success_at \in 0..clock \cup {None}
    BY <1>a, <2>1 DEF StampInv
  <2> QED
    BY <1>2, <1>a, <2>2 DEF StampInv
<1> QED
  BY <1>1, <1>3, <1>4

LEMMA TypesOK == IInv /\ StampInv => TypeOK
<1> SUFFICES ASSUME IInv, StampInv PROVE TypeOK
  OBVIOUS
<1>a. TypeInv /\ PageInv /\ WholeInv
  BY InvParts
<1>1. ASSUME NEW e \in Employees
      PROVE  /\ DOMAIN row[e].facts \in {{}, Fields} /\ row[e].at \in 0..Len(log)
             /\ row[e].mgr \in Employees \cup {None}
  <2>1. row[e].facts \in FactSets
    BY <1>a DEF WholeInv
  <2>2. DOMAIN row[e].facts \in {{}, Fields}
    BY <2>1, Nothing, WholeFacts DEF FactSets
  <2> QED
    BY <1>a, <2>2, PageTypes DEF Rows
<1>2. state = <<>> \/ /\ state.cursor \in 0..Len(log)
                      /\ state.last_status \in {"success", "failed"}
                      /\ state.last_success_at \in 0..clock \cup {None}
  <2> SUFFICES ASSUME state # <<>>
               PROVE  /\ state.cursor \in 0..Len(log)
                      /\ state.last_status \in {"success", "failed"}
                      /\ state.last_success_at \in 0..clock \cup {None}
    OBVIOUS
  <2>1. Cursor \in 0..Len(log) /\ Cursor = state.cursor
    BY <1>a, PageTypes DEF Cursor
  <2>2. state.last_status \in {"success", "failed"}
    BY <1>a DEF TypeInv, SyncStates
  <2> QED
    BY <2>1, <2>2 DEF StampInv
<1>3. \A r \in Runs : run[r].step \in RunSteps
  BY <1>a, PageTypes DEF RunStates
<1> QED
  BY <1>1, <1>2, <1>3, <1>a DEF TypeOK, TypeInv, RunSteps

THEOREM Types == Spec => []TypeOK
<1>1. Init => IInv /\ StampInv
  BY InitIInv DEF Init, StampInv
<1>2. IInv /\ StampInv /\ [Next]_vars => (IInv /\ StampInv)'
  BY NextIInv, NextStampInv
<1> QED
  BY <1>1, <1>2, TypesOK, PTL DEF Spec
=============================================================================

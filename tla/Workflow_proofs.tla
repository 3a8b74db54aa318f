--------------------------- MODULE Workflow_proofs ---------------------------
(***************************************************************************)
(* Proofs about Workflow, for any configurations, nested as deep as they   *)
(* may be, any messages, any answers of tools and model and any limits.    *)
(***************************************************************************)
EXTENDS Workflow, FiniteSetTheorems, WellFoundedInduction, TLAPS

-----------------------------------------------------------------------------
(* Sequences.                                                              *)

IsSeq(s) == s \in Seq(Range(s))

LEMMA SeqFacts ==
    ASSUME NEW s, IsSeq(s)
    PROVE  /\ Len(s) \in Nat /\ DOMAIN s = 1..Len(s) /\ s = [i \in 1..Len(s) |-> s[i]]
           /\ s # <<>> <=> Len(s) > 0
  BY DEF IsSeq

LEMMA MakesSeq ==
    ASSUME NEW s, NEW n \in Nat, s = [i \in 1..n |-> s[i]]
    PROVE  IsSeq(s) /\ Len(s) = n /\ DOMAIN s = 1..n
<1>1. s \in [1..n -> Range(s)] /\ DOMAIN s = 1..n
  BY DEF Range
<1>2. s \in Seq(Range(s))
  BY <1>1
<1>3. Len(s) = n
  BY <1>1, <1>2
<1> QED
  BY <1>1, <1>2, <1>3 DEF IsSeq

LEMMA SeqIsSeq ==
    ASSUME NEW S, NEW s \in Seq(S)
    PROVE  IsSeq(s)
<1>1. Len(s) \in Nat /\ s \in [1..Len(s) -> Range(s)]
  BY DEF Range
<1> QED
  BY <1>1 DEF IsSeq

LEMMA EmptyFacts ==
    ASSUME NEW s, s = <<>>
    PROVE  IsSeq(s) /\ Len(s) = 0 /\ DOMAIN s = 1..0
<1>1. PICK S : S = STRING
  OBVIOUS
<1>2. s \in Seq(S)
  OBVIOUS
<1>3. IsSeq(s)
  BY <1>2, SeqIsSeq
<1>4. Len(s) = 0
  OBVIOUS
<1>5. DOMAIN s = 1..0
  BY <1>3, <1>4, SeqFacts
<1> QED
  BY <1>3, <1>4, <1>5

\* r is s, of length n, with e at its end.
Appended(r, s, e, n) ==
    /\ IsSeq(r) /\ Len(r) = n + 1 /\ DOMAIN r = 1..(n + 1) /\ n \in Nat
    /\ r[n + 1] = e /\ \A i \in 1..n : r[i] = s[i]

LEMMA AppendFacts ==
    ASSUME NEW s, IsSeq(s), NEW e, NEW r, r = Append(s, e), NEW n, n = Len(s)
    PROVE  Appended(r, s, e, n)
<1>1. PICK S : s \in Seq(S) /\ e \in S
  <2>1. PICK T : s \in Seq(T)
    BY DEF IsSeq
  <2>2. s \in Seq(T \cup {e})
    BY <2>1
  <2> QED
    BY <2>2
<1>2. r \in Seq(S) /\ Len(r) = n + 1 /\ r[n + 1] = e /\ n \in Nat /\ \A i \in 1..n : r[i] = s[i]
  BY <1>1
<1>3. IsSeq(r)
  BY <1>2, SeqIsSeq
<1>4. DOMAIN r = 1..Len(r)
  BY <1>3, SeqFacts
<1> QED
  BY <1>2, <1>3, <1>4 DEF Appended

\* r is s, of length n, without its last element.
Fronted(r, s, n) ==
    /\ n \in Nat /\ n > 0 /\ n = Len(s) /\ IsSeq(r) /\ Len(r) = n - 1 /\ DOMAIN r = 1..(n - 1)
    /\ \A i \in 1..(n - 1) : r[i] = s[i]

LEMMA FrontFacts ==
    ASSUME NEW s, IsSeq(s), s # <<>>, NEW r, r = Front(s), NEW m, m = Len(s)
    PROVE  Fronted(r, s, m)
<1>1. PICK n \in Nat : n = Len(s) /\ n > 0
  BY SeqFacts
<1>2. n - 1 \in Nat /\ s \in Seq(Range(s))
  BY <1>1 DEF IsSeq
<1>3. r = SubSeq(s, 1, n - 1)
  BY <1>1 DEF Front
<1>4. Len(r) = n - 1 /\ DOMAIN r = 1..(n - 1) /\ \A i \in 1..(n - 1) : r[i] = s[i]
  BY <1>1, <1>2, <1>3
<1>5. r = [i \in 1..(n - 1) |-> r[i]]
  BY <1>1, <1>2, <1>3
<1>6. IsSeq(r)
  BY <1>2, <1>5, MakesSeq
<1> QED
  BY <1>1, <1>4, <1>6 DEF Fronted

\* r is s, of length n, with e as its element k.
Replaced(r, s, n, k, e) ==
    /\ n \in Nat /\ n = Len(s) /\ IsSeq(r) /\ Len(r) = n /\ DOMAIN r = 1..n /\ r[k] = e
    /\ \A i \in 1..n : i # k => r[i] = s[i]

LEMMA SetFacts ==
    ASSUME NEW s, IsSeq(s), NEW m, m = Len(s), NEW k \in 1..m, NEW e, NEW r, r = [s EXCEPT ![k] = e]
    PROVE  Replaced(r, s, m, k, e)
<1>1. PICK n \in Nat : n = Len(s)
  BY SeqFacts
<1>2. DOMAIN s = 1..n
  BY <1>1, SeqFacts
<1>3. r = [i \in 1..n |-> r[i]] /\ r[k] = e /\ \A i \in 1..n : i # k => r[i] = s[i]
  BY <1>1, <1>2
<1>4. IsSeq(r) /\ Len(r) = n /\ DOMAIN r = 1..n
  BY <1>3, MakesSeq
<1> QED
  BY <1>1, <1>3, <1>4 DEF Replaced

\* A set of naturals has a least element.
LEMMA LeastExists ==
    ASSUME NEW S, S \subseteq Nat, S # {}
    PROVE  \E x \in S : \A y \in S : x <= y
<1>1. PICK x \in S : \A y \in S : ~(<<y, x>> \in OpToRel(<, Nat))
  <2> HIDE DEF OpToRel
  <2> QED
    BY WFMin, NatLessThanWellFounded, Zenon
<1>2. \A y \in S : ~(y < x)
  BY <1>1 DEF OpToRel
<1> QED
  BY <1>2

LEMMA MinMember ==
    ASSUME NEW S, S \subseteq Nat, S # {}
    PROVE  Min(S) \in S /\ \A y \in S : Min(S) <= y
<1>1. PICK x \in S : \A y \in S : x <= y
  BY LeastExists
<1> QED
  BY <1>1 DEF Min

LEMMA MinOfTwo ==
    ASSUME NEW a \in Int, NEW b \in Int
    PROVE  Min({a, b}) \in {a, b} /\ Min({a, b}) <= a
<1>1. (IF a <= b THEN a ELSE b) \in {a, b} /\ \A y \in {a, b} : (IF a <= b THEN a ELSE b) <= y
  OBVIOUS
<1>2. Min({a, b}) \in {a, b} /\ \A y \in {a, b} : Min({a, b}) <= y
  BY <1>1 DEF Min
<1> QED
  BY <1>2

\* The largest of a set of numbers is the one that is none smaller than.
LEMMA MaxIs ==
    ASSUME NEW S, S \subseteq Int, NEW m \in S, \A x \in S : x <= m
    PROVE  Max(S) = m
<1>1. \E x \in S : \A y \in S : x >= y
  OBVIOUS
<1>2. Max(S) \in S /\ \A y \in S : Max(S) >= y
  BY <1>1 DEF Max
<1>3. Max(S) \in Int /\ m \in Int /\ Max(S) >= m /\ Max(S) <= m
  BY <1>2
<1> QED
  BY <1>3

LEMMA MaxMember ==
    ASSUME NEW S, S \subseteq Nat, S # {}, NEW n \in Nat, \A x \in S : x <= n
    PROVE  Max(S) \in S /\ \A y \in S : y <= Max(S)
<1>1. PICK U : U = {u \in Nat : \A x \in S : x <= u}
  OBVIOUS
<1>2. U \subseteq Nat /\ n \in U
  BY <1>1
<1>3. PICK u \in U : \A v \in U : u <= v
  BY <1>2, LeastExists
<1>4. u \in Nat /\ \A x \in S : x <= u
  BY <1>1
<1>5. u \in S
  <2>1. SUFFICES ASSUME u \notin S PROVE FALSE
    OBVIOUS
  <2>2. PICK x \in S : TRUE
    OBVIOUS
  <2>3. u > 0
    BY <1>4, <2>1, <2>2
  <2>4. \A y \in S : y <= u - 1
    BY <1>4, <2>1
  <2>5. u - 1 \in U
    BY <1>1, <1>4, <2>3, <2>4
  <2> QED
    BY <1>3, <1>4, <2>5
<1>6. Max(S) = u
  <2>1. S \subseteq Int
    OBVIOUS
  <2> QED
    BY <1>4, <1>5, <2>1, MaxIs
<1> QED
  BY <1>4, <1>5, <1>6

\* What a map is after With.
IsWith(r, m, k, v) ==
    /\ DOMAIN r = DOMAIN m \cup {k} /\ r[k] = v
    /\ \A x \in DOMAIN m : x # k => r[x] = m[x]

LEMMA WithFacts ==
    ASSUME NEW m, NEW k, NEW v, NEW r, r = With(m, k, v)
    PROVE  IsWith(r, m, k, v)
  BY DEF With, IsWith

-----------------------------------------------------------------------------
(* The configuration.                                                      *)

LevelFn(f, p, n) == f = [m \in 0..n |-> IF m = 0 THEN Range(p.steps) ELSE Nested(f[m - 1])]

LEMMA LevelsExist ==
    ASSUME NEW p, NEW n \in Nat
    PROVE  \E f : LevelFn(f, p, n)
<1>1. PICK S : S = {k \in Nat : ~\E f : LevelFn(f, p, k)}
  OBVIOUS
<1>2. SUFFICES ASSUME S # {} PROVE FALSE
  BY <1>1
<1>3. PICK k \in S : \A j \in S : k <= j
  BY <1>1, <1>2, LeastExists
<1>4. k \in Nat /\ ~\E f : LevelFn(f, p, k)
  BY <1>1
<1>5. CASE k = 0
  <2>1. PICK f : f = [m \in 0..k |-> Range(p.steps)]
    OBVIOUS
  <2>2. f = [m \in 0..k |-> IF m = 0 THEN Range(p.steps) ELSE Nested(f[m - 1])]
    BY <1>5, <2>1
  <2> QED
    BY <1>4, <2>2 DEF LevelFn
<1>6. CASE k > 0
  <2>1. k - 1 \in Nat /\ k - 1 \notin S
    BY <1>3, <1>4, <1>6
  <2>2. PICK g : LevelFn(g, p, k - 1)
    BY <1>1, <2>1
  <2>3. PICK f : f = [m \in 0..k |-> IF m = k THEN Nested(g[k - 1]) ELSE g[m]]
    OBVIOUS
  <2>4. ASSUME NEW m \in 0..k PROVE f[m] = IF m = 0 THEN Range(p.steps) ELSE Nested(f[m - 1])
    <3>1. CASE m = k
      BY <1>4, <1>6, <2>3, <3>1
    <3>2. CASE m # k /\ m # 0
      <4>1. m \in 0..(k - 1) /\ m - 1 \in 0..k /\ m - 1 # k
        BY <1>4, <1>6, <3>2
      <4>2. g[m] = Nested(g[m - 1])
        BY <2>2, <3>2, <4>1 DEF LevelFn
      <4>3. f[m] = g[m] /\ f[m - 1] = g[m - 1]
        BY <2>3, <3>2, <4>1
      <4> QED
        BY <3>2, <4>2, <4>3
    <3>3. CASE m = 0 /\ m # k
      <4>1. m \in 0..(k - 1)
        BY <1>4, <1>6, <3>3
      <4>2. g[m] = Range(p.steps)
        BY <2>2, <3>3, <4>1 DEF LevelFn
      <4> QED
        BY <2>3, <3>3, <4>2
    <3> QED
      BY <3>1, <3>2, <3>3
  <2>5. f = [m \in 0..k |-> IF m = 0 THEN Range(p.steps) ELSE Nested(f[m - 1])]
    BY <2>3, <2>4
  <2> QED
    BY <1>4, <2>5 DEF LevelFn
<1> QED
  BY <1>4, <1>5, <1>6

LEMMA LevelsAre ==
    ASSUME NEW p
    PROVE  LevelFn(Levels(p), p, MaxNesting)
<1>1. MaxNesting \in Nat
  BY WorkflowAssumption
<1>2. \E f : LevelFn(f, p, MaxNesting)
  BY <1>1, LevelsExist
<1>3. Levels(p) = CHOOSE f : LevelFn(f, p, MaxNesting)
  BY DEF Levels, LevelFn
<1> QED
  BY <1>2, <1>3

\* A step of a loop is one level deeper than the loop.
LEMMA LevelFacts ==
    ASSUME NEW p
    PROVE  /\ Levels(p)[0] = Range(p.steps)
           /\ \A n \in Nat : n + 1 <= MaxNesting => Levels(p)[n + 1] = Nested(Levels(p)[n])
           /\ \A n \in 0..MaxNesting : Levels(p)[n] \subseteq AllSteps(p)
<1>1. MaxNesting \in Nat
  BY WorkflowAssumption
<1>2. PICK f : f = Levels(p)
  OBVIOUS
<1>3. f = [m \in 0..MaxNesting |-> IF m = 0 THEN Range(p.steps) ELSE Nested(f[m - 1])]
  BY <1>2, LevelsAre DEF LevelFn
<1>4. f[0] = Range(p.steps)
  BY <1>1, <1>3
<1>5. ASSUME NEW n \in Nat, n + 1 <= MaxNesting PROVE f[n + 1] = Nested(f[n])
  <2>1. n + 1 \in 0..MaxNesting /\ n + 1 # 0 /\ (n + 1) - 1 = n
    BY <1>1, <1>5
  <2> QED
    BY <1>3, <2>1
<1> QED
  BY <1>2, <1>4, <1>5 DEF AllSteps

-----------------------------------------------------------------------------
(* Places: the order in which a run comes to them.                         *)

IsPair(e) == e = [iter |-> e.iter, nested |-> e.nested] /\ e.iter \in Nat /\ e.nested \in Nat
IsPlace(p) ==
    /\ p = [i |-> p.i, path |-> p.path] /\ p.i \in Nat
    /\ IsSeq(p.path) /\ \A d \in DOMAIN p.path : IsPair(p.path[d])

\* Iteration and nested step e come before f.
Lower(e, f) == e.iter < f.iter \/ (e.iter = f.iter /\ e.nested < f.nested)

\* The run has left p for good when it is at q.
Splits(p, q, d) ==
    /\ d \in DOMAIN p.path /\ d \in DOMAIN q.path
    /\ Lower(p.path[d], q.path[d])
    /\ \A e \in DOMAIN q.path : e < d => e \in DOMAIN p.path /\ p.path[e] = q.path[e]
Earlier(p, q) == p.i < q.i \/ (p.i = q.i /\ \E d \in DOMAIN q.path : Splits(p, q, d))

\* p is q or a place in the loop at q.
Within(p, q) ==
    p.i = q.i /\ \A e \in DOMAIN q.path : e \in DOMAIN p.path /\ p.path[e] = q.path[e]

\* The place of the loop that is d loops deep around q, counting q as the deepest.
Upto(q, d) == [i |-> q.i, path |-> [e \in 1..d |-> q.path[e]]]

LEMMA PlaceSeq ==
    ASSUME NEW p, IsPlace(p)
    PROVE  Len(p.path) \in Nat /\ DOMAIN p.path = 1..Len(p.path) /\ p.i \in Nat
  BY SeqFacts DEF IsPlace

LEMMA WithinItself == ASSUME NEW p PROVE Within(p, p)
  BY DEF Within

\* A place that was left is neither the present one nor in its loop.
LEMMA EarlierApart ==
    ASSUME NEW p, IsPlace(p), NEW q, IsPlace(q), Earlier(p, q)
    PROVE  ~Within(p, q) /\ p # q
<1>1. SUFFICES ASSUME Within(p, q) PROVE FALSE
  BY WithinItself
<1>2. PICK d \in DOMAIN q.path : Splits(p, q, d)
  BY <1>1 DEF Earlier, Within, IsPlace
<1>3. p.path[d] = q.path[d] /\ Lower(p.path[d], q.path[d])
  BY <1>1, <1>2 DEF Within, Splits
<1>4. IsPair(q.path[d])
  BY DEF IsPlace
<1> QED
  BY <1>3, <1>4 DEF Lower, IsPair

\* q is r with one place more: the first step of a loop at r.
OneDeeper(q, r) ==
    /\ q.i = r.i /\ Len(q.path) = Len(r.path) + 1
    /\ \A e \in DOMAIN r.path : q.path[e] = r.path[e]

LEMMA DeeperDomain ==
    ASSUME NEW q, IsPlace(q), NEW r, IsPlace(r), OneDeeper(q, r)
    PROVE  /\ DOMAIN r.path \subseteq DOMAIN q.path
           /\ DOMAIN q.path = DOMAIN r.path \cup {Len(r.path) + 1}
           /\ \A e \in DOMAIN r.path : e < Len(r.path) + 1
  BY PlaceSeq DEF OneDeeper

LEMMA EarlierDeeper ==
    ASSUME NEW p, IsPlace(p), NEW q, IsPlace(q), NEW r, IsPlace(r), OneDeeper(q, r), Earlier(p, r)
    PROVE  Earlier(p, q)
<1>1. CASE p.i < r.i
  BY <1>1 DEF Earlier, OneDeeper
<1>2. CASE p.i = r.i /\ \E d \in DOMAIN r.path : Splits(p, r, d)
  <2>1. PICK d \in DOMAIN r.path : Splits(p, r, d)
    BY <1>2
  <2>2. \A e \in DOMAIN q.path : e < d => e \in DOMAIN r.path
    BY DeeperDomain, PlaceSeq
  <2>3. d \in DOMAIN q.path /\ q.path[d] = r.path[d] /\ \A e \in DOMAIN r.path : q.path[e] = r.path[e]
    BY DeeperDomain DEF OneDeeper
  <2>4. Splits(p, q, d)
    BY <2>1, <2>2, <2>3 DEF Splits
  <2> QED
    BY <1>2, <2>3, <2>4 DEF Earlier, OneDeeper
<1> QED
  BY <1>1, <1>2 DEF Earlier

LEMMA WithinDeeper ==
    ASSUME NEW p, NEW q, IsPlace(q), NEW r, IsPlace(r), OneDeeper(q, r), Within(p, q)
    PROVE  Within(p, r)
  BY DeeperDomain DEF Within, OneDeeper

\* What was left before the run was in the loop, or in the loop, at the loop's end.
LEMMA EarlierOutside ==
    ASSUME NEW p, IsPlace(p), NEW q, IsPlace(q), NEW r, IsPlace(r), OneDeeper(q, r), Earlier(p, q)
    PROVE  Earlier(p, r) \/ Within(p, r)
<1>1. CASE p.i < q.i
  BY <1>1 DEF Earlier, OneDeeper
<1>2. CASE p.i = q.i /\ \E d \in DOMAIN q.path : Splits(p, q, d)
  <2>1. PICK d \in DOMAIN q.path : Splits(p, q, d)
    BY <1>2
  <2>2. CASE d \in DOMAIN r.path
    <3>1. Splits(p, r, d)
      BY <2>1, <2>2, DeeperDomain DEF Splits, OneDeeper
    <3> QED
      BY <1>2, <2>2, <3>1 DEF Earlier, OneDeeper
  <2>3. CASE d \notin DOMAIN r.path
    <3>1. d = Len(r.path) + 1
      BY <2>3, DeeperDomain
    <3>2. \A e \in DOMAIN r.path : e \in DOMAIN q.path /\ e < d /\ q.path[e] = r.path[e]
      BY <3>1, DeeperDomain DEF OneDeeper
    <3> QED
      BY <1>2, <2>1, <3>2 DEF Within, Splits, OneDeeper
  <2> QED
    BY <2>2, <2>3
<1> QED
  BY <1>1, <1>2 DEF Earlier

\* r is q with a later nested step of the innermost loop.
OneFurther(r, q) ==
    /\ q.i = r.i /\ Len(q.path) = Len(r.path) /\ q.path # <<>>
    /\ \A e \in DOMAIN q.path : e # Len(q.path) => q.path[e] = r.path[e]
    /\ Lower(q.path[Len(q.path)], r.path[Len(q.path)])

LEMMA FurtherDomain ==
    ASSUME NEW q, IsPlace(q), NEW r, IsPlace(r), OneFurther(r, q)
    PROVE  /\ DOMAIN r.path = DOMAIN q.path /\ Len(q.path) \in DOMAIN q.path
           /\ \A e \in DOMAIN q.path : e <= Len(q.path)
           /\ \A e \in DOMAIN q.path : IsPair(q.path[e]) /\ IsPair(r.path[e])
<1>1. DOMAIN r.path = DOMAIN q.path
  BY PlaceSeq DEF OneFurther
<1>2. IsSeq(q.path) /\ q.path # <<>>
  BY DEF IsPlace, OneFurther
<1>3. Len(q.path) > 0 /\ Len(q.path) \in Nat /\ DOMAIN q.path = 1..Len(q.path)
  BY <1>2, SeqFacts
<1>4. \A e \in DOMAIN q.path : IsPair(q.path[e]) /\ IsPair(r.path[e])
  BY <1>1 DEF IsPlace
<1> QED
  BY <1>1, <1>3, <1>4

LEMMA EarlierFurther ==
    ASSUME NEW p, IsPlace(p), NEW q, IsPlace(q), NEW r, IsPlace(r), OneFurther(r, q), Earlier(p, q) \/ Within(p, q)
    PROVE  Earlier(p, r)
<1>1. CASE p.i < q.i
  BY <1>1 DEF Earlier, OneFurther
<1>2. CASE p.i = q.i /\ \E d \in DOMAIN q.path : Splits(p, q, d)
  <2>1. PICK d \in DOMAIN q.path : Splits(p, q, d)
    BY <1>2
  <2>2. d \in DOMAIN p.path /\ IsPair(p.path[d]) /\ IsPair(q.path[d]) /\ IsPair(r.path[d]) /\ d \in DOMAIN r.path
    BY <2>1, FurtherDomain DEF IsPlace, Splits
  <2>3. Lower(p.path[d], r.path[d])
    <3>1. CASE d = Len(q.path)
      <4>1. Lower(p.path[d], q.path[d]) /\ Lower(q.path[d], r.path[d])
        BY <2>1, <3>1 DEF Splits, OneFurther
      <4> QED
        BY <2>2, <4>1 DEF Lower, IsPair
    <3>2. CASE d # Len(q.path)
      BY <2>1, <3>2 DEF Splits, OneFurther
    <3> QED
      BY <3>1, <3>2
  <2>4. \A e \in DOMAIN r.path : e < d => e \in DOMAIN q.path /\ e # Len(q.path)
    BY FurtherDomain, PlaceSeq
  <2>5. Splits(p, r, d)
    BY <2>1, <2>2, <2>3, <2>4 DEF Splits, OneFurther
  <2> QED
    BY <1>2, <2>2, <2>5 DEF Earlier, OneFurther
<1>3. CASE Within(p, q)
  <2>1. PICK d : d = Len(q.path)
    OBVIOUS
  <2>2. d \in DOMAIN q.path /\ d \in DOMAIN r.path /\ d \in DOMAIN p.path /\ p.path[d] = q.path[d]
    BY <1>3, <2>1, FurtherDomain DEF Within
  <2>3. \A e \in DOMAIN r.path : e < d => e \in DOMAIN p.path /\ p.path[e] = r.path[e]
    <3>1. TAKE e \in DOMAIN r.path
    <3>2. HAVE e < d
    <3>3. e \in DOMAIN q.path /\ e # Len(q.path)
      BY <2>1, <3>2, FurtherDomain, PlaceSeq
    <3> QED
      BY <1>3, <3>3 DEF Within, OneFurther
  <2>4. Splits(p, r, d)
    BY <2>1, <2>2, <2>3 DEF Splits, OneFurther
  <2> QED
    BY <1>3, <2>2, <2>4 DEF Earlier, OneFurther, Within
<1> QED
  BY <1>1, <1>2, <1>3 DEF Earlier

\* A place in the loop at p is left when p is.
LEMMA InsideFacts ==
    ASSUME NEW p, IsPlace(p), NEW a \in Nat, NEW b \in Nat, NEW r, r = Inside(p, a, b)
    PROVE  IsPlace(r) /\ OneDeeper(r, p) /\ r.path[Len(p.path) + 1] = [iter |-> a, nested |-> b]
<1>1. PICK e : e = [iter |-> a, nested |-> b]
  OBVIOUS
<1>2. PICK pp, s : pp = p.path /\ s = Append(pp, e)
  OBVIOUS
<1>3. PICK n : n = Len(p.path)
  OBVIOUS
<1>4. IsSeq(p.path) /\ DOMAIN p.path = 1..n /\ n \in Nat
  BY <1>3, PlaceSeq DEF IsPlace
<1>5. /\ IsSeq(s) /\ Len(s) = n + 1 /\ DOMAIN s = 1..(n + 1)
      /\ s[n + 1] = e /\ \A k \in 1..n : s[k] = pp[k]
  <2>1. IsSeq(pp) /\ n = Len(pp)
    BY <1>2, <1>3, <1>4
  <2>2. Appended(s, pp, e, n)
    BY <1>2, <2>1, AppendFacts
  <2> QED
    BY <2>2 DEF Appended
<1>6. r = [i |-> p.i, path |-> s]
  BY <1>1, <1>2 DEF Inside
<1>7. \A k \in DOMAIN s : IsPair(s[k])
  <2>1. TAKE k \in DOMAIN s
  <2>2. k \in 1..n \/ k = n + 1
    BY <1>4, <1>5
  <2>3. CASE k \in 1..n
    BY <1>2, <1>4, <1>5, <2>3 DEF IsPlace
  <2>4. CASE k = n + 1
    BY <1>1, <1>5, <2>4 DEF IsPair
  <2> QED
    BY <2>2, <2>3, <2>4
<1>8. IsPlace(r)
  BY <1>5, <1>6, <1>7 DEF IsPlace
<1> QED
  BY <1>1, <1>2, <1>3, <1>4, <1>5, <1>6, <1>8 DEF OneDeeper

LEMMA InsideWithin ==
    ASSUME NEW p, IsPlace(p), NEW q, IsPlace(q), NEW r, IsPlace(r), OneDeeper(r, p), Within(p, q)
    PROVE  Within(r, q)
  BY DeeperDomain DEF Within, OneDeeper

LEMMA InsideEarlier ==
    ASSUME NEW p, IsPlace(p), NEW q, IsPlace(q), NEW r, IsPlace(r), OneDeeper(r, p), Earlier(p, q)
    PROVE  Earlier(r, q)
<1>1. CASE p.i < q.i
  BY <1>1 DEF Earlier, OneDeeper
<1>2. CASE p.i = q.i /\ \E d \in DOMAIN q.path : Splits(p, q, d)
  <2>1. PICK d \in DOMAIN q.path : Splits(p, q, d)
    BY <1>2
  <2>2. DOMAIN p.path \subseteq DOMAIN r.path /\ \A e \in DOMAIN p.path : r.path[e] = p.path[e]
    BY DeeperDomain DEF OneDeeper
  <2>3. Splits(r, q, d)
    BY <2>1, <2>2 DEF Splits
  <2> QED
    BY <1>2, <2>3 DEF Earlier, OneDeeper
<1> QED
  BY <1>1, <1>2 DEF Earlier

\* The loop around a place is neither in the loop at it nor was it left.
LEMMA OuterApart ==
    ASSUME NEW q, IsPlace(q), NEW r, IsPlace(r), OneDeeper(q, r)
    PROVE  ~Within(r, q) /\ ~Earlier(r, q)
<1>1. Len(r.path) + 1 \in DOMAIN q.path /\ Len(r.path) + 1 \notin DOMAIN r.path
  BY DeeperDomain, PlaceSeq
<1>2. ~Within(r, q)
  BY <1>1 DEF Within
<1>3. ASSUME Earlier(r, q) PROVE FALSE
  <2>1. PICK d \in DOMAIN q.path : Splits(r, q, d)
    BY <1>3, PlaceSeq DEF Earlier, OneDeeper
  <2>2. d \in DOMAIN r.path /\ q.path[d] = r.path[d] /\ Lower(r.path[d], q.path[d]) /\ IsPair(r.path[d])
    BY <2>1 DEF Splits, OneDeeper, IsPlace
  <2> QED
    BY <2>2 DEF Lower, IsPair
<1> QED
  BY <1>2, <1>3

LEMMA EarlierNextStep ==
    ASSUME NEW p, IsPlace(p), NEW q, IsPlace(q), NEW r, IsPlace(r), r.i = q.i + 1, Earlier(p, q) \/ Within(p, q)
    PROVE  Earlier(p, r)
  BY DEF Earlier, Within, IsPlace

IsUpto(r, q, d) ==
    /\ IsPlace(r) /\ Len(r.path) = d /\ DOMAIN r.path = 1..d /\ Within(q, r) /\ r.i = q.i
    /\ \A e \in 1..d : r.path[e] = q.path[e]
    /\ d = Len(q.path) => r = q

LEMMA UptoFacts ==
    ASSUME NEW q, IsPlace(q), NEW n, n = Len(q.path), NEW d \in 0..n, NEW r, r = Upto(q, d)
    PROVE  IsUpto(r, q, d)
<1>1. PICK s : s = [e \in 1..d |-> q.path[e]]
  OBVIOUS
<1>2. n \in Nat /\ DOMAIN q.path = 1..n /\ d \in Nat /\ 1..d \subseteq 1..n /\ IsSeq(q.path)
  BY PlaceSeq DEF IsPlace
<1>3. s = [e \in 1..d |-> s[e]] /\ \A e \in 1..d : s[e] = q.path[e]
  BY <1>1
<1>4. IsSeq(s) /\ Len(s) = d /\ DOMAIN s = 1..d
  BY <1>2, <1>3, MakesSeq
<1>5. r = [i |-> q.i, path |-> s]
  BY <1>1 DEF Upto
<1>6. \A e \in DOMAIN s : IsPair(s[e])
  BY <1>2, <1>3, <1>4 DEF IsPlace
<1>7. IsPlace(r)
  BY <1>4, <1>5, <1>6 DEF IsPlace
<1>8. ASSUME d = n PROVE r = q
  <2>1. q.path = [e \in 1..n |-> q.path[e]]
    BY <1>2, SeqFacts
  <2>2. s = q.path
    BY <1>1, <1>8, <2>1
  <2> QED
    BY <1>5, <2>2 DEF IsPlace
<1> QED
  BY <1>2, <1>3, <1>4, <1>5, <1>7, <1>8 DEF Within, IsUpto

\* The places of the loops around a place are nested.
LEMMA UptoDeeper ==
    ASSUME NEW q, IsPlace(q), NEW n, n = Len(q.path), NEW d \in 1..n, NEW c, c = d - 1,
           NEW r, r = Upto(q, d), NEW s, s = Upto(q, c)
    PROVE  OneDeeper(r, s)
<1>1. n \in Nat /\ d \in 0..n /\ c \in 0..n
  BY PlaceSeq
<1>2. IsUpto(r, q, d)
  BY <1>1, UptoFacts
<1>3. IsUpto(s, q, c)
  BY <1>1, UptoFacts
<1>4. 1..c \subseteq 1..d /\ d = c + 1
  BY <1>1
<1> QED
  BY <1>2, <1>3, <1>4 DEF OneDeeper, IsUpto

-----------------------------------------------------------------------------
(* The run: where it is, and in which loops.                               *)

Early == {"load", "inbound", "refused"}
Running == {"step", "tool", "model", "returned", "hung"}

\* What a loop of runStep is: where it is among its items and steps, and what it has so far.
LoopFields == {"step", "items", "iter", "nested", "outputs", "final", "results", "calls", "oldItem", "oldIndex"}
LoopOK(l) ==
    /\ DOMAIN l = LoopFields /\ l.step.type = "for_each"
    /\ IsSeq(l.items) /\ Len(l.items) <= MaxIterations(l.step)
    /\ l.iter \in Nat /\ l.iter < Len(l.items)
    /\ l.nested \in Nat /\ l.nested < Len(l.step.steps)
    /\ IsSeq(l.outputs) /\ Len(l.outputs) = l.nested
    /\ IsSeq(l.results) /\ Len(l.results) = l.iter
    /\ l.calls \in Nat

\* The step that d loops of ls run, in step i of protocol p.
Current(ls, d, i, p) == IF d = 0 THEN p.steps[i + 1] ELSE ls[d].step.steps[ls[d].nested + 1]

\* Every loop is the step that the loop around it runs.
Nest(ls, i, p) ==
    \A d \in DOMAIN ls :
        /\ LoopOK(ls[d]) /\ d - 1 <= MaxNesting /\ ls[d].step \in Levels(p)[d - 1]
        /\ ls[d].step = Current(ls, d - 1, i, p)

TopStep == Proto.steps[at.i + 1]

\* How far the run is: the loops are nested, each within its list and its body.
RunInv ==
    /\ deployment \in Deployments
    /\ pc \in {"load", "inbound", "step", "tool", "model", "returned"} \cup Ended
    /\ DOMAIN state = {"input", "values", "outputs", "final"}
    /\ DOMAIN at = {"i", "attempt"} /\ at.i \in Nat /\ at.attempt \in Nat /\ at.attempt >= 1
    /\ ret.ok \in BOOLEAN /\ ret.calls \in Nat
    /\ \A p \in DOMAIN asked : asked[p].times \in Nat
    /\ pc \notin {"load", "refused"} => validateWorkflow
    /\ IsSeq(loops)
    /\ pc \in Early => protocol = 0 /\ loops = <<>> /\ at.i = 0 /\ at.attempt = 1
    /\ pc \notin Early => protocol = FirstMatch(deployment.message) /\ protocol # 0 /\ Nest(loops, at.i, Proto)
    /\ pc = "ended" => loops = <<>>
    /\ pc \in Running => at.i < Len(Proto.steps) /\ at.attempt <= Attempts(TopStep)
    /\ pc = "tool" => Step.type \in {"tool", "send_message"}
    /\ pc = "model" => Step.type \in {"summarize", "plan"}
    /\ ValidatedIsExecutable

LEMMA ConfigFacts ==
    ASSUME NEW d \in Deployments
    PROVE  /\ IsSeq(d.config.protocols)
           /\ \A k \in DOMAIN d.config.protocols :
                 /\ k \in Nat /\ IsList(d.config.protocols[k].steps) /\ d.config.protocols[k].retries \in Int
                 /\ \A s \in AllSteps(d.config.protocols[k]) : IsList(s.steps) /\ s.retries \in Int /\ s.max \in Int
                 /\ \A s \in Levels(d.config.protocols[k])[MaxNesting] : s.type # "for_each"
<1>1. IsSeq(d.config.protocols)
  BY WorkflowAssumption DEF IsSeq
<1>2. PICK ps : ps = d.config.protocols
  OBVIOUS
<1>3. \A k \in DOMAIN ps : k \in Nat /\ ps[k] \in Range(ps)
  BY <1>1, <1>2, SeqFacts DEF Range
<1>4. \A p \in Range(ps) :
         /\ IsList(p.steps) /\ p.retries \in Int
         /\ \A s \in AllSteps(p) : IsList(s.steps) /\ s.retries \in Int /\ s.max \in Int
         /\ \A s \in Levels(p)[MaxNesting] : s.type # "for_each"
  BY <1>2, WorkflowAssumption
<1> QED
  BY <1>1, <1>2, <1>3, <1>4

LEMMA ListFacts ==
    ASSUME NEW s, IsList(s)
    PROVE  IsSeq(s) /\ Len(s) \in Nat /\ DOMAIN s = 1..Len(s) /\ Len(s) <= Len(StepKeys)
  BY SeqFacts DEF IsList, IsSeq

LEMMA KeysFacts ==
    /\ IsSeq(StepKeys) /\ Len(StepKeys) \in Nat /\ DOMAIN StepKeys = 1..Len(StepKeys)
    /\ \A i, j \in DOMAIN StepKeys : StepKeys[i] = StepKeys[j] => i = j
  BY SeqFacts, WorkflowAssumption DEF IsSeq

\* The first protocol that matches, and none before it does.
LEMMA FirstFacts ==
    ASSUME NEW msg, NEW k, k = FirstMatch(msg), k # 0, deployment \in Deployments
    PROVE  /\ k \in DOMAIN config.protocols /\ k \in Nat
           /\ \A j \in DOMAIN config.protocols : Matches(config.protocols[j], msg) => k <= j
<1>1. PICK S : S = {j \in DOMAIN config.protocols : Matches(config.protocols[j], msg)}
  OBVIOUS
<1>2. \A j \in DOMAIN config.protocols : j \in Nat
  BY ConfigFacts DEF config
<1>3. S \subseteq Nat /\ S # {} /\ k = Min(S)
  BY <1>1, <1>2 DEF FirstMatch, FirstOf
<1>4. k \in S /\ \A j \in S : k <= j
  BY <1>3, MinMember
<1> QED
  BY <1>1, <1>2, <1>4

\* The protocol of a run is one that was validated.
LEMMA ProtoFacts ==
    ASSUME RunInv, pc \notin Early
    PROVE  /\ protocol \in DOMAIN config.protocols /\ Proto = config.protocols[protocol] /\ protocol \in Nat
           /\ IsList(Proto.steps) /\ Proto.retries \in Int /\ ValidProtocol(Proto)
           /\ \A s \in AllSteps(Proto) : IsList(s.steps) /\ s.retries \in Int /\ s.max \in Int /\ ValidStep(s)
           /\ \A s \in Levels(Proto)[MaxNesting] : s.type # "for_each"
<1>1. protocol \in DOMAIN config.protocols /\ protocol \in Nat
  BY FirstFacts DEF RunInv
<1>2. Proto = config.protocols[protocol]
  BY DEF Proto
<1>3. /\ IsList(Proto.steps) /\ Proto.retries \in Int
      /\ \A s \in AllSteps(Proto) : IsList(s.steps) /\ s.retries \in Int /\ s.max \in Int
      /\ \A s \in Levels(Proto)[MaxNesting] : s.type # "for_each"
  BY <1>1, <1>2, ConfigFacts DEF config, RunInv
<1>4. ValidProtocol(Proto)
  BY <1>1, <1>2 DEF RunInv, validateWorkflow, Early
<1> QED
  BY <1>1, <1>2, <1>3, <1>4 DEF ValidProtocol

\* The innermost loop, and the step it runs.
LEMMA LoopFacts ==
    ASSUME RunInv, pc \notin Early
    PROVE  /\ Len(loops) \in Nat /\ DOMAIN loops = 1..Len(loops)
           /\ Step = Current(loops, Len(loops), at.i, Proto)
           /\ InLoop => /\ Len(loops) > 0 /\ Len(loops) \in DOMAIN loops
                        /\ Loop = loops[Len(loops)] /\ LoopOK(Loop) /\ Step = Loop.step.steps[Loop.nested + 1]
           /\ ~InLoop => Len(loops) = 0 /\ Step = TopStep
<1>1. IsSeq(loops)
  BY DEF RunInv
<1>2. Len(loops) \in Nat /\ DOMAIN loops = 1..Len(loops) /\ (InLoop <=> Len(loops) > 0)
  BY <1>1, SeqFacts DEF InLoop
<1>3. Loop = loops[Len(loops)]
  BY DEF Loop, Last
<1>4. CASE InLoop
  <2>1. Len(loops) \in DOMAIN loops /\ Len(loops) > 0
    BY <1>2, <1>4
  <2>2. LoopOK(Loop)
    BY <1>3, <2>1 DEF RunInv, Nest
  <2> QED
    BY <1>2, <1>3, <1>4, <2>1, <2>2 DEF Step, Current
<1>5. CASE ~InLoop
  BY <1>2, <1>5 DEF Step, Current, TopStep
<1> QED
  BY <1>2, <1>4, <1>5

LEMMA StepFacts ==
    ASSUME RunInv, pc \in Running
    PROVE  /\ Len(loops) <= MaxNesting /\ Step \in Levels(Proto)[Len(loops)] /\ Step \in AllSteps(Proto)
           /\ ValidStep(Step) /\ IsList(Step.steps) /\ Step.retries \in Int /\ Step.max \in Int
<1>1. pc \notin Early
  BY DEF Running, Early
<1>2. MaxNesting \in Nat
  BY WorkflowAssumption
<1>3. Len(loops) <= MaxNesting /\ Step \in Levels(Proto)[Len(loops)]
  <2>1. CASE InLoop
    <3>1. PICK n : n = Len(loops)
      OBVIOUS
    <3>2. n \in Nat /\ n > 0 /\ n \in DOMAIN loops /\ Loop = loops[n] /\ LoopOK(Loop) /\ Step = Loop.step.steps[Loop.nested + 1]
      BY <1>1, <2>1, <3>1, LoopFacts
    <3>3. Loop.step \in Levels(Proto)[n - 1] /\ n - 1 <= MaxNesting /\ Loop.step.type = "for_each"
      BY <1>1, <3>2 DEF RunInv, Nest, LoopOK
    <3>4. n - 1 # MaxNesting
      BY <1>1, <3>3, ProtoFacts
    <3>5. n - 1 \in Nat /\ (n - 1) + 1 = n /\ n <= MaxNesting
      BY <1>2, <3>2, <3>3, <3>4
    <3>6. Levels(Proto)[n] = Nested(Levels(Proto)[n - 1])
      BY <3>5, LevelFacts
    <3>7. Loop.step \in AllSteps(Proto)
      BY <1>2, <3>3, <3>5, LevelFacts
    <3>8. IsList(Loop.step.steps)
      BY <1>1, <3>7, ProtoFacts
    <3>9. Loop.nested + 1 \in DOMAIN Loop.step.steps
      BY <3>2, <3>8, ListFacts DEF LoopOK
    <3>10. Step \in Range(Loop.step.steps)
      BY <3>2, <3>9 DEF Range
    <3> QED
      BY <3>1, <3>3, <3>5, <3>6, <3>10 DEF Nested
  <2>2. CASE ~InLoop
    <3>1. Len(loops) = 0 /\ Step = Proto.steps[at.i + 1]
      BY <1>1, <2>2, LoopFacts DEF TopStep
    <3>2. IsList(Proto.steps)
      BY <1>1, ProtoFacts
    <3>3. at.i + 1 \in DOMAIN Proto.steps
      BY <3>2, ListFacts DEF RunInv
    <3>4. Step \in Range(Proto.steps)
      BY <3>1, <3>3 DEF Range
    <3> QED
      BY <1>2, <3>1, <3>4, LevelFacts
  <2> QED
    BY <2>1, <2>2
<1>4. Step \in AllSteps(Proto)
  BY <1>1, <1>2, <1>3, LoopFacts, LevelFacts
<1> QED
  BY <1>1, <1>3, <1>4, ProtoFacts

\* A loop has at least one iteration to its limit.
LEMMA LimitFacts ==
    ASSUME NEW s, s.max \in Int
    PROVE  MaxIterations(s) \in Nat /\ MaxIterations(s) > 0
  BY WorkflowAssumption DEF MaxIterations

LEMMA AttemptFacts ==
    ASSUME RunInv, pc \in Running
    PROVE  /\ Attempts(TopStep) \in Nat /\ Attempts(TopStep) >= 1
           /\ at.attempt > 1 => ~InLoop /\ isSchemaRetryStep(Step.type)
<1>1. pc \notin Early
  BY DEF Running, Early
<1>2. IsList(Proto.steps)
  BY <1>1, ProtoFacts
<1>3. at.i + 1 \in DOMAIN Proto.steps
  BY <1>2, ListFacts DEF RunInv
<1>4. TopStep \in AllSteps(Proto)
  BY <1>3, LevelFacts, WorkflowAssumption DEF TopStep, Range
<1>5. TopStep.retries \in Int /\ Proto.retries \in Int /\ Proto.retries >= 0
  BY <1>1, <1>4, ProtoFacts DEF ValidProtocol
<1>6. Attempts(TopStep) \in Nat /\ Attempts(TopStep) >= 1
  BY <1>5 DEF Attempts, RetryBudget
<1>7. ASSUME at.attempt > 1 PROVE ~InLoop /\ isSchemaRetryStep(Step.type)
  <2>1. isSchemaRetryStep(TopStep.type)
    BY <1>6, <1>7 DEF RunInv, Attempts
  <2>2. ~InLoop
    <3>1. SUFFICES ASSUME InLoop PROVE FALSE
      OBVIOUS
    <3>2. 1 \in DOMAIN loops
      BY <1>1, <3>1, LoopFacts
    <3>3. loops[1].step = TopStep /\ LoopOK(loops[1])
      BY <1>1, <3>2 DEF RunInv, Nest, Current, TopStep
    <3> QED
      BY <2>1, <3>3 DEF LoopOK, isSchemaRetryStep
  <2> QED
    BY <1>1, <2>1, <2>2, LoopFacts
<1> QED
  BY <1>6, <1>7

-----------------------------------------------------------------------------
(* The shapes of a step of the run.                                        *)

Whys == {"none", "shape", "data", "schema", "tool", "model", "nested"}
MayLackShape == {"tool", "summarize", "send_message", "persist", "branch"}

\* The values a and b differ in what persist steps write only.
KeptValues(a, b) ==
    \A v : v \notin PersistKeys => (v \in DOMAIN b <=> v \in DOMAIN a) /\ (v \in DOMAIN a => b[v] = a[v])
OnlyValues ==
    /\ DOMAIN state' = {"input", "values", "outputs", "final"}
    /\ state'.input = state.input /\ state'.outputs = state.outputs /\ state'.final = state.final

Answers ==
    /\ pc' = "returned" /\ asked' = asked
    /\ ret' = [ok |-> TRUE, value |-> ret'.value, calls |-> IF pc = "tool" THEN 1 ELSE 0, why |-> "none"]
    /\ returned' = With(returned, Place, [step |-> Step, value |-> ret'.value])
    /\ Step.type = "for_each" => ret'.value = Arr(<<>>)
Breaks ==
    /\ pc' = "returned" /\ asked' = asked /\ returned' = returned
    /\ ret'.ok = FALSE /\ ret'.calls \in Nat /\ ret'.why \in Whys
    /\ ret'.why = "shape" => Step.type \in MayLackShape
Hangs == pc' = "hung" /\ asked' = asked /\ returned' = returned /\ ret' = ret
Asks ==
    /\ pc = "step" /\ returned' = returned /\ ret' = ret
    /\ \/ pc' = "tool" /\ Step.type \in {"tool", "send_message"}
       \/ pc' = "model" /\ Step.type \in {"summarize", "plan"}
    /\ \E n \in Nat :
          /\ Place \in DOMAIN asked => n <= asked[Place].times + 1
          /\ Place \notin DOMAIN asked => n <= 1
          /\ asked' = With(asked, Place, [step |-> Step, around |-> [d \in DOMAIN loops |-> loops[d].step], times |-> n])

\* The step runs, its tool or its model answers, or its output cannot be printed.
Quiet ==
    /\ pc \in {"step", "tool", "model", "returned"} /\ (pc = "returned" => Hangs)
    /\ UNCHANGED <<deployment, protocol, trace, at, loops>>
    /\ OnlyValues /\ KeptValues(state.values, state'.values)
    /\ Answers \/ Breaks \/ Hangs \/ Asks

\* A loop begins.
NewLoop(l) ==
    /\ LoopOK(l) /\ l.step = Step /\ l.iter = 0 /\ l.nested = 0
    /\ l.outputs = <<>> /\ l.final = Nil /\ l.results = <<>> /\ l.calls = 0
    /\ l.oldItem = ValueOr(state.values, Step.var) /\ l.oldIndex = ValueOr(state.values, Step.index)
Enters ==
    /\ pc = "step" /\ pc' = "step" /\ Step.type = "for_each"
    /\ UNCHANGED <<deployment, protocol, trace, at, asked, returned, ret>>
    /\ OnlyValues
    /\ \E l : NewLoop(l) /\ loops' = Append(loops, l) /\ state'.values = Bind(state.values, l)

\* A nested step returned: the loop m is what l becomes.
Carries(m, l) ==
    /\ DOMAIN m = LoopFields /\ m.step = l.step /\ m.items = l.items
    /\ m.oldItem = l.oldItem /\ m.oldIndex = l.oldIndex /\ m.calls = l.calls + ret.calls
NestedGoesOn(m, l) ==
    /\ Carries(m, l) /\ m.iter = l.iter /\ m.nested = l.nested + 1 /\ m.results = l.results
    /\ m.outputs = Append(l.outputs, ret.value)
    /\ m.final = (IF outputPresent(ret.value) THEN ret.value ELSE l.final)
NestedIterates(m, l) ==
    /\ Carries(m, l) /\ m.iter = l.iter + 1 /\ m.nested = 0 /\ m.outputs = <<>> /\ m.final = Nil
    /\ m.results = Append(l.results, Contract(WithReturn(l)))

InnerReturned ==
    /\ pc = "returned" /\ InLoop
    /\ UNCHANGED <<deployment, protocol, trace, at, asked>>
GoesOn ==
    /\ InnerReturned /\ ret.ok /\ NestedConforms /\ pc' = "step" /\ UNCHANGED <<state, ret, returned>>
    /\ Loop.nested + 1 < Len(Loop.step.steps)
    /\ \E m : NestedGoesOn(m, Loop) /\ loops' = [loops EXCEPT ![Len(loops)] = m]
Iterates ==
    /\ InnerReturned /\ ret.ok /\ NestedConforms /\ pc' = "step" /\ UNCHANGED <<ret, returned>>
    /\ ~(Loop.nested + 1 < Len(Loop.step.steps)) /\ Loop.iter + 1 < Len(Loop.items)
    /\ OnlyValues
    /\ \E m : /\ NestedIterates(m, Loop) /\ loops' = [loops EXCEPT ![Len(loops)] = m]
              /\ state'.values = Bind(state.values, m)
Leaves ==
    /\ InnerReturned /\ pc' = "returned" /\ loops' = Front(loops)
    /\ OnlyValues /\ state'.values = Restore(state.values, Loop)
LoopEnds ==
    /\ Leaves /\ ret.ok /\ NestedConforms
    /\ ~(Loop.nested + 1 < Len(Loop.step.steps)) /\ ~(Loop.iter + 1 < Len(Loop.items))
    /\ ret' = [ok |-> TRUE, value |-> Arr(Append(Loop.results, Contract(WithReturn(Loop)))),
               calls |-> Loop.calls + ret.calls, why |-> "none"]
    /\ returned' = With(returned, OuterPlace, [step |-> Loop.step, value |-> ret'.value])
LoopStops ==
    /\ Leaves /\ ret'.ok = FALSE /\ ret'.calls \in Nat /\ ret'.why \in {"nested", "schema"}
    /\ returned' = returned

LEMMA FieldsWith ==
    ASSUME RunInv, NEW k, NEW v, NEW s, s = [state EXCEPT !.values = With(@, k, v)]
    PROVE  /\ DOMAIN s = {"input", "values", "outputs", "final"}
           /\ s.input = state.input /\ s.outputs = state.outputs /\ s.final = state.final
           /\ s.values = With(state.values, k, v)
  BY DEF RunInv

LEMMA PersistKept ==
    ASSUME RunInv, NEW k \in PersistKeys, NEW v, state' = [state EXCEPT !.values = With(@, k, v)]
    PROVE  OnlyValues /\ KeptValues(state.values, state'.values)
<1>1. OnlyValues /\ state'.values = With(state.values, k, v)
  BY FieldsWith DEF OnlyValues
<1>2. PICK a, b : a = state.values /\ b = state'.values
  OBVIOUS
<1>3. b = With(a, k, v)
  BY <1>1, <1>2
<1>4. IsWith(b, a, k, v)
  BY <1>3, WithFacts
<1>5. KeptValues(a, b)
  BY <1>4 DEF KeptValues, IsWith
<1> QED
  BY <1>1, <1>2, <1>5

LEMMA UnchangedKept ==
    ASSUME RunInv, UNCHANGED state
    PROVE  OnlyValues /\ KeptValues(state.values, state'.values)
  BY DEF RunInv, OnlyValues, KeptValues

LEMMA AskIs ==
    ASSUME RunInv, pc = "step", NEW next, Ask(next),
           \/ next = "tool" /\ Step.type \in {"tool", "send_message"}
           \/ next = "model" /\ Step.type \in {"summarize", "plan"}
    PROVE  Asks
<1>1. PICK p, st, around : p = Place /\ st = Step /\ around = [d \in DOMAIN loops |-> loops[d].step]
  OBVIOUS
<1>2. PICK m : m = IF p \in DOMAIN asked THEN asked[p].times ELSE 0
  OBVIOUS
<1>3. PICK n : n = Min({m + 1, MaxCounted})
  OBVIOUS
<1>4. pc' = next /\ UNCHANGED <<ret, returned>> /\ asked' = With(asked, p, [step |-> st, around |-> around, times |-> n])
  BY <1>1, <1>2, <1>3 DEF Ask
<1>5. n \in Nat /\ (p \in DOMAIN asked => n <= asked[p].times + 1) /\ (p \notin DOMAIN asked => n <= 1)
  <2>1. MaxCounted \in Nat
    BY WorkflowAssumption
  <2>2. m \in Nat
    BY <1>2 DEF RunInv
  <2>3. n \in {m + 1, MaxCounted} /\ n <= m + 1
    BY <1>3, <2>1, <2>2, MinOfTwo
  <2> QED
    BY <1>2, <2>1, <2>2, <2>3
<1> QED
  BY <1>1, <1>4, <1>5 DEF Asks

LEMMA FailIs ==
    ASSUME NEW why \in Whys, NEW calls \in Nat, Fail(why, calls), asked' = asked,
           why = "shape" => Step.type \in MayLackShape
    PROVE  Breaks
<1>1. PICK r : r = ret'
  OBVIOUS
<1>2. r = [ok |-> FALSE, value |-> Nil, calls |-> calls, why |-> why]
  BY <1>1 DEF Fail
<1>3. r.ok = FALSE /\ r.calls = calls /\ r.why = why
  BY <1>2
<1> QED
  BY <1>1, <1>3 DEF Fail, Breaks

LEMMA ReturnIs ==
    ASSUME NEW v, NEW calls, calls = (IF pc = "tool" THEN 1 ELSE 0), Return(v, calls), asked' = asked,
           Step.type = "for_each" => v = Arr(<<>>)
    PROVE  Answers
<1>1. PICK r : r = ret'
  OBVIOUS
<1>2. r = [ok |-> TRUE, value |-> v, calls |-> calls, why |-> "none"]
  BY <1>1 DEF Return
<1>3. r.value = v
  BY <1>2
<1> QED
  BY <1>1, <1>2, <1>3 DEF Return, Answers

LEMMA NeedIs ==
    ASSUME NEW values, NeedFails(values), asked' = asked
    PROVE  Breaks \/ Hangs
<1>1. CASE Hang
  BY <1>1 DEF Hang, Hangs
<1>2. CASE Fail("data", 0)
  BY <1>2, FailIs DEF Whys
<1> QED
  BY <1>1, <1>2 DEF NeedFails

LEMMA NoTextIs ==
    ASSUME NEW template, NoText(template), asked' = asked, template = <<>> => Step.type \in MayLackShape
    PROVE  Breaks
<1>1. CASE template = <<>> /\ Fail("shape", 0)
  BY <1>1, FailIs DEF Whys
<1>2. CASE Fail("data", 0)
  BY <1>2, FailIs DEF Whys
<1> QED
  BY <1>1, <1>2 DEF NoText

\* The actions of runStep that start no loop, and the dispatcher's answers.
LEMMA QuietActions ==
    ASSUME RunInv,
           \/ ParseInput \/ Tool \/ SendMessage \/ Summarize \/ Persist \/ Collect \/ Branch
           \/ ToolAnswers \/ ModelAnswers
    PROVE  Quiet /\ pc # "returned"
<1>1. ASSUME pc \in Running PROVE ValidStep(Step) /\ Step \in AllSteps(Proto)
  BY <1>1, StepFacts
<1>2. pc \in {"step", "tool", "model"}
  BY DEF ParseInput, Tool, SendMessage, Summarize, Persist, Collect, Branch, ToolAnswers, ModelAnswers, AtStep
<1>3. ValidStep(Step) /\ Step \in AllSteps(Proto)
  BY <1>1, <1>2 DEF Running
<1>4. CASE ParseInput
  <2>1. PICK v : state' = [state EXCEPT !.values = With(@, "parsed_input", v)]
    BY <1>4 DEF ParseInput
  <2>2. OnlyValues /\ KeptValues(state.values, state'.values)
    BY <2>1, PersistKept DEF PersistKeys
  <2>3. Answers /\ UNCHANGED <<deployment, protocol, trace, at, loops>>
    BY <1>4 DEF ParseInput, AtStep, Return, Answers, runs
  <2> QED
    BY <1>2, <2>2, <2>3 DEF Quiet
<1>5. CASE Tool
  <2>1. PICK args : args = {interpolateArgs(Step.args, state)}
    OBVIOUS
  <2>2. /\ pc = "step" /\ Step.type = "tool" /\ UNCHANGED <<runs, loops, state>>
        /\ \/ Fail("shape", 0) /\ UNCHANGED asked
           \/ Ask("tool")
           \/ NeedFails(args) /\ UNCHANGED asked
    BY <1>5, <2>1 DEF Tool, AtStep
  <2>3. Asks \/ Breaks \/ Hangs
    <3>1. CASE Ask("tool")
      BY <2>2, <3>1, AskIs
    <3>2. CASE Fail("shape", 0) /\ UNCHANGED asked
      BY <2>2, <3>2, FailIs DEF Whys, MayLackShape
    <3>3. CASE NeedFails(args) /\ UNCHANGED asked
      BY <3>3, NeedIs
    <3> QED
      BY <2>2, <3>1, <3>2, <3>3
  <2> QED
    BY <1>2, <2>2, <2>3, UnchangedKept DEF Quiet, runs
<1>6. CASE SendMessage
  <2>1. PICK target, message : target = Value(Step.target) /\ message = Value(Step.payload)
    OBVIOUS
  <2>2. /\ pc = "step" /\ Step.type = "send_message" /\ UNCHANGED <<runs, loops, state>>
        /\ \/ Ask("tool")
           \/ NeedFails({target}) /\ UNCHANGED asked
           \/ NeedFails({message}) /\ UNCHANGED asked
           \/ NoText(Step.target) /\ UNCHANGED asked
           \/ NoText(Step.payload) /\ UNCHANGED asked
    BY <1>6, <2>1 DEF SendMessage, AtStep
  <2>3. Asks \/ Breaks \/ Hangs
    <3>1. CASE Ask("tool")
      BY <2>2, <3>1, AskIs
    <3>2. Step.type \in MayLackShape
      BY <2>2 DEF MayLackShape
    <3>3. CASE (NoText(Step.target) \/ NoText(Step.payload)) /\ UNCHANGED asked
      BY <3>2, <3>3, NoTextIs
    <3>4. CASE (NeedFails({target}) \/ NeedFails({message})) /\ UNCHANGED asked
      BY <3>4, NeedIs
    <3> QED
      BY <2>2, <3>1, <3>3, <3>4
  <2> QED
    BY <1>2, <2>2, <2>3, UnchangedKept DEF Quiet, runs
<1>7. CASE Summarize
  <2>1. PICK prompt : prompt = Value(Step.prompt)
    OBVIOUS
  <2>2. Step.type = "plan" => Step.prompt # <<>> /\ Step.schema # ""
    BY <1>3 DEF ValidStep
  <2>3. /\ pc = "step" /\ Step.type \in {"summarize", "plan"} /\ UNCHANGED <<runs, loops, state>>
        /\ \/ Ask("model")
           \/ NeedFails({prompt}) /\ UNCHANGED asked
           \/ NoText(Step.prompt) /\ UNCHANGED asked
    BY <1>7, <2>1, <2>2 DEF Summarize
  <2>4. Asks \/ Breaks \/ Hangs
    <3>1. CASE Ask("model")
      BY <2>3, <3>1, AskIs
    <3>2. Step.prompt = <<>> => Step.type \in MayLackShape
      BY <2>2, <2>3 DEF MayLackShape
    <3>3. CASE NoText(Step.prompt) /\ UNCHANGED asked
      BY <3>2, <3>3, NoTextIs
    <3>4. CASE NeedFails({prompt}) /\ UNCHANGED asked
      BY <3>4, NeedIs
    <3> QED
      BY <2>3, <3>1, <3>3, <3>4
  <2> QED
    BY <1>2, <2>3, <2>4, UnchangedKept DEF Quiet, runs
<1>8. CASE Persist
  <2>1. PICK v : v = Value(Step.value)
    OBVIOUS
  <2>2. /\ pc = "step" /\ Step.type = "persist" /\ UNCHANGED <<deployment, protocol, trace, at, loops, asked>>
        /\ \/ Fail("shape", 0) /\ UNCHANGED state
           \/ state' = [state EXCEPT !.values = With(@, Step.key, v)] /\ Return(v, 0)
           \/ NeedFails({v}) /\ UNCHANGED state
    BY <1>8, <2>1 DEF Persist, AtStep
  <2>3. Step.key \in PersistKeys
    BY <1>3, <2>2 DEF PersistKeys
  <2>4. OnlyValues /\ KeptValues(state.values, state'.values)
    BY <2>2, <2>3, PersistKept, UnchangedKept
  <2>5. Answers \/ Breaks \/ Hangs
    BY <2>2 DEF Fail, NeedFails, Hang, Return, Answers, Breaks, Hangs, Whys, MayLackShape
  <2> QED
    BY <1>2, <2>2, <2>4, <2>5 DEF Quiet
<1>9. CASE Collect
  <2>1. PICK source, collected : source = Value(Step.from) /\ collected = Collected(asInterfaceSlice(source), Step.mode, Step.flatten)
    OBVIOUS
  <2>2. PICK sources : sources = {source}
    OBVIOUS
  <2>3. pc = "step" /\ Step.type = "collect" /\ UNCHANGED <<runs, loops, state, asked>>
    BY <1>9 DEF Collect, AtStep
  <2>4. Step.from # <<>>
    BY <1>3, <2>3 DEF ValidStep
  <2>5. NeedFails(sources) \/ Return(collected, 0) \/ Fail("data", 0)
    BY <1>9, <2>1, <2>2, <2>4 DEF Collect
  <2>6. Answers \/ Breaks \/ Hangs
    BY <2>3, <2>5 DEF Fail, NeedFails, Hang, Return, Answers, Breaks, Hangs, Whys, MayLackShape
  <2> QED
    BY <1>2, <2>3, <2>6, UnchangedKept DEF Quiet, runs
<1>10. CASE Branch
  BY <1>2, <1>10, UnchangedKept DEF Branch, AtStep, Fail, Breaks, Whys, MayLackShape, Quiet, runs
<1>11. CASE ToolAnswers
  <2>1. Step.type # "for_each"
    BY <1>11 DEF ToolAnswers, RunInv
  <2>2. Answers \/ Breaks
    <3>1. pc = "tool" /\ asked' = asked /\ ((\E v : Return(v, 1)) \/ Fail("tool", 1))
      BY <1>11 DEF ToolAnswers
    <3> QED
      BY <2>1, <3>1, ReturnIs, FailIs DEF Whys
  <2> QED
    BY <1>2, <1>11, <2>2, UnchangedKept DEF ToolAnswers, Quiet, runs
<1>12. CASE ModelAnswers
  <2>1. Step.type # "for_each" /\ pc = "model"
    BY <1>12 DEF ModelAnswers, RunInv
  <2>2. (\E v : Return(v, 0)) \/ Fail("model", 0)
    BY <1>12 DEF ModelAnswers
  <2>3. asked' = asked
    BY <1>12 DEF ModelAnswers
  <2>4. Answers \/ Breaks
    BY <2>1, <2>2, <2>3, ReturnIs, FailIs DEF Whys
  <2> QED
    BY <1>2, <1>12, <2>4, UnchangedKept DEF ModelAnswers, Quiet, runs
<1> QED
  BY <1>4, <1>5, <1>6, <1>7, <1>8, <1>9, <1>10, <1>11, <1>12

LEMMA TruncatedFacts ==
    ASSUME NEW s, s.max \in Int, NEW items, NEW r, r = Truncated(s, items)
    PROVE  IsSeq(r) /\ Len(r) <= MaxIterations(s)
<1>1. PICK m \in Nat : m = MaxIterations(s)
  BY LimitFacts
<1>2. PICK S : S = {k \in 0..m : 1..k \subseteq DOMAIN items}
  OBVIOUS
<1>3. 0 \in S /\ S \subseteq Nat /\ \A k \in S : k <= m
  BY <1>1, <1>2
<1>4. PICK n : n = Max(S)
  OBVIOUS
<1>5. n \in S
  BY <1>3, <1>4, MaxMember
<1>6. n \in Nat /\ n <= m
  BY <1>3, <1>5
<1>7. r = [k \in 1..n |-> items[k]]
  BY <1>1, <1>2, <1>4 DEF Truncated
<1>8. r = [k \in 1..n |-> r[k]]
  BY <1>7
<1> QED
  BY <1>1, <1>6, <1>8, MakesSeq

LEMMA ForEachIs ==
    ASSUME RunInv, ForEach
    PROVE  Quiet \/ Enters
<1>1. pc = "step" /\ Step.type = "for_each" /\ UNCHANGED <<runs, asked>>
  BY DEF ForEach, AtStep
<1>2. ValidStep(Step) /\ IsList(Step.steps) /\ Step.max \in Int
  BY <1>1, StepFacts DEF Running
<1>3. Step.items # <<>> /\ Step.steps # <<>>
  BY <1>1, <1>2 DEF ValidStep
<1>4. PICK st, source, sources : st = Step /\ source = Value(Step.items) /\ sources = {source}
  OBVIOUS
<1>5. PICK items : items = Truncated(st, asInterfaceSlice(source))
  OBVIOUS
<1>6. PICK a, b : a = ValueOr(state.values, st.var) /\ b = ValueOr(state.values, st.index)
  OBVIOUS
<1>7. PICK l : l = [step |-> st, items |-> items, iter |-> 0, nested |-> 0,
                    outputs |-> <<>>, final |-> Nil, results |-> <<>>, calls |-> 0,
                    oldItem |-> a, oldIndex |-> b]
  OBVIOUS
<1>8. CASE Is(source, "array") /\ items # <<>>
  <2>1. loops' = Append(loops, l) /\ state' = [state EXCEPT !.values = Bind(@, l)] /\ UNCHANGED <<pc, ret, returned>>
    BY <1>3, <1>4, <1>5, <1>6, <1>7, <1>8 DEF ForEach
  <2>2. IsSeq(items) /\ Len(items) <= MaxIterations(st) /\ Len(items) > 0
    <3>1. IsSeq(items) /\ Len(items) <= MaxIterations(st)
      BY <1>2, <1>4, <1>5, TruncatedFacts
    <3> QED
      BY <1>8, <3>1, SeqFacts
  <2>3. Len(st.steps) > 0
    <3>1. PICK steps : steps = st.steps
      OBVIOUS
    <3>2. IsSeq(steps) /\ steps # <<>>
      BY <1>2, <1>3, <1>4, <3>1, ListFacts
    <3> QED
      BY <3>1, <3>2, SeqFacts
  <2>4. PICK e : e = <<>>
    <3>1. \E e : e = <<>>
      BY Zenon
    <3> QED
      BY <3>1
  <2>5. IsSeq(e) /\ Len(e) = 0
    BY <2>4, EmptyFacts
  <2>6. /\ DOMAIN l = LoopFields /\ l.step = st /\ l.items = items /\ l.iter = 0 /\ l.nested = 0
        /\ l.outputs = e /\ l.final = Nil /\ l.results = e /\ l.calls = 0 /\ l.oldItem = a /\ l.oldIndex = b
    BY <1>7, <2>4 DEF LoopFields
  <2>7. LoopOK(l)
    BY <1>1, <1>4, <2>2, <2>3, <2>5, <2>6 DEF LoopOK
  <2>8. NewLoop(l)
    BY <1>4, <1>6, <2>4, <2>6, <2>7 DEF NewLoop
  <2>9. OnlyValues /\ state'.values = Bind(state.values, l)
    BY <2>1 DEF RunInv, OnlyValues
  <2> QED
    BY <1>1, <2>1, <2>8, <2>9 DEF Enters, runs
<1>9. CASE ~(Is(source, "array") /\ items # <<>>)
  <2>1. PICK empty : empty = Arr(<<>>)
    OBVIOUS
  <2>2. /\ NeedFails(sources) \/ Fail("data", 0) \/ Return(empty, 0)
        /\ UNCHANGED <<loops, state>>
    BY <1>3, <1>4, <1>5, <1>9, <2>1 DEF ForEach
  <2>3. asked' = asked
    BY <1>1
  <2>4. Answers \/ Breaks \/ Hangs
    <3>1. CASE NeedFails(sources)
      BY <2>3, <3>1, NeedIs
    <3>2. CASE Fail("data", 0)
      BY <2>3, <3>2, FailIs DEF Whys
    <3>3. CASE Return(empty, 0)
      BY <1>1, <2>1, <2>3, <3>3, ReturnIs
    <3> QED
      BY <2>2, <3>1, <3>2, <3>3
  <2> QED
    BY <1>1, <2>2, <2>4, UnchangedKept DEF Quiet, runs
<1> QED
  BY <1>8, <1>9

\* What the loop has when a nested step returned.
LEMMA WithReturnFacts ==
    ASSUME NEW l, DOMAIN l = LoopFields, NEW m, m = WithReturn(l)
    PROVE  /\ DOMAIN m = LoopFields /\ m.step = l.step /\ m.items = l.items /\ m.iter = l.iter
           /\ m.nested = l.nested /\ m.results = l.results
           /\ m.oldItem = l.oldItem /\ m.oldIndex = l.oldIndex /\ m.calls = l.calls + ret.calls
           /\ m.outputs = Append(l.outputs, ret.value)
           /\ m.final = IF outputPresent(ret.value) THEN ret.value ELSE l.final
  BY DEF WithReturn, LoopFields

LEMMA NextIterationFacts ==
    ASSUME NEW l, DOMAIN l = LoopFields, NEW m, m = NextIteration(l)
    PROVE  /\ DOMAIN m = LoopFields /\ m.step = l.step /\ m.items = l.items /\ m.iter = l.iter + 1
           /\ m.nested = 0 /\ m.results = Append(l.results, Contract(l))
           /\ m.oldItem = l.oldItem /\ m.oldIndex = l.oldIndex /\ m.calls = l.calls
           /\ m.outputs = <<>> /\ m.final = Nil
  BY DEF NextIteration, KeepsFinal, LoopFields

LEMMA NestedReturnsIs ==
    ASSUME RunInv, NestedReturns
    PROVE  GoesOn \/ Iterates \/ LoopEnds \/ LoopStops
<1>1. InnerReturned /\ pc = "returned" /\ InLoop
  BY DEF NestedReturns, InnerReturned, runs
<1>2. PICK lp : lp = Loop
  OBVIOUS
<1>3. LoopOK(lp)
  BY <1>1, <1>2, LoopFacts DEF Early
<1>4. PICK l, n : l = WithReturn(lp) /\ n = NextIteration(l)
  OBVIOUS
<1>5. DOMAIN lp = LoopFields
  BY <1>3 DEF LoopOK
<1>6. /\ DOMAIN l = LoopFields /\ l.step = lp.step /\ l.items = lp.items /\ l.iter = lp.iter
      /\ l.nested = lp.nested /\ l.results = lp.results
      /\ l.oldItem = lp.oldItem /\ l.oldIndex = lp.oldIndex /\ l.calls = lp.calls + ret.calls
      /\ l.outputs = Append(lp.outputs, ret.value)
      /\ l.final = IF outputPresent(ret.value) THEN ret.value ELSE lp.final
  BY <1>4, <1>5, WithReturnFacts
<1>7. NestedIterates(n, lp)
  <2>0. DOMAIN l = LoopFields /\ n = NextIteration(l)
    BY <1>4, <1>6
  <2>1. /\ DOMAIN n = LoopFields /\ n.step = l.step /\ n.items = l.items /\ n.iter = l.iter + 1
        /\ n.nested = 0 /\ n.results = Append(l.results, Contract(l))
        /\ n.oldItem = l.oldItem /\ n.oldIndex = l.oldIndex /\ n.calls = l.calls
        /\ n.outputs = <<>> /\ n.final = Nil
    BY <2>0, NextIterationFacts
  <2>2. n.results = Append(lp.results, Contract(WithReturn(lp)))
    BY <1>4, <1>6, <2>1
  <2>3. Carries(n, lp)
    BY <1>6, <2>1 DEF Carries
  <2> QED
    BY <1>6, <2>1, <2>2, <2>3 DEF NestedIterates
<1>8. l.calls \in Nat
  BY <1>3, <1>6 DEF LoopOK, RunInv
<1>9. ASSUME LeaveLoop, pc' = "returned" PROVE Leaves
  BY <1>1, <1>9 DEF LeaveLoop, Leaves, OnlyValues, RunInv
<1>10. ASSUME NEW why \in {"nested", "schema"}, LoopFails(why, l.calls) PROVE LoopStops
  <2>1. LeaveLoop /\ Fail(why, l.calls) /\ asked' = asked
    BY <1>1, <1>10 DEF LoopFails, InnerReturned
  <2>2. pc' = "returned" /\ returned' = returned /\ ret' = [ok |-> FALSE, value |-> Nil, calls |-> l.calls, why |-> why]
    BY <2>1 DEF Fail
  <2>3. ret'.ok = FALSE /\ ret'.calls = l.calls /\ ret'.why = why
    BY <2>2
  <2> QED
    BY <1>8, <1>9, <1>10, <2>1, <2>2, <2>3 DEF LoopStops
<1>11. \/ LoopFails("nested", l.calls) \/ LoopFails("schema", l.calls)
       \/ /\ ret.ok /\ NestedConforms /\ l.nested + 1 < Len(l.step.steps)
          /\ loops' = [loops EXCEPT ![Len(loops)] = [l EXCEPT !.nested = @ + 1]]
          /\ pc' = "step" /\ UNCHANGED <<state, ret, returned>>
       \/ /\ ret.ok /\ NestedConforms /\ ~(l.nested + 1 < Len(l.step.steps)) /\ n.iter < Len(n.items)
          /\ loops' = [loops EXCEPT ![Len(loops)] = n]
          /\ state' = [state EXCEPT !.values = Bind(@, n)]
          /\ pc' = "step" /\ UNCHANGED <<ret, returned>>
       \/ /\ ret.ok /\ NestedConforms /\ ~(l.nested + 1 < Len(l.step.steps)) /\ ~(n.iter < Len(n.items))
          /\ LoopReturns(Arr(n.results), l.calls)
  BY <1>2, <1>4 DEF NestedReturns
<1>12. ASSUME ret.ok, NestedConforms, l.nested + 1 < Len(l.step.steps),
              loops' = [loops EXCEPT ![Len(loops)] = [l EXCEPT !.nested = @ + 1]],
              pc' = "step", UNCHANGED <<state, ret, returned>>
       PROVE  GoesOn
  <2>1. PICK m : m = [l EXCEPT !.nested = @ + 1]
    OBVIOUS
  <2>2. /\ DOMAIN m = LoopFields /\ m.step = l.step /\ m.items = l.items /\ m.iter = l.iter
        /\ m.nested = l.nested + 1 /\ m.results = l.results
        /\ m.oldItem = l.oldItem /\ m.oldIndex = l.oldIndex /\ m.calls = l.calls
        /\ m.outputs = l.outputs /\ m.final = l.final
    BY <1>6, <2>1 DEF LoopFields
  <2>3. NestedGoesOn(m, lp)
    BY <1>6, <2>2 DEF NestedGoesOn, Carries
  <2> QED
    BY <1>1, <1>2, <1>6, <1>12, <2>1, <2>3 DEF GoesOn
<1>13. ASSUME ret.ok, NestedConforms, ~(l.nested + 1 < Len(l.step.steps)), n.iter < Len(n.items),
              loops' = [loops EXCEPT ![Len(loops)] = n], state' = [state EXCEPT !.values = Bind(@, n)],
              pc' = "step", UNCHANGED <<ret, returned>>
       PROVE  Iterates
  <2>1. OnlyValues /\ state'.values = Bind(state.values, n)
    BY <1>13 DEF OnlyValues, RunInv
  <2>2. lp.iter + 1 < Len(lp.items) /\ ~(lp.nested + 1 < Len(lp.step.steps))
    BY <1>6, <1>7, <1>13 DEF NestedIterates, Carries
  <2> QED
    BY <1>1, <1>2, <1>7, <1>13, <2>1, <2>2 DEF Iterates
<1>14. ASSUME ret.ok, NestedConforms, ~(l.nested + 1 < Len(l.step.steps)), ~(n.iter < Len(n.items)),
              LoopReturns(Arr(n.results), l.calls)
       PROVE  LoopEnds
  <2>1. ~(lp.iter + 1 < Len(lp.items)) /\ ~(lp.nested + 1 < Len(lp.step.steps))
    BY <1>6, <1>7, <1>14 DEF NestedIterates, Carries
  <2>2. PICK v, c : v = Arr(n.results) /\ c = l.calls
    OBVIOUS
  <2>3. /\ LeaveLoop /\ pc' = "returned"
        /\ ret' = [ok |-> TRUE, value |-> v, calls |-> c, why |-> "none"]
        /\ returned' = With(returned, OuterPlace, [step |-> Loop.step, value |-> v])
    BY <1>14, <2>2 DEF LoopReturns
  <2>4. v = Arr(Append(Loop.results, Contract(WithReturn(Loop)))) /\ c = Loop.calls + ret.calls
    BY <1>2, <1>6, <1>7, <2>2 DEF NestedIterates
  <2>5. ret'.value = v
    BY <2>3
  <2> QED
    BY <1>2, <1>9, <1>14, <2>1, <2>3, <2>4, <2>5 DEF LoopEnds
<1> QED
  BY <1>10, <1>11, <1>12, <1>13, <1>14

\* What happens to a run.
LEMMA Shapes ==
    ASSUME RunInv, Next
    PROVE  \/ LoadConfig \/ MatchInboundProtocol \/ Quiet \/ Enters
           \/ GoesOn \/ Iterates \/ LoopEnds \/ LoopStops \/ StepReturns
<1>1. PrintsItself => Quiet
  BY UnchangedKept DEF PrintsItself, Quiet, Hangs, historyVars
<1> QED
  BY <1>1, QuietActions, ForEachIs, NestedReturnsIs DEF Next

-----------------------------------------------------------------------------
(* RunInv is inductive.                                                    *)

LEMMA SameConfig ==
    ASSUME UNCHANGED deployment
    PROVE  /\ config' = config /\ validateWorkflow' = validateWorkflow
           /\ FirstMatch(deployment.message)' = FirstMatch(deployment.message)
<1>1. config' = config
  BY DEF config
<1>2. validateWorkflow' = validateWorkflow
  BY <1>1 DEF validateWorkflow, ValidProtocol, validateWorkflowTrigger, ValidRef, ValidStep
<1>3. FirstMatch(deployment.message)' = FirstMatch(deployment.message)
  BY <1>1 DEF FirstMatch, Matches
<1> QED
  BY <1>1, <1>2, <1>3

LEMMA SameProto ==
    ASSUME UNCHANGED <<deployment, protocol>>
    PROVE  config' = config /\ Proto' = Proto /\ PersistKeys' = PersistKeys
<1>1. config' = config /\ Proto' = Proto
  BY DEF config, Proto
<1> QED
  BY <1>1 DEF PersistKeys

LEMMA SameAt ==
    ASSUME UNCHANGED <<deployment, protocol, at>>
    PROVE  TopStep' = TopStep /\ Attempts(TopStep)' = Attempts(TopStep)
<1>1. Proto' = Proto
  BY SameProto
<1>2. TopStep' = TopStep
  BY <1>1 DEF TopStep
<1> QED
  BY <1>1, <1>2 DEF Attempts, RetryBudget

LEMMA SameStep ==
    ASSUME UNCHANGED <<deployment, protocol, at, loops>>
    PROVE  Step' = Step /\ Place' = Place /\ Loop' = Loop /\ InLoop' = InLoop
<1>1. Proto' = Proto
  BY SameProto
<1>2. Loop' = Loop /\ InLoop' = InLoop
  BY DEF Loop, InLoop
<1> QED
  BY <1>1, <1>2 DEF Step, Place

\* The parts of RunInv that only a step into or out of a loop changes.
LEMMA RunParts ==
    ASSUME RunInv, pc \notin Early, UNCHANGED <<deployment, protocol, at>>,
           pc' \in Running, IsSeq(loops)', Nest(loops', at.i, Proto), DOMAIN state' = {"input", "values", "outputs", "final"},
           ret'.ok \in BOOLEAN, ret'.calls \in Nat, \A p \in DOMAIN asked' : asked'[p].times \in Nat,
           pc' = "tool" => Step'.type \in {"tool", "send_message"},
           pc' = "model" => Step'.type \in {"summarize", "plan"},
           ValidatedIsExecutable', pc \in Running
    PROVE  RunInv'
<1>1. config' = config /\ Proto' = Proto /\ validateWorkflow' = validateWorkflow
      /\ FirstMatch(deployment.message)' = FirstMatch(deployment.message)
      /\ TopStep' = TopStep /\ Attempts(TopStep)' = Attempts(TopStep)
  BY SameConfig, SameProto, SameAt
<1>2. pc' \notin Early /\ pc' # "ended"
  BY DEF Early, Running
<1>3. Nest(loops, at.i, Proto)'
  BY <1>1 DEF Nest, LoopOK, MaxIterations, Current
<1>4. deployment' \in Deployments /\ validateWorkflow' /\ protocol' # 0
      /\ protocol' = FirstMatch(deployment.message)'
  BY <1>1 DEF RunInv, Early
<1>5. (at.i < Len(Proto.steps) /\ at.attempt <= Attempts(TopStep))'
  BY <1>1 DEF RunInv
<1>6. pc' \in {"load", "inbound", "step", "tool", "model", "returned"} \cup Ended
  BY DEF Running, Ended
<1>7. (DOMAIN at = {"i", "attempt"} /\ at.i \in Nat /\ at.attempt \in Nat /\ at.attempt >= 1)'
  BY DEF RunInv
<1> QED
  BY <1>2, <1>3, <1>4, <1>5, <1>6, <1>7 DEF RunInv

LEMMA RunQuiet ==
    ASSUME RunInv, Quiet
    PROVE  RunInv'
<1>1. pc \in Running /\ pc \notin Early /\ UNCHANGED <<deployment, protocol, at, loops>>
  BY DEF Quiet, Running, Early
<1>2. Step' = Step
  BY <1>1, SameStep
<1>3. IsSeq(loops)' /\ Nest(loops', at.i, Proto) /\ DOMAIN state' = {"input", "values", "outputs", "final"}
  BY <1>1 DEF RunInv, Quiet, OnlyValues
<1>4. CASE Answers
  <2>1. PICK v, c, r : r = ret' /\ r = [ok |-> TRUE, value |-> v, calls |-> c, why |-> "none"] /\ c \in Nat
    BY <1>4 DEF Answers
  <2>2. r.ok = TRUE /\ r.calls = c /\ r.why = "none"
    BY <2>1
  <2>3. ret'.ok \in BOOLEAN /\ ret'.calls \in Nat /\ ret'.why = "none"
    BY <2>1, <2>2
  <2>4. pc' \in Running /\ pc' = "returned" /\ asked' = asked
    BY <1>4 DEF Answers, Running
  <2>5. ValidatedIsExecutable'
    BY <2>3 DEF ValidatedIsExecutable
  <2>6. \A p \in DOMAIN asked' : asked'[p].times \in Nat
    BY <2>4 DEF RunInv
  <2> QED
    BY <1>1, <1>3, <2>3, <2>4, <2>5, <2>6, RunParts
<1>5. CASE Breaks
  <2>1. ret'.ok \in BOOLEAN /\ ret'.calls \in Nat
    BY <1>5 DEF Breaks
  <2>2. pc' \in Running /\ pc' = "returned" /\ asked' = asked
    BY <1>5 DEF Breaks, Running
  <2>3. ValidatedIsExecutable'
    BY <1>2, <1>5 DEF ValidatedIsExecutable, Breaks, MayLackShape
  <2>4. \A p \in DOMAIN asked' : asked'[p].times \in Nat
    BY <2>2 DEF RunInv
  <2> QED
    BY <1>1, <1>3, <2>1, <2>2, <2>3, <2>4, RunParts
<1>6. CASE Hangs
  <2>1. ret' = ret /\ pc' = "hung" /\ asked' = asked
    BY <1>6 DEF Hangs
  <2>2. ret'.ok \in BOOLEAN /\ ret'.calls \in Nat /\ pc' \in Running /\ ValidatedIsExecutable'
        /\ \A p \in DOMAIN asked' : asked'[p].times \in Nat
    BY <2>1 DEF RunInv, Running, ValidatedIsExecutable
  <2> QED
    BY <1>1, <1>3, <2>1, <2>2, RunParts
<1>7. CASE Asks
  <2>1. /\ ret' = ret
        /\ \/ pc' = "tool" /\ Step.type \in {"tool", "send_message"}
           \/ pc' = "model" /\ Step.type \in {"summarize", "plan"}
    BY <1>7 DEF Asks
  <2>2. ret'.ok \in BOOLEAN /\ ret'.calls \in Nat /\ pc' \in Running /\ ValidatedIsExecutable'
    BY <2>1 DEF RunInv, Running, ValidatedIsExecutable
  <2>3. \A p \in DOMAIN asked' : asked'[p].times \in Nat
    <3>1. PICK n, q, st, around : n \in Nat /\ asked' = With(asked, q, [step |-> st, around |-> around, times |-> n])
      BY <1>7 DEF Asks
    <3>2. PICK new, call : new = asked' /\ call = [step |-> st, around |-> around, times |-> n]
      OBVIOUS
    <3>3. IsWith(new, asked, q, call)
      BY <3>1, <3>2, WithFacts
    <3>4. call.times = n /\ n \in Nat
      BY <3>1, <3>2
    <3>5. \A p \in DOMAIN new : new[p].times \in Nat
      BY <3>3, <3>4 DEF IsWith, RunInv
    <3> QED
      BY <3>2, <3>5
  <2> QED
    BY <1>1, <1>2, <1>3, <2>1, <2>2, <2>3, RunParts
<1> QED
  BY <1>4, <1>5, <1>6, <1>7 DEF Quiet

LEMMA NestDeeper ==
    ASSUME RunInv, pc = "step", NEW l, NewLoop(l), Step.type = "for_each", NEW ls, ls = Append(loops, l)
    PROVE  Nest(ls, at.i, Proto) /\ IsSeq(ls)
<1>1. PICK n : n = Len(loops)
  OBVIOUS
<1>2. IsSeq(loops) /\ n \in Nat /\ DOMAIN loops = 1..n /\ Nest(loops, at.i, Proto)
  BY <1>1, LoopFacts DEF RunInv, Early
<1>3. Appended(ls, loops, l, n)
  BY <1>1, <1>2, AppendFacts
<1>4. n <= MaxNesting /\ Step \in Levels(Proto)[n] /\ Step = Current(loops, n, at.i, Proto)
  BY <1>1, StepFacts, LoopFacts DEF Running, Early
<1>5. ASSUME NEW d \in DOMAIN ls
      PROVE  /\ LoopOK(ls[d]) /\ d - 1 <= MaxNesting /\ ls[d].step \in Levels(Proto)[d - 1]
             /\ ls[d].step = Current(ls, d - 1, at.i, Proto)
  <2>1. CASE d = n + 1
    <3>1. d - 1 = n /\ ls[d] = l /\ (n # 0 => ls[n] = loops[n])
      BY <1>2, <1>3, <2>1 DEF Appended
    <3>2. Current(ls, n, at.i, Proto) = Current(loops, n, at.i, Proto)
      BY <3>1 DEF Current
    <3> QED
      BY <1>4, <3>1, <3>2 DEF NewLoop
  <2>2. CASE d \in 1..n
    <3>1. ls[d] = loops[d] /\ (d - 1 # 0 => ls[d - 1] = loops[d - 1])
      BY <1>2, <1>3, <2>2 DEF Appended
    <3>2. Current(ls, d - 1, at.i, Proto) = Current(loops, d - 1, at.i, Proto)
      BY <3>1 DEF Current
    <3> QED
      BY <1>2, <2>2, <3>1, <3>2 DEF Nest
  <2> QED
    BY <1>2, <1>3, <2>1, <2>2 DEF Appended
<1> QED
  BY <1>3, <1>5 DEF Nest, Appended

LEMMA NestReplaced ==
    ASSUME RunInv, pc = "returned", InLoop, NEW m, LoopOK(m), m.step = Loop.step,
           NEW ls, ls = [loops EXCEPT ![Len(loops)] = m]
    PROVE  Nest(ls, at.i, Proto) /\ IsSeq(ls)
<1>1. PICK n : n = Len(loops)
  OBVIOUS
<1>2. IsSeq(loops) /\ n \in Nat /\ DOMAIN loops = 1..n /\ Nest(loops, at.i, Proto) /\ n \in 1..n /\ Loop = loops[n]
  BY <1>1, LoopFacts DEF RunInv, Early
<1>3. Replaced(ls, loops, n, n, m)
  BY <1>1, <1>2, SetFacts
<1>4. ASSUME NEW d \in DOMAIN ls
      PROVE  /\ LoopOK(ls[d]) /\ d - 1 <= MaxNesting /\ ls[d].step \in Levels(Proto)[d - 1]
             /\ ls[d].step = Current(ls, d - 1, at.i, Proto)
  <2>5. d \in 1..n
    BY <1>3 DEF Replaced
  <2>1. d \in 1..n /\ d - 1 # n /\ (d - 1 # 0 => d - 1 \in 1..n)
    BY <1>2, <2>5
  <2>2. ls[d].step = loops[d].step /\ LoopOK(ls[d])
    BY <1>2, <1>3, <2>1 DEF Replaced, Nest
  <2>3. d - 1 # 0 => ls[d - 1] = loops[d - 1]
    BY <1>3, <2>1 DEF Replaced
  <2>4. Current(ls, d - 1, at.i, Proto) = Current(loops, d - 1, at.i, Proto)
    BY <2>3 DEF Current
  <2> QED
    BY <1>2, <2>1, <2>2, <2>4 DEF Nest
<1> QED
  BY <1>3, <1>4 DEF Nest, Replaced

LEMMA NestFront ==
    ASSUME RunInv, pc = "returned", InLoop, NEW ls, ls = Front(loops)
    PROVE  Nest(ls, at.i, Proto) /\ IsSeq(ls)
<1>1. PICK n : n = Len(loops)
  OBVIOUS
<1>2. IsSeq(loops) /\ loops # <<>> /\ n \in Nat /\ DOMAIN loops = 1..n /\ Nest(loops, at.i, Proto)
  BY <1>1, LoopFacts DEF RunInv, Early, InLoop
<1>3. Fronted(ls, loops, n)
  BY <1>1, <1>2, FrontFacts
<1>4. ASSUME NEW d \in DOMAIN ls
      PROVE  /\ LoopOK(ls[d]) /\ d - 1 <= MaxNesting /\ ls[d].step \in Levels(Proto)[d - 1]
             /\ ls[d].step = Current(ls, d - 1, at.i, Proto)
  <2>1. d \in 1..n /\ d \in 1..(n - 1) /\ (d - 1 # 0 => d - 1 \in 1..(n - 1))
    BY <1>2, <1>3 DEF Fronted
  <2>2. ls[d] = loops[d] /\ (d - 1 # 0 => ls[d - 1] = loops[d - 1])
    BY <1>3, <2>1 DEF Fronted
  <2>3. Current(ls, d - 1, at.i, Proto) = Current(loops, d - 1, at.i, Proto)
    BY <2>2 DEF Current
  <2> QED
    BY <1>2, <2>1, <2>2, <2>3 DEF Nest
<1> QED
  BY <1>3, <1>4 DEF Nest, Fronted

\* A loop that goes on, or iterates, is a loop as it should be.
LEMMA GoesOnOK ==
    ASSUME RunInv, NEW l, LoopOK(l), NEW m, NestedGoesOn(m, l), l.nested + 1 < Len(l.step.steps)
    PROVE  LoopOK(m) /\ m.step = l.step /\ Appended(m.outputs, l.outputs, ret.value, l.nested)
<1>1. PICK o, n, v : o = l.outputs /\ n = l.nested /\ v = ret.value
  OBVIOUS
<1>2. IsSeq(o) /\ n = Len(o) /\ n \in Nat /\ m.outputs = Append(o, v)
  BY <1>1 DEF LoopOK, NestedGoesOn
<1>3. PICK r : r = m.outputs
  OBVIOUS
<1>4. Appended(r, o, v, n)
  BY <1>2, <1>3, AppendFacts
<1>5. LoopOK(m)
  BY <1>1, <1>2, <1>3, <1>4 DEF LoopOK, NestedGoesOn, Carries, Appended, RunInv
<1> QED
  BY <1>1, <1>3, <1>4, <1>5 DEF NestedGoesOn, Carries

LEMMA IteratesOK ==
    ASSUME RunInv, NEW l, LoopOK(l), NEW m, NestedIterates(m, l), l.iter + 1 < Len(l.items)
    PROVE  LoopOK(m) /\ m.step = l.step /\ Appended(m.results, l.results, Contract(WithReturn(l)), l.iter)
<1>1. PICK o, n, v : o = l.results /\ n = l.iter /\ v = Contract(WithReturn(l))
  OBVIOUS
<1>2. IsSeq(o) /\ n = Len(o) /\ n \in Nat /\ m.results = Append(o, v)
  BY <1>1 DEF LoopOK, NestedIterates
<1>3. PICK r, e : r = m.results /\ e = m.outputs
  OBVIOUS
<1>4. Appended(r, o, v, n)
  BY <1>2, <1>3, AppendFacts
<1>5. e = <<>> /\ IsSeq(e) /\ Len(e) = 0
  BY <1>3, EmptyFacts DEF NestedIterates
<1>6. LoopOK(m)
  BY <1>1, <1>2, <1>3, <1>4, <1>5 DEF LoopOK, NestedIterates, Carries, Appended, RunInv
<1> QED
  BY <1>1, <1>3, <1>4, <1>6 DEF NestedIterates, Carries

LEMMA RunLoops ==
    ASSUME RunInv, Enters \/ GoesOn \/ Iterates \/ LoopEnds \/ LoopStops
    PROVE  RunInv'
<1>1. /\ UNCHANGED <<deployment, protocol, at, asked>> /\ pc \in {"step", "returned"} /\ pc' \in {"step", "returned"}
      /\ DOMAIN state' = {"input", "values", "outputs", "final"}
  BY DEF Enters, GoesOn, Iterates, LoopEnds, LoopStops, Leaves, InnerReturned, OnlyValues, RunInv
<1>2. pc \in Running /\ pc \notin Early /\ pc' \in Running /\ pc' # "tool" /\ pc' # "model"
  BY <1>1 DEF Running, Early
<1>3. \A p \in DOMAIN asked' : asked'[p].times \in Nat
  BY <1>1 DEF RunInv
<1>4. CASE Enters
  <2>1. PICK l : NewLoop(l) /\ loops' = Append(loops, l)
    BY <1>4 DEF Enters
  <2>2. IsSeq(loops)' /\ Nest(loops', at.i, Proto)
    BY <1>4, <2>1, NestDeeper DEF Enters
  <2>3. pc' = "step" /\ ret' = ret
    BY <1>4 DEF Enters
  <2>4. ret'.ok \in BOOLEAN /\ ret'.calls \in Nat /\ ValidatedIsExecutable'
    BY <2>3 DEF RunInv, ValidatedIsExecutable
  <2> QED
    BY <1>1, <1>2, <1>3, <2>2, <2>4, RunParts
<1>5. CASE GoesOn
  <2>1. PICK m : NestedGoesOn(m, Loop) /\ loops' = [loops EXCEPT ![Len(loops)] = m]
    BY <1>5 DEF GoesOn
  <2>2. pc = "returned" /\ InLoop /\ pc' = "step" /\ ret' = ret /\ Loop.nested + 1 < Len(Loop.step.steps)
    BY <1>5 DEF GoesOn, InnerReturned
  <2>3. LoopOK(Loop)
    BY <1>2, <2>2, LoopFacts
  <2>4. LoopOK(m) /\ m.step = Loop.step
    BY <2>1, <2>2, <2>3, GoesOnOK
  <2>5. IsSeq(loops)' /\ Nest(loops', at.i, Proto)
    BY <2>1, <2>2, <2>4, NestReplaced
  <2>6. ret'.ok \in BOOLEAN /\ ret'.calls \in Nat /\ ValidatedIsExecutable'
    BY <2>2 DEF RunInv, ValidatedIsExecutable
  <2> QED
    BY <1>1, <1>2, <1>3, <2>5, <2>6, RunParts
<1>6. CASE Iterates
  <2>1. PICK m : NestedIterates(m, Loop) /\ loops' = [loops EXCEPT ![Len(loops)] = m]
    BY <1>6 DEF Iterates
  <2>2. pc = "returned" /\ InLoop /\ pc' = "step" /\ ret' = ret /\ Loop.iter + 1 < Len(Loop.items)
    BY <1>6 DEF Iterates, InnerReturned
  <2>3. LoopOK(Loop)
    BY <1>2, <2>2, LoopFacts
  <2>4. LoopOK(m) /\ m.step = Loop.step
    BY <2>1, <2>2, <2>3, IteratesOK
  <2>5. IsSeq(loops)' /\ Nest(loops', at.i, Proto)
    BY <2>1, <2>2, <2>4, NestReplaced
  <2>6. ret'.ok \in BOOLEAN /\ ret'.calls \in Nat /\ ValidatedIsExecutable'
    BY <2>2 DEF RunInv, ValidatedIsExecutable
  <2> QED
    BY <1>1, <1>2, <1>3, <2>5, <2>6, RunParts
<1>7. CASE LoopEnds \/ LoopStops
  <2>1. pc = "returned" /\ InLoop /\ loops' = Front(loops)
    BY <1>7 DEF LoopEnds, LoopStops, Leaves, InnerReturned
  <2>2. IsSeq(loops)' /\ Nest(loops', at.i, Proto)
    BY <2>1, NestFront
  <2>3. ret'.ok \in BOOLEAN /\ ret'.calls \in Nat /\ ret'.why # "shape"
    <3>1. CASE LoopStops
      BY <3>1 DEF LoopStops
    <3>2. CASE LoopEnds
      <4>1. LoopOK(Loop)
        BY <1>2, <2>1, LoopFacts
      <4>2. PICK c \in Nat : c = Loop.calls + ret.calls
        BY <4>1 DEF LoopOK, RunInv
      <4>3. PICK v, r : r = ret' /\ r = [ok |-> TRUE, value |-> v, calls |-> c, why |-> "none"]
        BY <3>2, <4>2 DEF LoopEnds
      <4>4. r.ok = TRUE /\ r.calls = c /\ r.why = "none"
        BY <4>3
      <4> QED
        BY <4>2, <4>3, <4>4
    <3> QED
      BY <1>7, <3>1, <3>2
  <2>4. ValidatedIsExecutable'
    BY <2>3 DEF ValidatedIsExecutable
  <2> QED
    BY <1>1, <1>2, <1>3, <2>2, <2>3, <2>4, RunParts
<1> QED
  BY <1>4, <1>5, <1>6, <1>7

\* How often a step of the protocol is tried.
LEMMA AttemptsAre ==
    ASSUME RunInv, pc \notin Early, NEW i \in DOMAIN Proto.steps
    PROVE  Attempts(Proto.steps[i]) \in Nat /\ Attempts(Proto.steps[i]) >= 1
<1>1. Proto.steps[i] \in AllSteps(Proto)
  BY LevelFacts, WorkflowAssumption DEF Range
<1>2. Proto.steps[i].retries \in Int /\ Proto.retries \in Int /\ Proto.retries >= 0
  BY <1>1, ProtoFacts DEF ValidProtocol
<1> QED
  BY <1>2 DEF Attempts, RetryBudget

LEMMA NoLoopNest ==
    ASSUME NEW ls, ls = <<>>, NEW i, NEW p
    PROVE  Nest(ls, i, p) /\ IsSeq(ls)
<1>1. DOMAIN ls = {} /\ IsSeq(ls)
  BY EmptyFacts
<1> QED
  BY <1>1 DEF Nest

LEMMA RunStep ==
    ASSUME RunInv, StepReturns
    PROVE  RunInv'
<1>1. /\ UNCHANGED <<deployment, protocol, loops, ret, asked>> /\ pc = "returned" /\ ~InLoop /\ loops = <<>>
      /\ StepSucceeds \/ StepIsRetried \/ StepIsRefused
  BY DEF StepReturns, historyVars, InLoop
<1>2. pc \in Running /\ pc \notin Early
  BY <1>1 DEF Running, Early
<1>3. config' = config /\ Proto' = Proto /\ validateWorkflow' = validateWorkflow
      /\ FirstMatch(deployment.message)' = FirstMatch(deployment.message)
  BY <1>1, SameConfig, SameProto
<1>4. /\ deployment' \in Deployments /\ validateWorkflow' /\ protocol' # 0
      /\ protocol' = FirstMatch(deployment.message)' /\ at.i \in Nat /\ at.attempt \in Nat /\ at.i < Len(Proto.steps)
      /\ DOMAIN at = {"i", "attempt"} /\ at.attempt >= 1
      /\ ret'.ok \in BOOLEAN /\ ret'.calls \in Nat /\ \A p \in DOMAIN asked' : asked'[p].times \in Nat
  BY <1>1, <1>2, <1>3 DEF RunInv
<1>5. /\ DOMAIN state' = {"input", "values", "outputs", "final"}
      /\ pc' \in {"ended", "step"} /\ (DOMAIN at = {"i", "attempt"} /\ at.i \in Nat /\ at.attempt \in Nat /\ at.attempt >= 1)'
  <2>1. CASE StepSucceeds
    <3>1. /\ DOMAIN state' = DOMAIN state /\ pc' \in {"ended", "step"} /\ at' = [i |-> at.i + 1, attempt |-> 1]
      BY <2>1 DEF StepSucceeds, RunInv
    <3> QED
      BY <1>4, <3>1 DEF RunInv
  <2>2. CASE StepIsRetried
    BY <1>4, <2>2 DEF StepIsRetried, NextAttempt, RunInv
  <2>3. CASE StepIsRefused
    BY <1>4, <2>3 DEF StepIsRefused, RunInv
  <2> QED
    BY <1>1, <2>1, <2>2, <2>3
<1>6. Nest(loops, at.i, Proto)' /\ IsSeq(loops)'
  <2>1. loops' = <<>>
    BY <1>1
  <2>2. PICK ls, i, p : ls = loops' /\ i = at'.i /\ p = Proto'
    OBVIOUS
  <2>3. Nest(ls, i, p) /\ IsSeq(ls)
    BY <2>1, <2>2, NoLoopNest
  <2> QED
    BY <2>2, <2>3 DEF Nest, LoopOK, MaxIterations, Current
<1>7. IsList(Proto.steps) /\ Len(Proto.steps) \in Nat /\ DOMAIN Proto.steps = 1..Len(Proto.steps)
  BY <1>2, ProtoFacts, ListFacts
<1>8. ASSUME pc' = "step" PROVE (at.i < Len(Proto.steps) /\ at.attempt <= Attempts(TopStep))'
  <2>1. CASE StepSucceeds
    <3>1. at'.i = at.i + 1 /\ at'.attempt = 1 /\ at.i + 1 # Len(Proto.steps)
      BY <1>8, <2>1 DEF StepSucceeds
    <3>2. at.i + 1 < Len(Proto.steps) /\ at.i + 2 \in DOMAIN Proto.steps
      BY <1>4, <1>7, <3>1
    <3>3. PICK s : s = Proto.steps[at.i + 2]
      OBVIOUS
    <3>4. TopStep' = s
      BY <1>3, <1>4, <3>1, <3>3 DEF TopStep
    <3>5. Attempts(s) \in Nat /\ Attempts(s) >= 1
      BY <1>2, <3>2, <3>3, AttemptsAre
    <3>6. Attempts(TopStep)' = Attempts(s)
      BY <1>3, <3>4 DEF Attempts, RetryBudget
    <3> QED
      BY <1>3, <3>1, <3>2, <3>5, <3>6
  <2>2. CASE StepIsRetried
    <3>1. at'.i = at.i /\ at'.attempt = at.attempt + 1 /\ at.attempt < Attempts(Step)
      BY <1>4, <2>2 DEF StepIsRetried, NextAttempt
    <3>2. Step = TopStep /\ Attempts(TopStep) \in Nat
      BY <1>1, <1>2, LoopFacts, AttemptFacts
    <3>3. TopStep' = TopStep
      BY <1>3, <3>1 DEF TopStep
    <3>4. Attempts(TopStep)' = Attempts(TopStep)
      BY <1>3, <3>3 DEF Attempts, RetryBudget
    <3> QED
      BY <1>3, <1>4, <3>1, <3>2, <3>4
  <2>3. CASE StepIsRefused
    BY <1>8, <2>3 DEF StepIsRefused
  <2> QED
    BY <1>1, <2>1, <2>2, <2>3
<1>9. ValidatedIsExecutable'
  BY <1>5 DEF ValidatedIsExecutable
<1>10. /\ pc' \in {"load", "inbound", "step", "tool", "model", "returned"} \cup Ended
       /\ pc' \notin Early /\ (pc' \in Running => pc' = "step") /\ pc' # "tool" /\ pc' # "model"
  BY <1>5 DEF Running, Early, Ended
<1> QED
  BY <1>1, <1>4, <1>5, <1>6, <1>8, <1>9, <1>10 DEF RunInv

LEMMA RunBegins ==
    ASSUME RunInv, LoadConfig \/ MatchInboundProtocol
    PROVE  RunInv'
<1>1. UNCHANGED <<deployment, loops, at, ret, asked>> /\ pc \in Early /\ pc # "refused"
  BY DEF LoadConfig, MatchInboundProtocol, historyVars, Early
<1>2. /\ deployment' \in Deployments /\ loops' = <<>> /\ at'.i = 0 /\ at'.attempt = 1 /\ DOMAIN at' = {"i", "attempt"}
      /\ ret'.ok \in BOOLEAN /\ ret'.calls \in Nat /\ (\A p \in DOMAIN asked' : asked'[p].times \in Nat)
      /\ protocol = 0 /\ IsSeq(loops)' /\ at.i = 0 /\ at.attempt = 1
  BY <1>1 DEF RunInv
<1>3. config' = config /\ validateWorkflow' = validateWorkflow
      /\ FirstMatch(deployment.message)' = FirstMatch(deployment.message)
  BY <1>1, SameConfig
<1>4. CASE LoadConfig
  <2>1. pc' = (IF validateWorkflow THEN "inbound" ELSE "refused") /\ UNCHANGED <<protocol, state>>
    BY <1>4 DEF LoadConfig
  <2>2. pc' \in Early /\ pc' # "load" /\ (pc' # "refused" => validateWorkflow')
    BY <1>3, <2>1 DEF Early
  <2>3. pc' \notin Running /\ pc' # "ended" /\ pc' # "tool" /\ pc' # "model" /\ ValidatedIsExecutable'
    BY <2>1 DEF Running, ValidatedIsExecutable
  <2>4. pc' \in {"load", "inbound", "step", "tool", "model", "returned"} \cup Ended
    BY <2>1 DEF Ended
  <2> QED
    BY <1>1, <1>2, <2>1, <2>2, <2>3, <2>4 DEF RunInv
<1>5. CASE MatchInboundProtocol
  <2>1. PICK k : k = FirstMatch(deployment.message)
    OBVIOUS
  <2>2. \/ pc' = "refused" /\ UNCHANGED <<protocol, state>>
        \/ /\ k # 0 /\ pc' = (IF config.protocols[k].steps = <<>> THEN "ended" ELSE "step")
           /\ protocol' = k /\ state' = [NoRun EXCEPT !.input = deployment.message.payload, !.values = deployment.message.payload[2]]
    BY <1>5, <2>1 DEF MatchInboundProtocol
  <2>3. DOMAIN state' = {"input", "values", "outputs", "final"}
    BY <2>2 DEF NoRun, RunInv
  <2>4. validateWorkflow'
    BY <1>3, <1>5 DEF MatchInboundProtocol, RunInv
  <2>5. CASE pc' = "refused" /\ UNCHANGED protocol
    <3>1. /\ pc' \in Early /\ pc' \notin Running /\ pc' # "ended" /\ pc' # "tool" /\ pc' # "model" /\ ValidatedIsExecutable'
          /\ pc' \in {"load", "inbound", "step", "tool", "model", "returned"} \cup Ended
      BY <2>5 DEF Running, ValidatedIsExecutable, Early, Ended
    <3> QED
      BY <1>1, <1>2, <2>3, <2>5, <3>1 DEF RunInv
  <2>6. CASE k # 0 /\ pc' = (IF config.protocols[k].steps = <<>> THEN "ended" ELSE "step") /\ protocol' = k
    <3>1. k \in DOMAIN config.protocols /\ k \in Nat
      BY <2>1, <2>6, FirstFacts DEF RunInv
    <3>2. PICK p : p = config.protocols[k]
      OBVIOUS
    <3>3. Proto' = p
      BY <1>3, <2>6, <3>2 DEF Proto
    <3>4. IsList(p.steps) /\ p.retries \in Int /\ \A s \in AllSteps(p) : s.retries \in Int
      BY <3>1, <3>2, ConfigFacts DEF config, RunInv
    <3>5. p.retries >= 0
      BY <1>3, <2>4, <3>1, <3>2 DEF validateWorkflow, ValidProtocol
    <3>6. pc' \in {"ended", "step"} /\ pc' \notin Early /\ pc' # "tool" /\ pc' # "model" /\ ValidatedIsExecutable'
      BY <2>6 DEF Early, ValidatedIsExecutable
    <3>7. Nest(loops, at.i, Proto)'
      <4>1. PICK ls, i, q : ls = loops' /\ i = at'.i /\ q = Proto'
        OBVIOUS
      <4>2. Nest(ls, i, q) /\ IsSeq(ls)
        BY <1>2, <4>1, NoLoopNest
      <4> QED
        BY <4>1, <4>2 DEF Nest, LoopOK, MaxIterations, Current
    <3>8. ASSUME pc' \in Running PROVE (at.i < Len(Proto.steps) /\ at.attempt <= Attempts(TopStep))'
      <4>1. p.steps # <<>>
        BY <2>6, <3>2, <3>8 DEF Running
      <4>2. PICK ss : ss = p.steps
        OBVIOUS
      <4>3. IsSeq(ss) /\ DOMAIN ss = 1..Len(ss) /\ Len(ss) \in Nat
        BY <3>4, <4>2, ListFacts
      <4>4. Len(ss) > 0
        BY <4>1, <4>2, <4>3, SeqFacts
      <4>5. 1 \in DOMAIN ss /\ at'.i < Len(ss)
        BY <1>2, <4>3, <4>4
      <4>6. ss[1] \in AllSteps(p)
        <5>1. ss[1] \in Range(p.steps) /\ MaxNesting \in Nat
          BY <4>2, <4>5, WorkflowAssumption DEF Range
        <5> QED
          BY <5>1, LevelFacts
      <4>7. TopStep' = ss[1]
        BY <1>2, <3>3, <4>2 DEF TopStep
      <4>8. TopStep'.retries \in Int
        BY <3>4, <4>6, <4>7
      <4>9. Attempts(TopStep)' \in Nat /\ Attempts(TopStep)' >= 1
        BY <3>3, <3>4, <3>5, <4>8 DEF Attempts, RetryBudget
      <4> QED
        BY <1>2, <3>3, <4>2, <4>5, <4>9
    <3>9. pc' \in {"load", "inbound", "step", "tool", "model", "returned"} \cup Ended
      BY <3>6 DEF Ended
    <3> QED
      BY <1>1, <1>2, <1>3, <2>1, <2>3, <2>4, <2>6, <3>6, <3>7, <3>8, <3>9 DEF RunInv
  <2> QED
    BY <2>2, <2>5, <2>6
<1> QED
  BY <1>4, <1>5

LEMMA RunInit ==
    ASSUME Init
    PROVE  RunInv
<1>1. loops = <<>> /\ pc = "load" /\ protocol = 0 /\ asked = <<>> /\ state = NoRun /\ ret = NoReturn
      /\ at = [i |-> 0, attempt |-> 1] /\ deployment \in Deployments
  BY DEF Init
<1>2. IsSeq(loops) /\ DOMAIN asked = {}
  BY <1>1, EmptyFacts
<1>3. DOMAIN state = {"input", "values", "outputs", "final"} /\ ret.ok \in BOOLEAN /\ ret.calls \in Nat
      /\ DOMAIN at = {"i", "attempt"} /\ at.i = 0 /\ at.attempt = 1
  BY <1>1 DEF NoRun, NoReturn
<1>4. ValidatedIsExecutable
  BY <1>1 DEF ValidatedIsExecutable
<1> QED
  BY <1>1, <1>2, <1>3, <1>4 DEF RunInv, Early, Running, Ended

LEMMA RunStutters ==
    ASSUME RunInv, UNCHANGED vars
    PROVE  RunInv'
<1>1. UNCHANGED <<deployment, pc, protocol, state, trace, at, loops, ret, asked, returned>>
  BY DEF vars
<1>2. config' = config /\ Proto' = Proto /\ Step' = Step /\ TopStep' = TopStep /\ Attempts(TopStep)' = Attempts(TopStep)
      /\ validateWorkflow' = validateWorkflow
      /\ FirstMatch(deployment.message)' = FirstMatch(deployment.message)
  BY <1>1, SameConfig, SameProto, SameAt, SameStep
<1>3. pc \notin Early => Nest(loops, at.i, Proto)'
  BY <1>1, <1>2 DEF RunInv, Nest, LoopOK, MaxIterations, Current
<1>4. ValidatedIsExecutable'
  BY <1>1, <1>2 DEF RunInv, ValidatedIsExecutable
<1> QED
  BY <1>1, <1>2, <1>3, <1>4 DEF RunInv

LEMMA RunNext ==
    ASSUME RunInv, [Next]_vars
    PROVE  RunInv'
  BY Shapes, RunQuiet, RunLoops, RunStep, RunBegins, RunStutters

\* Where a run is, the protocol it runs and its loops, in every reachable state.
THEOREM RunIsNested == Spec => []RunInv
<1>1. Init => RunInv
  BY RunInit
<1>2. RunInv /\ [Next]_vars => RunInv'
  BY RunNext
<1> QED
  BY <1>1, <1>2, PTL DEF Spec

LEMMA FirstDecides ==
    ASSUME RunInv
    PROVE  FirstPrefixDecides
<1>1. SUFFICES ASSUME protocol # 0, NEW k \in 1..protocol - 1, Matches(config.protocols[k], deployment.message) PROVE FALSE
  BY DEF FirstPrefixDecides
<1>2. protocol = FirstMatch(deployment.message)
  BY <1>1 DEF RunInv
<1>3. /\ protocol \in DOMAIN config.protocols /\ protocol \in Nat
      /\ \A j \in DOMAIN config.protocols : Matches(config.protocols[j], deployment.message) => protocol <= j
  BY <1>1, <1>2, FirstFacts DEF RunInv
<1>4. k \in DOMAIN config.protocols
  <2>1. PICK ps : ps = config.protocols
    OBVIOUS
  <2>2. IsSeq(ps)
    BY <2>1, ConfigFacts DEF config, RunInv
  <2>3. DOMAIN ps = 1..Len(ps) /\ Len(ps) \in Nat
    BY <2>2, SeqFacts
  <2> QED
    BY <1>3, <2>1, <2>3
<1> QED
  BY <1>1, <1>3, <1>4

\* Validation reaches every step the runner runs, however deep its loops, and the first protocol
\* with the message's prefix runs or refuses it (validateWorkflow, MatchInboundProtocol).
THEOREM ConfigurationIsDecisive == Spec => []ConfigurationDecides
<1>1. RunInv => ConfigurationDecides
  BY FirstDecides DEF ConfigurationDecides, RunInv
<1> QED
  BY <1>1, RunIsNested, PTL

-----------------------------------------------------------------------------
(* Where the run has been.                                                 *)

PlaceOf(i, ls) == [i |-> i, path |-> [d \in DOMAIN ls |-> [iter |-> ls[d].iter, nested |-> ls[d].nested]]]

\* q is the place of the loops ls.
IsPlaceOf(q, i, ls) ==
    /\ IsPlace(q) /\ q.i = i /\ Len(q.path) = Len(ls) /\ DOMAIN q.path = DOMAIN ls
    /\ \A d \in DOMAIN ls : q.path[d].iter = ls[d].iter /\ q.path[d].nested = ls[d].nested

LEMMA PlaceOfFacts ==
    ASSUME NEW ls, IsSeq(ls), \A d \in DOMAIN ls : LoopOK(ls[d]), NEW i \in Nat, NEW q, q = PlaceOf(i, ls)
    PROVE  IsPlaceOf(q, i, ls)
<1>1. PICK n \in Nat : n = Len(ls) /\ DOMAIN ls = 1..n
  BY SeqFacts
<1>2. PICK s : s = [d \in DOMAIN ls |-> [iter |-> ls[d].iter, nested |-> ls[d].nested]]
  OBVIOUS
<1>3. q = [i |-> i, path |-> s]
  BY <1>2 DEF PlaceOf
<1>4. s = [d \in 1..n |-> s[d]] /\ \A d \in 1..n : s[d] = [iter |-> ls[d].iter, nested |-> ls[d].nested]
  BY <1>1, <1>2
<1>5. IsSeq(s) /\ Len(s) = n /\ DOMAIN s = 1..n
  BY <1>4, MakesSeq
<1>6. ASSUME NEW d \in 1..n PROVE IsPair(s[d]) /\ s[d].iter = ls[d].iter /\ s[d].nested = ls[d].nested
  <2>1. ls[d].iter \in Nat /\ ls[d].nested \in Nat
    BY <1>1 DEF LoopOK
  <2>2. s[d].iter = ls[d].iter /\ s[d].nested = ls[d].nested
    BY <1>4
  <2> QED
    BY <1>4, <2>1, <2>2 DEF IsPair
<1>7. IsPlace(q)
  BY <1>3, <1>5, <1>6 DEF IsPlace
<1> QED
  BY <1>1, <1>3, <1>5, <1>6, <1>7 DEF IsPlaceOf

LEMMA PlaceFacts ==
    ASSUME RunInv, pc \notin Early
    PROVE  IsPlaceOf(Place, at.i, loops)
<1>1. PICK q : q = Place
  OBVIOUS
<1>2. q = PlaceOf(at.i, loops)
  BY <1>1 DEF Place, PlaceOf
<1>3. IsSeq(loops) /\ at.i \in Nat /\ \A d \in DOMAIN loops : LoopOK(loops[d])
  BY DEF RunInv, Nest
<1>4. IsPlaceOf(q, at.i, loops)
  BY <1>2, <1>3, PlaceOfFacts
<1> QED
  BY <1>1, <1>4

\* At a step of the protocol itself the path is empty, and in a loop it is not.
LEMMA PathFacts ==
    ASSUME RunInv, pc \notin Early
    PROVE  Place.path = <<>> <=> ~InLoop
<1>1. PICK s : s = Place.path
  OBVIOUS
<1>2. IsSeq(s) /\ Len(s) = Len(loops)
  BY <1>1, PlaceFacts DEF IsPlaceOf, IsPlace
<1>3. s # <<>> <=> Len(s) > 0
  BY <1>2, SeqFacts
<1>4. InLoop <=> Len(loops) > 0
  BY LoopFacts
<1> QED
  BY <1>1, <1>2, <1>3, <1>4

\* The place in the next state.
LEMMA PlaceFactsNext ==
    ASSUME RunInv', pc' \notin Early
    PROVE  IsPlaceOf(Place', at'.i, loops')
<1>1. PICK q : q = Place'
  OBVIOUS
<1>2. q = PlaceOf(at'.i, loops')
  BY <1>1 DEF Place, PlaceOf
<1>3. IsSeq(loops') /\ at'.i \in Nat /\ \A d \in DOMAIN loops' : LoopOK(loops'[d])
  BY DEF RunInv, Nest, LoopOK, MaxIterations, IsSeq
<1>4. IsPlaceOf(q, at'.i, loops')
  BY <1>2, <1>3, PlaceOfFacts
<1> QED
  BY <1>1, <1>4

LEMMA PlaceEnters ==
    ASSUME RunInv, RunInv', Enters
    PROVE  OneDeeper(Place', Place) /\ IsPlace(Place) /\ IsPlace(Place')
<1>1. PICK q, r, n : q = Place /\ r = Place' /\ n = Len(loops)
  OBVIOUS
<1>2. IsPlaceOf(q, at.i, loops)
  BY <1>1, PlaceFacts DEF Enters, Early
<1>3. IsPlaceOf(r, at.i, loops')
  BY <1>1, PlaceFactsNext DEF Enters, Early
<1>4. PICK l, ls : ls = loops' /\ ls = Append(loops, l)
  BY DEF Enters
<1>5. IsSeq(loops) /\ DOMAIN loops = 1..n /\ n \in Nat
  BY <1>1, LoopFacts DEF RunInv, Enters, Early
<1>6. Appended(ls, loops, l, n)
  BY <1>1, <1>4, <1>5, AppendFacts
<1>7. ASSUME NEW e \in DOMAIN q.path PROVE r.path[e] = q.path[e]
  <2>1. e \in DOMAIN loops /\ e \in DOMAIN ls /\ ls[e] = loops[e]
    BY <1>2, <1>5, <1>6 DEF IsPlaceOf, Appended
  <2>2. /\ IsPair(r.path[e]) /\ IsPair(q.path[e])
        /\ r.path[e].iter = q.path[e].iter /\ r.path[e].nested = q.path[e].nested
    BY <1>2, <1>3, <1>4, <2>1 DEF IsPlaceOf, IsPlace
  <2> QED
    BY <2>2 DEF IsPair
<1>8. OneDeeper(r, q)
  BY <1>1, <1>2, <1>3, <1>4, <1>6, <1>7 DEF OneDeeper, IsPlaceOf, Appended
<1> QED
  BY <1>1, <1>2, <1>3, <1>8 DEF IsPlaceOf

LEMMA PlaceFurther ==
    ASSUME RunInv, RunInv', GoesOn \/ Iterates
    PROVE  OneFurther(Place', Place) /\ IsPlace(Place) /\ IsPlace(Place')
<1>1. PICK q, r, n : q = Place /\ r = Place' /\ n = Len(loops)
  OBVIOUS
<1>2. pc = "returned" /\ pc' = "step" /\ InLoop /\ at' = at /\ pc \notin Early /\ pc' \notin Early
  BY DEF GoesOn, Iterates, InnerReturned, Early
<1>3. IsPlaceOf(q, at.i, loops)
  BY <1>1, <1>2, PlaceFacts
<1>4. IsPlaceOf(r, at.i, loops')
  BY <1>1, <1>2, PlaceFactsNext
<1>5. IsSeq(loops) /\ DOMAIN loops = 1..n /\ n \in 1..n /\ Loop = loops[n] /\ n \in Nat /\ LoopOK(Loop)
  BY <1>1, <1>2, LoopFacts DEF RunInv
<1>6. PICK m, ls : /\ ls = loops' /\ ls = [loops EXCEPT ![n] = m]
                   /\ \/ m.iter = Loop.iter /\ m.nested = Loop.nested + 1
                      \/ m.iter = Loop.iter + 1
  BY <1>1 DEF GoesOn, Iterates, NestedGoesOn, NestedIterates
<1>7. Replaced(ls, loops, n, n, m)
  BY <1>1, <1>5, <1>6, SetFacts
<1>8. ASSUME NEW e \in DOMAIN q.path, e # n PROVE q.path[e] = r.path[e]
  <2>1. e \in DOMAIN loops /\ e \in DOMAIN ls /\ ls[e] = loops[e]
    BY <1>3, <1>5, <1>7, <1>8 DEF IsPlaceOf, Replaced
  <2>2. /\ IsPair(r.path[e]) /\ IsPair(q.path[e])
        /\ r.path[e].iter = q.path[e].iter /\ r.path[e].nested = q.path[e].nested
    BY <1>3, <1>4, <1>6, <2>1 DEF IsPlaceOf, IsPlace
  <2> QED
    BY <2>2 DEF IsPair
<1>9. Lower(q.path[n], r.path[n])
  <2>1. n \in DOMAIN ls /\ ls[n] = m
    BY <1>5, <1>7 DEF Replaced
  <2>2. /\ q.path[n].iter = Loop.iter /\ q.path[n].nested = Loop.nested
        /\ r.path[n].iter = m.iter /\ r.path[n].nested = m.nested
    BY <1>3, <1>4, <1>5, <1>6, <2>1 DEF IsPlaceOf
  <2> QED
    BY <1>5, <1>6, <2>2 DEF Lower, LoopOK
<1>10. q.path # <<>>
  BY <1>1, <1>2, PathFacts
<1>11. Len(q.path) = n /\ Len(r.path) = n /\ q.i = r.i
  BY <1>1, <1>3, <1>4, <1>6, <1>7 DEF IsPlaceOf, Replaced
<1>12. OneFurther(r, q)
  BY <1>8, <1>9, <1>10, <1>11 DEF OneFurther
<1> QED
  BY <1>1, <1>3, <1>4, <1>12 DEF IsPlaceOf

LEMMA PlaceLeaves ==
    ASSUME RunInv, RunInv', Leaves
    PROVE  OneDeeper(Place, Place') /\ IsPlace(Place) /\ IsPlace(Place') /\ OuterPlace = Place'
<1>1. PICK q, r, n : q = Place /\ r = Place' /\ n = Len(loops)
  OBVIOUS
<1>2. pc = "returned" /\ pc' = "returned" /\ InLoop /\ at' = at /\ pc \notin Early /\ pc' \notin Early /\ loops' = Front(loops)
  BY DEF Leaves, InnerReturned, Early
<1>3. IsPlaceOf(q, at.i, loops)
  BY <1>1, <1>2, PlaceFacts
<1>4. IsPlaceOf(r, at.i, loops')
  BY <1>1, <1>2, PlaceFactsNext
<1>5. IsSeq(loops) /\ DOMAIN loops = 1..n /\ n \in 1..n /\ n \in Nat /\ loops # <<>>
  BY <1>1, <1>2, LoopFacts DEF RunInv, InLoop
<1>6. PICK ls : ls = loops' /\ ls = Front(loops)
  BY <1>2
<1>7. Fronted(ls, loops, n)
  BY <1>1, <1>5, <1>6, FrontFacts
<1>8. ASSUME NEW e \in DOMAIN r.path PROVE q.path[e] = r.path[e]
  <2>1. e \in 1..(n - 1)
    BY <1>4, <1>6, <1>7 DEF IsPlaceOf, Fronted
  <2>2. e \in DOMAIN loops /\ e \in DOMAIN ls /\ ls[e] = loops[e]
    BY <1>5, <1>7, <2>1 DEF Fronted
  <2>3. /\ IsPair(r.path[e]) /\ IsPair(q.path[e])
        /\ r.path[e].iter = q.path[e].iter /\ r.path[e].nested = q.path[e].nested
    BY <1>3, <1>4, <1>6, <2>2 DEF IsPlaceOf, IsPlace
  <2> QED
    BY <2>3 DEF IsPair
<1>9. Len(q.path) = n /\ Len(r.path) = n - 1 /\ q.i = at.i /\ r.i = at.i
  BY <1>1, <1>3, <1>4, <1>6, <1>7 DEF IsPlaceOf, Fronted
<1>10. OneDeeper(q, r)
  BY <1>5, <1>8, <1>9 DEF OneDeeper
<1>11. OuterPlace = r
  <2>1. PICK s, f : s = q.path /\ f = Front(s)
    OBVIOUS
  <2>2. IsSeq(s) /\ s # <<>> /\ n = Len(s)
    BY <1>1, <1>2, <1>3, <1>9, <2>1, PathFacts DEF IsPlaceOf, IsPlace
  <2>3. Fronted(f, s, n)
    BY <2>1, <2>2, FrontFacts
  <2>4. PICK t : t = r.path
    OBVIOUS
  <2>5. IsSeq(t) /\ Len(t) = n - 1
    BY <1>4, <1>9, <2>4 DEF IsPlaceOf, IsPlace
  <2>6. DOMAIN t = 1..(n - 1) /\ t = [e \in 1..(n - 1) |-> t[e]]
    BY <2>5, SeqFacts
  <2>7. f = [e \in 1..(n - 1) |-> f[e]]
    <3>1. IsSeq(f) /\ Len(f) = n - 1
      BY <2>3 DEF Fronted
    <3> QED
      BY <3>1, SeqFacts
  <2>8. \A e \in 1..(n - 1) : f[e] = t[e]
    BY <1>8, <2>1, <2>3, <2>4, <2>6 DEF Fronted
  <2>9. f = t
    BY <2>6, <2>7, <2>8
  <2>10. r = [i |-> r.i, path |-> t]
    BY <1>4, <2>4 DEF IsPlaceOf, IsPlace
  <2> QED
    BY <1>1, <1>9, <2>1, <2>9, <2>10 DEF OuterPlace
<1> QED
  BY <1>1, <1>3, <1>4, <1>10, <1>11 DEF IsPlaceOf

Been == DOMAIN asked \cup DOMAIN returned

\* p was left for good at q, or is tried again there.
Left(p, q, attempt) == Earlier(p, q) \/ (p = q /\ attempt > 1)

\* What was asked or returned was at a place that the run has left, or is within the present one.
PlaceInv ==
    /\ pc \in Early => Been = {}
    /\ \A p \in Been : IsPlace(p) /\ (p.path # <<>> => Proto.steps[p.i + 1].type = "for_each")
    /\ pc = "step" => \A p \in Been : Left(p, Place, at.attempt)
    /\ pc \in {"tool", "model"} => \A p \in DOMAIN returned : Left(p, Place, at.attempt)
    /\ pc \in {"tool", "model", "returned"} => \A p \in Been : Earlier(p, Place) \/ Within(p, Place)

\* The place the run is at is one it may be at.
LEMMA PlaceKnown ==
    ASSUME RunInv, pc \notin Early
    PROVE  IsPlace(Place) /\ Place.i = at.i /\ (Place.path # <<>> => Proto.steps[Place.i + 1].type = "for_each")
<1>1. IsPlace(Place) /\ Place.i = at.i
  BY PlaceFacts DEF IsPlaceOf
<1>2. ASSUME Place.path # <<>> PROVE Proto.steps[at.i + 1].type = "for_each"
  <2>1. InLoop
    BY <1>2, PathFacts
  <2>2. 1 \in DOMAIN loops
    BY <2>1, LoopFacts
  <2>3. LoopOK(loops[1]) /\ loops[1].step = Current(loops, 1 - 1, at.i, Proto)
    BY <2>2 DEF RunInv, Nest
  <2>4. loops[1].step = Proto.steps[at.i + 1]
    BY <2>3 DEF Current
  <2> QED
    BY <2>3, <2>4 DEF LoopOK
<1> QED
  BY <1>1, <1>2

LEMMA PlaceQuiet ==
    ASSUME RunInv, PlaceInv, Quiet
    PROVE  PlaceInv'
<1>1. UNCHANGED <<deployment, protocol, at, loops>> /\ pc \in {"step", "tool", "model", "returned"} /\ pc \notin Early
      /\ (pc = "returned" => pc' = "hung")
  BY DEF Quiet, Hangs, Early
<1>2. Place' = Place /\ Proto' = Proto
  BY <1>1, SameStep, SameProto
<1>3. PICK q, n : q = Place /\ n = at.attempt
  OBVIOUS
<1>4. IsPlace(q) /\ (q.path # <<>> => Proto.steps[q.i + 1].type = "for_each") /\ Within(q, q)
  BY <1>1, <1>3, PlaceKnown, WithinItself
<1>5. \A p \in Been : IsPlace(p) /\ (p.path # <<>> => Proto.steps[p.i + 1].type = "for_each")
  BY DEF PlaceInv
<1>6. \A p \in Been : Earlier(p, q) \/ Within(p, q)
  BY <1>1, <1>3, <1>4 DEF PlaceInv, Left
<1>7. pc # "returned" => \A p \in DOMAIN returned : Left(p, q, n)
  BY <1>1, <1>3 DEF PlaceInv, Been
<1>8. pc' \in {"tool", "model", "returned", "hung"} /\ pc' \notin Early
  BY DEF Quiet, Answers, Breaks, Hangs, Asks, Early
<1>9. Been' \subseteq Been \cup {q}
  <2>1. CASE Answers
    <3>1. PICK new, v : new = returned' /\ new = With(returned, q, v) /\ asked' = asked
      BY <1>3, <2>1 DEF Answers
    <3>2. IsWith(new, returned, q, v)
      BY <3>1, WithFacts
    <3> QED
      BY <3>1, <3>2 DEF Been, IsWith
  <2>2. CASE Asks
    <3>1. PICK new, v : new = asked' /\ new = With(asked, q, v) /\ returned' = returned
      BY <1>3, <2>2 DEF Asks
    <3>2. IsWith(new, asked, q, v)
      BY <3>1, WithFacts
    <3> QED
      BY <3>1, <3>2 DEF Been, IsWith
  <2> QED
    BY <2>1, <2>2 DEF Quiet, Breaks, Hangs, Been
<1>10. pc' \in {"tool", "model"} => returned' = returned
  BY DEF Quiet, Answers, Breaks, Hangs, Asks
<1>11. at' = at
  BY <1>1
<1>12. \A p \in Been' : IsPlace(p) /\ (p.path # <<>> => Proto.steps[p.i + 1].type = "for_each")
  BY <1>4, <1>5, <1>9
<1>13. \A p \in Been' : Earlier(p, q) \/ Within(p, q)
  BY <1>4, <1>6, <1>9
<1>14. pc' \in {"tool", "model"} => \A p \in DOMAIN returned' : Left(p, q, n)
  BY <1>1, <1>7, <1>10
<1> QED
  BY <1>2, <1>3, <1>8, <1>11, <1>12, <1>13, <1>14 DEF PlaceInv

LEMMA PlaceInNewLoop ==
    ASSUME RunInv, RunInv', PlaceInv, Enters
    PROVE  PlaceInv' /\ at.attempt = 1
<1>1. UNCHANGED <<deployment, protocol, at, asked, returned>> /\ pc = "step" /\ pc' = "step" /\ Step.type = "for_each"
  BY DEF Enters
<1>2. Proto' = Proto /\ Been' = Been
  BY <1>1, SameProto DEF Been
<1>3. PICK q, r : q = Place /\ r = Place'
  OBVIOUS
<1>4. OneDeeper(r, q) /\ IsPlace(q) /\ IsPlace(r)
  BY <1>3, PlaceEnters
<1>5. at.attempt = 1
  <2>1. ~(at.attempt > 1)
    BY <1>1, AttemptFacts DEF isSchemaRetryStep, Running
  <2> QED
    BY <2>1 DEF RunInv
<1>6. \A p \in Been : IsPlace(p) /\ Earlier(p, q)
  BY <1>1, <1>3, <1>5 DEF PlaceInv, Left
<1>7. \A p \in Been : Earlier(p, r)
  BY <1>4, <1>6, EarlierDeeper
<1>8. \A p \in Been' : Left(p, r, at'.attempt)
  BY <1>2, <1>7 DEF Left
<1>9. \A p \in Been' : IsPlace(p) /\ (p.path # <<>> => Proto'.steps[p.i + 1].type = "for_each")
  BY <1>2 DEF PlaceInv
<1> QED
  BY <1>1, <1>3, <1>5, <1>8, <1>9 DEF PlaceInv, Early

LEMMA PlaceGoesOn ==
    ASSUME RunInv, RunInv', PlaceInv, GoesOn \/ Iterates
    PROVE  PlaceInv' /\ \A p \in Been : Earlier(p, Place')
<1>1. UNCHANGED <<deployment, protocol, at, asked, returned>> /\ pc = "returned" /\ pc' = "step"
  BY DEF GoesOn, Iterates, InnerReturned
<1>2. Proto' = Proto /\ Been' = Been
  BY <1>1, SameProto DEF Been
<1>3. PICK q, r : q = Place /\ r = Place'
  OBVIOUS
<1>4. OneFurther(r, q) /\ IsPlace(q) /\ IsPlace(r)
  BY <1>3, PlaceFurther
<1>5. \A p \in Been : IsPlace(p) /\ (Earlier(p, q) \/ Within(p, q))
  BY <1>1, <1>3 DEF PlaceInv
<1>6. \A p \in Been : Earlier(p, r)
  BY <1>4, <1>5, EarlierFurther
<1>7. \A p \in Been' : Left(p, r, at'.attempt)
  BY <1>2, <1>6 DEF Left
<1>8. \A p \in Been' : IsPlace(p) /\ (p.path # <<>> => Proto'.steps[p.i + 1].type = "for_each")
  BY <1>2 DEF PlaceInv
<1> QED
  BY <1>1, <1>3, <1>6, <1>7, <1>8 DEF PlaceInv, Early

LEMMA PlaceAfterLoop ==
    ASSUME RunInv, RunInv', PlaceInv, LoopEnds \/ LoopStops
    PROVE  PlaceInv' /\ Place' \notin Been
<1>1. UNCHANGED <<deployment, protocol, at, asked>> /\ pc = "returned" /\ pc' = "returned" /\ Leaves
  BY DEF LoopEnds, LoopStops, Leaves, InnerReturned
<1>2. Proto' = Proto
  BY <1>1, SameProto
<1>3. PICK q, r : q = Place /\ r = Place'
  OBVIOUS
<1>4. OneDeeper(q, r) /\ IsPlace(q) /\ IsPlace(r) /\ r = OuterPlace
  BY <1>1, <1>3, PlaceLeaves
<1>5. \A p \in Been : IsPlace(p) /\ (Earlier(p, q) \/ Within(p, q))
  BY <1>1, <1>3 DEF PlaceInv
<1>6. \A p \in Been : Earlier(p, r) \/ Within(p, r)
  BY <1>4, <1>5, EarlierOutside, WithinDeeper
<1>7. Been' \subseteq Been \cup {r}
  <2>1. CASE LoopEnds
    <3>1. PICK new, v : new = returned' /\ new = With(returned, r, v) /\ asked' = asked
      BY <1>1, <1>4, <2>1 DEF LoopEnds
    <3>2. IsWith(new, returned, r, v)
      BY <3>1, WithFacts
    <3> QED
      BY <3>1, <3>2 DEF Been, IsWith
  <2>2. CASE LoopStops
    BY <1>1, <2>2 DEF LoopStops, Been
  <2> QED
    BY <2>1, <2>2
<1>8. r.path # <<>> => Proto.steps[r.i + 1].type = "for_each"
  <2>1. q.path # <<>> /\ q.i = r.i
    BY <1>1, <1>3, <1>4, PathFacts DEF OneDeeper, Leaves, InnerReturned, Early
  <2>2. Proto.steps[q.i + 1].type = "for_each"
    BY <1>1, <1>3, <2>1, PlaceKnown DEF Early
  <2> QED
    BY <2>1, <2>2
<1>9. \A p \in Been' : IsPlace(p) /\ (p.path # <<>> => Proto'.steps[p.i + 1].type = "for_each")
  BY <1>2, <1>4, <1>7, <1>8 DEF PlaceInv
<1>10. \A p \in Been' : Earlier(p, r) \/ Within(p, r)
  BY <1>6, <1>7, WithinItself
<1>11. r \notin Been
  BY <1>4, <1>5, OuterApart
<1> QED
  BY <1>1, <1>3, <1>9, <1>10, <1>11 DEF PlaceInv, Early

LEMMA PlaceStep ==
    ASSUME RunInv, RunInv', PlaceInv, StepReturns
    PROVE  /\ PlaceInv'
           /\ StepSucceeds => \A p \in Been : IsPlace(p) /\ p.i <= at.i
<1>1. /\ UNCHANGED <<deployment, protocol, loops, asked, returned>> /\ pc = "returned" /\ ~InLoop
      /\ StepSucceeds \/ StepIsRetried \/ StepIsRefused
  BY DEF StepReturns, historyVars
<1>2. Proto' = Proto /\ Been' = Been
  BY <1>1, SameProto DEF Been
<1>3. PICK q, r : q = Place /\ r = Place'
  OBVIOUS
<1>4. IsPlace(q) /\ q.i = at.i /\ q.path = <<>>
  BY <1>1, <1>3, PlaceKnown, PathFacts DEF Early
<1>5. \A p \in Been : IsPlace(p) /\ (Earlier(p, q) \/ Within(p, q))
  BY <1>1, <1>3 DEF PlaceInv
<1>6. \A p \in Been' : IsPlace(p) /\ (p.path # <<>> => Proto'.steps[p.i + 1].type = "for_each")
  BY <1>2 DEF PlaceInv
<1>7. CASE StepSucceeds
  <2>1. at'.i = at.i + 1 /\ at.i \in Nat /\ pc' \in {"ended", "step"} /\ pc' \notin Early
    BY <1>7 DEF StepSucceeds, RunInv, Early
  <2>2. IsPlace(r) /\ r.i = q.i + 1
    BY <1>3, <1>4, <2>1, PlaceFactsNext DEF IsPlaceOf
  <2>3. \A p \in Been : Earlier(p, r)
    BY <1>4, <1>5, <2>2, EarlierNextStep
  <2>4. \A p \in Been' : Left(p, r, at'.attempt)
    BY <1>2, <2>3 DEF Left
  <2>5. \A p \in Been : IsPlace(p) /\ p.i <= at.i
    BY <1>4, <1>5, <2>1 DEF IsPlace, Earlier, Within
  <2> QED
    BY <1>3, <1>6, <2>1, <2>4, <2>5 DEF PlaceInv
<1>8. CASE StepIsRetried
  <2>1. pc' = "step" /\ at.attempt < Attempts(Step) /\ at'.i = at.i /\ at'.attempt = at.attempt + 1 /\ at.attempt >= 1 /\ at.attempt \in Nat
    BY <1>8 DEF StepIsRetried, NextAttempt, RunInv
  <2>2. Step = TopStep /\ isSchemaRetryStep(Step.type)
    BY <1>1, <2>1, LoopFacts DEF Attempts, Early
  <2>3. r = q
    BY <1>1, <1>3, <2>1 DEF Place
  <2>4. ASSUME NEW p \in Been, Within(p, q) PROVE p = q
    <3>1. p.i = at.i /\ IsPlace(p)
      BY <1>4, <1>5, <2>4 DEF Within
    <3>2. p.path = <<>>
      BY <2>2, <3>1 DEF PlaceInv, TopStep, isSchemaRetryStep
    <3> QED
      BY <1>4, <3>1, <3>2 DEF IsPlace
  <2>5. \A p \in Been' : Left(p, r, at'.attempt)
    BY <1>2, <1>5, <2>1, <2>3, <2>4 DEF Left
  <2>6. ~StepSucceeds
    BY <2>1, <1>8 DEF StepSucceeds, RunInv
  <2> QED
    BY <1>3, <1>6, <2>1, <2>5, <2>6 DEF PlaceInv, Early
<1>9. CASE StepIsRefused
  <2>1. pc' = "ended" /\ at' = at
    BY <1>9 DEF StepIsRefused
  <2>2. ~StepSucceeds
    BY <2>1 DEF StepSucceeds, RunInv
  <2> QED
    BY <1>6, <2>1, <2>2 DEF PlaceInv, Early
<1> QED
  BY <1>1, <1>7, <1>8, <1>9

LEMMA PlaceBegins ==
    ASSUME RunInv, PlaceInv, LoadConfig \/ MatchInboundProtocol
    PROVE  PlaceInv' /\ Been = {} /\ Been' = {}
<1>1. pc \in Early /\ UNCHANGED <<asked, returned>>
  BY DEF LoadConfig, MatchInboundProtocol, historyVars, Early
<1>2. Been' = {} /\ Been = {} /\ DOMAIN returned' = {}
  BY <1>1 DEF PlaceInv, Been
<1> QED
  BY <1>2 DEF PlaceInv

LEMMA PlaceStutters ==
    ASSUME RunInv, PlaceInv, UNCHANGED vars
    PROVE  PlaceInv'
<1>1. UNCHANGED <<deployment, pc, protocol, state, trace, at, loops, ret, asked, returned>>
  BY DEF vars
<1>2. Proto' = Proto /\ Place' = Place /\ Been' = Been
  BY <1>1, SameProto, SameStep DEF Been
<1> QED
  BY <1>1, <1>2 DEF PlaceInv

LEMMA PlaceInit ==
    ASSUME Init
    PROVE  PlaceInv
<1>1. asked = <<>> /\ returned = <<>> /\ pc = "load"
  BY DEF Init
<1>2. DOMAIN asked = {} /\ DOMAIN returned = {}
  BY <1>1, EmptyFacts
<1> QED
  BY <1>1, <1>2 DEF PlaceInv, Been

LEMMA PlaceNext ==
    ASSUME RunInv, RunInv', PlaceInv, [Next]_vars
    PROVE  PlaceInv'
<1>1. CASE Next
  BY <1>1, Shapes, PlaceQuiet, PlaceInNewLoop, PlaceGoesOn, PlaceAfterLoop, PlaceStep, PlaceBegins
<1> QED
  BY <1>1, PlaceStutters

-----------------------------------------------------------------------------
(* The calls of the dispatcher.                                            *)

Budget(p, call) ==
    IF p.path = <<>> /\ call.step.type \in {"summarize", "plan"} THEN 1 + RetryBudget(call.step) ELSE 1
WithinLimits(p, call) == \A d \in DOMAIN p.path : p.path[d].iter < MaxIterations(call.around[d])

\* A place was asked at most once in an attempt, and in loops that were within their limits.
CallsInv ==
    \A p \in DOMAIN asked :
        /\ p.path = <<>> => asked[p].step = Proto.steps[p.i + 1]
        /\ asked[p].times <= Budget(p, asked[p]) /\ WithinLimits(p, asked[p])
        /\ pc = "step" /\ p = Place => asked[p].times < at.attempt
        /\ pc \in {"tool", "model", "returned"} /\ p = Place => asked[p].times <= at.attempt

\* Where the histories of the calls stay as they are.
LEMMA CallsKept ==
    ASSUME CallsInv, UNCHANGED <<deployment, protocol, asked>>,
           pc' = "step" => \A p \in DOMAIN asked : p = Place' => asked[p].times < at'.attempt,
           pc' \in {"tool", "model", "returned"} => \A p \in DOMAIN asked : p = Place' => asked[p].times <= at'.attempt
    PROVE  CallsInv'
<1>1. Proto' = Proto
  BY SameProto
<1>2. \A p, c : Budget(p, c)' = Budget(p, c)
  BY <1>1 DEF Budget, RetryBudget
<1> QED
  BY <1>1, <1>2 DEF CallsInv

LEMMA CallsAsked ==
    ASSUME RunInv, PlaceInv, CallsInv, Quiet, Asks
    PROVE  CallsInv'
<1>1. UNCHANGED <<deployment, protocol, at, loops>> /\ pc = "step" /\ pc \in Running /\ pc \notin Early
  BY DEF Quiet, Asks, Running, Early
<1>2. PICK q, st, around : q = Place /\ st = Step /\ around = [d \in DOMAIN loops |-> loops[d].step]
  OBVIOUS
<1>3. PICK n \in Nat : /\ q \in DOMAIN asked => n <= asked[q].times + 1
                       /\ q \notin DOMAIN asked => n <= 1
                       /\ asked' = With(asked, q, [step |-> st, around |-> around, times |-> n])
  BY <1>2 DEF Asks
<1>4. PICK call, new : call = [step |-> st, around |-> around, times |-> n] /\ new = asked'
  OBVIOUS
<1>5. call.step = st /\ call.around = around /\ call.times = n
  BY <1>4
<1>6. IsWith(new, asked, q, call)
  BY <1>3, <1>4, WithFacts
<1>7. Place' = Place /\ Proto' = Proto /\ at' = at
  BY <1>1, SameStep, SameProto
<1>8. n <= at.attempt
  <2>1. at.attempt \in Nat /\ at.attempt >= 1
    BY DEF RunInv
  <2>2. q \in DOMAIN asked => asked[q].times < at.attempt /\ asked[q].times \in Nat
    BY <1>1, <1>2 DEF CallsInv, RunInv
  <2> QED
    BY <1>3, <2>1, <2>2
<1>9. n <= Budget(q, call)
  <2>1. at.attempt \in Nat /\ at.attempt <= Attempts(TopStep) /\ (at.attempt > 1 => ~InLoop /\ isSchemaRetryStep(Step.type))
    BY <1>1, AttemptFacts DEF RunInv
  <2>2. CASE at.attempt > 1
    <3>1. ~InLoop /\ isSchemaRetryStep(st.type) /\ st = TopStep
      BY <1>1, <1>2, <2>1, <2>2, LoopFacts
    <3>2. st.type \in {"summarize", "plan"}
      BY <1>2, <3>1 DEF Asks, isSchemaRetryStep
    <3>3. q.path = <<>>
      BY <1>1, <1>2, <3>1, PathFacts
    <3>4. Attempts(TopStep) = 1 + RetryBudget(st) /\ Attempts(TopStep) \in Nat
      BY <1>1, <3>1, AttemptFacts DEF Attempts
    <3>5. Budget(q, call) = Attempts(TopStep)
      BY <1>5, <3>2, <3>3, <3>4 DEF Budget
    <3> QED
      BY <1>8, <2>1, <3>4, <3>5
  <2>3. CASE ~(at.attempt > 1)
    <3>1. n <= 1
      BY <1>8, <2>1, <2>3
    <3>2. Budget(q, call) \in Nat /\ Budget(q, call) >= 1
      <4>1. Proto.retries \in Int /\ Proto.retries >= 0 /\ st.retries \in Int
        BY <1>1, <1>2, ProtoFacts, StepFacts DEF ValidProtocol
      <4> QED
        BY <1>5, <4>1 DEF Budget, RetryBudget
    <3> QED
      BY <3>1, <3>2
  <2> QED
    BY <2>2, <2>3
<1>10. WithinLimits(q, call)
  <2>1. SUFFICES ASSUME NEW d \in DOMAIN q.path PROVE q.path[d].iter < MaxIterations(call.around[d])
    BY DEF WithinLimits
  <2>2. d \in DOMAIN loops /\ q.path[d].iter = loops[d].iter
    BY <1>1, <1>2, PlaceFacts DEF IsPlaceOf
  <2>3. LoopOK(loops[d]) /\ loops[d].step \in AllSteps(Proto)
    <3>1. LoopOK(loops[d]) /\ d - 1 <= MaxNesting /\ loops[d].step \in Levels(Proto)[d - 1] /\ d - 1 \in Nat
      BY <1>1, <2>2, LoopFacts DEF RunInv, Nest
    <3> QED
      BY <3>1, LevelFacts, WorkflowAssumption
  <2>4. loops[d].step.max \in Int
    BY <1>1, <2>3, ProtoFacts
  <2>5. MaxIterations(loops[d].step) \in Nat
    BY <2>4, LimitFacts
  <2>6. Len(loops[d].items) \in Nat
    <3>1. PICK its : its = loops[d].items
      OBVIOUS
    <3>2. IsSeq(its)
      BY <2>3, <3>1 DEF LoopOK
    <3> QED
      BY <3>1, <3>2, SeqFacts
  <2>7. loops[d].iter < MaxIterations(loops[d].step)
    BY <2>3, <2>5, <2>6 DEF LoopOK
  <2> QED
    BY <1>2, <1>5, <2>2, <2>7
<1>11. q.path = <<>> => st = Proto.steps[q.i + 1]
  BY <1>1, <1>2, PathFacts, LoopFacts, PlaceKnown DEF TopStep
<1>12. \A p, c : Budget(p, c)' = Budget(p, c)
  BY <1>7 DEF Budget, RetryBudget
<1>13. pc' \in {"tool", "model"}
  BY DEF Asks
<1>14. ASSUME NEW p \in DOMAIN new
       PROVE  /\ p.path = <<>> => new[p].step = Proto.steps[p.i + 1]
              /\ new[p].times <= Budget(p, new[p]) /\ WithinLimits(p, new[p])
              /\ p = q => new[p].times <= at.attempt
  <2>1. CASE p = q
    BY <1>5, <1>6, <1>8, <1>9, <1>10, <1>11, <2>1 DEF IsWith
  <2>2. CASE p # q
    <3>1. p \in DOMAIN asked /\ new[p] = asked[p]
      BY <1>6, <2>2 DEF IsWith
    <3> QED
      BY <2>2, <3>1 DEF CallsInv
  <2> QED
    BY <2>1, <2>2
<1> QED
  BY <1>2, <1>4, <1>7, <1>12, <1>13, <1>14 DEF CallsInv

LEMMA CallsNext ==
    ASSUME RunInv, RunInv', PlaceInv, PlaceInv', CallsInv, [Next]_vars
    PROVE  CallsInv'
<1>1. \A p \in DOMAIN asked : p \in Been /\ asked[p].times \in Nat
  BY DEF Been, RunInv
<1>2. at.attempt \in Nat /\ at.attempt >= 1
  BY DEF RunInv
<1>3. CASE Quiet
  <2>1. UNCHANGED <<deployment, protocol, at, loops>> /\ pc \in {"step", "tool", "model", "returned"} /\ (pc = "returned" => pc' = "hung")
    BY <1>3 DEF Quiet, Hangs
  <2>2. Place' = Place
    BY <2>1, SameStep
  <2>3. CASE Asks
    BY <1>3, <2>3, CallsAsked
  <2>4. CASE Answers \/ Breaks \/ Hangs
    <3>1. asked' = asked /\ pc' \in {"returned", "hung"}
      BY <2>4 DEF Answers, Breaks, Hangs
    <3>2. \A p \in DOMAIN asked : p = Place => asked[p].times <= at.attempt
      BY <1>1, <1>2, <2>1 DEF CallsInv
    <3> QED
      BY <2>1, <2>2, <3>1, <3>2, CallsKept
  <2> QED
    BY <1>3, <2>3, <2>4 DEF Quiet
<1>4. CASE Enters
  <2>1. PlaceInv' /\ at.attempt = 1
    BY <1>4, PlaceInNewLoop
  <2>2. UNCHANGED <<deployment, protocol, at, asked, returned>> /\ pc' = "step"
    BY <1>4 DEF Enters
  <2>3. \A p \in DOMAIN asked : Left(p, Place', 1) /\ IsPlace(p)
    BY <2>1, <2>2 DEF PlaceInv, Been
  <2>4. \A p \in DOMAIN asked : p # Place'
    BY <2>3, EarlierApart DEF Left
  <2> QED
    BY <2>2, <2>4, CallsKept
<1>5. CASE GoesOn \/ Iterates
  <2>1. \A p \in Been : Earlier(p, Place') /\ IsPlace(p)
    BY <1>5, PlaceGoesOn DEF PlaceInv
  <2>2. UNCHANGED <<deployment, protocol, at, asked, returned>> /\ pc' = "step"
    BY <1>5 DEF GoesOn, Iterates, InnerReturned
  <2>3. \A p \in DOMAIN asked : p # Place'
    BY <1>1, <2>1, EarlierApart
  <2> QED
    BY <2>2, <2>3, CallsKept
<1>6. CASE LoopEnds \/ LoopStops
  <2>1. Place' \notin Been
    BY <1>6, PlaceAfterLoop
  <2>2. UNCHANGED <<deployment, protocol, at, asked>> /\ pc' = "returned"
    BY <1>6 DEF LoopEnds, LoopStops, Leaves, InnerReturned
  <2> QED
    BY <1>1, <2>1, <2>2, CallsKept
<1>7. CASE StepReturns
  <2>1. /\ UNCHANGED <<deployment, protocol, loops, asked, returned>> /\ pc = "returned"
        /\ StepSucceeds \/ StepIsRetried \/ StepIsRefused
    BY <1>7 DEF StepReturns, historyVars
  <2>2. CASE StepSucceeds
    <3>1. at'.i = at.i + 1 /\ pc' \in {"ended", "step"} /\ pc' \notin Early /\ at.i \in Nat
      BY <2>2 DEF StepSucceeds, Early, RunInv
    <3>2. Place'.i = at.i + 1
      BY <3>1, PlaceFactsNext DEF IsPlaceOf
    <3>3. \A p \in Been : p.i \in Nat /\ p.i <= at.i
      BY <1>7, <2>2, PlaceStep DEF IsPlace
    <3>4. \A p \in DOMAIN asked : p # Place'
      BY <1>1, <3>1, <3>2, <3>3
    <3> QED
      BY <2>1, <3>1, <3>4, CallsKept
  <2>3. CASE StepIsRetried
    <3>1. at'.i = at.i /\ at'.attempt = at.attempt + 1 /\ pc' = "step"
      BY <2>3 DEF StepIsRetried, NextAttempt, RunInv
    <3>2. Place' = Place
      BY <2>1, <3>1 DEF Place
    <3>3. \A p \in DOMAIN asked : p = Place => asked[p].times <= at.attempt
      BY <2>1 DEF CallsInv
    <3>4. \A p \in DOMAIN asked : p = Place => asked[p].times < at'.attempt
      BY <1>1, <1>2, <3>1, <3>3
    <3> QED
      BY <2>1, <3>1, <3>2, <3>4, CallsKept
  <2>4. CASE StepIsRefused
    BY <2>1, <2>4, CallsKept DEF StepIsRefused
  <2> QED
    BY <2>1, <2>2, <2>3, <2>4
<1>8. CASE LoadConfig \/ MatchInboundProtocol
  <2>1. Been' = {}
    BY <1>8, PlaceBegins
  <2>2. DOMAIN asked' = {}
    BY <2>1 DEF Been
  <2> QED
    BY <2>2 DEF CallsInv
<1>9. CASE UNCHANGED vars
  <2>1. UNCHANGED <<deployment, pc, protocol, state, trace, at, loops, ret, asked, returned>>
    BY <1>9 DEF vars
  <2>2. Place' = Place
    BY <2>1, SameStep
  <2> QED
    BY <2>1, <2>2, CallsKept DEF CallsInv
<1> QED
  BY <1>3, <1>4, <1>5, <1>6, <1>7, <1>8, <1>9, Shapes

\* A tool is called once at most at each place, the model once more for each retry of a step of
\* the protocol, and no loop goes past its limit (isSchemaRetryStep, for_each).
THEOREM CallsAreBounded == Spec => []CallsWithinBudget
<1>1. Init => RunInv /\ PlaceInv /\ CallsInv
  <2>1. ASSUME Init PROVE CallsInv
    <3>1. asked = <<>>
      BY <2>1 DEF Init
    <3>2. DOMAIN asked = {}
      BY <3>1, EmptyFacts
    <3> QED
      BY <3>2 DEF CallsInv
  <2> QED
    BY <2>1, RunInit, PlaceInit
<1>2. RunInv /\ PlaceInv /\ CallsInv /\ [Next]_vars => (RunInv /\ PlaceInv /\ CallsInv)'
  BY RunNext, PlaceNext, CallsNext
<1>3. CallsInv => CallsWithinBudget
  BY DEF CallsInv, CallsWithinBudget, Budget, WithinLimits
<1> QED
  BY <1>1, <1>2, <1>3, PTL DEF Spec

-----------------------------------------------------------------------------
(* The variables of the loops.                                             *)

LoopVars(l) == {l.step.var, l.step.index}
Bound(l, v) == IF v = l.step.var THEN l.items[l.iter + 1] ELSE Num(l.iter)
Old(l, v) == IF v = l.step.var THEN l.oldItem ELSE l.oldIndex

\* No loop of ls after k and before j uses v.
Between(ls, k, j, v) == \A d \in DOMAIN ls : k < d /\ d < j => v \notin LoopVars(ls[d])

\* A variable is what the innermost loop that uses it makes it; a loop keeps what the loop
\* around it, that uses it too, made it, and nothing where there is none; and every name
\* in the values is known or a variable of a loop.
BoundInside(ls, vals, persist) ==
    \A k \in DOMAIN ls : \A v \in LoopVars(ls[k]) :
        v \notin persist /\ Between(ls, k, Len(ls) + 1, v) => ValueOr(vals, v) = Bound(ls[k], v)
KeepsOuter(ls, persist) ==
    \A k, j \in DOMAIN ls : \A v \in LoopVars(ls[k]) :
        k < j /\ v \in LoopVars(ls[j]) /\ v \notin persist /\ Between(ls, k, j, v) => Old(ls[j], v) = Bound(ls[k], v)
KeepsNone(ls, known) ==
    \A j \in DOMAIN ls : \A v \in LoopVars(ls[j]) :
        v \notin known /\ Between(ls, 0, j, v) => Old(ls[j], v) = Missing
NamesKnown(ls, vals, known) ==
    \A v \in DOMAIN vals : v \notin known => \E k \in DOMAIN ls : v \in LoopVars(ls[k])
OneOld(l) == l.step.var = l.step.index => l.oldItem = l.oldIndex

ValuesOK(ls, vals, persist, known) ==
    /\ BoundInside(ls, vals, persist) /\ KeepsOuter(ls, persist)
    /\ KeepsNone(ls, known) /\ NamesKnown(ls, vals, known)
    /\ \A d \in DOMAIN ls : OneOld(ls[d])

IsBind(r, vals, l) ==
    /\ DOMAIN r = DOMAIN vals \cup LoopVars(l)
    /\ \A v : ValueOr(r, v) = IF v \in LoopVars(l) THEN Bound(l, v) ELSE ValueOr(vals, v)

LEMMA BindFacts ==
    ASSUME NEW vals, NEW l, NEW r, r = Bind(vals, l)
    PROVE  IsBind(r, vals, l)
<1>1. PICK x, y, a, b : x = l.step.index /\ y = l.step.var /\ a = Num(l.iter) /\ b = l.items[l.iter + 1]
  OBVIOUS
<1>2. PICK t : t = With(vals, x, a)
  OBVIOUS
<1>3. r = With(t, y, b)
  BY <1>1, <1>2 DEF Bind
<1>4. IsWith(t, vals, x, a)
  BY <1>2, WithFacts
<1>5. IsWith(r, t, y, b)
  BY <1>3, WithFacts
<1>6. DOMAIN r = DOMAIN vals \cup {x, y} /\ LoopVars(l) = {x, y}
  BY <1>1, <1>4, <1>5 DEF IsWith, LoopVars
<1>7. ASSUME NEW v PROVE ValueOr(r, v) = IF v \in LoopVars(l) THEN Bound(l, v) ELSE ValueOr(vals, v)
  <2>1. CASE v = y
    BY <1>1, <1>5, <1>6, <2>1 DEF IsWith, ValueOr, Bound
  <2>2. CASE v = x /\ v # y
    BY <1>1, <1>4, <1>5, <1>6, <2>2 DEF IsWith, ValueOr, Bound
  <2>3. CASE v # x /\ v # y
    BY <1>4, <1>5, <1>6, <2>3 DEF IsWith, ValueOr
  <2> QED
    BY <2>1, <2>2, <2>3
<1> QED
  BY <1>6, <1>7 DEF IsBind

LEMMA PutFacts ==
    ASSUME NEW vals, NEW k, NEW old, NEW r, r = Put(vals, k, old)
    PROVE  /\ \A v : ValueOr(r, v) = IF v = k THEN old ELSE ValueOr(vals, v)
           /\ \A v : v # k => (v \in DOMAIN r <=> v \in DOMAIN vals)
           /\ old = Missing => k \notin DOMAIN r
<1>1. CASE old # Missing
  <2>1. r = With(vals, k, old)
    BY <1>1 DEF Put
  <2>2. IsWith(r, vals, k, old)
    BY <2>1, WithFacts
  <2> QED
    BY <1>1, <2>2 DEF IsWith, ValueOr
<1>2. CASE old = Missing
  <2>1. r = [x \in DOMAIN vals \ {k} |-> vals[x]]
    BY <1>2 DEF Put
  <2>2. DOMAIN r = DOMAIN vals \ {k} /\ \A x \in DOMAIN r : r[x] = vals[x]
    BY <2>1
  <2> QED
    BY <1>2, <2>2 DEF ValueOr
<1> QED
  BY <1>1, <1>2

LEMMA RestoreFacts ==
    ASSUME NEW vals, NEW l, OneOld(l), NEW r, r = Restore(vals, l)
    PROVE  /\ \A v : ValueOr(r, v) = IF v \in LoopVars(l) THEN Old(l, v) ELSE ValueOr(vals, v)
           /\ \A v : v \notin LoopVars(l) => (v \in DOMAIN r <=> v \in DOMAIN vals)
           /\ \A v \in LoopVars(l) : Old(l, v) = Missing => v \notin DOMAIN r
<1>1. PICK x, y, a, b : x = l.step.index /\ y = l.step.var /\ a = l.oldIndex /\ b = l.oldItem
  OBVIOUS
<1>2. PICK t : t = Put(vals, y, b)
  OBVIOUS
<1>3. r = Put(t, x, a)
  BY <1>1, <1>2 DEF Restore
<1>4. /\ \A v : ValueOr(t, v) = IF v = y THEN b ELSE ValueOr(vals, v)
      /\ \A v : v # y => (v \in DOMAIN t <=> v \in DOMAIN vals)
      /\ b = Missing => y \notin DOMAIN t
  BY <1>2, PutFacts
<1>5. /\ \A v : ValueOr(r, v) = IF v = x THEN a ELSE ValueOr(t, v)
      /\ \A v : v # x => (v \in DOMAIN r <=> v \in DOMAIN t)
      /\ a = Missing => x \notin DOMAIN r
  BY <1>3, PutFacts
<1>6. LoopVars(l) = {x, y} /\ (x = y => a = b) /\ \A v : Old(l, v) = IF v = y THEN b ELSE a
  BY <1>1 DEF LoopVars, OneOld, Old
<1>7. ASSUME NEW v PROVE ValueOr(r, v) = IF v \in LoopVars(l) THEN Old(l, v) ELSE ValueOr(vals, v)
  BY <1>4, <1>5, <1>6
<1>8. \A v : v \notin LoopVars(l) => (v \in DOMAIN r <=> v \in DOMAIN vals)
  BY <1>4, <1>5, <1>6
<1>9. ASSUME NEW v \in LoopVars(l), Old(l, v) = Missing PROVE v \notin DOMAIN r
  <2>1. CASE v = x
    <3>1. a = Missing
      BY <1>6, <1>9, <2>1
    <3> QED
      BY <1>5, <2>1, <3>1
  <2>2. CASE v = y /\ v # x
    BY <1>4, <1>5, <1>6, <1>9, <2>2
  <2> QED
    BY <1>6, <2>1, <2>2
<1> QED
  BY <1>7, <1>8, <1>9

\* A step that changes what persist steps write only.
LEMMA ValuesKept ==
    ASSUME NEW ls, NEW vals, NEW persist, NEW known, persist \subseteq known, ValuesOK(ls, vals, persist, known),
           NEW new, \A v : v \notin persist => (v \in DOMAIN new <=> v \in DOMAIN vals) /\ (v \in DOMAIN vals => new[v] = vals[v])
    PROVE  ValuesOK(ls, new, persist, known)
<1>1. \A v : v \notin persist => ValueOr(new, v) = ValueOr(vals, v)
  BY DEF ValueOr
<1>2. BoundInside(ls, new, persist)
  BY <1>1 DEF ValuesOK, BoundInside
<1>3. NamesKnown(ls, new, known)
  BY DEF ValuesOK, NamesKnown
<1> QED
  BY <1>2, <1>3 DEF ValuesOK

\* The loop begins.
LEMMA ValuesEnter ==
    ASSUME NEW ls, IsSeq(ls), NEW vals, NEW persist, NEW known, persist \subseteq known, ValuesOK(ls, vals, persist, known),
           NEW l, l.oldItem = ValueOr(vals, l.step.var), l.oldIndex = ValueOr(vals, l.step.index),
           NEW ns, ns = Append(ls, l), NEW new, new = Bind(vals, l)
    PROVE  ValuesOK(ns, new, persist, known)
<1>1. PICK n \in Nat : n = Len(ls) /\ DOMAIN ls = 1..n
  BY SeqFacts
<1>2. Appended(ns, ls, l, n)
  BY <1>1, AppendFacts
<1>3. /\ DOMAIN ns = 1..(n + 1) /\ Len(ns) = n + 1 /\ ns[n + 1] = l /\ \A d \in 1..n : ns[d] = ls[d] /\ d \in DOMAIN ns
      /\ DOMAIN ls = 1..n
  BY <1>1, <1>2 DEF Appended
<1>4. /\ DOMAIN new = DOMAIN vals \cup LoopVars(l)
      /\ \A v : ValueOr(new, v) = IF v \in LoopVars(l) THEN Bound(l, v) ELSE ValueOr(vals, v)
  <2>1. IsBind(new, vals, l)
    BY BindFacts
  <2> QED
    BY <2>1 DEF IsBind
<1>5. \A v \in LoopVars(l) : Old(l, v) = ValueOr(vals, v)
  BY DEF LoopVars, Old
<1>6. ASSUME NEW k \in 0..n, NEW j \in 1..(n + 1), NEW v, Between(ns, k, j, v) PROVE Between(ls, k, j, v)
  BY <1>3, <1>6 DEF Between
<1>7. ASSUME NEW k \in 1..n, NEW v \in LoopVars(ls[k]), v \notin persist, Between(ls, k, n + 1, v)
      PROVE  ValueOr(vals, v) = Bound(ls[k], v)
  BY <1>1, <1>7 DEF ValuesOK, BoundInside
<1>8. BoundInside(ns, new, persist)
  <2>1. SUFFICES ASSUME NEW k \in 1..(n + 1), NEW v \in LoopVars(ns[k]), v \notin persist, Between(ns, k, n + 2, v)
                 PROVE  ValueOr(new, v) = Bound(ns[k], v)
    BY <1>3 DEF BoundInside
  <2>2. CASE k = n + 1
    BY <1>3, <1>4, <2>1, <2>2
  <2>3. CASE k \in 1..n
    <3>1. k < n + 1 /\ n + 1 < n + 2 /\ n + 1 \in DOMAIN ns
      BY <1>3, <2>3
    <3>2. v \notin LoopVars(l)
      BY <1>3, <2>1, <3>1 DEF Between
    <3>3. Between(ns, k, n + 1, v)
      BY <1>3, <2>1 DEF Between
    <3>4. Between(ls, k, n + 1, v)
      BY <1>6, <2>3, <3>3
    <3>5. ns[k] = ls[k] /\ v \in LoopVars(ls[k])
      BY <1>3, <2>1, <2>3
    <3>6. ValueOr(vals, v) = Bound(ls[k], v)
      BY <1>7, <2>1, <2>3, <3>4, <3>5
    <3>7. ValueOr(new, v) = ValueOr(vals, v)
      BY <1>4, <3>2
    <3> QED
      BY <3>5, <3>6, <3>7
  <2> QED
    BY <1>1, <2>1, <2>2, <2>3
<1>9. KeepsOuter(ns, persist)
  <2>1. SUFFICES ASSUME NEW k \in 1..(n + 1), NEW j \in 1..(n + 1), NEW v \in LoopVars(ns[k]),
                        k < j, v \in LoopVars(ns[j]), v \notin persist, Between(ns, k, j, v)
                 PROVE  Old(ns[j], v) = Bound(ns[k], v)
    BY <1>3 DEF KeepsOuter
  <2>2. k \in 1..n /\ k \in 0..n /\ ns[k] = ls[k]
    BY <1>3, <2>1
  <2>3. Between(ls, k, j, v)
    BY <1>6, <2>1, <2>2
  <2>4. CASE j = n + 1
    <3>1. ns[j] = l /\ v \in LoopVars(l) /\ v \in LoopVars(ls[k])
      BY <1>3, <2>1, <2>2, <2>4
    <3>2. Between(ls, k, n + 1, v)
      BY <2>3, <2>4
    <3>3. ValueOr(vals, v) = Bound(ls[k], v)
      BY <1>7, <2>1, <2>2, <3>1, <3>2
    <3>4. Old(l, v) = ValueOr(vals, v)
      BY <1>5, <3>1
    <3> QED
      BY <2>2, <3>1, <3>3, <3>4
  <2>5. CASE j \in 1..n
    BY <1>1, <1>3, <2>1, <2>2, <2>3, <2>5 DEF ValuesOK, KeepsOuter
  <2> QED
    BY <1>1, <2>1, <2>4, <2>5
<1>10. KeepsNone(ns, known)
  <2>1. SUFFICES ASSUME NEW j \in 1..(n + 1), NEW v \in LoopVars(ns[j]), v \notin known, Between(ns, 0, j, v)
                 PROVE  Old(ns[j], v) = Missing
    BY <1>3 DEF KeepsNone
  <2>2. Between(ls, 0, j, v)
    BY <1>6, <2>1
  <2>3. CASE j = n + 1
    <3>1. \A k \in DOMAIN ls : v \notin LoopVars(ls[k])
      BY <1>1, <2>2, <2>3 DEF Between
    <3>2. v \notin DOMAIN vals
      BY <2>1, <3>1 DEF ValuesOK, NamesKnown
    <3>3. ns[j] = l /\ v \in LoopVars(l)
      BY <1>3, <2>1, <2>3
    <3>4. Old(l, v) = ValueOr(vals, v)
      BY <1>5, <3>3
    <3>5. ValueOr(vals, v) = Missing
      BY <3>2 DEF ValueOr
    <3> QED
      BY <3>3, <3>4, <3>5
  <2>4. CASE j \in 1..n
    BY <1>1, <1>3, <2>1, <2>2, <2>4 DEF ValuesOK, KeepsNone
  <2> QED
    BY <1>1, <2>1, <2>3, <2>4
<1>11. NamesKnown(ns, new, known)
  <2>1. SUFFICES ASSUME NEW v \in DOMAIN new, v \notin known PROVE \E k \in DOMAIN ns : v \in LoopVars(ns[k])
    BY DEF NamesKnown
  <2>2. CASE v \in LoopVars(l)
    BY <1>3, <2>2
  <2>3. CASE v \in DOMAIN vals
    <3>1. PICK k \in DOMAIN ls : v \in LoopVars(ls[k])
      BY <2>1, <2>3 DEF ValuesOK, NamesKnown
    <3> QED
      BY <1>1, <1>3, <3>1
  <2> QED
    BY <1>4, <2>2, <2>3
<1>12. \A d \in DOMAIN ns : OneOld(ns[d])
  <2>1. OneOld(l)
    BY DEF OneOld
  <2>2. \A d \in 1..n : OneOld(ns[d])
    BY <1>1, <1>3 DEF ValuesOK
  <2> QED
    BY <1>3, <2>1, <2>2
<1> QED
  BY <1>8, <1>9, <1>10, <1>11, <1>12 DEF ValuesOK

\* The innermost loop goes on: its variables, and what it keeps, are the same.
LEMMA ValuesGoOn ==
    ASSUME NEW ls, IsSeq(ls), NEW vals, NEW persist, NEW known, ValuesOK(ls, vals, persist, known),
           NEW n, n = Len(ls), n \in 1..n, NEW m, m.step = ls[n].step, m.items = ls[n].items, m.iter = ls[n].iter,
           m.oldItem = ls[n].oldItem, m.oldIndex = ls[n].oldIndex,
           NEW ns, ns = [ls EXCEPT ![n] = m]
    PROVE  ValuesOK(ns, vals, persist, known)
<1>1. DOMAIN ls = 1..n /\ n \in Nat
  BY SeqFacts
<1>2. Replaced(ns, ls, n, n, m)
  BY SetFacts
<1>3. DOMAIN ns = DOMAIN ls /\ Len(ns) = Len(ls)
  BY <1>1, <1>2 DEF Replaced
<1>4. \A d \in DOMAIN ls : /\ LoopVars(ns[d]) = LoopVars(ls[d]) /\ (OneOld(ls[d]) => OneOld(ns[d]))
                           /\ \A v : Bound(ns[d], v) = Bound(ls[d], v) /\ Old(ns[d], v) = Old(ls[d], v)
  <2>1. TAKE d \in DOMAIN ls
  <2>2. CASE d = n
    <3>1. ns[d] = m
      BY <1>2, <2>2 DEF Replaced
    <3> QED
      BY <2>2, <3>1 DEF LoopVars, Bound, Old, OneOld
  <2>3. CASE d # n
    BY <1>1, <1>2, <2>3 DEF Replaced
  <2> QED
    BY <2>2, <2>3
<1>5. \A k, j, v : Between(ns, k, j, v) => Between(ls, k, j, v)
  BY <1>3, <1>4 DEF Between
<1>6. BoundInside(ns, vals, persist)
  BY <1>3, <1>4, <1>5 DEF ValuesOK, BoundInside
<1>7. KeepsOuter(ns, persist)
  BY <1>3, <1>4, <1>5 DEF ValuesOK, KeepsOuter
<1>8. KeepsNone(ns, known)
  BY <1>3, <1>4, <1>5 DEF ValuesOK, KeepsNone
<1>9. NamesKnown(ns, vals, known)
  BY <1>3, <1>4 DEF ValuesOK, NamesKnown
<1> QED
  BY <1>3, <1>4, <1>6, <1>7, <1>8, <1>9 DEF ValuesOK

\* The innermost loop comes to its next item.
LEMMA ValuesIterate ==
    ASSUME NEW ls, IsSeq(ls), NEW vals, NEW persist, NEW known, ValuesOK(ls, vals, persist, known),
           NEW n, n = Len(ls), n \in 1..n, NEW m, m.step = ls[n].step,
           m.oldItem = ls[n].oldItem, m.oldIndex = ls[n].oldIndex,
           NEW ns, ns = [ls EXCEPT ![n] = m], NEW new, new = Bind(vals, m)
    PROVE  ValuesOK(ns, new, persist, known)
<1>1. DOMAIN ls = 1..n /\ n \in Nat
  BY SeqFacts
<1>2. Replaced(ns, ls, n, n, m)
  BY SetFacts
<1>3. DOMAIN ns = DOMAIN ls /\ Len(ns) = Len(ls) /\ ns[n] = m /\ \A d \in DOMAIN ls : d # n => ns[d] = ls[d]
  BY <1>1, <1>2 DEF Replaced
<1>4. \A d \in DOMAIN ls : /\ LoopVars(ns[d]) = LoopVars(ls[d]) /\ (OneOld(ls[d]) => OneOld(ns[d]))
                           /\ \A v : Old(ns[d], v) = Old(ls[d], v) /\ (d # n => Bound(ns[d], v) = Bound(ls[d], v))
  <2>1. TAKE d \in DOMAIN ls
  <2>2. CASE d = n
    BY <1>3, <2>2 DEF LoopVars, Old, OneOld
  <2>3. CASE d # n
    BY <1>3, <2>3
  <2> QED
    BY <2>2, <2>3
<1>5. \A k, j, v : Between(ns, k, j, v) => Between(ls, k, j, v)
  BY <1>3, <1>4 DEF Between
<1>6. /\ DOMAIN new = DOMAIN vals \cup LoopVars(m)
      /\ \A v : ValueOr(new, v) = IF v \in LoopVars(m) THEN Bound(m, v) ELSE ValueOr(vals, v)
  <2>1. IsBind(new, vals, m)
    BY BindFacts
  <2> QED
    BY <2>1 DEF IsBind
<1>7. BoundInside(ns, new, persist)
  <2>1. SUFFICES ASSUME NEW k \in DOMAIN ls, NEW v \in LoopVars(ns[k]), v \notin persist, Between(ns, k, n + 1, v)
                 PROVE  ValueOr(new, v) = Bound(ns[k], v)
    BY <1>3 DEF BoundInside
  <2>2. CASE k = n
    BY <1>3, <1>6, <2>1, <2>2
  <2>3. CASE k # n
    <3>1. k < n /\ n < n + 1 /\ n \in DOMAIN ns
      BY <1>1, <1>3, <2>3
    <3>2. v \notin LoopVars(m)
      BY <1>3, <2>1, <3>1 DEF Between
    <3>3. ValueOr(vals, v) = Bound(ls[k], v)
      BY <1>4, <1>5, <2>1 DEF ValuesOK, BoundInside
    <3> QED
      BY <1>4, <1>6, <2>3, <3>2, <3>3
  <2> QED
    BY <2>2, <2>3
<1>8. KeepsOuter(ns, persist)
  <2>1. SUFFICES ASSUME NEW k \in DOMAIN ls, NEW j \in DOMAIN ls, NEW v \in LoopVars(ns[k]),
                        k < j, v \in LoopVars(ns[j]), v \notin persist, Between(ns, k, j, v)
                 PROVE  Old(ns[j], v) = Bound(ns[k], v)
    BY <1>3 DEF KeepsOuter
  <2>2. k # n
    BY <1>1, <2>1
  <2>3. Old(ls[j], v) = Bound(ls[k], v)
    BY <1>4, <1>5, <2>1 DEF ValuesOK, KeepsOuter
  <2> QED
    BY <1>4, <2>2, <2>3
<1>9. KeepsNone(ns, known)
  BY <1>3, <1>4, <1>5 DEF ValuesOK, KeepsNone
<1>10. NamesKnown(ns, new, known)
  <2>1. SUFFICES ASSUME NEW v \in DOMAIN new, v \notin known PROVE \E k \in DOMAIN ns : v \in LoopVars(ns[k])
    BY DEF NamesKnown
  <2>2. CASE v \in LoopVars(m)
    BY <1>1, <1>3, <2>2
  <2>3. CASE v \in DOMAIN vals
    BY <1>3, <1>4, <2>1, <2>3 DEF ValuesOK, NamesKnown
  <2> QED
    BY <1>6, <2>2, <2>3
<1> QED
  BY <1>3, <1>4, <1>7, <1>8, <1>9, <1>10 DEF ValuesOK

\* The innermost loop ends.
LEMMA ValuesLeave ==
    ASSUME NEW ls, IsSeq(ls), ls # <<>>, NEW vals, NEW persist, NEW known, persist \subseteq known,
           ValuesOK(ls, vals, persist, known),
           NEW n, n = Len(ls), NEW ns, ns = Front(ls), NEW new, new = Restore(vals, ls[n])
    PROVE  ValuesOK(ns, new, persist, known)
<1>1. Fronted(ns, ls, n)
  BY FrontFacts
<1>2. /\ n \in Nat /\ n > 0 /\ DOMAIN ls = 1..n /\ DOMAIN ns = 1..(n - 1) /\ Len(ns) + 1 = n /\ n \in DOMAIN ls
      /\ \A d \in DOMAIN ns : ns[d] = ls[d] /\ d \in DOMAIN ls /\ d < n /\ 0 < d
  BY <1>1, SeqFacts DEF Fronted
<1>3. OneOld(ls[n])
  BY <1>2 DEF ValuesOK
<1>4. /\ \A v : ValueOr(new, v) = IF v \in LoopVars(ls[n]) THEN Old(ls[n], v) ELSE ValueOr(vals, v)
      /\ \A v : v \notin LoopVars(ls[n]) => (v \in DOMAIN new <=> v \in DOMAIN vals)
      /\ \A v \in LoopVars(ls[n]) : Old(ls[n], v) = Missing => v \notin DOMAIN new
  BY <1>3, RestoreFacts
<1>5. ASSUME NEW k, NEW j \in 1..n, NEW v, Between(ns, k, j, v) PROVE Between(ls, k, j, v)
  <2>1. SUFFICES ASSUME NEW d \in DOMAIN ls, k < d, d < j PROVE v \notin LoopVars(ls[d])
    BY DEF Between
  <2>2. d \in DOMAIN ns
    BY <1>2, <2>1
  <2> QED
    BY <1>2, <1>5, <2>1, <2>2 DEF Between
<1>6. BoundInside(ns, new, persist)
  <2>1. SUFFICES ASSUME NEW k \in DOMAIN ns, NEW v \in LoopVars(ns[k]), v \notin persist, Between(ns, k, n, v)
                 PROVE  ValueOr(new, v) = Bound(ns[k], v)
    BY <1>2 DEF BoundInside
  <2>2. Between(ls, k, n, v) /\ ns[k] = ls[k] /\ k \in DOMAIN ls /\ k < n
    BY <1>2, <1>5, <2>1
  <2>3. CASE v \in LoopVars(ls[n])
    BY <1>2, <1>4, <2>1, <2>2, <2>3 DEF ValuesOK, KeepsOuter
  <2>4. CASE v \notin LoopVars(ls[n])
    <3>1. Between(ls, k, n + 1, v)
      BY <1>2, <2>2, <2>4 DEF Between
    <3>2. ValueOr(vals, v) = Bound(ls[k], v)
      BY <2>1, <2>2, <3>1 DEF ValuesOK, BoundInside
    <3> QED
      BY <1>4, <2>2, <2>4, <3>2
  <2> QED
    BY <2>3, <2>4
<1>7. KeepsOuter(ns, persist)
  <2>1. SUFFICES ASSUME NEW k \in DOMAIN ns, NEW j \in DOMAIN ns, NEW v \in LoopVars(ns[k]),
                        k < j, v \in LoopVars(ns[j]), v \notin persist, Between(ns, k, j, v)
                 PROVE  Old(ns[j], v) = Bound(ns[k], v)
    BY DEF KeepsOuter
  <2>2. Between(ls, k, j, v) /\ ns[k] = ls[k] /\ k \in DOMAIN ls /\ ns[j] = ls[j] /\ j \in DOMAIN ls
    BY <1>2, <1>5, <2>1
  <2> QED
    BY <2>1, <2>2 DEF ValuesOK, KeepsOuter
<1>8. KeepsNone(ns, known)
  <2>1. SUFFICES ASSUME NEW j \in DOMAIN ns, NEW v \in LoopVars(ns[j]), v \notin known, Between(ns, 0, j, v)
                 PROVE  Old(ns[j], v) = Missing
    BY DEF KeepsNone
  <2>2. Between(ls, 0, j, v) /\ ns[j] = ls[j] /\ j \in DOMAIN ls
    BY <1>2, <1>5, <2>1
  <2> QED
    BY <2>1, <2>2 DEF ValuesOK, KeepsNone
<1>9. NamesKnown(ns, new, known)
  <2>1. SUFFICES ASSUME NEW v \in DOMAIN new, v \notin known, \A k \in DOMAIN ns : v \notin LoopVars(ns[k]) PROVE FALSE
    BY DEF NamesKnown
  <2>2. Between(ns, 0, n, v)
    BY <2>1 DEF Between
  <2>3. Between(ls, 0, n, v)
    BY <1>2, <1>5, <2>2
  <2>4. CASE v \in LoopVars(ls[n])
    <3>1. Old(ls[n], v) = Missing
      BY <1>2, <2>1, <2>3, <2>4 DEF ValuesOK, KeepsNone
    <3> QED
      BY <1>4, <2>1, <2>4, <3>1
  <2>5. CASE v \notin LoopVars(ls[n])
    <3>1. PICK k \in DOMAIN ls : v \in LoopVars(ls[k])
      BY <1>4, <2>1, <2>5 DEF ValuesOK, NamesKnown
    <3>2. k \in DOMAIN ns /\ ns[k] = ls[k]
      BY <1>2, <2>5, <3>1
    <3> QED
      BY <2>1, <3>1, <3>2
  <2> QED
    BY <2>4, <2>5
<1>10. \A d \in DOMAIN ns : OneOld(ns[d])
  BY <1>2 DEF ValuesOK
<1> QED
  BY <1>6, <1>7, <1>8, <1>9, <1>10 DEF ValuesOK

Known == DOMAIN state.input[2] \cup PersistKeys \cup Range(StepKeys)

\* The loops' variables are those of the present items, and what the loops keep is what was before.
ValuesInv == pc \notin Early => ValuesOK(loops, state.values, PersistKeys, Known)

LEMMA ValuesWithoutLoops ==
    ASSUME NEW ls, ls = <<>>, NEW vals, NEW persist, NEW known, DOMAIN vals \subseteq known
    PROVE  ValuesOK(ls, vals, persist, known)
<1>1. DOMAIN ls = {}
  BY EmptyFacts
<1> QED
  BY <1>1 DEF ValuesOK, BoundInside, KeepsOuter, KeepsNone, NamesKnown

\* The part of the proof that is the same for each step inside of a run.
LEMMA ValuesNow ==
    ASSUME UNCHANGED <<deployment, protocol>>, state'.input = state.input,
           NEW ls, ls = loops', NEW vals, vals = state'.values, ValuesOK(ls, vals, PersistKeys, Known)
    PROVE  ValuesInv'
<1>1. PersistKeys' = PersistKeys
  BY SameProto
<1>2. Known' = Known
  BY <1>1 DEF Known
<1>3. ValuesOK(loops', state'.values, PersistKeys', Known')
  BY <1>1, <1>2
<1>4. ValuesOK(loops, state.values, PersistKeys, Known)'
  BY <1>3 DEF ValuesOK, BoundInside, KeepsOuter, KeepsNone, NamesKnown, Between, LoopVars, Bound, Old, OneOld, ValueOr, Num, Missing
<1> QED
  BY <1>4 DEF ValuesInv

LEMMA ValuesInLoops ==
    ASSUME RunInv, ValuesInv, Quiet \/ Enters \/ GoesOn \/ Iterates \/ LoopEnds \/ LoopStops
    PROVE  ValuesInv'
<1>1. UNCHANGED <<deployment, protocol>> /\ state'.input = state.input /\ pc \notin Early
  BY DEF Quiet, Enters, GoesOn, Iterates, LoopEnds, LoopStops, Leaves, InnerReturned, OnlyValues, Early
<1>2. PICK ls, ns, vals, new, persist, known :
         /\ ls = loops /\ ns = loops' /\ vals = state.values /\ new = state'.values
         /\ persist = PersistKeys /\ known = Known
  OBVIOUS
<1>3. ValuesOK(ls, vals, persist, known) /\ persist \subseteq known /\ IsSeq(ls)
  BY <1>1, <1>2 DEF ValuesInv, Known, RunInv
<1>4. SUFFICES ValuesOK(ns, new, persist, known)
  BY <1>1, <1>2, ValuesNow
<1>5. CASE Quiet
  <2>1. ns = ls /\ \A v : v \notin persist => (v \in DOMAIN new <=> v \in DOMAIN vals) /\ (v \in DOMAIN vals => new[v] = vals[v])
    BY <1>2, <1>5 DEF Quiet, KeptValues
  <2> QED
    BY <1>3, <2>1, ValuesKept
<1>6. CASE Enters
  <2>1. PICK l : NewLoop(l) /\ ns = Append(ls, l) /\ new = Bind(vals, l)
    BY <1>2, <1>6 DEF Enters
  <2>2. l.oldItem = ValueOr(vals, l.step.var) /\ l.oldIndex = ValueOr(vals, l.step.index)
    BY <1>2, <2>1 DEF NewLoop
  <2> QED
    BY <1>3, <2>1, <2>2, ValuesEnter
<1>7. ASSUME GoesOn \/ Iterates \/ LoopEnds \/ LoopStops
      PROVE  /\ Len(ls) \in Nat /\ Len(ls) > 0 /\ Len(ls) \in 1..Len(ls) /\ Loop = ls[Len(ls)] /\ ls # <<>>
  <2>1. InLoop
    BY <1>7 DEF GoesOn, Iterates, LoopEnds, LoopStops, Leaves, InnerReturned
  <2> QED
    BY <1>1, <1>2, <2>1, LoopFacts DEF InLoop
<1>8. PICK n : n = Len(ls)
  OBVIOUS
<1>9. CASE GoesOn
  <2>1. n \in 1..n /\ Loop = ls[n]
    BY <1>7, <1>8, <1>9
  <2>2. PICK m : NestedGoesOn(m, Loop) /\ ns = [ls EXCEPT ![n] = m]
    BY <1>2, <1>8, <1>9 DEF GoesOn
  <2>3. /\ m.step = ls[n].step /\ m.items = ls[n].items /\ m.iter = ls[n].iter
        /\ m.oldItem = ls[n].oldItem /\ m.oldIndex = ls[n].oldIndex
    BY <2>1, <2>2 DEF NestedGoesOn, Carries
  <2>4. new = vals
    BY <1>2, <1>9 DEF GoesOn
  <2>5. ValuesOK(ns, vals, persist, known)
    BY <1>3, <1>8, <2>1, <2>2, <2>3, ValuesGoOn
  <2> QED
    BY <2>4, <2>5
<1>10. CASE Iterates
  <2>1. n \in 1..n /\ Loop = ls[n]
    BY <1>7, <1>8, <1>10
  <2>2. PICK m : NestedIterates(m, Loop) /\ ns = [ls EXCEPT ![n] = m] /\ new = Bind(vals, m)
    BY <1>2, <1>8, <1>10 DEF Iterates
  <2>3. m.step = ls[n].step /\ m.oldItem = ls[n].oldItem /\ m.oldIndex = ls[n].oldIndex
    BY <2>1, <2>2 DEF NestedIterates, Carries
  <2> QED
    BY <1>3, <1>8, <2>1, <2>2, <2>3, ValuesIterate
<1>11. CASE LoopEnds \/ LoopStops
  <2>1. n \in 1..n /\ Loop = ls[n] /\ ls # <<>>
    BY <1>7, <1>8, <1>11
  <2>2. ns = Front(ls) /\ new = Restore(vals, ls[n])
    BY <1>2, <1>11, <2>1 DEF LoopEnds, LoopStops, Leaves
  <2> QED
    BY <1>3, <1>8, <2>1, <2>2, ValuesLeave
<1> QED
  BY <1>5, <1>6, <1>9, <1>10, <1>11

LEMMA ValuesStep ==
    ASSUME RunInv, ValuesInv, StepReturns
    PROVE  ValuesInv'
<1>1. /\ UNCHANGED <<deployment, protocol, loops>> /\ pc = "returned" /\ loops = <<>> /\ loops' = <<>>
      /\ StepSucceeds \/ StepIsRetried \/ StepIsRefused
  BY DEF StepReturns, InLoop
<1>2. pc \notin Early /\ pc \in Running /\ at.i \in Nat /\ at.i < Len(Proto.steps) /\ DOMAIN state = {"input", "values", "outputs", "final"}
  BY <1>1 DEF Early, Running, RunInv
<1>3. DOMAIN state.values \subseteq Known
  <2>1. DOMAIN loops = {}
    BY <1>1, EmptyFacts
  <2> QED
    BY <1>2, <2>1 DEF ValuesInv, ValuesOK, NamesKnown
<1>4. PICK vals, new, key : vals = state.values /\ new = state'.values /\ key = StepKey(at.i)
  OBVIOUS
<1>5. key \in Known
  <2>1. IsList(Proto.steps)
    BY <1>2, ProtoFacts
  <2>2. at.i + 1 \in DOMAIN StepKeys
    BY <1>2, <2>1, ListFacts, KeysFacts
  <2> QED
    BY <1>4, <2>2 DEF StepKey, Known, Range
<1>6. state'.input = state.input /\ DOMAIN new \subseteq DOMAIN vals \cup {key}
  <2>1. CASE StepSucceeds
    <3>1. PICK o, f : state' = [state EXCEPT !.outputs = o,
                                  !.values = IF outputPresent(ret.value) THEN With(@, key, ret.value) ELSE @, !.final = f]
      BY <1>4, <2>1 DEF StepSucceeds
    <3>2. state'.input = state.input /\ new = (IF outputPresent(ret.value) THEN With(vals, key, ret.value) ELSE vals)
      BY <1>2, <1>4, <3>1
    <3>3. DOMAIN With(vals, key, ret.value) = DOMAIN vals \cup {key}
      BY DEF With
    <3> QED
      BY <3>2, <3>3
  <2>2. CASE StepIsRetried
    BY <1>4, <2>2 DEF StepIsRetried
  <2>3. CASE StepIsRefused
    <3>1. PICK o : state' = [state EXCEPT !.outputs = o]
      BY <2>3 DEF StepIsRefused
    <3> QED
      BY <1>2, <1>4, <3>1
  <2> QED
    BY <1>1, <2>1, <2>2, <2>3
<1>7. DOMAIN new \subseteq Known
  BY <1>3, <1>4, <1>5, <1>6
<1>8. PICK ls, persist, known : ls = loops' /\ persist = PersistKeys /\ known = Known
  OBVIOUS
<1>9. ValuesOK(ls, new, persist, known)
  BY <1>1, <1>7, <1>8, ValuesWithoutLoops
<1> QED
  BY <1>1, <1>4, <1>6, <1>8, <1>9, ValuesNow

LEMMA ValuesBegin ==
    ASSUME RunInv, MatchInboundProtocol, pc' \notin Early
    PROVE  ValuesInv'
<1>1. pc = "inbound" /\ pc \in Early /\ UNCHANGED loops
  BY DEF MatchInboundProtocol, Early
<1>2. loops' = <<>>
  BY <1>1 DEF RunInv
<1>3. state' = [NoRun EXCEPT !.input = deployment.message.payload, !.values = deployment.message.payload[2]]
  BY DEF MatchInboundProtocol, Early
<1>4. state'.values = state'.input[2]
  BY <1>3 DEF NoRun
<1>5. PICK ls, vals, persist, known : ls = loops' /\ vals = state'.values /\ persist = PersistKeys' /\ known = Known'
  OBVIOUS
<1>6. DOMAIN vals \subseteq known
  BY <1>4, <1>5 DEF Known
<1>7. ValuesOK(ls, vals, persist, known)
  BY <1>2, <1>5, <1>6, ValuesWithoutLoops
<1>8. ValuesOK(loops', state'.values, PersistKeys', Known')
  BY <1>5, <1>7
<1>9. ValuesOK(loops, state.values, PersistKeys, Known)'
  BY <1>8 DEF ValuesOK, BoundInside, KeepsOuter, KeepsNone, NamesKnown, Between, LoopVars, Bound, Old, OneOld, ValueOr, Num, Missing
<1> QED
  BY <1>9 DEF ValuesInv

LEMMA ValuesNext ==
    ASSUME RunInv, ValuesInv, [Next]_vars
    PROVE  ValuesInv'
<1>1. CASE Quiet \/ Enters \/ GoesOn \/ Iterates \/ LoopEnds \/ LoopStops
  BY <1>1, ValuesInLoops
<1>2. CASE StepReturns
  BY <1>2, ValuesStep
<1>3. CASE LoadConfig
  <2>1. pc' \in Early
    BY <1>3 DEF LoadConfig, Early
  <2> QED
    BY <2>1 DEF ValuesInv
<1>4. CASE MatchInboundProtocol
  <2>1. CASE pc' \in Early
    BY <2>1 DEF ValuesInv
  <2> QED
    BY <1>4, <2>1, ValuesBegin
<1>5. CASE UNCHANGED vars
  <2>1. CASE pc \in Early
    BY <1>5, <2>1 DEF vars, ValuesInv, Early
  <2>2. CASE pc \notin Early
    <3>1. PICK ls, vals : ls = loops' /\ vals = state'.values
      OBVIOUS
    <3>2. ls = loops /\ vals = state.values /\ state'.input = state.input /\ UNCHANGED <<deployment, protocol>>
      BY <1>5, <3>1 DEF vars
    <3>3. ValuesOK(ls, vals, PersistKeys, Known)
      BY <2>2, <3>2 DEF ValuesInv
    <3> QED
      BY <3>1, <3>2, <3>3, ValuesNow
  <2> QED
    BY <2>1, <2>2
<1> QED
  BY <1>1, <1>2, <1>3, <1>4, <1>5, Shapes

LEMMA ValuesInit == Init => ValuesInv
  BY DEF Init, ValuesInv, Early

\* A loop's variable is its item, and is gone after the loop.
LEMMA ValuesGive ==
    ASSUME RunInv, ValuesInv
    PROVE  ItemIsCurrent /\ LoopVarsAreGone
<1>1. ItemIsCurrent
  <2>1. SUFFICES ASSUME pc = "step", NEW k \in DOMAIN loops, loops[k].step.var \notin PersistKeys,
                        \A j \in k + 1..Len(loops) : loops[k].step.var \notin {loops[j].step.var, loops[j].step.index}
                 PROVE  ValueOr(state.values, loops[k].step.var) = loops[k].items[loops[k].iter + 1]
    BY DEF ItemIsCurrent
  <2>2. PICK v : v = loops[k].step.var
    OBVIOUS
  <2>3. ValuesOK(loops, state.values, PersistKeys, Known) /\ pc \notin Early
    BY <2>1 DEF ValuesInv, Early
  <2>4. Len(loops) \in Nat /\ DOMAIN loops = 1..Len(loops)
    BY <2>3, LoopFacts
  <2>5. Between(loops, k, Len(loops) + 1, v)
    <3>1. SUFFICES ASSUME NEW d \in DOMAIN loops, k < d, d < Len(loops) + 1 PROVE v \notin LoopVars(loops[d])
      BY DEF Between
    <3>2. d \in k + 1..Len(loops)
      BY <2>1, <2>4, <3>1
    <3> QED
      BY <2>1, <2>2, <3>2 DEF LoopVars
  <2>6. v \in LoopVars(loops[k])
    BY <2>2 DEF LoopVars
  <2>7. ValueOr(state.values, v) = Bound(loops[k], v)
    BY <2>1, <2>2, <2>3, <2>5, <2>6 DEF ValuesOK, BoundInside
  <2> QED
    BY <2>2, <2>7 DEF Bound
<1>2. LoopVarsAreGone
  <2>1. SUFFICES ASSUME protocol # 0, ~InLoop PROVE DOMAIN state.values \subseteq Known
    BY DEF LoopVarsAreGone, Known
  <2>2. pc \notin Early
    BY <2>1 DEF RunInv
  <2>3. DOMAIN loops = {}
    BY <2>1, EmptyFacts DEF InLoop
  <2> QED
    BY <2>2, <2>3 DEF ValuesInv, ValuesOK, NamesKnown
<1> QED
  BY <1>1, <1>2

-----------------------------------------------------------------------------
(* What the loops hand on.                                                 *)

\* outs are what the nested steps of the iteration returned, v the last of them that is present.
Got(R, q, iter, outs) ==
    \A j \in DOMAIN outs : Inside(q, iter, j - 1) \in DOMAIN R /\ R[Inside(q, iter, j - 1)].value = outs[j]
LastOf(v, outs) ==
    \/ v = Nil /\ \A j \in DOMAIN outs : ~outputPresent(outs[j])
    \/ \E j \in DOMAIN outs :
          /\ v = outs[j] /\ outputPresent(outs[j])
          /\ \A k \in DOMAIN outs : k > j => ~outputPresent(outs[k])
EntryOf(entry, iter, outs) ==
    /\ entry[2].index = Num(iter) /\ LastOf(entry[2].result, outs)
    /\ \A j \in DOMAIN outs : entry[2].outputs[2][StepKey(j - 1)] = outs[j]
EntryOK(R, q, iter, s, entry) ==
    \E outs : /\ DOMAIN outs = DOMAIN s.steps /\ DOMAIN outs \subseteq Nat
              /\ Got(R, q, iter, outs) /\ EntryOf(entry, iter, outs)

LoopHistory(R, q, l) ==
    /\ Got(R, q, l.iter, l.outputs) /\ LastOf(l.final, l.outputs)
    /\ \A k \in DOMAIN l.results : EntryOK(R, q, k - 1, l.step, l.results[k])
HistoryOK(R, ls, q) == \A d \in DOMAIN ls : LoopHistory(R, Upto(q, d - 1), ls[d])
ReturnedOK(R) ==
    \A p \in DOMAIN R : R[p].step.type = "for_each" =>
        \A k \in DOMAIN R[p].value[2] : EntryOK(R, p, k - 1, R[p].step, R[p].value[2][k])

\* A loop holds, for each iteration, what the places of this iteration returned.
HistoryInv ==
    /\ pc \notin Early => HistoryOK(returned, loops, Place)
    /\ ReturnedOK(returned)
    /\ pc = "returned" /\ ret.ok => Place \in DOMAIN returned /\ returned[Place].value = ret.value

\* What a step returns is kept at a place of its own, or again at its place in the protocol.
LEMMA GotKept ==
    ASSUME NEW R, NEW S, NEW w, NEW x, IsWith(S, R, w, x), NEW q, w \notin DOMAIN R \/ (w.path = <<>> /\ IsPlace(q)),
           NEW iter, NEW outs, Got(R, q, iter, outs)
    PROVE  Got(S, q, iter, outs)
<1>1. SUFFICES ASSUME NEW j \in DOMAIN outs
               PROVE  Inside(q, iter, j - 1) \in DOMAIN S /\ S[Inside(q, iter, j - 1)].value = outs[j]
  BY DEF Got
<1>2. PICK p : p = Inside(q, iter, j - 1)
  OBVIOUS
<1>3. p \in DOMAIN R /\ R[p].value = outs[j]
  BY <1>1, <1>2 DEF Got
<1>4. p # w
  <2>1. CASE w \notin DOMAIN R
    BY <1>3, <2>1
  <2>2. CASE w.path = <<>> /\ IsPlace(q)
    <3>1. PICK s, n, e, t : s = q.path /\ n = Len(s) /\ e = [iter |-> iter, nested |-> j - 1] /\ t = Append(s, e)
      OBVIOUS
    <3>2. p.path = t
      BY <1>2, <3>1 DEF Inside
    <3>3. IsSeq(s)
      BY <2>2, <3>1 DEF IsPlace
    <3>4. Appended(t, s, e, n)
      BY <3>1, <3>3, AppendFacts
    <3>5. IsSeq(t) /\ Len(t) > 0
      BY <3>4 DEF Appended
    <3>6. t # <<>>
      BY <3>5, SeqFacts
    <3> QED
      BY <2>2, <3>2, <3>6
  <2> QED
    BY <2>1, <2>2
<1>5. p \in DOMAIN S /\ S[p] = R[p]
  BY <1>3, <1>4 DEF IsWith
<1> QED
  BY <1>2, <1>3, <1>5

LEMMA EntryKept ==
    ASSUME NEW R, NEW S, NEW w, NEW x, IsWith(S, R, w, x), NEW q, w \notin DOMAIN R \/ (w.path = <<>> /\ IsPlace(q)),
           NEW iter, NEW s, NEW entry, EntryOK(R, q, iter, s, entry)
    PROVE  EntryOK(S, q, iter, s, entry)
<1>1. PICK outs : /\ DOMAIN outs = DOMAIN s.steps /\ DOMAIN outs \subseteq Nat
                  /\ Got(R, q, iter, outs) /\ EntryOf(entry, iter, outs)
  BY DEF EntryOK
<1>2. Got(S, q, iter, outs)
  BY <1>1, GotKept
<1> QED
  BY <1>1, <1>2 DEF EntryOK

LEMMA LoopHistoryKept ==
    ASSUME NEW R, NEW S, NEW w, NEW x, IsWith(S, R, w, x), w \notin DOMAIN R, NEW q, NEW l, LoopHistory(R, q, l)
    PROVE  LoopHistory(S, q, l)
<1>1. PICK iter, outs : iter = l.iter /\ outs = l.outputs
  OBVIOUS
<1>2. Got(R, q, iter, outs)
  BY <1>1 DEF LoopHistory
<1>3. Got(S, q, iter, outs)
  BY <1>2, GotKept
<1>4. ASSUME NEW k \in DOMAIN l.results PROVE EntryOK(S, q, k - 1, l.step, l.results[k])
  <2>1. PICK i, s, e : i = k - 1 /\ s = l.step /\ e = l.results[k]
    OBVIOUS
  <2>2. EntryOK(R, q, i, s, e)
    BY <2>1 DEF LoopHistory
  <2>3. EntryOK(S, q, i, s, e)
    BY <2>2, EntryKept
  <2> QED
    BY <2>1, <2>3
<1> QED
  BY <1>1, <1>3, <1>4 DEF LoopHistory

LEMMA ReturnedKept ==
    ASSUME NEW R, NEW S, NEW w, NEW x, IsWith(S, R, w, x), w \notin DOMAIN R \/ w.path = <<>>,
           \A p \in DOMAIN R : IsPlace(p), ReturnedOK(R),
           x.step.type = "for_each" => \A k \in DOMAIN x.value[2] : EntryOK(S, w, k - 1, x.step, x.value[2][k])
    PROVE  ReturnedOK(S)
<1>1. SUFFICES ASSUME NEW p \in DOMAIN S, S[p].step.type = "for_each", NEW k \in DOMAIN S[p].value[2]
               PROVE  EntryOK(S, p, k - 1, S[p].step, S[p].value[2][k])
  BY DEF ReturnedOK
<1>2. CASE p = w
  BY <1>1, <1>2 DEF IsWith
<1>3. CASE p # w
  <2>1. p \in DOMAIN R /\ S[p] = R[p] /\ IsPlace(p)
    BY <1>3, <1>1 DEF IsWith
  <2>2. PICK i, s, e : i = k - 1 /\ s = R[p].step /\ e = R[p].value[2][k]
    OBVIOUS
  <2>3. EntryOK(R, p, i, s, e)
    BY <1>1, <2>1, <2>2 DEF ReturnedOK
  <2>4. EntryOK(S, p, i, s, e)
    BY <2>1, <2>3, EntryKept
  <2> QED
    BY <2>1, <2>2, <2>4
<1> QED
  BY <1>2, <1>3

\* The record of an iteration names each nested step's output by the step's key.
LEMMA ContractFacts ==
    ASSUME NEW l, NEW m \in Nat, DOMAIN l.outputs = 1..m, m <= Len(StepKeys), NEW c, c = Contract(l)
    PROVE  /\ c[2].index = Num(l.iter) /\ c[2].result = l.final
           /\ \A j \in 1..m : c[2].outputs[2][StepKey(j - 1)] = l.outputs[j]
<1>1. PICK os, f : /\ os = l.outputs
                   /\ f = [k \in {StepKey(j - 1) : j \in DOMAIN os} |-> os[CHOOSE j \in DOMAIN os : StepKey(j - 1) = k]]
  OBVIOUS
<1>2. c = Obj([index |-> Num(l.iter), item |-> l.items[l.iter + 1], outputs |-> Obj(f), result |-> l.final])
  BY <1>1 DEF Contract
<1>3. c[2].index = Num(l.iter) /\ c[2].result = l.final /\ c[2].outputs[2] = f
  BY <1>2 DEF Obj
<1>4. ASSUME NEW j \in 1..m PROVE f[StepKey(j - 1)] = os[j]
  <2>1. PICK key : key = StepKey(j - 1)
    OBVIOUS
  <2>2. PICK i : i = CHOOSE t \in DOMAIN os : StepKey(t - 1) = key
    OBVIOUS
  <2>3. j \in DOMAIN os /\ DOMAIN os = 1..m
    BY <1>1
  <2>4. i \in DOMAIN os /\ StepKey(i - 1) = key
    BY <2>1, <2>2, <2>3
  <2>5. f[key] = os[i]
    BY <1>1, <2>1, <2>2, <2>3
  <2>6. i \in DOMAIN StepKeys /\ j \in DOMAIN StepKeys /\ (i - 1) + 1 = i /\ (j - 1) + 1 = j
    BY <2>3, <2>4, KeysFacts
  <2>7. StepKeys[i] = StepKeys[j]
    BY <2>1, <2>4, <2>6 DEF StepKey
  <2>8. i = j
    BY <2>6, <2>7, KeysFacts
  <2> QED
    BY <2>1, <2>5, <2>8
<1> QED
  BY <1>1, <1>3, <1>4

IterationNow(R, q, l, outs, fin) ==
    Got(R, q, l.iter, outs) /\ LastOf(fin, outs) /\ DOMAIN outs = 1..(l.nested + 1)

\* A nested step returned v: it is the loop's next output, and its result when it is present.
LEMMA HistoryReturns ==
    ASSUME NEW R, NEW q, NEW l, LoopOK(l), LoopHistory(R, q, l), NEW w, w = Inside(q, l.iter, l.nested),
           NEW v, w \in DOMAIN R, R[w].value = v, NEW outs, outs = Append(l.outputs, v),
           NEW fin, fin = IF outputPresent(v) THEN v ELSE l.final
    PROVE  IterationNow(R, q, l, outs, fin)
<1>1. PICK os, n, iter : os = l.outputs /\ n = Len(os) /\ iter = l.iter
  OBVIOUS
<1>2. IsSeq(os) /\ n = l.nested /\ n \in Nat
  BY <1>1 DEF LoopOK
<1>3. DOMAIN os = 1..n
  BY <1>1, <1>2, SeqFacts
<1>4. Appended(outs, os, v, n)
  BY <1>1, <1>2, AppendFacts
<1>5. DOMAIN outs = 1..(n + 1) /\ outs[n + 1] = v /\ \A i \in 1..n : outs[i] = os[i]
  BY <1>4 DEF Appended
<1>6. Got(R, q, iter, outs)
  <2>1. SUFFICES ASSUME NEW j \in 1..(n + 1)
                 PROVE  Inside(q, iter, j - 1) \in DOMAIN R /\ R[Inside(q, iter, j - 1)].value = outs[j]
    BY <1>5 DEF Got
  <2>2. CASE j = n + 1
    <3>1. j - 1 = l.nested
      BY <1>2, <2>2
    <3>2. Inside(q, iter, j - 1) = w
      BY <1>1, <3>1
    <3> QED
      BY <1>5, <2>2, <3>2
  <2>3. CASE j \in 1..n
    BY <1>1, <1>3, <1>5, <2>3 DEF LoopHistory, Got
  <2>4. j = n + 1 \/ j \in 1..n
    BY <1>2, <2>1
  <2> QED
    BY <2>2, <2>3, <2>4
<1>7. LastOf(fin, outs)
  <2>1. CASE outputPresent(v)
    <3>1. n + 1 \in DOMAIN outs /\ fin = outs[n + 1] /\ outputPresent(outs[n + 1])
      BY <1>2, <1>5, <2>1
    <3>2. \A k \in DOMAIN outs : ~(k > n + 1)
      BY <1>2, <1>5
    <3> QED
      BY <3>1, <3>2 DEF LastOf
  <2>2. CASE ~outputPresent(v)
    <3>1. LastOf(fin, os)
      BY <1>1, <2>2 DEF LoopHistory
    <3>2. \A k \in DOMAIN outs : k = n + 1 \/ (k \in DOMAIN os /\ outs[k] = os[k])
      BY <1>2, <1>3, <1>5
    <3>3. CASE fin = Nil /\ \A j \in DOMAIN os : ~outputPresent(os[j])
      <4>1. ASSUME NEW k \in DOMAIN outs PROVE ~outputPresent(outs[k])
        BY <1>5, <2>2, <3>2, <3>3
      <4> QED
        BY <3>3, <4>1 DEF LastOf
    <3>4. CASE \E j \in DOMAIN os : /\ fin = os[j] /\ outputPresent(os[j])
                                    /\ \A k \in DOMAIN os : k > j => ~outputPresent(os[k])
      <4>1. PICK j \in DOMAIN os : /\ fin = os[j] /\ outputPresent(os[j])
                                   /\ \A k \in DOMAIN os : k > j => ~outputPresent(os[k])
        BY <3>4
      <4>2. j \in DOMAIN outs /\ outs[j] = os[j]
        BY <1>2, <1>3, <1>5, <4>1
      <4>3. \A k \in DOMAIN outs : k > j => ~outputPresent(outs[k])
        BY <1>5, <2>2, <3>2, <4>1
      <4> QED
        BY <4>1, <4>2, <4>3 DEF LastOf
    <3> QED
      BY <3>1, <3>3, <3>4 DEF LastOf
  <2> QED
    BY <2>1, <2>2
<1> QED
  BY <1>1, <1>2, <1>5, <1>6, <1>7 DEF IterationNow

\* The iteration is over: its record is that of what its nested steps returned.
LEMMA HistoryIterates ==
    ASSUME NEW R, NEW q, NEW l, LoopOK(l), LoopHistory(R, q, l), NEW w, w = Inside(q, l.iter, l.nested),
           w \in DOMAIN R, R[w].value = ret.value, IsList(l.step.steps), ~(l.nested + 1 < Len(l.step.steps)),
           NEW e, e = Contract(WithReturn(l)), NEW rs, rs = Append(l.results, e)
    PROVE  DOMAIN rs = 1..(l.iter + 1) /\ \A k \in DOMAIN rs : EntryOK(R, q, k - 1, l.step, rs[k])
<1>1. PICK m, outs, fin, v, iter, s :
         m = WithReturn(l) /\ outs = m.outputs /\ fin = m.final /\ v = ret.value /\ iter = l.iter /\ s = l.step
  OBVIOUS
<1>2. DOMAIN l = LoopFields
  BY DEF LoopOK
<1>3. outs = Append(l.outputs, v) /\ fin = (IF outputPresent(v) THEN v ELSE l.final) /\ m.iter = iter
  BY <1>1, <1>2, WithReturnFacts
<1>4. Got(R, q, iter, outs) /\ LastOf(fin, outs) /\ DOMAIN outs = 1..(l.nested + 1)
  <2>1. R[w].value = v
    BY <1>1
  <2>2. IterationNow(R, q, l, outs, fin)
    BY <1>3, <2>1, HistoryReturns
  <2> QED
    BY <1>1, <2>2 DEF IterationNow
<1>5. l.nested + 1 = Len(s.steps) /\ l.nested + 1 \in Nat /\ DOMAIN s.steps = 1..Len(s.steps) /\ Len(s.steps) <= Len(StepKeys)
  <2>1. PICK ss : ss = s.steps
    OBVIOUS
  <2>2. IsList(ss) /\ l.nested \in Nat /\ l.nested < Len(ss) /\ ~(l.nested + 1 < Len(ss))
    BY <1>1, <2>1 DEF LoopOK
  <2>3. Len(ss) \in Nat /\ DOMAIN ss = 1..Len(ss) /\ Len(ss) <= Len(StepKeys)
    BY <2>2, ListFacts
  <2>4. l.nested + 1 = Len(ss) /\ l.nested + 1 \in Nat
    BY <2>2, <2>3
  <2> QED
    BY <2>1, <2>3, <2>4
<1>6. /\ e[2].index = Num(iter) /\ e[2].result = fin
      /\ \A j \in 1..(l.nested + 1) : e[2].outputs[2][StepKey(j - 1)] = outs[j]
  <2>1. PICK n : n = l.nested + 1
    OBVIOUS
  <2>2. n \in Nat /\ n <= Len(StepKeys) /\ DOMAIN m.outputs = 1..n
    BY <1>1, <1>4, <1>5, <2>1
  <2>3. /\ e[2].index = Num(m.iter) /\ e[2].result = m.final
        /\ \A j \in 1..n : e[2].outputs[2][StepKey(j - 1)] = m.outputs[j]
    BY <1>1, <2>2, ContractFacts
  <2> QED
    BY <1>1, <1>3, <2>1, <2>3
<1>7. EntryOf(e, iter, outs)
  BY <1>4, <1>6 DEF EntryOf
<1>8. EntryOK(R, q, iter, s, e)
  <2>1. DOMAIN outs = DOMAIN s.steps /\ DOMAIN outs \subseteq Nat
    BY <1>4, <1>5
  <2> QED
    BY <1>4, <1>7, <2>1 DEF EntryOK
<1>9. PICK old : old = l.results
  OBVIOUS
<1>10. IsSeq(old) /\ Len(old) = iter /\ iter \in Nat
  BY <1>1, <1>9 DEF LoopOK
<1>11. Appended(rs, old, e, iter) /\ DOMAIN old = 1..iter
  BY <1>9, <1>10, AppendFacts, SeqFacts
<1>12. DOMAIN rs = 1..(iter + 1) /\ rs[iter + 1] = e /\ \A i \in 1..iter : rs[i] = old[i]
  BY <1>11 DEF Appended
<1>13. ASSUME NEW k \in 1..(iter + 1) PROVE EntryOK(R, q, k - 1, s, rs[k])
  <2>1. CASE k = iter + 1
    <3>1. k - 1 = iter /\ rs[k] = e
      BY <1>10, <1>12, <2>1
    <3> QED
      BY <1>8, <3>1
  <2>2. CASE k \in 1..iter
    <3>1. rs[k] = old[k] /\ k \in DOMAIN l.results
      BY <1>9, <1>11, <1>12, <2>2
    <3> QED
      BY <1>1, <1>9, <3>1 DEF LoopHistory
  <2>3. k = iter + 1 \/ k \in 1..iter
    BY <1>10, <1>13
  <2> QED
    BY <2>1, <2>2, <2>3
<1> QED
  BY <1>1, <1>12, <1>13

LEMMA HistoryEmpty ==
    ASSUME NEW R, NEW q, NEW l, l.outputs = <<>>, l.final = Nil, \A k \in DOMAIN l.results : EntryOK(R, q, k - 1, l.step, l.results[k])
    PROVE  LoopHistory(R, q, l)
<1>1. PICK os : os = l.outputs
  OBVIOUS
<1>2. DOMAIN os = {}
  BY <1>1, EmptyFacts
<1> QED
  BY <1>1, <1>2 DEF LoopHistory, Got, LastOf

LEMMA UptoSame ==
    ASSUME NEW q, NEW r, NEW d, r.i = q.i, \A e \in 1..d : r.path[e] = q.path[e]
    PROVE  Upto(r, d) = Upto(q, d)
<1>1. [e \in 1..d |-> r.path[e]] = [e \in 1..d |-> q.path[e]]
  OBVIOUS
<1> QED
  BY <1>1 DEF Upto

\* A place in a loop is the place of the loop, and where in it.
LEMMA PlaceInside ==
    ASSUME NEW q, IsPlace(q), NEW n, n = Len(q.path), n > 0, NEW c, c = n - 1, NEW u, u = Upto(q, c)
    PROVE  q = Inside(u, q.path[n].iter, q.path[n].nested)
<1>1. PICK s, t, e, f : s = q.path /\ t = u.path /\ e = s[n] /\ f = Append(t, e)
  OBVIOUS
<1>2. IsSeq(s) /\ n \in Nat /\ DOMAIN s = 1..n /\ s = [d \in 1..n |-> s[d]] /\ q = [i |-> q.i, path |-> s]
  BY <1>1, SeqFacts DEF IsPlace
<1>3. c \in 0..n /\ c \in Nat /\ c + 1 = n /\ n \in 1..n
  BY <1>2
<1>4. IsUpto(u, q, c)
  BY <1>3, UptoFacts
<1>5. IsSeq(t) /\ Len(t) = c /\ u.i = q.i /\ \A d \in 1..c : t[d] = s[d]
  BY <1>1, <1>4 DEF IsUpto, IsPlace
<1>6. Appended(f, t, e, c)
  BY <1>1, <1>5, AppendFacts
<1>7. IsSeq(f) /\ Len(f) = n /\ f[n] = e /\ \A d \in 1..c : f[d] = t[d]
  BY <1>3, <1>6 DEF Appended
<1>8. f = [d \in 1..n |-> f[d]]
  BY <1>7, SeqFacts
<1>9. ASSUME NEW d \in 1..n PROVE f[d] = s[d]
  <2>1. d = n \/ d \in 1..c
    BY <1>3
  <2> QED
    BY <1>1, <1>5, <1>7, <2>1
<1>10. f = s
  BY <1>2, <1>8, <1>9
<1>11. e = [iter |-> e.iter, nested |-> e.nested]
  BY <1>1, <1>2, <1>3 DEF IsPlace, IsPair
<1>12. Inside(u, e.iter, e.nested) = [i |-> q.i, path |-> f]
  BY <1>1, <1>5, <1>11 DEF Inside
<1> QED
  BY <1>1, <1>2, <1>10, <1>12

LEMMA HistoryWith ==
    ASSUME NEW R, NEW S, NEW w, NEW x, IsWith(S, R, w, x), w \notin DOMAIN R, NEW ls, NEW q, HistoryOK(R, ls, q)
    PROVE  HistoryOK(S, ls, q)
<1>1. SUFFICES ASSUME NEW d \in DOMAIN ls PROVE LoopHistory(S, Upto(q, d - 1), ls[d])
  BY DEF HistoryOK
<1>2. PICK u, l : u = Upto(q, d - 1) /\ l = ls[d]
  OBVIOUS
<1>3. LoopHistory(R, u, l)
  BY <1>2 DEF HistoryOK
<1>4. LoopHistory(S, u, l)
  BY <1>3, LoopHistoryKept
<1> QED
  BY <1>2, <1>4

\* The loops around d are the same.
LEMMA HistoryOuter ==
    ASSUME NEW R, NEW ls, NEW q, HistoryOK(R, ls, q), NEW n \in Nat, NEW r, r.i = q.i, \A e \in 1..n : r.path[e] = q.path[e],
           NEW ns, NEW d \in DOMAIN ls, d \in Nat, d - 1 <= n, ns[d] = ls[d]
    PROVE  LoopHistory(R, Upto(r, d - 1), ns[d])
<1>1. PICK c : c = d - 1
  OBVIOUS
<1>2. \A e \in 1..c : r.path[e] = q.path[e]
  BY <1>1
<1>3. Upto(r, c) = Upto(q, c)
  BY <1>2, UptoSame
<1> QED
  BY <1>1, <1>3 DEF HistoryOK

LEMMA HistoryEnter ==
    ASSUME NEW R, NEW ls, IsSeq(ls), NEW q, HistoryOK(R, ls, q), NEW n, n = Len(ls),
           NEW r, r.i = q.i, \A e \in 1..n : r.path[e] = q.path[e],
           NEW l, l.outputs = <<>>, l.final = Nil, l.results = <<>>, NEW ns, ns = Append(ls, l)
    PROVE  HistoryOK(R, ns, r)
<1>1. n \in Nat /\ DOMAIN ls = 1..n
  BY SeqFacts
<1>2. Appended(ns, ls, l, n)
  BY AppendFacts
<1>3. DOMAIN ns = 1..(n + 1) /\ ns[n + 1] = l /\ \A d \in 1..n : ns[d] = ls[d]
  BY <1>2 DEF Appended
<1>4. ASSUME NEW d \in 1..(n + 1) PROVE LoopHistory(R, Upto(r, d - 1), ns[d])
  <2>1. CASE d = n + 1
    <3>1. PICK u, rs : u = Upto(r, d - 1) /\ rs = l.results
      OBVIOUS
    <3>2. DOMAIN rs = {}
      BY <3>1, EmptyFacts
    <3>3. \A k \in DOMAIN l.results : EntryOK(R, u, k - 1, l.step, l.results[k])
      BY <3>1, <3>2
    <3>4. LoopHistory(R, u, l)
      BY <3>3, HistoryEmpty
    <3> QED
      BY <1>3, <2>1, <3>1, <3>4
  <2>2. CASE d \in 1..n
    <3>1. d \in DOMAIN ls /\ d \in Nat /\ d - 1 <= n /\ ns[d] = ls[d]
      BY <1>1, <1>3, <2>2
    <3> QED
      BY <1>1, <3>1, HistoryOuter
  <2>3. d = n + 1 \/ d \in 1..n
    BY <1>1
  <2> QED
    BY <2>1, <2>2, <2>3
<1> QED
  BY <1>3, <1>4 DEF HistoryOK

LEMMA HistorySet ==
    ASSUME NEW R, NEW ls, IsSeq(ls), NEW q, HistoryOK(R, ls, q), NEW n, n = Len(ls), n \in 1..n, NEW c, c = n - 1,
           NEW r, r.i = q.i, \A e \in 1..c : r.path[e] = q.path[e],
           NEW u, u = Upto(q, c), NEW m, LoopHistory(R, u, m), NEW ns, ns = [ls EXCEPT ![n] = m]
    PROVE  HistoryOK(R, ns, r)
<1>1. n \in Nat /\ DOMAIN ls = 1..n /\ c \in Nat
  BY SeqFacts
<1>2. Replaced(ns, ls, n, n, m)
  BY SetFacts
<1>3. DOMAIN ns = 1..n /\ ns[n] = m /\ \A d \in 1..n : d # n => ns[d] = ls[d]
  BY <1>2 DEF Replaced
<1>4. ASSUME NEW d \in 1..n PROVE LoopHistory(R, Upto(r, d - 1), ns[d])
  <2>1. CASE d = n
    <3>1. Upto(r, c) = u
      BY UptoSame
    <3>2. d - 1 = c /\ ns[d] = m
      BY <1>3, <2>1
    <3> QED
      BY <3>1, <3>2
  <2>2. CASE d # n
    <3>1. d \in DOMAIN ls /\ d \in Nat /\ d - 1 <= c /\ ns[d] = ls[d]
      BY <1>1, <1>3, <2>2
    <3> QED
      BY <1>1, <3>1, HistoryOuter
  <2> QED
    BY <2>1, <2>2
<1> QED
  BY <1>3, <1>4 DEF HistoryOK

LEMMA HistoryFront ==
    ASSUME NEW R, NEW ls, IsSeq(ls), ls # <<>>, NEW q, HistoryOK(R, ls, q), NEW n, n = Len(ls), NEW c, c = n - 1,
           NEW r, r.i = q.i, \A e \in 1..c : r.path[e] = q.path[e], NEW ns, ns = Front(ls)
    PROVE  HistoryOK(R, ns, r)
<1>1. n \in Nat /\ DOMAIN ls = 1..n /\ n > 0 /\ c \in Nat
  BY SeqFacts
<1>2. Fronted(ns, ls, n)
  BY FrontFacts
<1>3. DOMAIN ns = 1..c /\ \A d \in 1..c : ns[d] = ls[d]
  BY <1>2 DEF Fronted
<1>4. ASSUME NEW d \in 1..c PROVE LoopHistory(R, Upto(r, d - 1), ns[d])
  <2>1. d \in DOMAIN ls /\ d \in Nat /\ d - 1 <= c /\ ns[d] = ls[d]
    BY <1>1, <1>3
  <2> QED
    BY <1>1, <2>1, HistoryOuter
<1> QED
  BY <1>3, <1>4 DEF HistoryOK

LEMMA HistoryHolds ==
    ASSUME NEW R, R = returned', NEW ls, ls = loops', NEW q, q = Place', HistoryOK(R, ls, q), ReturnedOK(R),
           pc' = "returned" /\ ret'.ok => q \in DOMAIN R /\ R[q].value = ret'.value
    PROVE  HistoryInv'
<1>1. HistoryOK(returned', loops', Place') /\ ReturnedOK(returned')
  OBVIOUS
<1>2. HistoryOK(returned, loops, Place)' /\ ReturnedOK(returned)'
  BY <1>1 DEF HistoryOK, ReturnedOK, LoopHistory, EntryOK, EntryOf, Got, LastOf, Inside, Upto, StepKey, outputPresent, Nil, Num, Text
<1> QED
  BY <1>2 DEF HistoryInv

LEMMA LoopSteps ==
    ASSUME RunInv, pc \notin Early, NEW d \in DOMAIN loops
    PROVE  IsList(loops[d].step.steps)
<1>1. d - 1 \in Nat /\ d - 1 <= MaxNesting /\ MaxNesting \in Nat /\ loops[d].step \in Levels(Proto)[d - 1]
  BY LoopFacts, WorkflowAssumption DEF RunInv, Nest
<1>2. loops[d].step \in AllSteps(Proto)
  BY <1>1, LevelFacts
<1> QED
  BY <1>2, ProtoFacts

LEMMA HistoryQuiet ==
    ASSUME RunInv, PlaceInv, HistoryInv, Quiet
    PROVE  HistoryInv'
<1>1. UNCHANGED <<deployment, protocol, at, loops>> /\ pc \in {"step", "tool", "model", "returned"} /\ pc \notin Early /\ pc \in Running
      /\ (pc = "returned" => pc' = "hung")
  BY DEF Quiet, Hangs, Early, Running
<1>2. PICK q, R, S, ls : q = Place /\ R = returned /\ S = returned' /\ ls = loops
  OBVIOUS
<1>3. q = Place' /\ ls = loops' /\ S = returned'
  BY <1>1, <1>2, SameStep
<1>4. HistoryOK(R, ls, q) /\ ReturnedOK(R)
  BY <1>1, <1>2 DEF HistoryInv
<1>5. CASE Answers
  <2>1. PICK x : x = [step |-> Step, value |-> ret'.value]
    OBVIOUS
  <2>2. S = With(R, q, x)
    BY <1>2, <1>5, <2>1 DEF Answers
  <2>3. IsWith(S, R, q, x)
    BY <2>2, WithFacts
  <2>4. ASSUME NEW k \in DOMAIN x.value[2], x.step.type = "for_each" PROVE FALSE
    <3>1. PICK v : v = x.value[2]
      OBVIOUS
    <3>2. x.value = Arr(<<>>)
      BY <1>5, <2>1, <2>4 DEF Answers
    <3>3. v = <<>>
      BY <3>1, <3>2 DEF Arr
    <3>4. DOMAIN v = {}
      BY <3>3, EmptyFacts
    <3> QED
      BY <2>4, <3>1, <3>4
  <2>5. \A p \in DOMAIN R : IsPlace(p)
    BY <1>2 DEF PlaceInv, Been
  <2>6. at.attempt > 1 => ls = <<>> /\ q.path = <<>>
    BY <1>1, <1>2, AttemptFacts, PathFacts DEF InLoop
  <2>7. ~(at.attempt > 1) => q \notin DOMAIN R
    <3>1. \A p \in DOMAIN R : Left(p, q, at.attempt)
      BY <1>1, <1>2, <1>5 DEF PlaceInv, Been, Answers
    <3> QED
      BY <2>5, <3>1, EarlierApart DEF Left
  <2>8. ReturnedOK(S)
    BY <1>4, <2>3, <2>4, <2>5, <2>6, <2>7, ReturnedKept
  <2>9. HistoryOK(S, ls, q)
    <3>1. CASE at.attempt > 1
      <4>1. DOMAIN ls = {}
        BY <2>6, <3>1, EmptyFacts
      <4> QED
        BY <4>1 DEF HistoryOK
    <3>2. CASE ~(at.attempt > 1)
      BY <1>4, <2>3, <2>7, <3>2, HistoryWith
    <3> QED
      BY <3>1, <3>2
  <2>10. q \in DOMAIN S /\ S[q].value = ret'.value
    BY <2>1, <2>3 DEF IsWith
  <2> QED
    BY <1>3, <2>8, <2>9, <2>10, HistoryHolds
<1>6. CASE Breaks \/ Hangs \/ Asks
  <2>1. S = R /\ ~(pc' = "returned" /\ ret'.ok)
    BY <1>2, <1>6 DEF Breaks, Hangs, Asks
  <2> QED
    BY <1>3, <1>4, <2>1, HistoryHolds
<1> QED
  BY <1>5, <1>6 DEF Quiet

LEMMA HistoryEnters ==
    ASSUME RunInv, RunInv', HistoryInv, Enters
    PROVE  HistoryInv'
<1>1. UNCHANGED <<returned>> /\ pc = "step" /\ pc' = "step" /\ pc \notin Early
  BY DEF Enters, Early
<1>2. PICK q, r, R, ls, ns, n : q = Place /\ r = Place' /\ R = returned /\ ls = loops /\ ns = loops' /\ n = Len(ls)
  OBVIOUS
<1>3. OneDeeper(r, q) /\ IsPlaceOf(q, at.i, ls)
  BY <1>1, <1>2, PlaceEnters, PlaceFacts
<1>4. IsSeq(ls) /\ HistoryOK(R, ls, q) /\ ReturnedOK(R) /\ DOMAIN ls = 1..n
  BY <1>1, <1>2, LoopFacts DEF HistoryInv, RunInv
<1>5. r.i = q.i /\ \A e \in 1..n : r.path[e] = q.path[e]
  BY <1>3, <1>4 DEF OneDeeper, IsPlaceOf
<1>6. PICK l : NewLoop(l) /\ ns = Append(ls, l)
  BY <1>2 DEF Enters
<1>7. l.outputs = <<>> /\ l.final = Nil /\ l.results = <<>>
  BY <1>6 DEF NewLoop
<1>8. HistoryOK(R, ns, r)
  BY <1>2, <1>4, <1>5, <1>6, <1>7, HistoryEnter
<1> QED
  BY <1>1, <1>2, <1>4, <1>8, HistoryHolds

\* In a loop, when its nested step returned.
InnerLoop(q, R, ls, n, u, l) ==
    /\ q = Place /\ R = returned /\ ls = loops /\ n = Len(ls) /\ n \in 1..n /\ n \in Nat /\ IsSeq(ls) /\ ls # <<>>
    /\ l = ls[n] /\ l = Loop /\ LoopOK(l) /\ IsList(l.step.steps) /\ u = Upto(q, n - 1)
    /\ IsPlace(q) /\ Len(q.path) = n /\ q = Inside(u, l.iter, l.nested)
    /\ HistoryOK(R, ls, q) /\ ReturnedOK(R) /\ LoopHistory(R, u, l)
    /\ ret.ok => q \in DOMAIN R /\ R[q].value = ret.value

LEMMA InnerFacts ==
    ASSUME RunInv, HistoryInv, InnerReturned
    PROVE  \E q, R, ls, n, u, l : InnerLoop(q, R, ls, n, u, l)
<1>1. pc = "returned" /\ InLoop /\ pc \notin Early
  BY DEF InnerReturned, Early
<1>2. PICK q, R, ls, n : q = Place /\ R = returned /\ ls = loops /\ n = Len(ls)
  OBVIOUS
<1>3. PICK u, c : c = n - 1 /\ u = Upto(q, c)
  OBVIOUS
<1>4. PICK l : l = ls[n]
  OBVIOUS
<1>5. n \in Nat /\ n > 0 /\ DOMAIN ls = 1..n /\ n \in DOMAIN ls /\ l = Loop /\ LoopOK(l) /\ IsSeq(ls) /\ ls # <<>>
  BY <1>1, <1>2, <1>4, LoopFacts DEF RunInv, InLoop
<1>6. IsList(l.step.steps)
  BY <1>1, <1>2, <1>4, <1>5, LoopSteps
<1>7. IsPlaceOf(q, at.i, ls)
  BY <1>1, <1>2, PlaceFacts
<1>8. IsPlace(q) /\ Len(q.path) = n /\ q.path[n].iter = l.iter /\ q.path[n].nested = l.nested
  BY <1>2, <1>4, <1>5, <1>7 DEF IsPlaceOf
<1>9. q = Inside(u, q.path[n].iter, q.path[n].nested)
  BY <1>3, <1>5, <1>8, PlaceInside
<1>10. HistoryOK(R, ls, q) /\ ReturnedOK(R)
  BY <1>1, <1>2 DEF HistoryInv
<1>11. LoopHistory(R, u, l)
  BY <1>3, <1>4, <1>5, <1>10 DEF HistoryOK
<1>12. ret.ok => q \in DOMAIN R /\ R[q].value = ret.value
  BY <1>1, <1>2 DEF HistoryInv
<1>13. q = Inside(u, l.iter, l.nested)
  BY <1>8, <1>9
<1>14. n \in 1..n /\ u = Upto(q, n - 1)
  BY <1>3, <1>5
<1>15. InnerLoop(q, R, ls, n, u, l)
  BY <1>2, <1>4, <1>5, <1>6, <1>8, <1>10, <1>11, <1>12, <1>13, <1>14 DEF InnerLoop
<1> QED
  BY <1>15

LEMMA HistoryGoesOn ==
    ASSUME RunInv, RunInv', HistoryInv, GoesOn \/ Iterates
    PROVE  HistoryInv'
<1>1. InnerReturned /\ ret.ok /\ UNCHANGED returned /\ pc' = "step"
  BY DEF GoesOn, Iterates
<1>2. PICK q, R, ls, n, u, l : InnerLoop(q, R, ls, n, u, l)
  BY <1>1, InnerFacts
<1>3. PICK r, ns, c : r = Place' /\ ns = loops' /\ c = n - 1
  OBVIOUS
<1>4. /\ q = Place /\ R = returned /\ ls = loops /\ n = Len(ls) /\ n \in 1..n /\ n \in Nat /\ IsSeq(ls)
      /\ l = Loop /\ LoopOK(l) /\ IsList(l.step.steps) /\ u = Upto(q, c)
      /\ IsPlace(q) /\ Len(q.path) = n /\ q = Inside(u, l.iter, l.nested)
      /\ HistoryOK(R, ls, q) /\ ReturnedOK(R) /\ LoopHistory(R, u, l)
      /\ q \in DOMAIN R /\ R[q].value = ret.value
  BY <1>1, <1>2, <1>3 DEF InnerLoop
<1>5. r.i = q.i /\ \A e \in 1..c : r.path[e] = q.path[e]
  <2>1. OneFurther(r, q)
    BY <1>3, <1>4, PlaceFurther
  <2>2. PICK s : s = q.path
    OBVIOUS
  <2>3. DOMAIN s = 1..n
    BY <1>4, <2>2, SeqFacts DEF IsPlace
  <2>4. \A e \in 1..c : e \in DOMAIN s /\ e # n
    BY <1>3, <1>4, <2>3
  <2> QED
    BY <1>4, <2>1, <2>2, <2>4 DEF OneFurther
<1>6. PICK m : /\ ns = [ls EXCEPT ![n] = m]
               /\ \/ GoesOn /\ NestedGoesOn(m, l)
                  \/ Iterates /\ NestedIterates(m, l)
  BY <1>3, <1>4 DEF GoesOn, Iterates
<1>7. LoopHistory(R, u, m)
  <2>1. CASE GoesOn /\ NestedGoesOn(m, l)
    <3>1. PICK v, outs, fin : v = ret.value /\ outs = m.outputs /\ fin = m.final
      OBVIOUS
    <3>2. /\ m.iter = l.iter /\ m.results = l.results /\ m.step = l.step
          /\ outs = Append(l.outputs, v) /\ fin = (IF outputPresent(v) THEN v ELSE l.final)
      BY <2>1, <3>1 DEF NestedGoesOn, Carries
    <3>3. R[q].value = v
      BY <1>4, <3>1
    <3>4. IterationNow(R, u, l, outs, fin)
      BY <1>4, <3>2, <3>3, HistoryReturns
    <3> QED
      BY <1>4, <3>1, <3>2, <3>4 DEF IterationNow, LoopHistory
  <2>2. CASE Iterates /\ NestedIterates(m, l)
    <3>1. PICK e, rs : e = Contract(WithReturn(l)) /\ rs = m.results
      OBVIOUS
    <3>2. m.outputs = <<>> /\ m.final = Nil /\ rs = Append(l.results, e) /\ m.step = l.step
      BY <2>2, <3>1 DEF NestedIterates, Carries
    <3>3. ~(l.nested + 1 < Len(l.step.steps))
      BY <1>4, <2>2 DEF Iterates
    <3>4. \A k \in DOMAIN rs : EntryOK(R, u, k - 1, l.step, rs[k])
      BY <1>4, <3>1, <3>2, <3>3, HistoryIterates
    <3> QED
      BY <3>1, <3>2, <3>4, HistoryEmpty
  <2> QED
    BY <1>6, <2>1, <2>2
<1>8. HistoryOK(R, ns, r)
  BY <1>3, <1>4, <1>5, <1>6, <1>7, HistorySet
<1> QED
  BY <1>1, <1>3, <1>4, <1>8, HistoryHolds

LEMMA HistoryLeaves ==
    ASSUME RunInv, RunInv', PlaceInv, HistoryInv, LoopEnds \/ LoopStops
    PROVE  HistoryInv'
<1>1. InnerReturned /\ Leaves
  BY DEF LoopEnds, LoopStops, Leaves
<1>2. PICK q, R, ls, n, u, l : InnerLoop(q, R, ls, n, u, l)
  BY <1>1, InnerFacts
<1>3. PICK r, ns, c, S : r = Place' /\ ns = loops' /\ c = n - 1 /\ S = returned'
  OBVIOUS
<1>4. /\ q = Place /\ R = returned /\ ls = loops /\ n = Len(ls) /\ n \in 1..n /\ n \in Nat /\ IsSeq(ls) /\ ls # <<>>
      /\ l = Loop /\ LoopOK(l) /\ IsList(l.step.steps) /\ u = Upto(q, c)
      /\ IsPlace(q) /\ Len(q.path) = n /\ q = Inside(u, l.iter, l.nested)
      /\ HistoryOK(R, ls, q) /\ ReturnedOK(R) /\ LoopHistory(R, u, l)
      /\ (ret.ok => q \in DOMAIN R /\ R[q].value = ret.value)
  BY <1>2, <1>3 DEF InnerLoop
<1>5. OneDeeper(q, r) /\ IsPlace(r) /\ r = OuterPlace /\ r \notin DOMAIN R
  BY <1>1, <1>3, <1>4, PlaceLeaves, PlaceAfterLoop DEF Been
<1>6. PICK t : t = r.path
  OBVIOUS
<1>7. IsSeq(t) /\ Len(t) = c /\ DOMAIN t = 1..c /\ c \in Nat
  <2>1. IsSeq(t) /\ Len(t) \in Nat /\ DOMAIN t = 1..Len(t)
    BY <1>5, <1>6, SeqFacts DEF IsPlace
  <2>2. Len(t) = c
    BY <1>3, <1>4, <1>5, <1>6, <2>1 DEF OneDeeper
  <2> QED
    BY <2>1, <2>2
<1>8. r.i = q.i /\ \A e \in 1..c : r.path[e] = q.path[e]
  BY <1>5, <1>6, <1>7 DEF OneDeeper
<1>9. u = r
  <2>1. PICK v : v = Upto(r, c)
    OBVIOUS
  <2>2. c \in 0..c /\ c = Len(r.path)
    BY <1>6, <1>7
  <2>3. IsUpto(v, r, c)
    BY <1>5, <2>1, <2>2, UptoFacts
  <2>4. v = r
    BY <2>2, <2>3 DEF IsUpto
  <2>5. Upto(r, c) = Upto(q, c)
    BY <1>8, UptoSame
  <2> QED
    BY <1>4, <2>1, <2>4, <2>5
<1>10. HistoryOK(R, ns, r)
  <2>1. ns = Front(ls)
    BY <1>1, <1>3, <1>4 DEF Leaves
  <2> QED
    BY <1>3, <1>4, <1>8, <2>1, HistoryFront
<1>11. CASE LoopEnds
  <2>1. PICK e, rs, x : /\ e = Contract(WithReturn(l)) /\ rs = Append(l.results, e)
                        /\ x = [step |-> l.step, value |-> ret'.value]
    OBVIOUS
  <2>2. /\ ret.ok /\ ~(l.nested + 1 < Len(l.step.steps)) /\ S = With(R, r, x)
        /\ ret' = [ok |-> TRUE, value |-> Arr(rs), calls |-> l.calls + ret.calls, why |-> "none"]
    BY <1>3, <1>4, <1>5, <1>11, <2>1 DEF LoopEnds
  <2>3. x.step = l.step /\ x.value = ret'.value /\ x.value[2] = rs
    BY <2>1, <2>2 DEF Arr
  <2>4. IsWith(S, R, r, x)
    BY <2>2, WithFacts
  <2>5. \A k \in DOMAIN rs : EntryOK(R, u, k - 1, l.step, rs[k])
    BY <1>4, <2>1, <2>2, HistoryIterates
  <2>6. ASSUME NEW k \in DOMAIN rs PROVE EntryOK(S, r, k - 1, l.step, rs[k])
    <3>1. PICK i, s, y : i = k - 1 /\ s = l.step /\ y = rs[k]
      OBVIOUS
    <3>2. EntryOK(R, r, i, s, y)
      BY <1>9, <2>5, <2>6, <3>1
    <3>3. EntryOK(S, r, i, s, y)
      BY <1>5, <2>4, <3>2, EntryKept
    <3> QED
      BY <3>1, <3>3
  <2>7. \A p \in DOMAIN R : IsPlace(p)
    BY <1>4 DEF PlaceInv, Been
  <2>8. \A k \in DOMAIN x.value[2] : EntryOK(S, r, k - 1, x.step, x.value[2][k])
    BY <2>3, <2>6
  <2>9. ReturnedOK(S)
    BY <1>4, <1>5, <2>4, <2>7, <2>8, ReturnedKept
  <2>10. HistoryOK(S, ns, r)
    BY <1>5, <1>10, <2>4, HistoryWith
  <2>11. r \in DOMAIN S /\ S[r].value = ret'.value
    BY <2>3, <2>4 DEF IsWith
  <2> QED
    BY <1>3, <2>9, <2>10, <2>11, HistoryHolds
<1>12. CASE LoopStops
  <2>1. S = R /\ ret'.ok = FALSE
    BY <1>3, <1>4, <1>12 DEF LoopStops
  <2> QED
    BY <1>3, <1>4, <1>10, <2>1, HistoryHolds
<1> QED
  BY <1>11, <1>12

LEMMA HistoryNext ==
    ASSUME RunInv, RunInv', PlaceInv, HistoryInv, [Next]_vars
    PROVE  HistoryInv'
<1>1. CASE StepReturns \/ LoadConfig \/ MatchInboundProtocol \/ UNCHANGED vars
  <2>1. PICK R, ls, q : R = returned' /\ ls = loops' /\ q = Place'
    OBVIOUS
  <2>2. R = returned /\ ls = loops /\ ReturnedOK(R)
    BY <1>1, <2>1 DEF StepReturns, LoadConfig, MatchInboundProtocol, vars, historyVars, HistoryInv
  <2>3. CASE UNCHANGED vars
    <3>1. UNCHANGED <<deployment, pc, protocol, state, trace, at, loops, ret, asked, returned>>
      BY <2>3 DEF vars
    <3>2. q = Place
      BY <2>1, <3>1, SameStep
    <3> QED
      BY <2>1, <2>2, <3>1, <3>2 DEF HistoryInv
  <2>4. CASE StepReturns \/ LoadConfig \/ MatchInboundProtocol
    <3>1. ls = <<>> /\ pc' # "returned"
      <4>1. CASE StepReturns
        BY <2>2, <4>1 DEF StepReturns, InLoop, StepSucceeds, StepIsRetried, StepIsRefused
      <4>2. CASE LoadConfig
        BY <2>2, <4>2 DEF LoadConfig, RunInv, Early
      <4>3. CASE MatchInboundProtocol
        BY <2>2, <4>3 DEF MatchInboundProtocol, RunInv, Early
      <4> QED
        BY <2>4, <4>1, <4>2, <4>3
    <3>2. DOMAIN ls = {}
      BY <3>1, EmptyFacts
    <3>3. HistoryOK(R, ls, q)
      BY <3>2 DEF HistoryOK
    <3> QED
      BY <2>1, <2>2, <3>1, <3>3, HistoryHolds
  <2> QED
    BY <1>1, <2>3, <2>4
<1> QED
  BY <1>1, Shapes, HistoryQuiet, HistoryEnters, HistoryGoesOn, HistoryLeaves

LEMMA HistoryInit ==
    ASSUME Init
    PROVE  HistoryInv
<1>1. returned = <<>> /\ pc = "load"
  BY DEF Init
<1>2. DOMAIN returned = {}
  BY <1>1, EmptyFacts
<1> QED
  BY <1>1, <1>2 DEF HistoryInv, ReturnedOK, Early

\* The record names what the iteration's steps returned, and the last that is present as its result.
LEMMA HistoryGives ==
    ASSUME PlaceInv, HistoryInv
    PROVE  IterationsKeepApart
<1>1. SUFFICES ASSUME NEW p \in DOMAIN returned, returned[p].step.type = "for_each",
                      NEW k \in DOMAIN returned[p].value[2]
               PROVE  LET nested == DOMAIN returned[p].step.steps
                          present == {j \in nested : outputPresent(returned[Inside(p, k - 1, j - 1)].value)}
                          e == returned[p].value[2][k][2]
                      IN  /\ e.index = Num(k - 1)
                          /\ \A j \in nested : e.outputs[2][StepKey(j - 1)] = returned[Inside(p, k - 1, j - 1)].value
                          /\ e.result = IF present = {} THEN Nil ELSE returned[Inside(p, k - 1, Max(present) - 1)].value
  BY DEF IterationsKeepApart
<1> PICK nested, e, present : /\ nested = DOMAIN returned[p].step.steps /\ e = returned[p].value[2][k][2]
                              /\ present = {j \in nested : outputPresent(returned[Inside(p, k - 1, j - 1)].value)}
  OBVIOUS
<1> SUFFICES /\ e.index = Num(k - 1)
             /\ \A j \in nested : e.outputs[2][StepKey(j - 1)] = returned[Inside(p, k - 1, j - 1)].value
             /\ e.result = IF present = {} THEN Nil ELSE returned[Inside(p, k - 1, Max(present) - 1)].value
  OBVIOUS
<1>2. PICK entry, s, i : entry = returned[p].value[2][k] /\ s = returned[p].step /\ i = k - 1
  OBVIOUS
<1>3. EntryOK(returned, p, i, s, entry)
  BY <1>1, <1>2 DEF HistoryInv, ReturnedOK
<1>4. PICK outs : DOMAIN outs = nested /\ nested \subseteq Nat /\ Got(returned, p, i, outs) /\ EntryOf(entry, i, outs)
  BY <1>1, <1>2, <1>3 DEF EntryOK
<1>5. \A j \in nested : returned[Inside(p, k - 1, j - 1)].value = outs[j]
  BY <1>2, <1>4 DEF Got
<1>6. /\ e.index = Num(k - 1) /\ LastOf(e.result, outs)
      /\ \A j \in nested : e.outputs[2][StepKey(j - 1)] = outs[j]
  BY <1>1, <1>2, <1>4 DEF EntryOf
<1>7. present = {j \in nested : outputPresent(outs[j])}
  BY <1>1, <1>5
<1>8. CASE present = {}
  <2>1. \A j \in DOMAIN outs : ~outputPresent(outs[j])
    BY <1>4, <1>7, <1>8
  <2>2. e.result = Nil
    BY <1>6, <2>1 DEF LastOf
  <2> QED
    BY <1>5, <1>6, <1>8, <2>2
<1>9. CASE present # {}
  <2>1. PICK j \in nested : /\ e.result = outs[j] /\ outputPresent(outs[j])
                            /\ \A m \in nested : m > j => ~outputPresent(outs[m])
    BY <1>4, <1>6, <1>7, <1>9 DEF LastOf
  <2>2. nested \subseteq Int
    BY <1>4
  <2>3. j \in present /\ present \subseteq Int /\ \A x \in present : x <= j
    BY <1>7, <2>1, <2>2
  <2>4. Max(present) = j
    BY <2>3, MaxIs
  <2>5. e.result = returned[Inside(p, k - 1, j - 1)].value
    BY <1>5, <2>1
  <2> QED
    BY <1>5, <1>6, <1>9, <2>4, <2>5
<1> QED
  BY <1>8, <1>9

\* Loops share one flat map of values, and still nothing of a nested loop or of the iteration
\* before is left in the variables or in the record of an iteration (runStep, for_each).
THEOREM LoopsAreApart == Spec => []LoopsKeepApart
<1>1. Init => RunInv /\ PlaceInv /\ ValuesInv /\ HistoryInv
  BY RunInit, PlaceInit, ValuesInit, HistoryInit
<1>2. RunInv /\ PlaceInv /\ ValuesInv /\ HistoryInv /\ [Next]_vars => (RunInv /\ PlaceInv /\ ValuesInv /\ HistoryInv)'
  BY RunNext, PlaceNext, ValuesNext, HistoryNext
<1>3. RunInv /\ PlaceInv /\ ValuesInv /\ HistoryInv => LoopsKeepApart
  BY ValuesGive, HistoryGives DEF LoopsKeepApart
<1> QED
  BY <1>1, <1>2, <1>3, PTL DEF Spec

-----------------------------------------------------------------------------
(* The outputs of the nested steps conform to their schemas.               *)

RecordsConform(rs, s) ==
    \A k \in DOMAIN rs : \A j \in DOMAIN s.steps : Conforms(s.steps[j], rs[k][2].outputs[2][StepKey(j - 1)])
LoopConforms(l) ==
    /\ \A j \in DOMAIN l.outputs : Conforms(l.step.steps[j], l.outputs[j])
    /\ \A k \in DOMAIN l.results : \A j \in DOMAIN l.step.steps :
          Conforms(l.step.steps[j], l.results[k][2].outputs[2][StepKey(j - 1)])

\* What the loops under way have stored of their nested steps conforms to the schemas.
StoredInv == \A d \in DOMAIN loops : LoopConforms(loops[d])

LEMMA SameConforms ==
    ASSUME UNCHANGED deployment
    PROVE  \A s, v : Conforms(s, v)' = Conforms(s, v)
<1>1. config' = config
  BY DEF config
<1> QED
  BY <1>1 DEF Conforms

LEMMA StoredNow ==
    ASSUME UNCHANGED deployment, NEW ls, ls = loops', \A d \in DOMAIN ls : LoopConforms(ls[d])
    PROVE  StoredInv'
  BY SameConforms DEF StoredInv, LoopConforms, StepKey

\* The output that the nested step returned is the next one.
LEMMA OutputsConform ==
    ASSUME NEW l, LoopOK(l), LoopConforms(l), NEW n, n = l.nested + 1, NEW v, Conforms(l.step.steps[n], v),
           NEW outs, outs = Append(l.outputs, v)
    PROVE  DOMAIN outs = 1..n /\ \A j \in DOMAIN outs : Conforms(l.step.steps[j], outs[j])
<1>1. PICK os, m : os = l.outputs /\ m = l.nested
  OBVIOUS
<1>2. IsSeq(os) /\ Len(os) = m /\ m \in Nat /\ n = m + 1
  BY <1>1 DEF LoopOK
<1>3. Appended(outs, os, v, m) /\ DOMAIN os = 1..m
  BY <1>1, <1>2, AppendFacts, SeqFacts
<1>4. DOMAIN outs = 1..n /\ outs[n] = v /\ \A j \in 1..m : outs[j] = os[j]
  BY <1>2, <1>3 DEF Appended
<1>5. ASSUME NEW j \in DOMAIN outs PROVE Conforms(l.step.steps[j], outs[j])
  <2>1. CASE j = n
    BY <1>4, <2>1
  <2>2. CASE j \in 1..m
    <3>1. outs[j] = os[j] /\ j \in DOMAIN l.outputs
      BY <1>1, <1>3, <1>4, <2>2
    <3> QED
      BY <1>1, <3>1 DEF LoopConforms
  <2>3. j = n \/ j \in 1..m
    BY <1>2, <1>4, <1>5
  <2> QED
    BY <2>1, <2>2, <2>3
<1> QED
  BY <1>4, <1>5

\* The record of the iteration holds them.
LEMMA ResultsConform ==
    ASSUME NEW l, LoopOK(l), LoopConforms(l), IsList(l.step.steps), NEW n, n = l.nested + 1, ~(n < Len(l.step.steps)),
           Conforms(l.step.steps[n], ret.value), NEW e, e = Contract(WithReturn(l)), NEW rs, rs = Append(l.results, e)
    PROVE  RecordsConform(rs, l.step)
<1>1. PICK m, outs, v : m = WithReturn(l) /\ outs = m.outputs /\ v = ret.value
  OBVIOUS
<1>2. outs = Append(l.outputs, v)
  <2>1. DOMAIN l = LoopFields
    BY DEF LoopOK
  <2> QED
    BY <1>1, <2>1, WithReturnFacts
<1>3. DOMAIN outs = 1..n /\ \A j \in DOMAIN outs : Conforms(l.step.steps[j], outs[j])
  <2>1. Conforms(l.step.steps[n], v)
    BY <1>1
  <2> QED
    BY <1>2, <2>1, OutputsConform
<1>4. n \in Nat /\ n <= Len(StepKeys) /\ DOMAIN l.step.steps = 1..n
  <2>1. PICK ss : ss = l.step.steps
    OBVIOUS
  <2>2. IsList(ss) /\ l.nested \in Nat /\ l.nested < Len(ss)
    BY <2>1 DEF LoopOK
  <2>3. Len(ss) \in Nat /\ DOMAIN ss = 1..Len(ss) /\ Len(ss) <= Len(StepKeys)
    BY <2>2, ListFacts
  <2>4. n = Len(ss)
    BY <2>1, <2>2, <2>3
  <2> QED
    BY <2>1, <2>2, <2>3, <2>4
<1>5. \A j \in 1..n : e[2].outputs[2][StepKey(j - 1)] = outs[j]
  BY <1>1, <1>3, <1>4, ContractFacts
<1>6. PICK old, i : old = l.results /\ i = l.iter
  OBVIOUS
<1>7. IsSeq(old) /\ Len(old) = i /\ i \in Nat
  BY <1>6 DEF LoopOK
<1>8. Appended(rs, old, e, i) /\ DOMAIN old = 1..i
  BY <1>6, <1>7, AppendFacts, SeqFacts
<1>9. DOMAIN rs = 1..(i + 1) /\ rs[i + 1] = e /\ \A k \in 1..i : rs[k] = old[k]
  BY <1>8 DEF Appended
<1>10. ASSUME NEW k \in DOMAIN rs, NEW j \in DOMAIN l.step.steps
       PROVE  Conforms(l.step.steps[j], rs[k][2].outputs[2][StepKey(j - 1)])
  <2>1. CASE k = i + 1
    <3>1. rs[k] = e /\ e[2].outputs[2][StepKey(j - 1)] = outs[j] /\ j \in DOMAIN outs
      BY <1>3, <1>4, <1>5, <1>9, <1>10, <2>1
    <3> QED
      BY <1>3, <3>1
  <2>2. CASE k \in 1..i
    <3>1. rs[k] = old[k] /\ k \in DOMAIN l.results
      BY <1>6, <1>8, <1>9, <2>2
    <3> QED
      BY <1>6, <1>10, <3>1 DEF LoopConforms
  <2>3. k = i + 1 \/ k \in 1..i
    BY <1>7, <1>9, <1>10
  <2> QED
    BY <2>1, <2>2, <2>3
<1> QED
  BY <1>10 DEF RecordsConform

LEMMA ConformEmpty ==
    ASSUME NEW l, l.outputs = <<>>,
           \A k \in DOMAIN l.results : \A j \in DOMAIN l.step.steps :
              Conforms(l.step.steps[j], l.results[k][2].outputs[2][StepKey(j - 1)])
    PROVE  LoopConforms(l)
<1>1. PICK os : os = l.outputs
  OBVIOUS
<1>2. DOMAIN os = {}
  BY <1>1, EmptyFacts
<1> QED
  BY <1>1, <1>2 DEF LoopConforms

LEMMA StoredNext ==
    ASSUME RunInv, StoredInv, [Next]_vars
    PROVE  StoredInv'
<1>1. deployment' = deployment
  BY Shapes DEF Quiet, Enters, GoesOn, Iterates, LoopEnds, LoopStops, Leaves, InnerReturned, StepReturns, LoadConfig,
                MatchInboundProtocol, vars
<1>2. PICK ls, ns, n : ls = loops /\ ns = loops' /\ n = Len(ls)
  OBVIOUS
<1>3. IsSeq(ls) /\ n \in Nat /\ DOMAIN ls = 1..n /\ \A d \in DOMAIN ls : LoopConforms(ls[d])
  BY <1>2, SeqFacts DEF RunInv, StoredInv
<1>4. SUFFICES \A d \in DOMAIN ns : LoopConforms(ns[d])
  BY <1>1, <1>2, StoredNow
<1>5. CASE ns = ls
  BY <1>3, <1>5
<1>6. CASE Enters
  <2>1. PICK l : NewLoop(l) /\ ns = Append(ls, l)
    BY <1>2, <1>6 DEF Enters
  <2>2. Appended(ns, ls, l, n)
    BY <1>2, <1>3, <2>1, AppendFacts
  <2>3. LoopConforms(l)
    <3>1. PICK rs : rs = l.results
      OBVIOUS
    <3>2. rs = <<>> /\ l.outputs = <<>>
      BY <2>1, <3>1 DEF NewLoop
    <3>3. DOMAIN rs = {}
      BY <3>2, EmptyFacts
    <3>4. \A k \in DOMAIN l.results : \A j \in DOMAIN l.step.steps :
             Conforms(l.step.steps[j], l.results[k][2].outputs[2][StepKey(j - 1)])
      BY <3>1, <3>3
    <3> QED
      BY <3>2, <3>4, ConformEmpty
  <2>4. ASSUME NEW d \in DOMAIN ns PROVE LoopConforms(ns[d])
    <3>1. d = n + 1 \/ d \in 1..n
      BY <1>3, <2>2, <2>4 DEF Appended
    <3> QED
      BY <1>3, <2>2, <2>3, <3>1 DEF Appended
  <2> QED
    BY <2>4
<1>7. CASE GoesOn \/ Iterates
  <2>1. InLoop /\ pc \notin Early /\ NestedConforms
    BY <1>7 DEF GoesOn, Iterates, InnerReturned, Early
  <2>2. PICK l : l = Loop
    OBVIOUS
  <2>3. n \in 1..n /\ n \in DOMAIN ls /\ l = ls[n] /\ LoopOK(l) /\ Step = l.step.steps[l.nested + 1]
    BY <1>2, <1>3, <2>1, <2>2, LoopFacts
  <2>4. LoopConforms(l) /\ Conforms(l.step.steps[l.nested + 1], ret.value)
    BY <1>3, <2>1, <2>3 DEF NestedConforms
  <2>5. PICK m : /\ ns = [ls EXCEPT ![n] = m]
                 /\ \/ GoesOn /\ NestedGoesOn(m, l)
                    \/ Iterates /\ NestedIterates(m, l)
    BY <1>2, <1>7, <2>2 DEF GoesOn, Iterates
  <2>6. LoopConforms(m)
    <3>1. PICK k, v, outs : k = l.nested + 1 /\ v = ret.value /\ outs = Append(l.outputs, v)
      OBVIOUS
    <3>2. Conforms(l.step.steps[k], v)
      BY <2>4, <3>1
    <3>3. CASE GoesOn /\ NestedGoesOn(m, l)
      <4>1. m.outputs = outs /\ m.step = l.step /\ m.results = l.results
        BY <3>1, <3>3 DEF NestedGoesOn, Carries
      <4>2. \A j \in DOMAIN outs : Conforms(l.step.steps[j], outs[j])
        BY <2>3, <2>4, <3>1, <3>2, OutputsConform
      <4> QED
        BY <2>4, <4>1, <4>2 DEF LoopConforms
    <3>4. CASE Iterates /\ NestedIterates(m, l)
      <4>1. PICK e, rs : e = Contract(WithReturn(l)) /\ rs = Append(l.results, e)
        OBVIOUS
      <4>2. m.outputs = <<>> /\ m.step = l.step /\ m.results = rs
        BY <3>4, <4>1 DEF NestedIterates, Carries
      <4>3. ~(k < Len(l.step.steps)) /\ IsList(l.step.steps)
        BY <1>2, <2>1, <2>2, <2>3, <3>1, <3>4, LoopSteps DEF Iterates
      <4>4. Conforms(l.step.steps[k], ret.value)
        BY <3>1, <3>2
      <4>5. RecordsConform(rs, l.step)
        BY <2>3, <2>4, <3>1, <4>1, <4>3, <4>4, ResultsConform
      <4>6. \A i \in DOMAIN m.results : \A j \in DOMAIN m.step.steps :
               Conforms(m.step.steps[j], m.results[i][2].outputs[2][StepKey(j - 1)])
        BY <4>2, <4>5 DEF RecordsConform
      <4> QED
        BY <4>2, <4>6, ConformEmpty
    <3> QED
      BY <2>5, <3>3, <3>4
  <2>7. Replaced(ns, ls, n, n, m)
    BY <1>2, <1>3, <2>3, <2>5, SetFacts
  <2> QED
    BY <1>3, <2>6, <2>7 DEF Replaced
<1>8. CASE LoopEnds \/ LoopStops
  <2>1. ns = Front(ls) /\ ls # <<>>
    BY <1>2, <1>8 DEF LoopEnds, LoopStops, Leaves, InnerReturned, InLoop
  <2>2. Fronted(ns, ls, n)
    BY <1>2, <1>3, <2>1, FrontFacts
  <2> QED
    BY <1>3, <2>2 DEF Fronted
<1>9. CASE Quiet \/ StepReturns \/ LoadConfig \/ MatchInboundProtocol \/ UNCHANGED vars
  BY <1>2, <1>5, <1>9 DEF Quiet, StepReturns, LoadConfig, MatchInboundProtocol, vars
<1> QED
  BY <1>6, <1>7, <1>8, <1>9, Shapes

-----------------------------------------------------------------------------
(* The trace and the contracts of the steps.                               *)

Succeeded == Text(<<Lit("success")>>)
Failed == Text(<<Lit("error")>>)
OutputOf(outs, i) == outs[StepKey(i)][2].output

\* The contracts outs of the first n steps, and of the one that failed; fin is the last with an output.
ContractsOK(outs, n, status, fin) ==
    /\ n \in 0..Len(StepKeys)
    /\ \A i \in 0..n - 1 : StepKey(i) \in DOMAIN outs /\ outs[StepKey(i)][2].status = Succeeded
    /\ \A k \in DOMAIN outs : (\E i \in 0..n - 1 : k = StepKey(i)) \/ (status = "error" /\ k = StepKey(n))
    /\ status = "error" => /\ n < Len(StepKeys) /\ StepKey(n) \in DOMAIN outs
                           /\ outs[StepKey(n)][2].status = Failed
    /\ \/ fin = -1 /\ \A i \in 0..n - 1 : ~outputPresent(OutputOf(outs, i))
       \/ /\ fin \in 0..n - 1 /\ outputPresent(OutputOf(outs, fin))
          /\ \A i \in 0..n - 1 : i > fin => ~outputPresent(OutputOf(outs, i))

TopConforms == \A i \in 0..at.i - 1 : Conforms(Proto.steps[i + 1], OutputOf(state.outputs, i))

\* The trace and the contracts tell the steps done, and the outputs of these conform.
TraceInv ==
    /\ DOMAIN trace = {"status", "completed", "toolCalls"}
    /\ trace.completed = at.i /\ trace.toolCalls \in Nat /\ ret.why \in Whys
    /\ trace.status \in {"running", "success", "error"} /\ (trace.status = "error" => pc = "ended")
    /\ ContractsOK(state.outputs, at.i, trace.status, state.final)
    /\ TopConforms

LEMMA KeyFacts ==
    /\ \A i \in 0..Len(StepKeys) - 1 : StepKey(i) \in Range(StepKeys)
    /\ \A i, j \in 0..Len(StepKeys) - 1 : StepKey(i) = StepKey(j) => i = j
<1>1. \A i \in 0..Len(StepKeys) - 1 : i + 1 \in DOMAIN StepKeys
  BY KeysFacts
<1>2. ASSUME NEW i \in 0..Len(StepKeys) - 1, NEW j \in 0..Len(StepKeys) - 1, StepKey(i) = StepKey(j) PROVE i = j
  <2>1. i + 1 = j + 1
    BY <1>1, <1>2, KeysFacts DEF StepKey
  <2> QED
    BY <2>1, KeysFacts
<1>3. \A i \in 0..Len(StepKeys) - 1 : StepKey(i) \in Range(StepKeys)
  BY <1>1 DEF StepKey, Range
<1> QED
  BY <1>2, <1>3

LEMMA StatusesDiffer == Succeeded # Failed
  BY DEF Succeeded, Failed, Text, Lit

\* A step succeeds, and its contract is the next one.
LEMMA ContractsGrow ==
    ASSUME NEW outs, NEW n, NEW status, NEW fin, ContractsOK(outs, n, status, fin), status # "error", n < Len(StepKeys),
           NEW key, key = StepKey(n), NEW c, c[2].status = Succeeded, NEW new, new = With(outs, key, c), NEW m, m = n + 1,
           NEW later, later # "error", NEW last, last = IF outputPresent(c[2].output) THEN n ELSE fin
    PROVE  ContractsOK(new, m, later, last)
<1>1. n \in Nat /\ m \in Nat /\ Len(StepKeys) \in Nat /\ m \in 0..Len(StepKeys) /\ n \in 0..Len(StepKeys) - 1 /\ n \in 0..m - 1
  BY KeysFacts DEF ContractsOK
<1>2. IsWith(new, outs, key, c)
  BY WithFacts
<1>3. \A i \in 0..n - 1 : i \in 0..Len(StepKeys) - 1 /\ i # n
  BY <1>1
<1>4. \A i \in 0..n - 1 : StepKey(i) # key
  BY <1>1, <1>3, KeyFacts
<1>5. \A i \in 0..n - 1 : StepKey(i) \in DOMAIN outs /\ outs[StepKey(i)][2].status = Succeeded
  BY DEF ContractsOK
<1>6. \A i \in 0..n - 1 : StepKey(i) \in DOMAIN new /\ new[StepKey(i)] = outs[StepKey(i)]
  BY <1>2, <1>4, <1>5 DEF IsWith
<1>7. StepKey(n) \in DOMAIN new /\ new[StepKey(n)] = c
  BY <1>2 DEF IsWith
<1>8. \A i \in 0..m - 1 : i = n \/ i \in 0..n - 1
  BY <1>1
<1>9. \A i \in 0..m - 1 : StepKey(i) \in DOMAIN new /\ new[StepKey(i)][2].status = Succeeded
  BY <1>5, <1>6, <1>7, <1>8
<1>10. \A k \in DOMAIN new : \E i \in 0..m - 1 : k = StepKey(i)
  <2>1. TAKE k \in DOMAIN new
  <2>2. CASE k = key
    BY <1>1, <2>2
  <2>3. CASE k \in DOMAIN outs
    <3>1. PICK i \in 0..n - 1 : k = StepKey(i)
      BY <2>3 DEF ContractsOK
    <3>2. i \in 0..m - 1
      BY <1>1, <3>1
    <3> QED
      BY <3>1, <3>2
  <2> QED
    BY <1>2, <2>2, <2>3 DEF IsWith
<1>11. \A i \in 0..n - 1 : OutputOf(new, i) = OutputOf(outs, i)
  BY <1>6 DEF OutputOf
<1>12. OutputOf(new, n) = c[2].output
  BY <1>7 DEF OutputOf
<1>13. \/ last = -1 /\ \A i \in 0..m - 1 : ~outputPresent(OutputOf(new, i))
       \/ /\ last \in 0..m - 1 /\ outputPresent(OutputOf(new, last))
          /\ \A i \in 0..m - 1 : i > last => ~outputPresent(OutputOf(new, i))
  <2>1. CASE outputPresent(c[2].output)
    <3>1. last = n /\ \A i \in 0..m - 1 : ~(i > n)
      BY <1>1, <2>1
    <3> QED
      BY <1>1, <1>12, <2>1, <3>1
  <2>2. CASE ~outputPresent(c[2].output) /\ fin = -1 /\ \A i \in 0..n - 1 : ~outputPresent(OutputOf(outs, i))
    BY <1>8, <1>11, <1>12, <2>2
  <2>3. CASE /\ ~outputPresent(c[2].output) /\ fin \in 0..n - 1 /\ outputPresent(OutputOf(outs, fin))
             /\ \A i \in 0..n - 1 : i > fin => ~outputPresent(OutputOf(outs, i))
    <3>1. last = fin /\ fin \in 0..m - 1 /\ outputPresent(OutputOf(new, fin))
      BY <1>1, <1>11, <2>3
    <3>2. \A i \in 0..m - 1 : i > fin => ~outputPresent(OutputOf(new, i))
      BY <1>8, <1>11, <1>12, <2>3
    <3> QED
      BY <3>1, <3>2
  <2> QED
    BY <2>1, <2>2, <2>3 DEF ContractsOK
<1> QED
  BY <1>1, <1>9, <1>10, <1>13 DEF ContractsOK

\* A step fails, and its contract has the error.
LEMMA ContractsEnd ==
    ASSUME NEW outs, NEW n, NEW status, NEW fin, ContractsOK(outs, n, status, fin), status # "error", n < Len(StepKeys),
           NEW key, key = StepKey(n), NEW c, c[2].status = Failed, NEW new, new = With(outs, key, c)
    PROVE  ContractsOK(new, n, "error", fin)
<1>1. n \in Nat /\ Len(StepKeys) \in Nat /\ n \in 0..Len(StepKeys) - 1 /\ n \in 0..Len(StepKeys)
  BY KeysFacts DEF ContractsOK
<1>2. IsWith(new, outs, key, c)
  BY WithFacts
<1>3. \A i \in 0..n - 1 : i \in 0..Len(StepKeys) - 1 /\ i # n
  BY <1>1
<1>4. \A i \in 0..n - 1 : StepKey(i) # key
  BY <1>1, <1>3, KeyFacts
<1>5. \A i \in 0..n - 1 : StepKey(i) \in DOMAIN outs /\ outs[StepKey(i)][2].status = Succeeded
  BY DEF ContractsOK
<1>6. \A i \in 0..n - 1 : StepKey(i) \in DOMAIN new /\ new[StepKey(i)] = outs[StepKey(i)]
  BY <1>2, <1>4, <1>5 DEF IsWith
<1>7. StepKey(n) \in DOMAIN new /\ new[StepKey(n)][2].status = Failed
  BY <1>2 DEF IsWith
<1>8. \A k \in DOMAIN new : (\E i \in 0..n - 1 : k = StepKey(i)) \/ k = StepKey(n)
  BY <1>2 DEF IsWith, ContractsOK
<1>9. \A i \in 0..n - 1 : OutputOf(new, i) = OutputOf(outs, i)
  BY <1>6 DEF OutputOf
<1>10. \/ fin = -1 /\ \A i \in 0..n - 1 : ~outputPresent(OutputOf(new, i))
       \/ /\ fin \in 0..n - 1 /\ outputPresent(OutputOf(new, fin))
          /\ \A i \in 0..n - 1 : i > fin => ~outputPresent(OutputOf(new, i))
  BY <1>9 DEF ContractsOK
<1> QED
  BY <1>1, <1>5, <1>6, <1>7, <1>8, <1>10 DEF ContractsOK

\* What the contracts tell.
\* The steps that have a contract in outs, and what these tell of a run that completed n steps.
Done(outs) == {i \in 0..Len(StepKeys) - 1 : StepKey(i) \in DOMAIN outs}
Told(outs, n, status, fin, done) ==
    /\ {i \in done : outs[StepKey(i)][2].status = Succeeded} = 0..n - 1
    /\ {i \in done : outs[StepKey(i)][2].status # Succeeded} = (IF status = "error" THEN {n} ELSE {})
    /\ fin = Max({-1} \cup {i \in done : outs[StepKey(i)][2].status = Succeeded /\ outputPresent(outs[StepKey(i)][2].output)})
    /\ DOMAIN outs \subseteq Range(StepKeys) /\ fin \in -1..Len(StepKeys)

LEMMA ContractsTell ==
    ASSUME NEW outs, NEW n, NEW status, NEW fin, ContractsOK(outs, n, status, fin), NEW done, done = Done(outs)
    PROVE  Told(outs, n, status, fin, done)
<1> USE DEF Done, Told
<1>1. n \in Nat /\ Len(StepKeys) \in Nat /\ n <= Len(StepKeys)
  BY KeysFacts DEF ContractsOK
<1>2. \A i \in 0..n - 1 : i \in 0..Len(StepKeys) - 1
  BY <1>1
<1>3. \A i \in 0..n - 1 : i \in done /\ outs[StepKey(i)][2].status = Succeeded
  BY <1>2 DEF ContractsOK
<1>4. status = "error" => n \in 0..Len(StepKeys) - 1 /\ n \in done /\ outs[StepKey(n)][2].status = Failed
  BY <1>1 DEF ContractsOK
<1>5. ASSUME NEW i \in done PROVE i \in 0..n - 1 \/ (status = "error" /\ i = n)
  <2>1. i \in 0..Len(StepKeys) - 1 /\ StepKey(i) \in DOMAIN outs
    BY <1>5
  <2>2. CASE \E j \in 0..n - 1 : StepKey(i) = StepKey(j)
    <3>1. PICK j \in 0..n - 1 : StepKey(i) = StepKey(j)
      BY <2>2
    <3>2. i = j
      BY <1>2, <2>1, <3>1, KeyFacts
    <3> QED
      BY <3>1, <3>2
  <2>3. CASE status = "error" /\ StepKey(i) = StepKey(n)
    <3>1. i = n
      BY <1>4, <2>1, <2>3, KeyFacts
    <3> QED
      BY <2>3, <3>1
  <2> QED
    BY <2>1, <2>2, <2>3 DEF ContractsOK
<1>6. status # "error" \/ n \notin 0..n - 1
  BY <1>1
<1>7. {i \in done : outs[StepKey(i)][2].status = Succeeded} = 0..n - 1
  BY <1>3, <1>4, <1>5, StatusesDiffer
<1>8. {i \in done : outs[StepKey(i)][2].status # Succeeded} = (IF status = "error" THEN {n} ELSE {})
  BY <1>3, <1>4, <1>5, StatusesDiffer
<1>9. PICK S : S = {-1} \cup {i \in done : outs[StepKey(i)][2].status = Succeeded /\ outputPresent(outs[StepKey(i)][2].output)}
  OBVIOUS
<1>10. \A i : i \in S <=> i = -1 \/ (i \in 0..n - 1 /\ outputPresent(OutputOf(outs, i)))
  BY <1>3, <1>7, <1>9 DEF OutputOf
<1>11. S \subseteq Int /\ fin \in S /\ \A x \in S : x <= fin
  <2>1. S \subseteq Int
    BY <1>1, <1>10
  <2>2. CASE fin = -1 /\ \A i \in 0..n - 1 : ~outputPresent(OutputOf(outs, i))
    BY <1>10, <2>1, <2>2
  <2>3. CASE /\ fin \in 0..n - 1 /\ outputPresent(OutputOf(outs, fin))
             /\ \A i \in 0..n - 1 : i > fin => ~outputPresent(OutputOf(outs, i))
    <3>1. fin \in S
      BY <1>10, <2>3
    <3>2. ASSUME NEW x \in S PROVE x <= fin
      <4>1. x \in Int /\ fin \in Int /\ fin >= 0 /\ (x = -1 \/ (x \in 0..n - 1 /\ outputPresent(OutputOf(outs, x))))
        BY <1>1, <1>10, <2>1, <2>3, <3>2
      <4> QED
        BY <2>3, <4>1
    <3> QED
      BY <2>1, <3>1, <3>2
  <2> QED
    BY <2>2, <2>3 DEF ContractsOK
<1>12. fin = Max(S)
  BY <1>11, MaxIs
<1>13. DOMAIN outs \subseteq Range(StepKeys)
  BY <1>2, <1>4, KeyFacts DEF ContractsOK
<1>14. fin \in -1..Len(StepKeys)
  BY <1>1 DEF ContractsOK
<1> QED
  BY <1>7, <1>8, <1>9, <1>12, <1>13, <1>14

LEMMA TraceNow ==
    ASSUME DOMAIN trace' = {"status", "completed", "toolCalls"}, trace'.completed = at'.i, trace'.toolCalls \in Nat,
           ret'.why \in Whys, NEW status, status = trace'.status, status \in {"running", "success", "error"},
           status = "error" => pc' = "ended",
           NEW outs, outs = state'.outputs, NEW n, n = at'.i, NEW fin, fin = state'.final, ContractsOK(outs, n, status, fin),
           UNCHANGED deployment, NEW p, p = Proto', \A i \in 0..n - 1 : Conforms(p.steps[i + 1], OutputOf(outs, i))
    PROVE  TraceInv'
<1>1. ContractsOK(state'.outputs, at'.i, trace'.status, state'.final)
  OBVIOUS
<1>2. ContractsOK(state.outputs, at.i, trace.status, state.final)'
  BY <1>1 DEF ContractsOK, OutputOf, StepKey, Succeeded, Failed, outputPresent, Text, Lit, Nil
<1>3. \A i \in 0..at'.i - 1 : Conforms(Proto'.steps[i + 1], state'.outputs[StepKey(i)][2].output)
  BY DEF OutputOf
<1>4. TopConforms'
  BY <1>3, SameConforms DEF TopConforms, OutputOf, StepKey
<1> QED
  BY <1>2, <1>4 DEF TraceInv, Whys

\* A step that leaves the trace and the contracts as they are.
LEMMA TraceKept ==
    ASSUME TraceInv, UNCHANGED <<deployment, protocol, trace, at>>, state'.outputs = state.outputs, state'.final = state.final,
           ret'.why \in Whys, trace.status = "error" => pc' = "ended"
    PROVE  TraceInv'
<1>1. PICK status, outs, n, fin, p : status = trace'.status /\ outs = state'.outputs /\ n = at'.i /\ fin = state'.final /\ p = Proto'
  OBVIOUS
<1>2. p = Proto
  BY <1>1, SameProto
<1>3. /\ ContractsOK(outs, n, status, fin) /\ status \in {"running", "success", "error"} /\ (status = "error" => pc' = "ended")
      /\ DOMAIN trace' = {"status", "completed", "toolCalls"} /\ trace'.completed = at'.i /\ trace'.toolCalls \in Nat
  BY <1>1 DEF TraceInv
<1>4. \A i \in 0..n - 1 : Conforms(p.steps[i + 1], OutputOf(outs, i))
  BY <1>1, <1>2 DEF TraceInv, TopConforms
<1> QED
  BY <1>1, <1>3, <1>4, TraceNow

LEMMA TraceStep ==
    ASSUME RunInv, TraceInv, StepReturns
    PROVE  TraceInv'
<1>1. /\ UNCHANGED <<deployment, protocol, ret>> /\ pc = "returned" /\ ~InLoop
      /\ (StepSucceeds /\ Conforms(Step, ret.value)) \/ StepIsRetried \/ StepIsRefused
  BY DEF StepReturns
<1>2. pc \notin Early /\ pc \in Running /\ DOMAIN state = {"input", "values", "outputs", "final"} /\ DOMAIN at = {"i", "attempt"}
      /\ at.i \in Nat /\ at.i < Len(Proto.steps) /\ ret.calls \in Nat
  BY <1>1 DEF Early, Running, RunInv
<1>3. IsList(Proto.steps) /\ Step = Proto.steps[at.i + 1]
  BY <1>1, <1>2, ProtoFacts, LoopFacts DEF TopStep
<1>4. at.i < Len(StepKeys)
  BY <1>2, <1>3, ListFacts, KeysFacts
<1>5. trace.status # "error" /\ trace.toolCalls \in Nat /\ trace.completed = at.i /\ ret'.why \in Whys
  BY <1>1 DEF TraceInv
<1>6. PICK status, outs, n, fin, key : status = trace.status /\ outs = state.outputs /\ n = at.i /\ fin = state.final /\ key = StepKey(n)
  OBVIOUS
<1>7. ContractsOK(outs, n, status, fin) /\ \A i \in 0..n - 1 : Conforms(Proto.steps[i + 1], OutputOf(outs, i))
  BY <1>6 DEF TraceInv, TopConforms
<1>8. PICK p : p = Proto'
  OBVIOUS
<1>9. p = Proto
  BY <1>1, <1>8, SameProto
<1>10. CASE StepSucceeds /\ Conforms(Step, ret.value)
  <2>1. PICK c, new, m, later, last, calls :
           /\ c = StepContract("success", ret.value, ret.calls) /\ new = state'.outputs /\ m = at'.i
           /\ later = trace'.status /\ last = state'.final /\ calls = trace'.toolCalls
    OBVIOUS
  <2>2. c[2].status = Succeeded /\ c[2].output = ret.value
    BY <2>1 DEF StepContract, Obj, Succeeded
  <2>3. PICK vals : state' = [state EXCEPT !.outputs = With(@, key, c), !.values = vals, !.final = FinalAfter(n, ret.value)]
    BY <1>6, <1>10, <2>1 DEF StepSucceeds
  <2>4. new = With(outs, key, c) /\ last = (IF outputPresent(c[2].output) THEN n ELSE fin)
    BY <1>2, <1>6, <2>1, <2>2, <2>3 DEF FinalAfter
  <2>5. /\ trace' = [status |-> IF n + 1 = Len(Proto.steps) THEN "success" ELSE "running",
                     completed |-> n + 1, toolCalls |-> trace.toolCalls + ret.calls]
        /\ at' = [i |-> n + 1, attempt |-> 1]
    BY <1>6, <1>10 DEF StepSucceeds
  <2>6. /\ DOMAIN trace' = {"status", "completed", "toolCalls"} /\ trace'.completed = m /\ m = n + 1
        /\ calls = trace.toolCalls + ret.calls /\ later \in {"running", "success"}
    BY <2>1, <2>5
  <2>7. calls \in Nat /\ later # "error" /\ later \in {"running", "success", "error"}
    BY <1>2, <1>5, <2>6
  <2>8. ContractsOK(new, m, later, last)
    <3>1. status # "error" /\ n < Len(StepKeys) /\ key = StepKey(n) /\ m = n + 1
      BY <1>4, <1>5, <1>6, <2>6
    <3> QED
      BY <1>7, <2>2, <2>4, <2>7, <3>1, ContractsGrow
  <2>9. ASSUME NEW i \in 0..m - 1 PROVE Conforms(p.steps[i + 1], OutputOf(new, i))
    <3>1. IsWith(new, outs, key, c)
      BY <2>4, WithFacts
    <3>2. CASE i = n
      <4>1. OutputOf(new, i) = ret.value
        BY <1>6, <2>2, <3>1, <3>2 DEF OutputOf, IsWith
      <4> QED
        BY <1>3, <1>6, <1>9, <1>10, <3>2, <4>1
    <3>3. CASE i \in 0..n - 1
      <4>1. i \in 0..Len(StepKeys) - 1 /\ n \in 0..Len(StepKeys) - 1 /\ i # n
        BY <1>2, <1>4, <1>6, <3>3, KeysFacts
      <4>2. StepKey(i) # key
        BY <1>6, <4>1, KeyFacts
      <4>3. StepKey(i) \in DOMAIN outs
        BY <1>7, <3>3 DEF ContractsOK
      <4>4. OutputOf(new, i) = OutputOf(outs, i)
        BY <3>1, <4>2, <4>3 DEF OutputOf, IsWith
      <4> QED
        BY <1>7, <1>9, <3>3, <4>4
    <3>4. i = n \/ i \in 0..n - 1
      BY <1>2, <1>6, <2>6, <2>9
    <3> QED
      BY <3>2, <3>3, <3>4
  <2> QED
    BY <1>1, <1>5, <1>8, <2>1, <2>6, <2>7, <2>8, <2>9, TraceNow
<1>11. CASE StepIsRetried
  <2>1. /\ at' = [at EXCEPT !.attempt = NextAttempt(@)] /\ UNCHANGED <<state, trace>>
    BY <1>11 DEF StepIsRetried
  <2>2. at'.i = n
    BY <1>2, <1>6, <2>1
  <2>3. PICK new, m, later, last : new = state'.outputs /\ m = at'.i /\ later = trace'.status /\ last = state'.final
    OBVIOUS
  <2>4. new = outs /\ m = n /\ later = status /\ last = fin
    BY <1>6, <2>1, <2>2, <2>3
  <2>5. /\ DOMAIN trace' = {"status", "completed", "toolCalls"} /\ trace'.completed = at'.i /\ trace'.toolCalls \in Nat
        /\ later \in {"running", "success", "error"} /\ later # "error"
    BY <1>5, <1>6, <2>1, <2>2, <2>4 DEF TraceInv
  <2>6. ContractsOK(new, m, later, last) /\ \A i \in 0..m - 1 : Conforms(p.steps[i + 1], OutputOf(new, i))
    BY <1>7, <1>9, <2>4
  <2> QED
    BY <1>1, <1>5, <1>8, <2>3, <2>5, <2>6, TraceNow
<1>12. CASE StepIsRefused
  <2>1. PICK c, new, m, later, last :
           /\ c = StepContract("error", Nil, 0) /\ new = state'.outputs /\ m = at'.i
           /\ later = trace'.status /\ last = state'.final
    OBVIOUS
  <2>2. c[2].status = Failed
    BY <2>1 DEF StepContract, Obj, Failed
  <2>3. state' = [state EXCEPT !.outputs = With(@, key, c)] /\ at' = at /\ pc' = "ended"
    BY <1>6, <1>12, <2>1 DEF StepIsRefused
  <2>4. new = With(outs, key, c) /\ last = fin /\ m = n
    BY <1>2, <1>6, <2>1, <2>3
  <2>5. trace' = [status |-> "error", completed |-> n, toolCalls |-> trace.toolCalls]
    BY <1>6, <1>12 DEF StepIsRefused, CallsOnFailure
  <2>6. /\ DOMAIN trace' = {"status", "completed", "toolCalls"} /\ trace'.completed = at'.i /\ trace'.toolCalls \in Nat
        /\ later = "error"
    BY <1>5, <1>6, <2>1, <2>3, <2>5
  <2>7. ContractsOK(new, m, later, last)
    <3>1. ContractsOK(new, n, "error", fin)
      BY <1>4, <1>5, <1>6, <1>7, <2>2, <2>4, ContractsEnd
    <3> QED
      BY <2>4, <2>6, <3>1
  <2>8. ASSUME NEW i \in 0..m - 1 PROVE Conforms(p.steps[i + 1], OutputOf(new, i))
    <3>1. IsWith(new, outs, key, c) /\ i \in 0..n - 1
      BY <2>4, <2>8, WithFacts
    <3>2. i \in 0..Len(StepKeys) - 1 /\ n \in 0..Len(StepKeys) - 1 /\ i # n
      BY <1>2, <1>4, <1>6, <3>1, KeysFacts
    <3>3. StepKey(i) # key
      BY <1>6, <3>2, KeyFacts
    <3>4. StepKey(i) \in DOMAIN outs
      BY <1>7, <3>1 DEF ContractsOK
    <3>5. OutputOf(new, i) = OutputOf(outs, i)
      BY <3>1, <3>3, <3>4 DEF OutputOf, IsWith
    <3> QED
      BY <1>7, <1>9, <3>1, <3>5
  <2> QED
    BY <1>1, <1>5, <1>8, <2>1, <2>3, <2>6, <2>7, <2>8, TraceNow
<1> QED
  BY <1>1, <1>10, <1>11, <1>12

LEMMA TraceBegins ==
    ASSUME RunInv, TraceInv, MatchInboundProtocol
    PROVE  TraceInv'
<1>1. pc = "inbound" /\ UNCHANGED <<deployment, at, ret>> /\ at.i = 0
  BY DEF MatchInboundProtocol, RunInv, Early
<1>2. PICK status, outs, n, fin, p : status = trace'.status /\ outs = state'.outputs /\ n = at'.i /\ fin = state'.final /\ p = Proto'
  OBVIOUS
<1>3. /\ DOMAIN trace = {"status", "completed", "toolCalls"} /\ trace.completed = at.i /\ trace.toolCalls \in Nat
      /\ ret.why \in Whys /\ trace.status \in {"running", "success"}
  BY <1>1 DEF TraceInv
<1>4. PICK st : st \in {"success", trace.status} /\ trace' = [trace EXCEPT !.status = st]
  BY DEF MatchInboundProtocol
<1>5. /\ DOMAIN trace' = {"status", "completed", "toolCalls"} /\ trace'.completed = at'.i /\ trace'.toolCalls \in Nat
      /\ ret'.why \in Whys /\ status = st
  BY <1>1, <1>2, <1>3, <1>4
<1>6. status \in {"running", "success", "error"} /\ status # "error"
  BY <1>3, <1>4, <1>5
<1>7. n = 0 /\ 0..n - 1 = {}
  BY <1>1, <1>2
<1>8. (outs = state.outputs /\ fin = state.final) \/ (outs = <<>> /\ fin = -1)
  <2>1. CASE UNCHANGED state
    BY <1>2, <2>1
  <2>2. CASE \E a, b : state' = [NoRun EXCEPT !.input = a, !.values = b]
    BY <1>2, <2>2 DEF NoRun
  <2> QED
    BY <2>1, <2>2 DEF MatchInboundProtocol
<1>9. DOMAIN outs = {} /\ fin = -1
  <2>1. CASE outs = state.outputs /\ fin = state.final
    <3>1. ContractsOK(outs, 0, trace.status, fin) /\ trace.status # "error"
      BY <1>1, <1>3, <2>1 DEF TraceInv
    <3>2. ~\E i : i \in 0..0 - 1
      OBVIOUS
    <3>3. \A k \in DOMAIN outs : \E i \in 0..0 - 1 : k = StepKey(i)
      BY <3>1 DEF ContractsOK
    <3>4. fin = -1 \/ fin \in 0..0 - 1
      BY <3>1 DEF ContractsOK
    <3> QED
      BY <3>2, <3>3, <3>4
  <2>2. CASE outs = <<>> /\ fin = -1
    BY <2>2, EmptyFacts
  <2> QED
    BY <1>8, <2>1, <2>2
<1>10. ContractsOK(outs, n, status, fin)
  BY <1>6, <1>7, <1>9, KeysFacts DEF ContractsOK
<1>11. \A i \in 0..n - 1 : Conforms(p.steps[i + 1], OutputOf(outs, i))
  BY <1>7
<1> QED
  BY <1>1, <1>2, <1>5, <1>6, <1>10, <1>11, TraceNow

LEMMA TraceNext ==
    ASSUME RunInv, TraceInv, [Next]_vars
    PROVE  TraceInv'
<1>1. CASE StepReturns
  BY <1>1, TraceStep
<1>2. CASE MatchInboundProtocol
  BY <1>2, TraceBegins
<1>3. CASE LoadConfig
  BY <1>3, TraceKept DEF LoadConfig, TraceInv
<1>4. CASE UNCHANGED vars
  BY <1>4, TraceKept DEF vars, TraceInv
<1>5. CASE Quiet \/ Enters \/ GoesOn \/ Iterates \/ LoopEnds \/ LoopStops
  <2>1. UNCHANGED <<deployment, protocol, trace, at>> /\ state'.outputs = state.outputs /\ state'.final = state.final /\ pc # "ended"
    BY <1>5 DEF Quiet, Enters, GoesOn, Iterates, LoopEnds, LoopStops, Leaves, InnerReturned, OnlyValues
  <2>2. ret'.why \in Whys
    <3>1. ret.why \in Whys
      BY DEF TraceInv
    <3>2. CASE Quiet /\ Answers
      <4>1. PICK v, c : ret' = [ok |-> TRUE, value |-> v, calls |-> c, why |-> "none"]
        BY <3>2 DEF Answers
      <4> QED
        BY <4>1 DEF Whys
    <3>3. CASE LoopEnds
      BY <3>3 DEF LoopEnds, Whys
    <3>4. CASE (Quiet /\ (Breaks \/ Hangs \/ Asks)) \/ Enters \/ GoesOn \/ Iterates \/ LoopStops
      BY <3>1, <3>4 DEF Breaks, Hangs, Asks, Enters, GoesOn, Iterates, LoopStops, Whys
    <3> QED
      BY <1>5, <3>2, <3>3, <3>4 DEF Quiet
  <2>3. trace.status # "error"
    BY <2>1 DEF TraceInv
  <2> QED
    BY <2>1, <2>2, <2>3, TraceKept
<1> QED
  BY <1>1, <1>2, <1>3, <1>4, <1>5, Shapes

LEMMA TraceInit ==
    ASSUME Init
    PROVE  TraceInv
<1>1. PICK outs, n : outs = state.outputs /\ n = at.i
  OBVIOUS
<1>2. outs = <<>> /\ n = 0 /\ state.final = -1 /\ 0..n - 1 = {}
  BY <1>1 DEF Init, NoRun
<1>3. DOMAIN outs = {}
  BY <1>2, EmptyFacts
<1>4. ContractsOK(outs, n, "running", -1)
  BY <1>2, <1>3, KeysFacts DEF ContractsOK
<1>5. trace = [status |-> "running", completed |-> 0, toolCalls |-> 0] /\ ret.why = "none"
  BY DEF Init, NoReturn
<1>6. TopConforms
  BY <1>1, <1>2 DEF TopConforms
<1> QED
  BY <1>1, <1>2, <1>4, <1>5, <1>6 DEF TraceInv, Whys

-----------------------------------------------------------------------------
(* The tool calls a run reports.                                           *)

\* The calls of T at q or in the loop there, and those of them that were left when the run is at r.
CallsIn(T, q) == {p \in T : Within(p, q)}
CallsBefore(T, q, r) == {p \in T : Within(p, q) /\ Earlier(p, r)}

\* Each loop around q has counted the calls of its nested steps before the present one.
LoopCounts(T, q, ls) ==
    \A d \in DOMAIN ls : ls[d].calls = Cardinality(CallsBefore(T, Upto(q, d - 1), Upto(q, d)))

\* The contracts of the first n steps, and the trace with total, have counted the calls of these steps.
StepCounts(T, outs, n, total) ==
    /\ \A i \in 0..n - 1 : outs[StepKey(i)][2].toolCalls = Num(Cardinality({p \in T : p.i = i}))
    /\ total = Cardinality({p \in T : p.i < n})

\* Calls of tools are counted where they are made, in the loops around and in the contracts.
CountInv ==
    /\ IsFiniteSet(DOMAIN asked)
    /\ pc \notin Early => LoopCounts(ToolPlaces, Place, loops)
    /\ StepCounts(ToolPlaces, state.outputs, at.i, trace.toolCalls)
    /\ pc = "model" => CallsIn(ToolPlaces, Place) = {}
    /\ pc = "tool" => CallsIn(ToolPlaces, Place) = {Place}
    /\ pc = "returned" /\ ret.ok => ret.calls = Cardinality(CallsIn(ToolPlaces, Place))

LEMMA CountTwo ==
    ASSUME NEW T, IsFiniteSet(T), NEW A, A \subseteq T, NEW B, B \subseteq T, \A p \in A : p \notin B, NEW C, C = A \cup B
    PROVE  Cardinality(C) = Cardinality(A) + Cardinality(B)
<1>1. IsFiniteSet(A) /\ IsFiniteSet(B)
  <2>1. A \in SUBSET T /\ B \in SUBSET T
    OBVIOUS
  <2> QED
    BY <2>1, FS_Subset
<1>2. A \cap B = {}
  OBVIOUS
<1>3. Cardinality(A) \in Nat /\ Cardinality(B) \in Nat
  BY <1>1, FS_CardinalityType
<1>4. Cardinality(C) = Cardinality(A) + Cardinality(B) - Cardinality(A \cap B)
  BY <1>1, FS_Union
<1>5. Cardinality(A \cap B) = 0
  BY <1>2, FS_EmptySet, Zenon
<1> QED
  BY <1>3, <1>4, <1>5

\* The calls of a loop are those before the present nested step and those of the step.
LEMMA CountLoop ==
    ASSUME NEW T, IsFiniteSet(T), NEW q, IsPlace(q), \A p \in T : IsPlace(p) /\ (Earlier(p, q) \/ Within(p, q)),
           NEW u, IsPlace(u), OneDeeper(q, u)
    PROVE  Cardinality(CallsIn(T, u)) = Cardinality(CallsBefore(T, u, q)) + Cardinality(CallsIn(T, q))
<1>1. PICK A, B, C : A = CallsBefore(T, u, q) /\ B = CallsIn(T, q) /\ C = CallsIn(T, u)
  OBVIOUS
<1>2. A \subseteq T /\ B \subseteq T
  BY <1>1 DEF CallsBefore, CallsIn
<1>3. \A p \in A : p \notin B
  BY <1>1, EarlierApart DEF CallsBefore, CallsIn
<1>4. \A p \in T : Within(p, q) => Within(p, u)
  BY WithinDeeper
<1>5. C = A \cup B
  BY <1>1, <1>4 DEF CallsBefore, CallsIn
<1>6. Cardinality(C) = Cardinality(A) + Cardinality(B)
  BY <1>2, <1>3, <1>5, CountTwo
<1> QED
  BY <1>1, <1>6

\* One step of the loop further, all calls in the loop are before.
LEMMA CountFurther ==
    ASSUME NEW T, NEW q, IsPlace(q), \A p \in T : IsPlace(p) /\ (Earlier(p, q) \/ Within(p, q)),
           NEW r, IsPlace(r), OneFurther(r, q), NEW u
    PROVE  CallsBefore(T, u, r) = CallsIn(T, u)
<1>1. \A p \in T : Earlier(p, r)
  BY EarlierFurther
<1> QED
  BY <1>1 DEF CallsBefore, CallsIn

\* A call at the present place is none that a loop around it has counted.
LEMMA CountHere ==
    ASSUME NEW T, NEW q, IsPlace(q), NEW S, S = T \cup {q}, NEW r, IsPlace(r), Within(q, r), NEW u
    PROVE  CallsBefore(S, u, r) = CallsBefore(T, u, r)
<1>1. ~Earlier(q, r)
  BY EarlierApart
<1> QED
  BY <1>1 DEF CallsBefore

LEMMA ToolFacts ==
    ASSUME PlaceInv, IsFiniteSet(DOMAIN asked), NEW T, T = ToolPlaces
    PROVE  IsFiniteSet(T) /\ \A p \in T : p \in Been /\ IsPlace(p)
<1>1. T \in SUBSET DOMAIN asked
  BY DEF ToolPlaces
<1>2. IsFiniteSet(T)
  BY <1>1, FS_Subset
<1> QED
  BY <1>1, <1>2 DEF PlaceInv, Been

\* Before a step runs there is no call at its place: only steps without tools are tried again.
LEMMA NoneYet ==
    ASSUME RunInv, PlaceInv, CallsInv, pc = "step"
    PROVE  CallsIn(ToolPlaces, Place) = {}
<1>1. pc \in Running /\ pc \notin Early
  BY DEF Running, Early
<1>2. PICK q : q = Place
  OBVIOUS
<1>3. IsPlace(q) /\ q.i = at.i
  BY <1>1, <1>2, PlaceKnown
<1>4. SUFFICES ASSUME NEW p \in ToolPlaces, Within(p, q) PROVE FALSE
  BY <1>2 DEF CallsIn
<1>5. p \in DOMAIN asked /\ p \in Been /\ IsPlace(p) /\ asked[p].step.type \in {"tool", "send_message"}
  BY <1>4 DEF ToolPlaces, Been, PlaceInv
<1>6. ~Earlier(p, q)
  BY <1>3, <1>4, <1>5, EarlierApart
<1>7. p = q /\ at.attempt > 1
  BY <1>2, <1>5, <1>6 DEF PlaceInv, Left
<1>8. ~InLoop /\ isSchemaRetryStep(Step.type)
  BY <1>1, <1>7, AttemptFacts
<1>9. p.path = <<>> /\ Step = Proto.steps[at.i + 1]
  BY <1>1, <1>2, <1>7, <1>8, PathFacts, LoopFacts DEF TopStep
<1>10. asked[p].step = Step
  BY <1>3, <1>5, <1>7, <1>9 DEF CallsInv
<1> QED
  BY <1>5, <1>8, <1>10 DEF isSchemaRetryStep

\* CountInv in the next state, for the values there.
LEMMA CountHolds ==
    ASSUME NEW T, T = ToolPlaces', NEW q, q = Place', NEW ls, ls = loops', NEW outs, outs = state'.outputs,
           NEW n, n = at'.i, NEW total, total = trace'.toolCalls,
           IsFiniteSet(DOMAIN asked'), pc' \notin Early => LoopCounts(T, q, ls), StepCounts(T, outs, n, total),
           pc' = "model" => CallsIn(T, q) = {}, pc' = "tool" => CallsIn(T, q) = {q},
           pc' = "returned" /\ ret'.ok => ret'.calls = Cardinality(CallsIn(T, q))
    PROVE  CountInv'
<1>1. pc' \notin Early => LoopCounts(ToolPlaces, Place, loops)'
  BY DEF LoopCounts, CallsBefore, Within, Earlier, Splits, Lower, Upto
<1>2. StepCounts(ToolPlaces, state.outputs, at.i, trace.toolCalls)'
  BY DEF StepCounts, StepKey, Num
<1>3. /\ pc' = "model" => (CallsIn(ToolPlaces, Place) = {})'
      /\ pc' = "tool" => (CallsIn(ToolPlaces, Place) = {Place})'
      /\ pc' = "returned" /\ ret'.ok => (ret.calls = Cardinality(CallsIn(ToolPlaces, Place)))'
  BY DEF CallsIn, Within
<1> QED
  BY <1>1, <1>2, <1>3 DEF CountInv, Early

\* A step that changes neither the calls nor the loops.
LEMMA CountQuiet ==
    ASSUME RunInv, PlaceInv, CallsInv, CountInv, Quiet
    PROVE  CountInv'
<1>1. UNCHANGED <<deployment, protocol, trace, at, loops>> /\ pc \in {"step", "tool", "model", "returned"} /\ pc \notin Early
      /\ (pc = "returned" => pc' = "hung")
      /\ state'.outputs = state.outputs
  BY DEF Quiet, Hangs, Early, OnlyValues
<1>2. PICK T, q, ls, outs, n, total :
         /\ T = ToolPlaces /\ q = Place /\ ls = loops /\ outs = state.outputs /\ n = at.i /\ total = trace.toolCalls
  OBVIOUS
<1>3. q = Place' /\ ls = loops' /\ outs = state'.outputs /\ n = at'.i /\ total = trace'.toolCalls
  BY <1>1, <1>2, SameStep
<1>4. LoopCounts(T, q, ls) /\ StepCounts(T, outs, n, total) /\ IsFiniteSet(DOMAIN asked)
  BY <1>1, <1>2 DEF CountInv
<1>5. pc \in {"step", "model"} => CallsIn(T, q) = {}
  BY <1>2, NoneYet DEF CountInv
<1>6. CASE Answers \/ Breaks \/ Hangs
  <2>1. asked' = asked /\ pc' \in {"returned", "hung"}
    BY <1>6 DEF Answers, Breaks, Hangs
  <2>2. T = ToolPlaces'
    BY <1>2, <2>1 DEF ToolPlaces
  <2>3. ASSUME pc' = "returned", ret'.ok PROVE ret'.calls = Cardinality(CallsIn(T, q))
    <3>1. Answers
      BY <1>6, <2>3 DEF Breaks, Hangs
    <3>2. PICK v : ret' = [ok |-> TRUE, value |-> v, calls |-> IF pc = "tool" THEN 1 ELSE 0, why |-> "none"]
      BY <3>1 DEF Answers
    <3>3. CASE pc = "tool"
      <4>1. ret'.calls = 1 /\ CallsIn(T, q) = {q}
        BY <1>2, <3>2, <3>3 DEF CountInv
      <4> QED
        BY <4>1, FS_Singleton
    <3>4. CASE pc # "tool"
      <4>1. ret'.calls = 0 /\ CallsIn(T, q) = {}
        BY <1>1, <1>5, <2>3, <3>2, <3>4
      <4> QED
        BY <4>1, FS_EmptySet
    <3> QED
      BY <3>3, <3>4
  <2> QED
    BY <1>3, <1>4, <2>1, <2>2, <2>3, CountHolds
<1>7. CASE Asks
  <2>1. pc = "step" /\ CallsIn(T, q) = {} /\ IsPlace(q) /\ q.i = n /\ n \in Nat
    BY <1>1, <1>2, <1>5, <1>7, PlaceKnown DEF Asks, RunInv
  <2>2. q \notin T
    BY <2>1, WithinItself DEF CallsIn
  <2>3. PICK new, call, m, around : new = asked' /\ new = With(asked, q, call) /\ call = [step |-> Step, around |-> around, times |-> m]
    BY <1>2, <1>7 DEF Asks
  <2>4. IsWith(new, asked, q, call) /\ call.step = Step
    BY <2>3, WithFacts
  <2>5. PICK S : S = ToolPlaces'
    OBVIOUS
  <2>6. S = {p \in DOMAIN new : new[p].step.type \in {"tool", "send_message"}}
    BY <2>3, <2>5 DEF ToolPlaces
  <2>7. \A p : p \in S <=> p \in T \/ (p = q /\ Step.type \in {"tool", "send_message"})
    <3>1. \A p : p # q => (p \in S <=> p \in T)
      BY <1>2, <2>4, <2>6 DEF ToolPlaces, IsWith
    <3>2. q \in S <=> Step.type \in {"tool", "send_message"}
      BY <2>4, <2>6 DEF IsWith
    <3> QED
      BY <2>2, <3>1, <3>2
  <2>8. IsFiniteSet(DOMAIN asked')
    <3>1. DOMAIN asked' = DOMAIN asked \cup {q}
      BY <2>3, <2>4 DEF IsWith
    <3> QED
      BY <1>4, <3>1, FS_AddElement
  <2>9. CASE pc' = "model"
    <3>1. S = T
      BY <1>7, <2>7, <2>9 DEF Asks
    <3> QED
      BY <1>3, <1>4, <2>1, <2>5, <2>8, <2>9, <3>1, CountHolds
  <2>10. CASE pc' = "tool"
    <3>1. S = T \cup {q}
      BY <1>7, <2>7, <2>10 DEF Asks
    <3>2. CallsIn(S, q) = {q}
      BY <2>1, <3>1, WithinItself DEF CallsIn
    <3>3. LoopCounts(S, q, ls)
      <4>1. SUFFICES ASSUME NEW d \in DOMAIN ls
                     PROVE  ls[d].calls = Cardinality(CallsBefore(S, Upto(q, d - 1), Upto(q, d)))
        BY DEF LoopCounts
      <4>2. PICK r, u, k : r = Upto(q, d) /\ u = Upto(q, d - 1) /\ k = Len(q.path)
        OBVIOUS
      <4>3. d \in 0..k
        <5>1. DOMAIN ls = 1..k /\ k \in Nat
          BY <1>1, <1>2, <4>2, PlaceFacts, LoopFacts DEF IsPlaceOf
        <5> QED
          BY <5>1
      <4>4. IsPlace(r) /\ Within(q, r)
        BY <2>1, <4>2, <4>3, UptoFacts DEF IsUpto
      <4>5. CallsBefore(S, u, r) = CallsBefore(T, u, r)
        BY <2>1, <3>1, <4>4, CountHere
      <4> QED
        BY <1>4, <4>2, <4>5 DEF LoopCounts
    <3>4. StepCounts(S, outs, n, total)
      <4>1. \A i \in 0..n - 1 : {p \in S : p.i = i} = {p \in T : p.i = i}
        BY <2>1, <3>1
      <4>2. {p \in S : p.i < n} = {p \in T : p.i < n}
        BY <2>1, <3>1
      <4> QED
        BY <1>4, <4>1, <4>2 DEF StepCounts
    <3> QED
      BY <1>3, <2>5, <2>8, <2>10, <3>2, <3>3, <3>4, CountHolds
  <2> QED
    BY <1>7, <2>9, <2>10 DEF Asks
<1> QED
  BY <1>6, <1>7 DEF Quiet

\* The loops of ns, at r, are those of ls, at q, up to loop k.
LEMMA CountOuter ==
    ASSUME NEW T, NEW q, NEW ls, LoopCounts(T, q, ls), NEW k \in Nat, NEW r, r.i = q.i, \A e \in 1..k : r.path[e] = q.path[e],
           NEW ns, NEW d \in DOMAIN ls, d \in 1..k, ns[d] = ls[d]
    PROVE  ns[d].calls = Cardinality(CallsBefore(T, Upto(r, d - 1), Upto(r, d)))
<1>1. PICK c : c = d - 1
  OBVIOUS
<1>2. (\A e \in 1..c : r.path[e] = q.path[e]) /\ \A e \in 1..d : r.path[e] = q.path[e]
  BY <1>1
<1>3. Upto(r, c) = Upto(q, c) /\ Upto(r, d) = Upto(q, d)
  BY <1>2, UptoSame
<1> QED
  BY <1>1, <1>3 DEF LoopCounts

LEMMA CountEnters ==
    ASSUME RunInv, RunInv', PlaceInv, CallsInv, CountInv, Enters
    PROVE  CountInv'
<1>1. UNCHANGED <<trace, at, asked>> /\ pc = "step" /\ pc' = "step" /\ pc \notin Early /\ state'.outputs = state.outputs
  BY DEF Enters, Early, OnlyValues
<1>2. PICK T, q, r, ls, ns, k : T = ToolPlaces /\ q = Place /\ r = Place' /\ ls = loops /\ ns = loops' /\ k = Len(ls)
  OBVIOUS
<1>3. T = ToolPlaces'
  BY <1>1, <1>2 DEF ToolPlaces
<1>4. OneDeeper(r, q) /\ IsPlace(q) /\ IsPlace(r) /\ IsPlaceOf(q, at.i, ls)
  BY <1>1, <1>2, PlaceEnters, PlaceFacts
<1>5. IsSeq(ls) /\ DOMAIN ls = 1..k /\ k \in Nat /\ LoopCounts(T, q, ls) /\ CallsIn(T, q) = {}
  BY <1>1, <1>2, LoopFacts, NoneYet DEF CountInv, RunInv
<1>6. Len(q.path) = k /\ Len(r.path) = k + 1 /\ r.i = q.i /\ \A e \in 1..k : r.path[e] = q.path[e]
  BY <1>2, <1>4, <1>5 DEF OneDeeper, IsPlaceOf
<1>7. PICK l : l.calls = 0 /\ ns = Append(ls, l)
  BY <1>2 DEF Enters, NewLoop
<1>8. Appended(ns, ls, l, k)
  BY <1>2, <1>5, <1>7, AppendFacts
<1>9. LoopCounts(T, r, ns)
  <2>1. SUFFICES ASSUME NEW d \in DOMAIN ns
                 PROVE  ns[d].calls = Cardinality(CallsBefore(T, Upto(r, d - 1), Upto(r, d)))
    BY DEF LoopCounts
  <2>2. CASE d \in 1..k
    BY <1>5, <1>6, <1>8, <2>2, CountOuter DEF Appended
  <2>3. CASE d = k + 1
    <3>1. PICK u : u = Upto(q, k)
      OBVIOUS
    <3>2. u = q
      BY <1>4, <1>5, <1>6, <3>1, UptoFacts DEF IsUpto
    <3>3. Upto(r, k) = q /\ d - 1 = k
      <4>1. Upto(r, k) = Upto(q, k)
        BY <1>6, UptoSame
      <4>2. d - 1 = k
        BY <1>5, <2>3
      <4> QED
        BY <3>1, <3>2, <4>1, <4>2
    <3>4. CallsBefore(T, q, Upto(r, d)) = {}
      BY <1>5 DEF CallsBefore, CallsIn
    <3>5. ns[d].calls = 0
      BY <1>7, <1>8, <2>3 DEF Appended
    <3> QED
      BY <3>3, <3>4, <3>5, FS_EmptySet
  <2>4. d \in 1..k \/ d = k + 1
    BY <1>5, <1>8, <2>1 DEF Appended
  <2> QED
    BY <2>2, <2>3, <2>4
<1>10. PICK outs, n, total : outs = state'.outputs /\ n = at'.i /\ total = trace'.toolCalls
  OBVIOUS
<1>11. StepCounts(T, outs, n, total) /\ IsFiniteSet(DOMAIN asked')
  BY <1>1, <1>2, <1>10 DEF CountInv
<1> QED
  BY <1>1, <1>2, <1>3, <1>9, <1>10, <1>11, CountHolds

\* In a loop of which a nested step returned, without an error: u is the place of the loop.
Counting(T, q, ls, k, u) ==
    /\ T = ToolPlaces /\ q = Place /\ ls = loops /\ k = Len(ls) /\ k \in 1..k /\ k \in Nat /\ IsSeq(ls)
    /\ DOMAIN ls = 1..k /\ ls[k] = Loop /\ IsFiniteSet(T) /\ LoopCounts(T, q, ls)
    /\ IsPlace(q) /\ IsPlace(u) /\ Len(q.path) = k /\ DOMAIN q.path = 1..k /\ OneDeeper(q, u) /\ u = Upto(q, k - 1)
    /\ \A p \in T : IsPlace(p) /\ (Earlier(p, q) \/ Within(p, q))
    /\ ret.ok => Loop.calls + ret.calls = Cardinality(CallsIn(T, u))

LEMMA CountingFacts ==
    ASSUME RunInv, PlaceInv, CountInv, InnerReturned
    PROVE  \E T, q, ls, k, u : Counting(T, q, ls, k, u)
<1>1. pc = "returned" /\ InLoop /\ pc \notin Early
  BY DEF InnerReturned, Early
<1>2. PICK T, q, ls, k : T = ToolPlaces /\ q = Place /\ ls = loops /\ k = Len(ls)
  OBVIOUS
<1>3. PICK u, c : c = k - 1 /\ u = Upto(q, c)
  OBVIOUS
<1>4. k \in Nat /\ k > 0 /\ DOMAIN ls = 1..k /\ ls[k] = Loop /\ IsSeq(ls)
  BY <1>1, <1>2, LoopFacts DEF RunInv
<1>5. k \in 1..k /\ k \in 0..k /\ c \in 0..k
  BY <1>3, <1>4
<1>6. IsPlaceOf(q, at.i, ls)
  BY <1>1, <1>2, PlaceFacts
<1>7. IsPlace(q) /\ Len(q.path) = k /\ DOMAIN q.path = 1..k
  BY <1>2, <1>4, <1>6 DEF IsPlaceOf
<1>8. PICK w : w = Upto(q, k)
  OBVIOUS
<1>9. w = q /\ IsPlace(u)
  BY <1>3, <1>5, <1>7, <1>8, UptoFacts DEF IsUpto
<1>10. OneDeeper(q, u)
  BY <1>3, <1>5, <1>7, <1>8, <1>9, UptoDeeper
<1>11. IsFiniteSet(T) /\ \A p \in T : p \in Been /\ IsPlace(p)
  BY <1>2, ToolFacts DEF CountInv
<1>12. \A p \in T : IsPlace(p) /\ (Earlier(p, q) \/ Within(p, q))
  BY <1>1, <1>2, <1>11 DEF PlaceInv
<1>13. LoopCounts(T, q, ls)
  BY <1>1, <1>2 DEF CountInv
<1>14. Loop.calls = Cardinality(CallsBefore(T, u, q))
  BY <1>3, <1>4, <1>5, <1>8, <1>9, <1>13 DEF LoopCounts
<1>15. ret.ok => ret.calls = Cardinality(CallsIn(T, q))
  BY <1>1, <1>2 DEF CountInv
<1>16. Cardinality(CallsIn(T, u)) = Cardinality(CallsBefore(T, u, q)) + Cardinality(CallsIn(T, q))
  BY <1>7, <1>9, <1>10, <1>11, <1>12, CountLoop
<1>17. ret.ok => Loop.calls + ret.calls = Cardinality(CallsIn(T, u))
  BY <1>14, <1>15, <1>16
<1>18. u = Upto(q, k - 1)
  BY <1>3
<1>19. Counting(T, q, ls, k, u)
  BY <1>2, <1>4, <1>5, <1>7, <1>9, <1>10, <1>11, <1>12, <1>13, <1>17, <1>18 DEF Counting
<1> QED
  BY <1>19

LEMMA CountGoesOn ==
    ASSUME RunInv, RunInv', PlaceInv, CountInv, GoesOn \/ Iterates
    PROVE  CountInv'
<1>1. /\ UNCHANGED <<trace, at, asked>> /\ pc' = "step" /\ state'.outputs = state.outputs /\ ret.ok /\ InnerReturned
  BY DEF GoesOn, Iterates, InnerReturned, OnlyValues
<1>2. PICK T, q, ls, k, u : Counting(T, q, ls, k, u)
  BY <1>1, CountingFacts
<1>3. PICK r, ns : r = Place' /\ ns = loops'
  OBVIOUS
<1>4. T = ToolPlaces'
  BY <1>1, <1>2 DEF ToolPlaces, Counting
<1>5. OneFurther(r, q) /\ IsPlace(r)
  BY <1>2, <1>3, PlaceFurther DEF Counting
<1>6. PICK m : m.calls = Loop.calls + ret.calls /\ ns = [ls EXCEPT ![k] = m]
  BY <1>2, <1>3 DEF GoesOn, Iterates, NestedGoesOn, NestedIterates, Carries, Counting
<1>7. Replaced(ns, ls, k, k, m)
  BY <1>2, <1>6, SetFacts DEF Counting
<1>8. PICK c : c = k - 1
  OBVIOUS
<1>9. c \in Nat /\ c \in 0..k /\ k \in Nat /\ k \in 0..k
  BY <1>2, <1>8 DEF Counting
<1>10. r.i = q.i /\ Len(r.path) = k /\ \A e \in 1..c : r.path[e] = q.path[e]
  <2>1. r.i = q.i /\ Len(r.path) = k /\ \A e \in 1..k : e # k => r.path[e] = q.path[e]
    BY <1>2, <1>5 DEF OneFurther, Counting
  <2>2. \A e \in 1..c : e \in 1..k /\ e # k
    BY <1>8, <1>9
  <2> QED
    BY <2>1, <2>2
<1>11. LoopCounts(T, r, ns)
  <2>1. SUFFICES ASSUME NEW d \in DOMAIN ns
                 PROVE  ns[d].calls = Cardinality(CallsBefore(T, Upto(r, d - 1), Upto(r, d)))
    BY DEF LoopCounts
  <2>2. CASE d \in 1..c
    <3>1. d \in DOMAIN ls /\ ns[d] = ls[d]
      BY <1>2, <1>7, <1>8, <1>9, <2>2 DEF Replaced, Counting
    <3>2. LoopCounts(T, q, ls)
      BY <1>2 DEF Counting
    <3> QED
      BY <1>9, <1>10, <2>2, <3>1, <3>2, CountOuter
  <2>3. CASE d = k
    <3>1. Upto(r, c) = u
      <4>1. Upto(r, c) = Upto(q, c)
        BY <1>10, UptoSame
      <4> QED
        BY <1>2, <1>8, <4>1 DEF Counting
    <3>2. PICK w : w = Upto(r, k)
      OBVIOUS
    <3>3. w = r
      BY <1>5, <1>9, <1>10, <3>2, UptoFacts DEF IsUpto
    <3>4. CallsBefore(T, u, r) = CallsIn(T, u)
      BY <1>2, <1>5, CountFurther DEF Counting
    <3>5. m.calls = Cardinality(CallsIn(T, u))
      BY <1>1, <1>2, <1>6 DEF Counting
    <3>6. ns[d] = m
      BY <1>7, <2>3 DEF Replaced
    <3> QED
      BY <1>8, <2>3, <3>1, <3>2, <3>3, <3>4, <3>5, <3>6
  <2>4. d \in 1..c \/ d = k
    BY <1>7, <1>8, <1>9, <2>1 DEF Replaced
  <2> QED
    BY <2>2, <2>3, <2>4
<1>12. PICK outs, n, total : outs = state'.outputs /\ n = at'.i /\ total = trace'.toolCalls
  OBVIOUS
<1>13. StepCounts(T, outs, n, total) /\ IsFiniteSet(DOMAIN asked')
  BY <1>1, <1>2, <1>12 DEF CountInv, Counting
<1> QED
  BY <1>1, <1>3, <1>4, <1>11, <1>12, <1>13, CountHolds

LEMMA CountLeaves ==
    ASSUME RunInv, RunInv', PlaceInv, CountInv, LoopEnds \/ LoopStops
    PROVE  CountInv'
<1>1. /\ UNCHANGED <<trace, at, asked>> /\ pc' = "returned" /\ state'.outputs = state.outputs /\ InnerReturned /\ Leaves
      /\ loops' = Front(loops) /\ loops # <<>>
  BY DEF LoopEnds, LoopStops, Leaves, InnerReturned, OnlyValues, InLoop
<1>2. PICK T, q, ls, k, u : Counting(T, q, ls, k, u)
  BY <1>1, CountingFacts
<1>3. PICK r, ns : r = Place' /\ ns = loops'
  OBVIOUS
<1>4. T = ToolPlaces'
  BY <1>1, <1>2 DEF ToolPlaces, Counting
<1>5. OneDeeper(q, r) /\ IsPlace(r)
  BY <1>1, <1>2, <1>3, PlaceLeaves DEF Counting
<1>6. Fronted(ns, ls, k)
  BY <1>1, <1>2, <1>3, FrontFacts DEF Counting
<1>7. PICK c : c = k - 1
  OBVIOUS
<1>8. c \in Nat /\ c \in 0..k /\ DOMAIN ns = 1..c /\ \A d \in 1..c : ns[d] = ls[d] /\ d \in DOMAIN ls
  BY <1>2, <1>6, <1>7 DEF Counting, Fronted
<1>9. Len(r.path) = c /\ DOMAIN r.path = 1..c /\ r.i = q.i /\ \A e \in 1..c : r.path[e] = q.path[e]
  <2>1. Len(r.path) \in Nat /\ DOMAIN r.path = 1..Len(r.path) /\ Len(q.path) = Len(r.path) + 1
    BY <1>5, PlaceSeq DEF OneDeeper
  <2>2. Len(r.path) = c
    BY <1>2, <1>7, <2>1 DEF Counting
  <2> QED
    BY <1>5, <2>1, <2>2 DEF OneDeeper
<1>10. u = r
  <2>1. PICK w : w = Upto(r, c)
    OBVIOUS
  <2>2. c \in 0..c
    BY <1>8
  <2>3. w = r
    BY <1>5, <1>9, <2>1, <2>2, UptoFacts DEF IsUpto
  <2>4. Upto(r, c) = Upto(q, c)
    BY <1>9, UptoSame
  <2> QED
    BY <1>2, <1>7, <2>1, <2>3, <2>4 DEF Counting
<1>11. LoopCounts(T, r, ns)
  <2>1. SUFFICES ASSUME NEW d \in DOMAIN ns
                 PROVE  ns[d].calls = Cardinality(CallsBefore(T, Upto(r, d - 1), Upto(r, d)))
    BY DEF LoopCounts
  <2>2. d \in 1..c /\ d \in DOMAIN ls /\ ns[d] = ls[d] /\ LoopCounts(T, q, ls)
    BY <1>2, <1>8, <2>1 DEF Counting
  <2> QED
    BY <1>8, <1>9, <2>2, CountOuter
<1>12. ASSUME ret'.ok PROVE ret'.calls = Cardinality(CallsIn(T, r))
  <2>1. LoopEnds /\ ret.ok
    BY <1>12 DEF LoopEnds, LoopStops
  <2>2. PICK v : ret' = [ok |-> TRUE, value |-> v, calls |-> Loop.calls + ret.calls, why |-> "none"]
    BY <2>1 DEF LoopEnds
  <2>3. ret'.calls = Loop.calls + ret.calls
    BY <2>2
  <2> QED
    BY <1>2, <1>10, <2>1, <2>3 DEF Counting
<1>13. PICK outs, n, total : outs = state'.outputs /\ n = at'.i /\ total = trace'.toolCalls
  OBVIOUS
<1>14. StepCounts(T, outs, n, total) /\ IsFiniteSet(DOMAIN asked')
  BY <1>1, <1>2, <1>13 DEF CountInv, Counting
<1> QED
  BY <1>1, <1>3, <1>4, <1>11, <1>12, <1>13, <1>14, CountHolds

LEMMA CountStep ==
    ASSUME RunInv, RunInv', PlaceInv, TraceInv, CountInv, StepReturns
    PROVE  CountInv'
<1>1. /\ UNCHANGED <<deployment, protocol, loops, asked, returned>> /\ pc = "returned" /\ ~InLoop /\ pc \notin Early
      /\ (StepSucceeds /\ ret.ok) \/ StepIsRetried \/ StepIsRefused
  BY DEF StepReturns, historyVars, Early
<1>2. PICK T, q, r, ls, outs, n, total :
         /\ T = ToolPlaces /\ q = Place /\ r = Place' /\ ls = loops' /\ outs = state.outputs /\ n = at.i /\ total = trace.toolCalls
  OBVIOUS
<1>3. T = ToolPlaces' /\ IsFiniteSet(DOMAIN asked')
  BY <1>1, <1>2 DEF ToolPlaces, CountInv
<1>4. IsPlace(q) /\ q.i = n /\ q.path = <<>> /\ n \in Nat /\ total \in Nat
  BY <1>1, <1>2, PlaceKnown, PathFacts DEF RunInv, TraceInv
<1>5. IsFiniteSet(T) /\ \A p \in T : p \in Been /\ IsPlace(p)
  BY <1>2, ToolFacts DEF CountInv
<1>6. LoopCounts(T, r, ls)
  <2>1. ls = <<>>
    BY <1>1, <1>2 DEF InLoop
  <2>2. DOMAIN ls = {}
    BY <2>1, EmptyFacts
  <2> QED
    BY <2>2 DEF LoopCounts
<1>7. StepCounts(T, outs, n, total) /\ ContractsOK(outs, n, trace.status, state.final)
  BY <1>2 DEF CountInv, TraceInv
<1>8. PICK new, m, sum : new = state'.outputs /\ m = at'.i /\ sum = trace'.toolCalls
  OBVIOUS
<1>9. DOMAIN state = {"input", "values", "outputs", "final"} /\ DOMAIN at = {"i", "attempt"} /\ n < Len(StepKeys)
  <2>1. pc \in Running /\ IsList(Proto.steps)
    BY <1>1, ProtoFacts DEF Running
  <2>2. at.i < Len(Proto.steps) /\ DOMAIN state = {"input", "values", "outputs", "final"} /\ DOMAIN at = {"i", "attempt"}
    BY <2>1 DEF RunInv
  <2> QED
    BY <1>2, <1>4, <2>1, <2>2, ListFacts, KeysFacts
<1>10. ASSUME NEW c, new = With(outs, StepKey(n), c), NEW i \in 0..n - 1 PROVE new[StepKey(i)] = outs[StepKey(i)]
  <2>1. IsWith(new, outs, StepKey(n), c)
    BY <1>10, WithFacts
  <2>2. i \in 0..Len(StepKeys) - 1 /\ n \in 0..Len(StepKeys) - 1 /\ i # n
    BY <1>4, <1>9, <1>10, KeysFacts
  <2>3. StepKey(i) # StepKey(n)
    BY <2>2, KeyFacts
  <2>4. StepKey(i) \in DOMAIN outs
    BY <1>7, <1>10 DEF ContractsOK
  <2> QED
    BY <2>1, <2>3, <2>4 DEF IsWith
<1>11. CASE StepSucceeds /\ ret.ok
  <2>1. PICK c, vals, fin : /\ c = StepContract("success", ret.value, ret.calls)
                            /\ state' = [state EXCEPT !.outputs = With(@, StepKey(n), c), !.values = vals, !.final = fin]
    BY <1>2, <1>11 DEF StepSucceeds
  <2>2. new = With(outs, StepKey(n), c)
    BY <1>2, <1>8, <1>9, <2>1
  <2>3. new[StepKey(n)] = c
    <3>1. IsWith(new, outs, StepKey(n), c)
      BY <2>2, WithFacts
    <3> QED
      BY <3>1 DEF IsWith
  <2>4. c[2].toolCalls = Num(ret.calls)
    BY <2>1 DEF StepContract, Obj
  <2>5. /\ trace' = [status |-> trace'.status, completed |-> n + 1, toolCalls |-> total + ret.calls]
        /\ at' = [i |-> n + 1, attempt |-> 1] /\ pc' \in {"ended", "step"}
    BY <1>2, <1>11 DEF StepSucceeds
  <2>6. m = n + 1 /\ sum = total + ret.calls /\ pc' \notin {"model", "tool", "returned"}
    BY <1>8, <2>5
  <2>7. PICK A, B, C : A = {p \in T : p.i < n} /\ B = {p \in T : p.i = n} /\ C = {p \in T : p.i < n + 1}
    OBVIOUS
  <2>8. PICK s : s = q.path
    OBVIOUS
  <2>9. DOMAIN s = {}
    BY <1>4, <2>8, EmptyFacts
  <2>10. B = CallsIn(T, q)
    BY <1>4, <2>7, <2>8, <2>9 DEF CallsIn, Within
  <2>11. ret.calls = Cardinality(B)
    BY <1>1, <1>2, <1>11, <2>10 DEF CountInv
  <2>12. C = A \cup B /\ A \subseteq T /\ B \subseteq T /\ \A p \in A : p \notin B
    <3>1. \A p \in T : p.i \in Nat
      BY <1>5 DEF IsPlace
    <3> QED
      BY <1>4, <2>7, <3>1
  <2>13. Cardinality(C) = Cardinality(A) + Cardinality(B)
    BY <1>5, <2>12, CountTwo
  <2>14. sum = Cardinality({p \in T : p.i < m})
    BY <1>7, <2>6, <2>7, <2>11, <2>13 DEF StepCounts
  <2>15. ASSUME NEW i \in 0..m - 1 PROVE new[StepKey(i)][2].toolCalls = Num(Cardinality({p \in T : p.i = i}))
    <3>1. CASE i = n
      BY <2>3, <2>4, <2>7, <2>11, <3>1
    <3>2. CASE i \in 0..n - 1
      BY <1>7, <1>10, <2>2, <3>2 DEF StepCounts
    <3>3. i = n \/ i \in 0..n - 1
      BY <1>4, <2>6, <2>15
    <3> QED
      BY <3>1, <3>2, <3>3
  <2>16. StepCounts(T, new, m, sum)
    BY <2>14, <2>15 DEF StepCounts
  <2> QED
    BY <1>2, <1>3, <1>6, <1>8, <2>6, <2>16, CountHolds
<1>12. CASE StepIsRetried
  <2>1. /\ at' = [at EXCEPT !.attempt = NextAttempt(@)] /\ UNCHANGED <<state, trace>> /\ pc' = "step"
    BY <1>12 DEF StepIsRetried
  <2>2. new = outs /\ m = n /\ sum = total
    BY <1>2, <1>8, <1>9, <2>1
  <2> QED
    BY <1>2, <1>3, <1>6, <1>7, <1>8, <2>1, <2>2, CountHolds
<1>13. CASE StepIsRefused
  <2>1. PICK c : state' = [state EXCEPT !.outputs = With(@, StepKey(n), c)]
    BY <1>2, <1>13 DEF StepIsRefused
  <2>2. new = With(outs, StepKey(n), c)
    BY <1>2, <1>8, <1>9, <2>1
  <2>3. at' = at /\ pc' = "ended" /\ trace' = [status |-> "error", completed |-> n, toolCalls |-> total]
    BY <1>2, <1>13 DEF StepIsRefused, CallsOnFailure
  <2>4. m = n /\ sum = total
    BY <1>2, <1>8, <2>3
  <2>5. \A i \in 0..n - 1 : new[StepKey(i)] = outs[StepKey(i)]
    BY <1>10, <2>2
  <2>6. StepCounts(T, new, m, sum)
    BY <1>7, <2>4, <2>5 DEF StepCounts
  <2> QED
    BY <1>2, <1>3, <1>6, <1>8, <2>3, <2>6, CountHolds
<1> QED
  BY <1>1, <1>11, <1>12, <1>13

LEMMA CountBegins ==
    ASSUME RunInv, PlaceInv, CountInv, LoadConfig \/ MatchInboundProtocol
    PROVE  CountInv'
<1>1. /\ UNCHANGED <<at, loops, asked>> /\ pc \in Early /\ at.i = 0 /\ loops = <<>> /\ trace'.toolCalls = trace.toolCalls
      /\ pc' \notin {"model", "tool", "returned"}
  <2>1. CASE LoadConfig
    BY <2>1 DEF LoadConfig, historyVars, RunInv, Early
  <2>2. CASE MatchInboundProtocol
    <3>1. PICK st : trace' = [trace EXCEPT !.status = st]
      BY <2>2 DEF MatchInboundProtocol
    <3>2. trace'.toolCalls = trace.toolCalls
      BY <3>1
    <3>3. pc' \in {"refused", "ended", "step"}
      BY <2>2 DEF MatchInboundProtocol
    <3> QED
      BY <2>2, <3>2, <3>3 DEF MatchInboundProtocol, historyVars, RunInv, Early
  <2> QED
    BY <2>1, <2>2
<1>2. PICK T, q, ls, outs, n, total :
         /\ T = ToolPlaces' /\ q = Place' /\ ls = loops' /\ outs = state'.outputs /\ n = at'.i /\ total = trace'.toolCalls
  OBVIOUS
<1>3. T = ToolPlaces /\ n = 0 /\ total = trace.toolCalls /\ 0..n - 1 = {}
  BY <1>1, <1>2 DEF ToolPlaces
<1>4. total = Cardinality({p \in T : p.i < n})
  BY <1>1, <1>3 DEF CountInv, StepCounts
<1>5. StepCounts(T, outs, n, total)
  BY <1>3, <1>4 DEF StepCounts
<1>6. DOMAIN ls = {}
  BY <1>1, <1>2, EmptyFacts
<1>7. LoopCounts(T, q, ls)
  BY <1>6 DEF LoopCounts
<1>8. IsFiniteSet(DOMAIN asked')
  BY <1>1 DEF CountInv
<1> QED
  BY <1>1, <1>2, <1>5, <1>7, <1>8, CountHolds

LEMMA CountNext ==
    ASSUME RunInv, RunInv', PlaceInv, CallsInv, TraceInv, CountInv, [Next]_vars
    PROVE  CountInv'
<1>1. CASE UNCHANGED vars
  <2>1. UNCHANGED <<deployment, pc, protocol, state, trace, at, loops, ret, asked, returned>>
    BY <1>1 DEF vars
  <2>2. ToolPlaces' = ToolPlaces /\ Place' = Place
    BY <2>1, SameStep DEF ToolPlaces
  <2>3. PICK T, q, ls, outs, n, total :
           /\ T = ToolPlaces' /\ q = Place' /\ ls = loops' /\ outs = state'.outputs /\ n = at'.i /\ total = trace'.toolCalls
    OBVIOUS
  <2>4. /\ IsFiniteSet(DOMAIN asked') /\ (pc' \notin Early => LoopCounts(T, q, ls)) /\ StepCounts(T, outs, n, total)
        /\ (pc' = "model" => CallsIn(T, q) = {}) /\ (pc' = "tool" => CallsIn(T, q) = {q})
        /\ (pc' = "returned" /\ ret'.ok => ret'.calls = Cardinality(CallsIn(T, q)))
    BY <2>1, <2>2, <2>3 DEF CountInv
  <2> QED
    BY <2>3, <2>4, CountHolds
<1>2. CASE Next
  BY <1>2, Shapes, CountQuiet, CountEnters, CountGoesOn, CountLeaves, CountStep, CountBegins
<1> QED
  BY <1>1, <1>2

LEMMA CountInit ==
    ASSUME Init
    PROVE  CountInv
<1>1. PICK a : a = asked
  OBVIOUS
<1>2. a = <<>> /\ pc = "load" /\ at.i = 0 /\ trace.toolCalls = 0
  BY <1>1 DEF Init
<1>3. DOMAIN a = {}
  BY <1>2, EmptyFacts
<1>4. ToolPlaces = {} /\ DOMAIN asked = {} /\ 0..at.i - 1 = {}
  BY <1>1, <1>2, <1>3 DEF ToolPlaces
<1>5. {p \in ToolPlaces : p.i < at.i} = {}
  BY <1>4
<1>6. StepCounts(ToolPlaces, state.outputs, at.i, trace.toolCalls)
  BY <1>2, <1>4, <1>5, FS_EmptySet DEF StepCounts
<1> QED
  BY <1>2, <1>4, <1>6, FS_EmptySet DEF CountInv, Early

-----------------------------------------------------------------------------
(* What a run reports, and what later steps read.                          *)

LEMMA InvType ==
    ASSUME RunInv, TraceInv
    PROVE  TypeOK
<1>1. protocol \in 0..Len(config.protocols)
  <2>1. IsSeq(config.protocols)
    BY ConfigFacts DEF RunInv, config
  <2>2. PICK ps, n : ps = config.protocols /\ n = Len(ps)
    OBVIOUS
  <2>3. n \in Nat /\ DOMAIN ps = 1..n
    BY <2>1, <2>2, SeqFacts
  <2>4. CASE pc \in Early
    BY <2>2, <2>3, <2>4 DEF RunInv
  <2>5. CASE pc \notin Early
    BY <2>2, <2>3, <2>5, ProtoFacts
  <2> QED
    BY <2>4, <2>5
<1>2. PICK outs, n, status, fin, done :
         /\ outs = state.outputs /\ n = at.i /\ status = trace.status /\ fin = state.final
         /\ done = Done(outs)
  OBVIOUS
<1>3. ContractsOK(outs, n, status, fin)
  BY <1>2 DEF TraceInv
<1>4. Told(outs, n, status, fin, done)
  BY <1>2, <1>3, ContractsTell
<1>5. at.i \in 0..Len(StepKeys) /\ trace.completed \in 0..Len(StepKeys)
  BY <1>2, <1>3 DEF ContractsOK, TraceInv
<1>6. ASSUME NEW k \in DOMAIN loops PROVE loops[k].iter \in 0..Len(loops[k].items) - 1
  <2>1. pc \notin Early
    <3>1. SUFFICES ASSUME pc \in Early PROVE FALSE
      OBVIOUS
    <3>2. loops = <<>>
      BY <3>1 DEF RunInv
    <3> QED
      BY <1>6, <3>2, EmptyFacts
  <2>2. LoopOK(loops[k])
    BY <1>6, <2>1 DEF RunInv, Nest
  <2>3. Len(loops[k].items) \in Nat
    BY <2>2, SeqFacts DEF LoopOK
  <2> QED
    BY <2>2, <2>3 DEF LoopOK
<1>7. /\ deployment \in Deployments /\ pc \in {"load", "inbound", "step", "tool", "model", "returned"} \cup Ended
      /\ at.attempt \in Nat /\ \A place \in DOMAIN asked : asked[place].times \in Nat
  BY DEF RunInv
<1>8. trace.status \in {"running", "success", "error"} /\ trace.toolCalls \in Nat /\ ret.why \in Whys
  BY DEF TraceInv
<1>9. DOMAIN state.outputs \subseteq Range(StepKeys) /\ state.final \in -1..Len(StepKeys)
  BY <1>2, <1>4 DEF Told
<1> QED
  BY <1>1, <1>5, <1>6, <1>7, <1>8, <1>9 DEF TypeOK, Whys

LEMMA InvContracts ==
    ASSUME TraceInv
    PROVE  ContractsTellTheRun
<1>1. PICK outs, n, status, fin, done :
         /\ outs = state.outputs /\ n = at.i /\ status = trace.status /\ fin = state.final
         /\ done = Done(outs)
  OBVIOUS
<1>2. ContractsOK(outs, n, status, fin) /\ n = trace.completed
  BY <1>1 DEF TraceInv
<1>3. Told(outs, n, status, fin, done)
  BY <1>1, <1>2, ContractsTell
<1> QED
  BY <1>1, <1>2, <1>3 DEF ContractsTellTheRun, Succeeded, Done, Told

LEMMA InvReports ==
    ASSUME TraceInv, CountInv
    PROVE  ReportsItsCalls
<1>1. trace.completed = at.i
  BY DEF TraceInv
<1> QED
  BY <1>1 DEF CountInv, StepCounts, ReportsItsCalls

LEMMA InvConforms ==
    ASSUME TraceInv, StoredInv
    PROVE  StoredOutputsConform
<1>1. \A i \in 0..trace.completed - 1 : Conforms(Proto.steps[i + 1], state.outputs[StepKey(i)][2].output)
  BY DEF TraceInv, TopConforms, OutputOf
<1>2. \A d \in DOMAIN loops : \A k \in DOMAIN loops[d].results : \A j \in DOMAIN loops[d].step.steps :
         Conforms(loops[d].step.steps[j], loops[d].results[k][2].outputs[2][StepKey(j - 1)])
  BY DEF StoredInv, LoopConforms
<1> QED
  BY <1>1, <1>2 DEF StoredOutputsConform

\* A run that ended reports the tool calls of the steps it completed, as many as were made, however they
\* were nested and tried again; its contracts tell which steps succeeded and which failed; and what
\* later steps read has passed the checks of the step that made it (Run, runStep, validateStepOutput).
THEOREM RunTellsTheTruth == Spec => []Inv
<1> DEFINE Ind == RunInv /\ PlaceInv /\ CallsInv /\ TraceInv /\ StoredInv /\ CountInv
<1>1. Init => Ind
  <2>1. ASSUME Init PROVE CallsInv /\ StoredInv
    <3>1. PICK a, ls : a = asked /\ ls = loops
      OBVIOUS
    <3>2. a = <<>> /\ ls = <<>>
      BY <2>1, <3>1 DEF Init
    <3>3. DOMAIN a = {} /\ DOMAIN ls = {}
      BY <3>2, EmptyFacts
    <3> QED
      BY <3>1, <3>3 DEF CallsInv, StoredInv
  <2> QED
    BY <2>1, RunInit, PlaceInit, TraceInit, CountInit
<1>2. Ind /\ [Next]_vars => Ind'
  BY RunNext, PlaceNext, CallsNext, TraceNext, StoredNext, CountNext
<1>3. Ind => Inv
  BY InvType, InvContracts, InvReports, InvConforms DEF Inv
<1> QED
  BY <1>1, <1>2, <1>3, PTL DEF Spec
=============================================================================

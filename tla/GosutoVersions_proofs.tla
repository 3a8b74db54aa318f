------------------------ MODULE GosutoVersions_proofs ------------------------
(***************************************************************************)
(* Proofs about GosutoVersions, for any documents, any retention and any   *)
(* number of attempts, concurrent requests, commands and faults.           *)
(***************************************************************************)
EXTENDS GosutoVersions, FiniteSetTheorems, WellFoundedInduction, TLAPS

-----------------------------------------------------------------------------
(* The inductive invariant.                                                *)

\* The versions that a writer with this local state may still store: the numbers stay within
\* Versions because every accepted command pays for the one it stores.
Pending(l) ==
    IF l.op = "provision"
    THEN IF l.pc \in {"render", "latest", "next", "insert"} THEN 2 ELSE 1
    ELSE IF l.pc \in {"latest", "next", "insert"} THEN 1 ELSE 0

BudgetInv == top + Pending(writer["command"]) + Pending(writer["pipeline"]) <= commands + 2

\* What a writer holds at each of its steps.
LocalInv(l) ==
    /\ l.pc \notin {"idle", "render"} => l.doc \in Configs
    /\ l.pc # "wait" => l.attempt < MaxAttempts
    /\ l.pc \in {"render", "applied", "verify", "actual", "ensure"} => l.op = "provision"
    /\ l.pc = "insert" => l.number \in 1..(top + 1)
    /\ l.pc = "latest" => l.op # "patch"

\* The highest number ever stored is never pruned.
TopInv ==
    /\ \A v \in DOMAIN versions : v <= top
    /\ top > 0 => top \in DOMAIN versions

\* The stored versions above n.
Above(n) == {v \in DOMAIN versions : v > n}

\* The number a writer has read is still free above all others, or taken, or so many
\* versions have been stored since that it may have been taken and pruned again.
NumberInv(l) ==
    l.pc = "insert" =>
        \/ l.number > top
        \/ l.number \in DOMAIN versions /\ Cardinality(Above(l.number)) < l.gap
        \/ l.gap > KeepN

\* An edit that nobody overtook still differs from the latest version in its section only.
EditInv(l) ==
    l.op = "patch" /\ l.pc \in {"next", "insert"} /\ l.since = 0 =>
        /\ top > 0
        /\ \A s \in Sections \ {l.section} : l.doc[s] = versions[top][s]

Pruning == {w \in Writers : writer[w].pc = "prune"}

CardInv == Cardinality(DOMAIN versions) <= KeepN + Cardinality(Pruning)

TableType ==
    /\ DOMAIN versions \subseteq Versions
    /\ \A v \in DOMAIN versions : versions[v] \in Configs
    /\ writer \in [Writers -> Local]
    /\ commands \in 0..MaxCommands
    /\ top \in 0..MaxVersions

\* The version table and the writers.
TableInv ==
    /\ TableType /\ TopInv /\ BudgetInv /\ CardInv
    /\ \A w \in Writers : LocalInv(writer[w]) /\ NumberInv(writer[w]) /\ EditInv(writer[w])

RestType ==
    /\ row \in [version : 0..MaxVersions, desired : Configs \cup {None},
                actual : Configs \cup {None}, healthy : BOOLEAN]
    /\ call \in [Calls -> [pc : {"none", "apply", "save", "reply"}, doc : Configs \cup {None}]]
    /\ live \in Configs \cup {None}
    /\ saved \in Configs \cup {None}
    /\ rec \in [pc : {"idle", "status"}, desired : Configs \cup {None}, drift : BOOLEAN]
    /\ faults \in 0..MaxFaults
    /\ unsaved \in BOOLEAN

\* A request between Apply and SaveAppliedConfig will save what is live, unless another one
\* was there at the same time.
CallInv == \A c \in Calls : call[c].pc = "save" => live = call[c].doc \/ unsaved

IInv == TableInv /\ RestType /\ CallInv /\ SavedMatchesLive

-----------------------------------------------------------------------------
(* The least member of a set of numbers, and the latest version.           *)

LEMMA LeastNumber ==
    ASSUME NEW S, S \subseteq Nat, S # {}
    PROVE  Min(S) \in S /\ \A y \in S : Min(S) <= y
<1>1. PICK x \in S : \A y \in S : ~(<<y, x>> \in OpToRel(<, Nat))
  <2> HIDE DEF OpToRel
  <2> QED
    BY WFMin, NatLessThanWellFounded, Zenon
<1>2. \A y \in S : ~(y < x)
  BY <1>1 DEF OpToRel
<1>3. \E z \in S : \A y \in S : z <= y
  BY <1>2
<1> QED
  BY <1>3 DEF Min

LEMMA Numbers ==
    /\ MaxVersions \in Nat /\ KeepN \in Nat /\ KeepN > 0 /\ MaxAttempts \in Nat /\ MaxAttempts > 0
    /\ MaxCommands \in Nat /\ MaxVersions = MaxCommands + 2 /\ Versions \subseteq Nat
    /\ MaxCalls \in Nat /\ MaxFaults \in Nat
  BY GosutoAssumption DEF MaxVersions, Versions

\* SELECT MAX(version) finds the highest number ever stored.
LEMMA LatestIsTop ==
    ASSUME TableType, TopInv
    PROVE  /\ Stored <=> top > 0
           /\ Stored => Latest = top /\ top \in DOMAIN versions /\ versions[Latest] \in Configs
           /\ NextGosutoVersion = top + 1
<1>0. top \in Nat /\ DOMAIN versions \subseteq Nat /\ \A v \in DOMAIN versions : v > 0
  BY Numbers DEF TableType, Versions
<1>1. Stored <=> top > 0
  BY <1>0 DEF TopInv, Stored
<1>2. ASSUME Stored PROVE Latest = top /\ top \in DOMAIN versions
  <2>1. top \in DOMAIN versions /\ \A y \in DOMAIN versions : top >= y
    BY <1>0, <1>1, <1>2 DEF TopInv
  <2> QED
    BY <1>0, <2>1 DEF Latest, Max
<1>3. ~Stored => top = 0
  BY <1>0, <1>1
<1> QED
  BY <1>0, <1>1, <1>2, <1>3 DEF NextGosutoVersion, TableType

LEMMA FiniteTable ==
    ASSUME TableType
    PROVE  /\ IsFiniteSet(DOMAIN versions)
           /\ \A S : S \subseteq DOMAIN versions =>
                  IsFiniteSet(S) /\ Cardinality(S) \in Nat
                  /\ Cardinality(S) <= Cardinality(DOMAIN versions)
<1>1. IsFiniteSet(Versions)
  BY FS_Interval, Numbers DEF Versions
<1>2. IsFiniteSet(DOMAIN versions)
  BY <1>1, FS_Subset DEF TableType
<1> QED
  BY <1>2, FS_Subset, FS_CardinalityType

\* PruneGosutoVersions keeps at most KeepN rows: all but the lowest one it keeps lie above
\* that one, and fewer than KeepN do.
LEMMA PruneBound ==
    ASSUME NEW D, IsFiniteSet(D), D \subseteq Nat, NEW P, P \subseteq D,
           \A n \in P : Cardinality({m \in D : m > n}) < KeepN
    PROVE  Cardinality(P) <= KeepN
<1>1. IsFiniteSet(P)
  BY FS_Subset
<1>2. CASE P = {}
  BY <1>2, FS_EmptySet, Numbers
<1>3. CASE P # {}
  <2>1. PICK p \in P : \A y \in P : p <= y
    BY <1>3, LeastNumber
  <2> DEFINE U == {m \in D : m > p}
  <2>2. Cardinality(U) < KeepN
    OBVIOUS
  <2>3. P \ {p} \subseteq U /\ U \subseteq D
    BY <2>1
  <2> HIDE DEF U
  <2>4. IsFiniteSet(U)
    BY <2>3, FS_Subset
  <2>5. Cardinality(P \ {p}) <= Cardinality(U)
    BY <2>3, <2>4, FS_Subset
  <2>6. Cardinality(P \ {p}) = Cardinality(P) - 1
    BY <1>1, FS_RemoveElement
  <2>7. Cardinality(U) \in Nat /\ Cardinality(P) \in Nat
    BY <1>1, <2>4, FS_CardinalityType
  <2> QED
    BY <2>2, <2>5, <2>6, <2>7, Numbers
<1> QED
  BY <1>2, <1>3

-----------------------------------------------------------------------------
(* The version table and the writers.                                      *)

LEMMA PendingBounds ==
    ASSUME NEW l PROVE Pending(l) \in 0..2
  BY DEF Pending

\* A writer that stores nothing: it goes on with a new local state.
LEMMA WriterMoves ==
    ASSUME TableInv, NEW w \in Writers, NEW new \in Local,
           writer' = [writer EXCEPT ![w] = new], UNCHANGED <<versions, top>>,
           commands' \in 0..MaxCommands, Pending(new) + commands <= Pending(writer[w]) + commands',
           LocalInv(new), NumberInv(new), EditInv(new), writer[w].pc # "prune", new.pc # "prune"
    PROVE  TableInv'
<1>1. TableType'
  BY DEF TableInv, TableType
<1>2. TopInv'
  BY DEF TableInv, TopInv
<1>3. writer'[w] = new /\ \A u \in Writers \ {w} : writer'[u] = writer[u]
  BY DEF TableInv, TableType
<1>4. BudgetInv'
  <2>1. /\ Pending(new) \in Nat /\ Pending(writer["command"]) \in Nat
        /\ Pending(writer["pipeline"]) \in Nat
    BY PendingBounds
  <2>2. top \in Nat /\ commands \in Nat /\ commands' \in Nat /\ top' = top
    BY Numbers DEF TableInv, TableType
  <2>3. BudgetInv
    BY DEF TableInv
  <2>4. CASE w = "command"
    <3>1. writer'["command"] = new /\ writer'["pipeline"] = writer["pipeline"]
      BY <1>3, <2>4 DEF Writers
    <3> QED
      BY <2>1, <2>2, <2>3, <2>4, <3>1 DEF BudgetInv
  <2>5. CASE w = "pipeline"
    <3>1. writer'["pipeline"] = new /\ writer'["command"] = writer["command"]
      BY <1>3, <2>5 DEF Writers
    <3> QED
      BY <2>1, <2>2, <2>3, <2>5, <3>1 DEF BudgetInv
  <2> QED
    BY <2>4, <2>5 DEF Writers
<1>5. CardInv'
  <2>1. Pruning' = Pruning
    BY <1>3 DEF Pruning
  <2> QED
    BY <2>1 DEF TableInv, CardInv
<1>6. ASSUME NEW u \in Writers
      PROVE  (LocalInv(writer[u]) /\ NumberInv(writer[u]) /\ EditInv(writer[u]))'
  <2>1. PICK l : l = writer'[u]
    OBVIOUS
  <2>2. LocalInv(l) /\ NumberInv(l) /\ EditInv(l)
    BY <1>3, <2>1 DEF TableInv
  <2>3. (LocalInv(l) /\ NumberInv(l) /\ EditInv(l))'
    BY <2>2 DEF LocalInv, NumberInv, EditInv, Above
  <2> QED
    BY <2>1, <2>3
<1> QED
  BY <1>1, <1>2, <1>4, <1>5, <1>6 DEF TableInv

LEMMA FiniteWriters ==
    ASSUME NEW S, S \subseteq Writers PROVE IsFiniteSet(S) /\ Cardinality(S) \in Nat
<1>1. Writers = {"command"} \cup {"pipeline"}
  BY DEF Writers
<1>2. IsFiniteSet({"command"})
  BY FS_Singleton
<1>3. IsFiniteSet({"command"} \cup {"pipeline"})
  BY <1>2, FS_AddElement
<1>4. IsFiniteSet(Writers)
  BY <1>1, <1>3
<1>5. IsFiniteSet(S)
  BY <1>4, FS_Subset
<1> QED
  BY <1>5, FS_CardinalityType

LEMMA OneMore ==
    ASSUME NEW A, NEW x, IsFiniteSet(A)
    PROVE  Cardinality(A \cup {x}) <= Cardinality(A) + 1
<1>1. Cardinality(A \cup {x}) = IF x \in A THEN Cardinality(A) ELSE Cardinality(A) + 1
  BY FS_AddElement
<1>2. Cardinality(A) \in Nat
  BY FS_CardinalityType
<1> QED
  BY <1>1, <1>2

\* CreateGosutoVersion stores a number that is free.
LEMMA Stores ==
    ASSUME TableInv, NEW w \in Writers, Insert(w), writer[w].number \notin DOMAIN versions
    PROVE  TableInv'
<1> DEFINE n == writer[w].number
           D == DOMAIN versions
<1>0. /\ TableType /\ TopInv /\ BudgetInv /\ CardInv /\ writer[w].pc = "insert"
      /\ \A u \in Writers : /\ LocalInv(writer[u]) /\ NumberInv(writer[u])
                            /\ EditInv(writer[u])
                            /\ writer[u] \in Local
      /\ commands' = commands
  BY DEF TableInv, Insert, TableType
<1>1. n \in 1..(top + 1) /\ n \in Nat /\ top \in Nat /\ n > 0 /\ n <= top + 1
  BY <1>0, Numbers DEF LocalInv, TableType
<1>2. top' = IF n > top THEN n ELSE top
  <2>1. top' = Max({top, n})
    BY DEF Insert
  <2> HIDE DEF n
  <2> QED
    BY <1>1, <2>1 DEF Max
<1>3. /\ DOMAIN versions' = D \cup {n} /\ versions'[n] = writer[w].doc
      /\ \A v \in D : versions'[v] = versions[v]
  BY DEF Insert
<1>4. /\ writer' = [u \in Writers |-> writer'[u]]
      /\ writer'[w] = [writer[w] EXCEPT !.pc = "prune", !.since = 0, !.gap = 0]
      /\ \A u \in Writers \ {w} :
            writer'[u] = [writer[u] EXCEPT
                !.since = IF Composing(u) THEN @ + 1 ELSE @,
                !.gap = IF writer[u].pc = "insert" THEN @ + 1 ELSE @]
  BY DEF Insert
<1>5. /\ writer'[w].pc = "prune" /\ writer'[w].op = writer[w].op
      /\ writer'[w].doc = writer[w].doc /\ writer'[w].attempt = writer[w].attempt
      /\ writer'[w] \in Local
  <2>1. PICK l \in Local : l = writer[w]
    BY <1>0
  <2>2. PICK k : k = writer'[w]
    OBVIOUS
  <2>3. k = [l EXCEPT !.pc = "prune", !.since = 0, !.gap = 0]
    BY <1>4, <2>1, <2>2
  <2>4. /\ k \in Local /\ k.pc = "prune" /\ k.op = l.op /\ k.doc = l.doc /\ k.attempt = l.attempt
    BY <2>3 DEF Local
  <2> QED
    BY <2>1, <2>2, <2>4
<1>6. ASSUME NEW u \in Writers \ {w}
      PROVE  /\ writer'[u].pc = writer[u].pc /\ writer'[u].op = writer[u].op
             /\ writer'[u].doc = writer[u].doc /\ writer'[u].attempt = writer[u].attempt
             /\ writer'[u].number = writer[u].number
             /\ writer'[u].since = IF Composing(u) THEN writer[u].since + 1 ELSE writer[u].since
             /\ writer'[u].gap = IF writer[u].pc = "insert" THEN writer[u].gap + 1
                                 ELSE writer[u].gap
             /\ writer'[u] \in Local
  <2>1. PICK l \in Local : l = writer[u]
    BY <1>0
  <2>2. PICK k : k = writer'[u]
    OBVIOUS
  <2>3. l.since \in Nat /\ l.gap \in Nat
    BY DEF Local
  <2>4. PICK s \in Nat : s = IF Composing(u) THEN l.since + 1 ELSE l.since
    BY <2>3
  <2>5. PICK g \in Nat : g = IF l.pc = "insert" THEN l.gap + 1 ELSE l.gap
    BY <2>3
  <2>6. k = [l EXCEPT !.since = s, !.gap = g]
    BY <1>4, <2>1, <2>2, <2>4, <2>5
  <2>7. /\ k \in Local /\ k.pc = l.pc /\ k.op = l.op /\ k.doc = l.doc /\ k.number = l.number
        /\ k.attempt = l.attempt /\ k.since = s /\ k.gap = g
    BY <2>6 DEF Local
  <2> QED
    BY <2>1, <2>2, <2>4, <2>5, <2>7
<1>7. BudgetInv' /\ top' \in 0..MaxVersions /\ n \in Versions
  <2>1. Pending(writer[w]) > 0 /\ Pending(writer'[w]) = Pending(writer[w]) - 1
    BY <1>0, <1>5 DEF Pending
  <2>2. \A u \in Writers \ {w} : Pending(writer'[u]) = Pending(writer[u])
    BY <1>6 DEF Pending
  <2>3. \A u \in Writers : Pending(writer[u]) \in Nat
    BY PendingBounds
  <2>4. top + Pending(writer["command"]) + Pending(writer["pipeline"]) <= commands + 2
    BY <1>0 DEF BudgetInv
  <2>5. PICK u \in Writers \ {w} : TRUE
    BY DEF Writers
  <2>6. /\ {Pending(writer["command"]), Pending(writer["pipeline"])} \subseteq Nat
        /\ Pending(writer["command"]) + Pending(writer["pipeline"])
               = Pending(writer[w]) + Pending(writer[u])
        /\ Pending(writer'["command"]) + Pending(writer'["pipeline"])
               = Pending(writer'[w]) + Pending(writer'[u])
    <3>1. (w = "command" /\ u = "pipeline") \/ (w = "pipeline" /\ u = "command")
      BY DEF Writers
    <3>2. {Pending(writer'["command"]), Pending(writer'["pipeline"])} \subseteq Nat
      BY PendingBounds
    <3>3. {Pending(writer["command"]), Pending(writer["pipeline"])} \subseteq Nat
      BY PendingBounds
    <3> QED
      BY <3>1, <3>2, <3>3
  <2>7. commands \in Nat /\ commands <= MaxCommands
    BY <1>0, Numbers DEF TableType
  <2>8. top + Pending(writer[w]) + Pending(writer[u]) <= commands + 2
    BY <1>1, <2>3, <2>4, <2>5, <2>6, <2>7
  <2>9. top' + Pending(writer'[w]) + Pending(writer'[u]) <= commands + 2
    <3> HIDE DEF n
    <3> QED
      BY <1>1, <1>2, <2>1, <2>2, <2>3, <2>5, <2>7, <2>8
  <2>10. top' + Pending(writer'["command"]) + Pending(writer'["pipeline"]) <= commands + 2
    <3>1. {Pending(writer'["command"]), Pending(writer'["pipeline"])} \subseteq Nat
      BY PendingBounds
    <3>2. top' \in Nat
      BY <1>1, <1>2
    <3>3. {Pending(writer'[w]), Pending(writer'[u])} \subseteq Nat
      BY PendingBounds
    <3> QED
      BY <2>6, <2>7, <2>9, <3>1, <3>2, <3>3
  <2>11. top + 1 <= MaxVersions
    BY <1>1, <2>1, <2>3, <2>5, <2>7, <2>8, Numbers
  <2> HIDE DEF n
  <2> QED
    BY <1>0, <1>1, <1>2, <2>10, <2>11, Numbers DEF BudgetInv, Versions
<1>8. TableType'
  <2>1. writer[w].doc \in Configs
    BY <1>0 DEF LocalInv
  <2>2. \A v \in DOMAIN versions' : versions'[v] \in Configs
    BY <1>0, <1>3, <2>1 DEF TableType
  <2>3. DOMAIN versions' \subseteq Versions
    BY <1>0, <1>3, <1>7 DEF TableType
  <2>4. writer' \in [Writers -> Local]
    BY <1>4, <1>5, <1>6
  <2> QED
    BY <1>0, <1>7, <2>2, <2>3, <2>4 DEF TableType
<1>9. TopInv'
  <2> HIDE DEF n
  <2>1. \A v \in D : v \in Nat /\ v <= top
    BY <1>0, Numbers DEF TopInv, TableType
  <2>2. top > 0 => top \in D
    BY <1>0 DEF TopInv
  <2> HIDE DEF D
  <2> QED
    BY <1>1, <1>2, <1>3, <2>1, <2>2 DEF TopInv
<1>10. CardInv'
  <2>1. IsFiniteSet(D) /\ Cardinality(D) \in Nat
    BY <1>0, FiniteTable
  <2>2. Cardinality(D \cup {n}) = Cardinality(D) + 1
    BY <2>1, FS_AddElement
  <2>3. Pruning' = Pruning \cup {w} /\ w \notin Pruning
    BY <1>0, <1>5, <1>6 DEF Pruning
  <2>4. IsFiniteSet(Pruning) /\ Cardinality(Pruning) \in Nat
    BY FiniteWriters DEF Pruning
  <2>5. Cardinality(Pruning') = Cardinality(Pruning) + 1
    BY <2>3, <2>4, FS_AddElement
  <2> HIDE DEF D, n
  <2>6. Cardinality(D) <= KeepN + Cardinality(Pruning)
    BY <1>0 DEF CardInv, D
  <2> QED
    BY <1>3, <2>1, <2>2, <2>4, <2>5, <2>6, Numbers DEF CardInv
<1>11. ASSUME NEW u \in Writers
       PROVE  LocalInv(writer[u])'
  <2>1. LocalInv(writer[u]) /\ writer[u] \in Local
    BY <1>0
  <2>2. CASE u = w
    BY <1>0, <1>5, <2>1, <2>2 DEF LocalInv
  <2>3. CASE u # w
    <3>1. writer[u].number \in 1..(top + 1) => writer[u].number \in 1..(top' + 1)
      BY <1>1, <1>2, Numbers DEF n
    <3> QED
      BY <1>6, <2>1, <2>3, <3>1 DEF LocalInv
  <2> QED
    BY <2>2, <2>3
<1>12. ASSUME NEW u \in Writers
       PROVE  EditInv(writer[u])'
  <2>1. CASE u = w
    BY <1>5, <2>1 DEF EditInv
  <2>2. CASE u # w
    <3>1. writer[u].since \in Nat
      BY <1>0 DEF Local
    <3>2. Composing(u) => writer'[u].since # 0
      BY <1>6, <2>2, <3>1
    <3> QED
      BY <1>6, <2>2, <3>2 DEF EditInv, Composing
  <2> QED
    BY <2>1, <2>2
<1>13. ASSUME NEW u \in Writers
       PROVE  NumberInv(writer[u])'
  <2>1. CASE u = w
    BY <1>5, <2>1 DEF NumberInv
  <2>2. CASE u # w /\ writer[u].pc # "insert"
    BY <1>6, <2>2 DEF NumberInv
  <2>3. CASE u # w /\ writer[u].pc = "insert"
    <3> DEFINE k == writer[u].number
               g == writer[u].gap
    <3>1. k \in Nat /\ g \in Nat /\ writer'[u].number = k /\ writer'[u].gap = g + 1 /\ k <= MaxVersions
      BY <1>0, <1>6, <2>3, Numbers DEF Local
    <3>2. \A v \in D : v \in Nat /\ v <= top
      BY <1>0, Numbers DEF TopInv, TableType
    <3>3. Above(k) \subseteq D /\ IsFiniteSet(Above(k)) /\ Cardinality(Above(k)) \in Nat
      BY <1>0, FiniteTable DEF Above
    <3>4. {v \in D \cup {n} : v > k} \in {Above(k), Above(k) \cup {n}}
      <4>1. {v \in D \cup {n} : v > k} = IF n > k THEN Above(k) \cup {n} ELSE Above(k)
        BY DEF Above
      <4> HIDE DEF k, n, D
      <4> QED
        BY <4>1
    <3>5. Cardinality({v \in D \cup {n} : v > k}) <= Cardinality(Above(k)) + 1
      <4>1. PICK A, B : A = Above(k) /\ B = {v \in D \cup {n} : v > k}
        OBVIOUS
      <4>2. Cardinality(A \cup {n}) <= Cardinality(A) + 1 /\ Cardinality(A) \in Nat
        BY <3>3, <4>1, OneMore
      <4>3. B = A \/ B = A \cup {n}
        BY <3>4, <4>1
      <4>4. Cardinality(B) <= Cardinality(A) + 1
        BY <4>2, <4>3
      <4> QED
        BY <4>1, <4>4
    <3>6. \/ k > top
          \/ k \in D /\ Cardinality(Above(k)) < g
          \/ g > KeepN
      BY <1>0, <2>3 DEF NumberInv
    <3>7. Cardinality({v \in D \cup {n} : v > k}) \in Nat
      <4>1. {v \in D \cup {n} : v > k} \subseteq D \cup {n} /\ IsFiniteSet(D \cup {n})
        BY <1>0, FiniteTable, FS_AddElement
      <4> HIDE DEF D, n, k
      <4>2. IsFiniteSet({v \in D \cup {n} : v > k})
        BY <4>1, FS_Subset
      <4> QED
        BY <4>2, FS_CardinalityType
    <3>8. \/ k > top'
          \/ k \in D \cup {n} /\ Cardinality({v \in D \cup {n} : v > k}) < g + 1
          \/ g + 1 > KeepN
      <4>1. CASE k > top /\ n < k
        <5> HIDE DEF n, k
        <5> QED
          BY <1>1, <1>2, <3>1, <4>1
      <4>2. CASE k > top /\ n = k
        <5>1. {v \in D \cup {n} : v > k} = {}
          BY <1>1, <3>1, <3>2, <4>2
        <5>2. Cardinality({v \in D \cup {n} : v > k}) = 0
          BY <5>1, FS_EmptySet
        <5> HIDE DEF n, k
        <5> QED
          BY <3>1, <4>2, <5>2
      <4>3. CASE k \in D /\ Cardinality(Above(k)) < g
        <5> HIDE DEF n, k, D
        <5> QED
          BY <3>1, <3>3, <3>5, <3>7, <4>3
      <4>4. CASE g > KeepN
        BY <3>1, <4>4, Numbers
      <4>5. k > top => n < k \/ n = k
        <5> HIDE DEF n, k
        <5> QED
          BY <1>1, <3>1
      <4> QED
        BY <3>6, <4>1, <4>2, <4>3, <4>4, <4>5
    <3>9. Above(k)' = {v \in D \cup {n} : v > writer'[u].number}
      BY <1>3, <3>1 DEF Above
    <3> QED
      BY <1>3, <1>6, <2>3, <3>1, <3>8 DEF NumberInv, Above
  <2> QED
    BY <2>1, <2>2, <2>3
<1> QED
  BY <1>7, <1>8, <1>9, <1>10, <1>11, <1>12, <1>13 DEF TableInv

\* PruneGosutoVersions, for the versions alone: at most KeepN are kept, the highest among
\* them, and a number that goes has KeepN others above it.
LEMMA Prunes ==
    ASSUME TableType, TopInv, NEW vs, vs = PruneGosutoVersions(versions)
    PROVE  /\ DOMAIN vs \subseteq DOMAIN versions
           /\ \A v \in DOMAIN vs : vs[v] = versions[v]
           /\ \A v \in DOMAIN versions : v \in DOMAIN vs <=> Cardinality(Above(v)) < KeepN
           /\ top > 0 => top \in DOMAIN vs
           /\ Cardinality(DOMAIN vs) <= KeepN
<1> DEFINE D == DOMAIN versions
<1>1. /\ DOMAIN vs = {n \in D : Cardinality(Above(n)) < KeepN}
      /\ \A v \in DOMAIN vs : vs[v] = versions[v]
  BY DEF PruneGosutoVersions, Above
<1>2. top > 0 => top \in DOMAIN vs
  <2>1. Above(top) = {}
    <3>1. \A v \in D : v <= top /\ v \in Nat
      BY Numbers DEF TopInv, TableType
    <3>2. top \in Nat
      BY Numbers DEF TableType
    <3> QED
      BY <3>1, <3>2 DEF Above
  <2>2. Cardinality(Above(top)) = 0
    BY <2>1, FS_EmptySet
  <2>3. Cardinality(Above(top)) < KeepN
    BY <2>2, Numbers
  <2> QED
    BY <1>1, <2>3 DEF TopInv
<1>3. Cardinality(DOMAIN vs) <= KeepN
  <2>1. IsFiniteSet(D) /\ D \subseteq Nat
    BY FiniteTable, Numbers DEF TableType
  <2>2. \A n \in DOMAIN vs : Cardinality({m \in D : m > n}) < KeepN
    BY <1>1 DEF Above
  <2>3. DOMAIN vs \subseteq D
    BY <1>1
  <2>4. PICK P : P = DOMAIN vs
    OBVIOUS
  <2>5. PICK E : E = D
    OBVIOUS
  <2>6. IsFiniteSet(E) /\ E \subseteq Nat /\ P \subseteq E
    BY <2>1, <2>3, <2>4, <2>5
  <2>7. \A n \in P : Cardinality({m \in E : m > n}) < KeepN
    BY <2>2, <2>4, <2>5
  <2>8. Cardinality(P) <= KeepN
    BY <2>6, <2>7, PruneBound
  <2> QED
    BY <2>4, <2>8
<1> QED
  BY <1>1, <1>2, <1>3

\* A writer prunes and goes on.
LEMMA WriterPrunes ==
    ASSUME TableInv, NEW w \in Writers, NEW new \in Local, writer[w].pc = "prune",
           writer' = [writer EXCEPT ![w] = new], versions' = PruneGosutoVersions(versions),
           UNCHANGED <<top, commands>>, Pending(new) <= Pending(writer[w]),
           LocalInv(new), new.pc \in {"push", "idle"}
    PROVE  TableInv'
<1>0. /\ TableType /\ TopInv /\ BudgetInv /\ CardInv
      /\ \A u \in Writers : LocalInv(writer[u]) /\ NumberInv(writer[u]) /\ EditInv(writer[u])
  BY DEF TableInv
<1>1. PICK vs : vs = PruneGosutoVersions(versions)
  OBVIOUS
<1>2. /\ DOMAIN vs \subseteq DOMAIN versions
      /\ \A v \in DOMAIN vs : vs[v] = versions[v]
      /\ \A v \in DOMAIN versions : v \in DOMAIN vs <=> Cardinality(Above(v)) < KeepN
      /\ top > 0 => top \in DOMAIN vs
      /\ Cardinality(DOMAIN vs) <= KeepN
  BY <1>0, <1>1, Prunes
<1>3. versions' = vs
  BY <1>1
<1>4. writer'[w] = new /\ \A u \in Writers \ {w} : writer'[u] = writer[u]
  BY <1>0 DEF TableType
<1>5. TableType'
  BY <1>0, <1>2, <1>3 DEF TableType
<1>6. TopInv'
  BY <1>0, <1>2, <1>3 DEF TopInv
<1>7. BudgetInv'
  <2>1. /\ Pending(new) \in Nat /\ Pending(writer["command"]) \in Nat
        /\ Pending(writer["pipeline"]) \in Nat
    BY PendingBounds
  <2>2. top \in Nat /\ commands \in Nat
    BY <1>0, Numbers DEF TableType
  <2>3. CASE w = "command"
    <3>1. writer'["command"] = new /\ writer'["pipeline"] = writer["pipeline"]
      BY <1>4, <2>3 DEF Writers
    <3> QED
      BY <1>0, <2>1, <2>2, <2>3, <3>1 DEF BudgetInv
  <2>4. CASE w = "pipeline"
    <3>1. writer'["pipeline"] = new /\ writer'["command"] = writer["command"]
      BY <1>4, <2>4 DEF Writers
    <3> QED
      BY <1>0, <2>1, <2>2, <2>4, <3>1 DEF BudgetInv
  <2> QED
    BY <2>3, <2>4 DEF Writers
<1>8. CardInv'
  <2>1. Cardinality(Pruning') \in Nat
    BY FiniteWriters DEF Pruning
  <2>2. Cardinality(DOMAIN versions') \in Nat
    BY <1>0, <1>2, <1>3, FiniteTable
  <2> QED
    BY <1>2, <1>3, <2>1, <2>2, Numbers DEF CardInv
<1>9. ASSUME NEW u \in Writers PROVE LocalInv(writer[u])'
  BY <1>0, <1>4 DEF LocalInv
<1>10. ASSUME NEW u \in Writers PROVE EditInv(writer[u])'
  <2>1. CASE u = w
    BY <1>4, <2>1 DEF EditInv
  <2>2. CASE u # w
    BY <1>0, <1>2, <1>3, <1>4, <2>2 DEF EditInv
  <2> QED
    BY <2>1, <2>2
<1>11. ASSUME NEW u \in Writers PROVE NumberInv(writer[u])'
  <2>1. CASE u = w
    BY <1>4, <2>1 DEF NumberInv
  <2>2. CASE u # w /\ writer[u].pc # "insert"
    BY <1>4, <2>2 DEF NumberInv
  <2>3. CASE u # w /\ writer[u].pc = "insert"
    <3>1. PICK k, g : k = writer[u].number /\ g = writer[u].gap
      OBVIOUS
    <3>2. writer[u] \in Local /\ writer'[u] = writer[u]
      BY <1>0, <1>4, <2>3 DEF TableType
    <3>3. g \in Nat /\ k \in Nat
      BY <3>1, <3>2, Numbers DEF Local
    <3>4. \/ k > top
          \/ k \in DOMAIN versions /\ Cardinality(Above(k)) < g
          \/ g > KeepN
      BY <1>0, <2>3, <3>1 DEF NumberInv
    <3>5. Above(k)' \subseteq Above(k)
      BY <1>2, <1>3 DEF Above
    <3>6. Above(k) \subseteq DOMAIN versions
      BY DEF Above
    <3>7. /\ IsFiniteSet(Above(k)) /\ Cardinality(Above(k)) \in Nat
      BY <1>0, <3>6, FiniteTable
    <3>8. Cardinality(Above(k)') <= Cardinality(Above(k)) /\ IsFiniteSet(Above(k)')
      BY <3>5, <3>7, FS_Subset
    <3>9. Cardinality(Above(k)') \in Nat
      BY <3>8, FS_CardinalityType
    <3>10. CASE k \in DOMAIN versions /\ Cardinality(Above(k)) < g
      <4>1. CASE k \in DOMAIN versions'
        <5>1. Cardinality(Above(k)') < g
          BY <3>3, <3>7, <3>8, <3>9, <3>10
        <5>2. Cardinality(Above(k)') = Cardinality(Above(k))'
          OBVIOUS
        <5> QED
          BY <3>1, <3>2, <4>1, <5>1 DEF NumberInv
      <4>2. CASE k \notin DOMAIN versions'
        <5>1. ~(Cardinality(Above(k)) < KeepN)
          BY <1>2, <1>3, <3>10, <4>2
        <5>2. g > KeepN
          BY <3>3, <3>7, <3>10, <5>1, Numbers
        <5> QED
          BY <3>1, <3>2, <5>2 DEF NumberInv
      <4> QED
        BY <4>1, <4>2
    <3>11. CASE k > top \/ g > KeepN
      BY <3>1, <3>2, <3>11 DEF NumberInv
    <3> QED
      BY <3>4, <3>10, <3>11
  <2> QED
    BY <2>1, <2>2, <2>3
<1> QED
  BY <1>5, <1>6, <1>7, <1>8, <1>9, <1>10, <1>11 DEF TableInv

LEMMA IdleFacts ==
    /\ Idle \in Local /\ LocalInv(Idle) /\ NumberInv(Idle) /\ EditInv(Idle)
    /\ Pending(Idle) = 0 /\ Idle.pc = "idle"
<1>1. Idle \in Local
  BY GosutoAssumption, Numbers DEF Idle, Local
<1> QED
  BY <1>1, Numbers DEF Idle, LocalInv, NumberInv, EditInv, Pending

\* A local state that starts a command or a push.
LEMMA StartFacts ==
    ASSUME NEW pc \in {"next", "push"}, NEW op \in {"set", "patch", "push"},
           NEW s \in Sections, NEW doc \in Configs, NEW push \in BOOLEAN, NEW l,
           l = [pc |-> pc, op |-> op, section |-> s, doc |-> doc, number |-> 0,
                push |-> push, attempt |-> 0, call |-> 0, since |-> 0, gap |-> 0],
           op = "patch" /\ pc = "next" =>
               top > 0 /\ \A t \in Sections \ {s} : doc[t] = versions[top][t]
    PROVE  /\ l \in Local /\ LocalInv(l) /\ NumberInv(l) /\ EditInv(l)
           /\ Pending(l) = IF pc = "push" THEN 0 ELSE 1
           /\ l.pc = pc
<1>1. 0 \in 0..MaxVersions /\ 0 \in 0..MaxAttempts /\ 0 \in 0..MaxCalls /\ 0 \in Nat
  BY Numbers
<1>2. l \in Local
  BY <1>1 DEF Local
<1>3. /\ l.pc = pc /\ l.op = op /\ l.section = s /\ l.doc = doc /\ l.attempt = 0
  OBVIOUS
<1>4. LocalInv(l) /\ NumberInv(l)
  BY <1>3, Numbers DEF LocalInv, NumberInv
<1>5. EditInv(l)
  BY <1>3 DEF EditInv
<1> QED
  BY <1>2, <1>3, <1>4, <1>5 DEF Pending

LEMMA PushingFacts ==
    ASSUME NEW doc \in Configs, NEW l, l = Pushing(doc)
    PROVE  /\ l \in Local /\ LocalInv(l) /\ NumberInv(l) /\ EditInv(l)
           /\ Pending(l) = 0 /\ l.pc = "push"
<1>0. PICK no \in BOOLEAN : no = FALSE
  OBVIOUS
<1>1. l = [pc |-> "push", op |-> "push", section |-> Topology, doc |-> doc, number |-> 0,
           push |-> no, attempt |-> 0, call |-> 0, since |-> 0, gap |-> 0]
  BY <1>0 DEF Pushing, Idle
<1>2. Topology \in Sections
  BY GosutoAssumption
<1> QED
  BY <1>1, <1>2, StartFacts

\* Set: the document is about to be compared with the latest version.
LEMMA SetFacts ==
    ASSUME NEW doc \in Configs, NEW l, l = [Idle EXCEPT !.op = "set", !.pc = "latest", !.doc = doc]
    PROVE  /\ l \in Local /\ LocalInv(l) /\ NumberInv(l) /\ EditInv(l)
           /\ Pending(l) = 1 /\ l.pc = "latest"
<1>1. /\ l \in Local /\ l.pc = "latest" /\ l.op = "set" /\ l.doc = doc /\ l.attempt = 0
  <2>1. Idle \in Local
    BY IdleFacts
  <2>2. l \in Local /\ l.pc = "latest" /\ l.op = "set" /\ l.doc = doc /\ l.attempt = Idle.attempt
    BY <2>1 DEF Local
  <2> QED
    BY <2>2 DEF Idle
<1> QED
  BY <1>1, Numbers DEF LocalInv, NumberInv, EditInv, Pending

\* Edit: the changed document is about to be stored, and agrees with the latest version
\* outside its section.
LEMMA EditFacts ==
    ASSUME TableInv, Stored, NEW w \in Writers, NEW s \in Sections, NEW x \in Values,
           NEW push \in BOOLEAN, Edit(w, s, x, push)
    PROVE  \E l \in Local : /\ writer' = [writer EXCEPT ![w] = l]
                            /\ LocalInv(l) /\ NumberInv(l) /\ EditInv(l)
                            /\ Pending(l) <= 1 /\ l.pc # "prune"
<1>0. /\ Latest = top /\ versions[top] \in Configs /\ top > 0
  BY LatestIsTop DEF TableInv
<1>1. PICK d : d = [versions[top] EXCEPT ![s] = x]
  OBVIOUS
<1>2. d \in Configs /\ \A t \in Sections \ {s} : d[t] = versions[top][t]
  BY <1>0, <1>1 DEF Configs
<1>3. CASE d # versions[top]
  <2>1. PICK l : l = [Idle EXCEPT !.op = "patch", !.pc = "next", !.section = s, !.doc = d,
                                  !.push = push]
    OBVIOUS
  <2>2. writer' = [writer EXCEPT ![w] = l]
    BY <1>0, <1>1, <1>3, <2>1 DEF Edit, Become
  <2>3. l = [pc |-> "next", op |-> "patch", section |-> s, doc |-> d, number |-> 0,
             push |-> push, attempt |-> 0, call |-> 0, since |-> 0, gap |-> 0]
    BY <2>1 DEF Idle
  <2>4. /\ l \in Local /\ LocalInv(l) /\ NumberInv(l) /\ EditInv(l)
        /\ Pending(l) = 1 /\ l.pc = "next"
    BY <1>0, <1>2, <2>3, StartFacts
  <2>5. Pending(l) <= 1 /\ l.pc # "prune"
    BY <2>4
  <2> QED
    BY <2>2, <2>4, <2>5
<1>4. CASE d = versions[top]
  <2>1. PICK l : l = IF push THEN Pushing(d) ELSE Idle
    OBVIOUS
  <2>2. writer' = [writer EXCEPT ![w] = l]
    BY <1>0, <1>1, <1>4, <2>1 DEF Edit, Become
  <2>3. /\ l \in Local /\ LocalInv(l) /\ NumberInv(l) /\ EditInv(l)
        /\ Pending(l) = 0 /\ l.pc # "prune"
    BY <1>2, <2>1, PushingFacts, IdleFacts
  <2>4. Pending(l) <= 1
    BY <2>3
  <2> QED
    BY <2>2, <2>3, <2>4
<1> QED
  BY <1>3, <1>4

\* A writer that keeps its document and its edit and goes on to another step.
LEMMA WriterAdvances ==
    ASSUME TableInv, NEW w \in Writers, NEW l \in Local, NEW new \in Local, l = writer[w],
           writer' = [writer EXCEPT ![w] = new], UNCHANGED <<versions, top, commands>>,
           new.op = l.op, new.section = l.section, new.doc = l.doc, new.since = l.since,
           l.pc \notin {"idle", "render", "prune"}, new.pc \notin {"idle", "render", "prune"},
           new.pc \in {"next", "insert"} => l.pc \in {"latest", "next", "insert"},
           new.pc \in {"next", "insert"} /\ l.op = "patch" => l.pc \in {"next", "insert"},
           new.pc # "latest",
           new.pc = "insert" => new.number = top + 1,
           new.pc # "wait" => new.attempt < MaxAttempts,
           new.pc \in {"applied", "verify", "actual", "ensure"} => l.op = "provision"
    PROVE  TableInv'
<1>1. LocalInv(l) /\ NumberInv(l) /\ EditInv(l) /\ top \in Nat
  BY Numbers DEF TableInv, TableType
<1>2. LocalInv(new)
  BY <1>1, Numbers DEF LocalInv
<1>3. NumberInv(new)
  BY <1>1 DEF NumberInv
<1>4. EditInv(new)
  BY <1>1 DEF EditInv
<1>5. Pending(new) <= Pending(l)
  BY DEF Pending
<1>6. commands \in Nat /\ commands' = commands /\ commands' \in 0..MaxCommands
  BY Numbers DEF TableInv, TableType
<1>7. Pending(new) + commands <= Pending(writer[w]) + commands'
  BY <1>5, <1>6, PendingBounds
<1>8. writer[w].pc # "prune" /\ new.pc # "prune"
  OBVIOUS
<1> QED
  BY <1>2, <1>3, <1>4, <1>6, <1>7, <1>8, WriterMoves

\* A writer that ends.
LEMMA WriterEnds ==
    ASSUME TableInv, NEW w \in Writers, Become(w, Idle), UNCHANGED <<versions, top, commands>>,
           writer[w].pc # "prune"
    PROVE  TableInv'
<1>1. PICK new \in Local : new = Idle
  BY IdleFacts
<1>2. /\ LocalInv(new) /\ NumberInv(new) /\ EditInv(new) /\ Pending(new) = 0 /\ new.pc # "prune"
  BY <1>1, IdleFacts
<1>3. commands \in Nat /\ commands' = commands /\ commands' \in 0..MaxCommands
  BY Numbers DEF TableInv, TableType
<1>4. Pending(new) + commands <= Pending(writer[w]) + commands'
  BY <1>2, <1>3, PendingBounds
<1>5. writer' = [writer EXCEPT ![w] = new]
  BY <1>1 DEF Become
<1> QED
  BY <1>2, <1>3, <1>4, <1>5, WriterMoves

LEMMA TableUnchanged ==
    ASSUME TableInv, UNCHANGED <<versions, writer, commands, top>>
    PROVE  TableInv'
<1>1. (TableType /\ TopInv /\ BudgetInv /\ CardInv)'
  BY DEF TableInv, TableType, TopInv, BudgetInv, CardInv, Pruning, Pending
<1>2. ASSUME NEW u \in Writers
      PROVE  (LocalInv(writer[u]) /\ NumberInv(writer[u]) /\ EditInv(writer[u]))'
  BY DEF TableInv, LocalInv, NumberInv, EditInv, Above
<1> QED
  BY <1>1, <1>2 DEF TableInv

\* A command is accepted.
LEMMA AcceptFacts ==
    ASSUME TableInv, Accept, UNCHANGED <<versions, top>>, NEW new \in Local,
           writer' = [writer EXCEPT !["command"] = new],
           LocalInv(new), NumberInv(new), EditInv(new), Pending(new) <= 1, new.pc # "prune"
    PROVE  TableInv'
<1>1. commands \in Nat /\ commands' = commands + 1 /\ commands' \in 0..MaxCommands
  BY Numbers DEF TableInv, TableType, Accept
<1>2. /\ Pending(new) + commands <= Pending(writer["command"]) + commands'
      /\ writer["command"].pc # "prune" /\ "command" \in Writers
  BY <1>1, PendingBounds DEF Accept, Writers
<1> QED
  BY <1>1, <1>2, WriterMoves

LEMMA CommandSteps ==
    ASSUME TableInv,
           \/ \E doc \in Documents : Set(doc)
           \/ \E v \in Versions : Rollback(v)
           \/ \E s \in Sections, x \in Values : Patch(s, x)
           \/ \E x \in Values, push \in BOOLEAN : EditTopology(x, push)
           \/ Push
    PROVE  TableInv'
<1>1. ASSUME NEW doc \in Configs, Set(doc) PROVE TableInv'
  <2>1. PICK l : l = [Idle EXCEPT !.op = "set", !.pc = "latest", !.doc = doc]
    OBVIOUS
  <2>2. /\ l \in Local /\ LocalInv(l) /\ NumberInv(l) /\ EditInv(l)
        /\ Pending(l) = 1 /\ l.pc = "latest"
    BY <2>1, SetFacts
  <2>3. Accept /\ UNCHANGED <<versions, top>> /\ writer' = [writer EXCEPT !["command"] = l]
    BY <1>1, <2>1 DEF Set, Become
  <2>4. Pending(l) <= 1 /\ l.pc # "prune"
    BY <2>2
  <2> QED
    BY <2>2, <2>3, <2>4, AcceptFacts
<1>2. \A doc \in Documents : doc \in Configs
  BY GosutoAssumption DEF Configs
<1>3. ASSUME NEW v \in Versions, Rollback(v) PROVE TableInv'
  <2>1. PICK doc : doc = versions[v]
    OBVIOUS
  <2>2. doc \in Configs /\ Set(doc)
    BY <1>3, <2>1 DEF Rollback, TableInv, TableType
  <2> QED
    BY <1>1, <2>2
<1>4. ASSUME NEW s \in Sections, NEW x \in Values, NEW push \in BOOLEAN,
             Accept, Stored, Edit("command", s, x, push), UNCHANGED <<versions, top>>
      PROVE  TableInv'
  <2>1. "command" \in Writers
    BY DEF Writers
  <2>2. PICK l \in Local : /\ writer' = [writer EXCEPT !["command"] = l]
                           /\ LocalInv(l) /\ NumberInv(l) /\ EditInv(l)
                           /\ Pending(l) <= 1 /\ l.pc # "prune"
    BY <1>4, <2>1, EditFacts
  <2> QED
    BY <1>4, <2>2, AcceptFacts
<1>5. ASSUME NEW s \in Sections, NEW x \in Values, Patch(s, x) PROVE TableInv'
  <2>1. PICK no \in BOOLEAN : no = FALSE
    OBVIOUS
  <2>2. Accept /\ Stored /\ Edit("command", s, x, no) /\ UNCHANGED <<versions, top>>
    BY <1>5, <2>1 DEF Patch
  <2> QED
    BY <1>4, <2>2
<1>6. ASSUME NEW x \in Values, NEW push \in BOOLEAN, EditTopology(x, push) PROVE TableInv'
  <2>1. Topology \in Sections
    BY GosutoAssumption
  <2>2. Accept /\ Stored /\ Edit("command", Topology, x, push) /\ UNCHANGED <<versions, top>>
    BY <1>6 DEF EditTopology
  <2> QED
    BY <1>4, <2>1, <2>2
<1>7. CASE Push
  <2>1. PICK doc : doc = versions[Latest]
    OBVIOUS
  <2>2. doc \in Configs
    BY <1>7, <2>1, LatestIsTop DEF Push, TableInv
  <2>3. PICK l : l = Pushing(doc)
    OBVIOUS
  <2>4. /\ l \in Local /\ LocalInv(l) /\ NumberInv(l) /\ EditInv(l)
        /\ Pending(l) = 0 /\ l.pc = "push"
    BY <2>2, <2>3, PushingFacts
  <2>5. Accept /\ UNCHANGED <<versions, top>> /\ writer' = [writer EXCEPT !["command"] = l]
    BY <1>7, <2>1, <2>3 DEF Push, Become
  <2>6. Pending(l) <= 1 /\ l.pc # "prune"
    BY <2>4
  <2> QED
    BY <2>4, <2>5, <2>6, AcceptFacts
<1> QED
  BY <1>1, <1>2, <1>3, <1>5, <1>6, <1>7

LEMMA WriterSteps ==
    ASSUME TableInv, NEW w \in Writers, WriterStep(w)
    PROVE  TableInv'
<1>0. PICK l \in Local : l = writer[w]
  BY DEF TableInv, TableType
<1>1. /\ l.number \in 0..MaxVersions /\ l.attempt \in 0..MaxAttempts /\ l.call \in 0..MaxCalls
      /\ l.gap \in Nat /\ LocalInv(l) /\ TableType /\ TopInv
  BY <1>0 DEF Local, TableInv
<1>2. CASE CompareLatest(w)
  <2>1. l.pc = "latest" /\ UNCHANGED <<versions, top, commands>>
    BY <1>0, <1>2 DEF CompareLatest, Step
  <2>2. CASE Become(w, Idle)
    BY <1>0, <2>1, <2>2, WriterEnds
  <2>3. CASE Stored /\ writer' = [writer EXCEPT ![w].pc = "push", ![w].number = Latest]
    <3>1. PICK new : new = [l EXCEPT !.pc = "push", !.number = Latest]
      OBVIOUS
    <3>2. writer' = [writer EXCEPT ![w] = new]
      BY <1>0, <2>3, <3>1
    <3>3. Latest \in 0..MaxVersions
      BY <1>1, <2>3, LatestIsTop DEF TableType
    <3>4. /\ new \in Local /\ new.pc = "push" /\ new.op = l.op /\ new.section = l.section
          /\ new.doc = l.doc /\ new.since = l.since /\ new.attempt = l.attempt
      BY <1>1, <3>1, <3>3 DEF Local
    <3>5. new.attempt < MaxAttempts
      BY <1>1, <2>1, <3>4 DEF LocalInv
    <3> QED
      BY <1>0, <2>1, <3>2, <3>4, <3>5, WriterAdvances
  <2>4. CASE Step(w, "latest", "next")
    <3>1. PICK new : new = [l EXCEPT !.pc = "next"]
      OBVIOUS
    <3>2. writer' = [writer EXCEPT ![w] = new]
      BY <1>0, <2>4, <3>1 DEF Step
    <3>3. /\ new \in Local /\ new.pc = "next" /\ new.op = l.op /\ new.section = l.section
          /\ new.doc = l.doc /\ new.since = l.since /\ new.attempt = l.attempt
      BY <3>1 DEF Local
    <3>4. new.attempt < MaxAttempts
      BY <1>1, <2>1, <3>3 DEF LocalInv
    <3>5. l.op # "patch"
      BY <1>1, <2>1 DEF LocalInv
    <3> QED
      BY <1>0, <2>1, <3>2, <3>3, <3>4, <3>5, WriterAdvances
  <2> QED
    BY <1>2, <2>2, <2>3, <2>4 DEF CompareLatest
<1>3. CASE ReadNext(w)
  <2>1. l.pc = "next" /\ UNCHANGED <<versions, top, commands>>
    BY <1>0, <1>3 DEF ReadNext
  <2>2. PICK new : new = [l EXCEPT !.pc = "insert", !.number = NextGosutoVersion, !.gap = 0]
    OBVIOUS
  <2>3. writer' = [writer EXCEPT ![w] = new]
    BY <1>0, <1>3, <2>2 DEF ReadNext
  <2>4. NextGosutoVersion = top + 1
    BY <1>1, LatestIsTop
  <2>5. top + 1 \in 0..MaxVersions
    <3>1. /\ Pending(writer["command"]) \in Nat /\ Pending(writer["pipeline"]) \in Nat
          /\ top \in Nat /\ commands \in Nat /\ commands <= MaxCommands
      BY <1>1, PendingBounds, Numbers DEF TableType
    <3>2. Pending(writer["command"]) > 0 \/ Pending(writer["pipeline"]) > 0
      BY <1>0, <2>1 DEF Pending, Writers
    <3> QED
      BY <3>1, <3>2, Numbers DEF TableInv, BudgetInv
  <2>6. /\ new \in Local /\ new.pc = "insert" /\ new.op = l.op /\ new.section = l.section
        /\ new.doc = l.doc /\ new.since = l.since /\ new.attempt = l.attempt
        /\ new.number = top + 1
    BY <2>2, <2>4, <2>5 DEF Local
  <2>7. new.attempt < MaxAttempts
    BY <1>1, <2>1, <2>6 DEF LocalInv
  <2> QED
    BY <1>0, <2>1, <2>3, <2>6, <2>7, WriterAdvances
<1>4. CASE Insert(w)
  <2>1. CASE writer[w].number \notin DOMAIN versions
    BY <1>4, <2>1, Stores
  <2>2. CASE writer[w].number \in DOMAIN versions
    <3>1. Become(w, Idle) /\ UNCHANGED <<versions, top, commands>> /\ writer[w].pc = "insert"
      BY <1>4, <2>2 DEF Insert
    <3> QED
      BY <3>1, WriterEnds
  <2> QED
    BY <2>1, <2>2
<1>5. CASE Prune(w)
  <2>1. /\ writer[w].pc = "prune" /\ versions' = PruneGosutoVersions(versions)
        /\ UNCHANGED <<top, commands>> /\ l.doc \in Configs /\ l.attempt < MaxAttempts
    BY <1>0, <1>1, <1>5 DEF Prune, LocalInv
  <2>2. CASE l.op = "provision"
    <3>1. PICK new : new = [l EXCEPT !.pc = "push"]
      OBVIOUS
    <3>2. writer' = [writer EXCEPT ![w] = new]
      BY <1>0, <1>5, <2>2, <3>1 DEF Prune, Step
    <3>3. /\ new \in Local /\ new.pc = "push" /\ new.op = l.op /\ new.doc = l.doc
          /\ new.attempt = l.attempt
      BY <3>1 DEF Local
    <3>4. LocalInv(new)
      BY <2>1, <3>3 DEF LocalInv
    <3>5. Pending(new) <= Pending(l)
      BY <2>2, <3>3 DEF Pending
    <3> QED
      BY <1>0, <2>1, <3>2, <3>3, <3>4, <3>5, WriterPrunes
  <2>3. CASE l.op # "provision"
    <3>1. PICK doc \in Configs : doc = l.doc
      BY <2>1
    <3>2. PICK p, i : p = Pushing(doc) /\ i = Idle
      OBVIOUS
    <3>3. PICK new \in {p, i} : writer' = [writer EXCEPT ![w] = new]
      BY <1>0, <1>5, <2>3, <3>1, <3>2 DEF Prune, Become
    <3>4. /\ p \in Local /\ LocalInv(p) /\ Pending(p) = 0 /\ p.pc = "push"
          /\ i \in Local /\ LocalInv(i) /\ Pending(i) = 0 /\ i.pc = "idle"
      BY <3>2, IdleFacts, PushingFacts
    <3>5. new \in Local /\ LocalInv(new) /\ Pending(new) = 0 /\ new.pc \in {"push", "idle"}
      BY <3>3, <3>4
    <3>6. Pending(new) <= Pending(writer[w])
      BY <3>5, PendingBounds
    <3> QED
      BY <2>1, <3>3, <3>5, <3>6, WriterPrunes
  <2> QED
    BY <2>2, <2>3
<1>6. CASE Send(w)
  <2>1. l.pc = "push" /\ UNCHANGED <<versions, top, commands>>
    BY <1>0, <1>6 DEF Send
  <2>2. PICK c \in 0..MaxCalls :
            writer' = [writer EXCEPT ![w].pc = "wait", ![w].attempt = @ + 1, ![w].call = c]
    <3> DEFINE free == {c \in Calls : call[c].pc = "none"}
    <3>1. free # {} => Min(free) \in 0..MaxCalls
      <4>1. free \subseteq Calls /\ Calls \subseteq 0..MaxCalls /\ Calls \subseteq Nat
        BY Numbers DEF Calls
      <4> HIDE DEF free
      <4> QED
        BY <4>1, LeastNumber
    <3>2. 0 \in 0..MaxCalls
      BY Numbers
    <3> QED
      BY <1>6, <3>1, <3>2 DEF Send
  <2>3. PICK new : new = [l EXCEPT !.pc = "wait", !.attempt = l.attempt + 1, !.call = c]
    OBVIOUS
  <2>4. writer' = [writer EXCEPT ![w] = new]
    BY <1>0, <2>2, <2>3
  <2>5. l.attempt + 1 \in 0..MaxAttempts
    BY <1>1, <2>1, Numbers DEF LocalInv
  <2>6. /\ new \in Local /\ new.pc = "wait" /\ new.op = l.op /\ new.section = l.section
        /\ new.doc = l.doc /\ new.since = l.since
    BY <2>3, <2>5 DEF Local
  <2> QED
    BY <1>0, <2>1, <2>4, <2>6, WriterAdvances
<1>7. CASE Answered(w)
  <2>1. l.pc = "wait" /\ UNCHANGED <<versions, top, commands>>
    BY <1>0, <1>7 DEF Answered, Waiting
  <2>2. PICK pc \in {"applied", "desired"} : pc = IF l.op = "provision" THEN "applied" ELSE "desired"
    OBVIOUS
  <2>3. PICK new : new = [l EXCEPT !.attempt = 0, !.call = 0, !.pc = pc]
    OBVIOUS
  <2>4. writer' = [writer EXCEPT ![w] = new]
    BY <1>0, <1>7, <2>2, <2>3 DEF Answered
  <2>5. 0 \in 0..MaxAttempts /\ 0 \in 0..MaxCalls /\ 0 < MaxAttempts
    BY Numbers
  <2>6. /\ new \in Local /\ new.pc = pc /\ new.op = l.op /\ new.section = l.section
        /\ new.doc = l.doc /\ new.since = l.since /\ new.attempt = 0
    BY <2>3, <2>5 DEF Local
  <2> QED
    BY <1>0, <2>1, <2>2, <2>4, <2>5, <2>6, WriterAdvances
<1>8. CASE AttemptFailed(w)
  <2>1. l.pc = "wait" /\ UNCHANGED <<versions, top, commands>>
    BY <1>0, <1>8 DEF AttemptFailed
  <2>2. CASE l.attempt < MaxAttempts
    <3>1. PICK new : new = [l EXCEPT !.pc = "push", !.call = 0]
      OBVIOUS
    <3>2. writer' = [writer EXCEPT ![w] = new]
      BY <1>0, <1>8, <2>2, <3>1 DEF AttemptFailed
    <3>3. 0 \in 0..MaxCalls
      BY Numbers
    <3>4. /\ new \in Local /\ new.pc = "push" /\ new.op = l.op /\ new.section = l.section
          /\ new.doc = l.doc /\ new.since = l.since /\ new.attempt = l.attempt
      BY <3>1, <3>3 DEF Local
    <3> QED
      BY <1>0, <2>1, <2>2, <3>2, <3>4, WriterAdvances
  <2>3. CASE ~(l.attempt < MaxAttempts)
    <3>1. Become(w, Idle) /\ writer[w].pc # "prune"
      BY <1>0, <1>8, <2>1, <2>3 DEF AttemptFailed
    <3> QED
      BY <2>1, <3>1, WriterEnds
  <2> QED
    BY <2>2, <2>3
<1>9. CASE RecordDesired(w)
  <2>1. l.pc = "desired" /\ UNCHANGED <<versions, top, commands>>
    BY <1>0, <1>9 DEF RecordDesired
  <2>2. CASE l.op = "provision"
    <3>1. PICK new : new = [l EXCEPT !.pc = "verify"]
      OBVIOUS
    <3>2. writer' = [writer EXCEPT ![w] = new]
      BY <1>0, <1>9, <2>2, <3>1 DEF RecordDesired, Step
    <3>3. /\ new \in Local /\ new.pc = "verify" /\ new.op = l.op /\ new.section = l.section
          /\ new.doc = l.doc /\ new.since = l.since /\ new.attempt = l.attempt
      BY <3>1 DEF Local
    <3>4. new.attempt < MaxAttempts
      BY <1>1, <2>1, <3>3 DEF LocalInv
    <3> QED
      BY <1>0, <2>1, <2>2, <3>2, <3>3, <3>4, WriterAdvances
  <2>3. CASE l.op # "provision"
    <3>1. Become(w, Idle) /\ writer[w].pc # "prune"
      BY <1>0, <1>9, <2>1, <2>3 DEF RecordDesired
    <3> QED
      BY <2>1, <3>1, WriterEnds
  <2> QED
    BY <2>2, <2>3
<1> QED
  BY <1>2, <1>3, <1>4, <1>5, <1>6, <1>7, <1>8, <1>9 DEF WriterStep

LEMMA PipelineSteps ==
    ASSUME TableInv, PipelineStep
    PROVE  TableInv'
<1> DEFINE w == "pipeline"
<1>w. w \in Writers
  BY DEF Writers
<1> HIDE DEF w
<1>0. PICK l \in Local : l = writer[w]
  BY <1>w DEF TableInv, TableType
<1>1. LocalInv(l) /\ TableType /\ TopInv
  BY <1>0, <1>w DEF TableInv
<1>2. CASE Render
  <2>1. l.pc = "render" /\ UNCHANGED <<versions, top, commands>>
    BY <1>0, <1>2 DEF Render, w
  <2>2. PICK new : new = [l EXCEPT !.pc = "latest", !.doc = Template]
    OBVIOUS
  <2>3. writer' = [writer EXCEPT ![w] = new]
    BY <1>0, <1>2, <2>2 DEF Render, Become, w
  <2>4. Template \in Configs
    BY GosutoAssumption DEF Configs
  <2>5. /\ new \in Local /\ new.pc = "latest" /\ new.op = l.op /\ new.doc = Template
        /\ new.attempt = l.attempt
    BY <2>2, <2>4 DEF Local
  <2>6. l.op = "provision" /\ l.attempt < MaxAttempts
    BY <1>1, <2>1 DEF LocalInv
  <2>7. LocalInv(new) /\ NumberInv(new) /\ EditInv(new) /\ new.pc # "prune"
    BY <2>4, <2>5, <2>6 DEF LocalInv, NumberInv, EditInv
  <2>8. Pending(new) = 2 /\ Pending(writer[w]) = 2
    BY <1>0, <2>1, <2>5, <2>6 DEF Pending
  <2>9. commands \in Nat /\ commands' = commands /\ commands' \in 0..MaxCommands
    BY <1>1, <2>1, Numbers DEF TableType
  <2>10. Pending(new) + commands <= Pending(writer[w]) + commands' /\ writer[w].pc # "prune"
    BY <1>0, <2>1, <2>8, <2>9
  <2> QED
    BY <1>w, <2>1, <2>3, <2>5, <2>7, <2>9, <2>10, WriterMoves
<1>3. CASE RecordApplied \/ RecordActual \/ (VerifyStatus /\ Step("pipeline", "verify", "actual"))
  <2>1. PICK pc \in {"desired", "actual", "ensure"} :
            writer' = [writer EXCEPT ![w].pc = pc]
    BY <1>3 DEF RecordApplied, RecordActual, Step, w
  <2>2. l.pc \in {"applied", "verify", "actual"} /\ UNCHANGED <<versions, top, commands>>
    BY <1>0, <1>3 DEF RecordApplied, RecordActual, VerifyStatus, Step, w
  <2>3. PICK new : new = [l EXCEPT !.pc = pc]
    OBVIOUS
  <2>4. writer' = [writer EXCEPT ![w] = new]
    BY <1>0, <2>1, <2>3
  <2>5. /\ new \in Local /\ new.pc = pc /\ new.op = l.op /\ new.section = l.section
        /\ new.doc = l.doc /\ new.since = l.since /\ new.attempt = l.attempt
    BY <2>3 DEF Local
  <2>6. l.op = "provision" /\ l.attempt < MaxAttempts
    BY <1>1, <2>2 DEF LocalInv
  <2> QED
    BY <1>0, <1>w, <2>1, <2>2, <2>4, <2>5, <2>6, WriterAdvances
<1>4. CASE (VerifyStatus \/ Ensure) /\ Become("pipeline", Idle)
  <2>1. /\ Become(w, Idle) /\ UNCHANGED <<versions, top, commands>> /\ writer[w].pc # "prune"
    BY <1>4 DEF VerifyStatus, Ensure, w
  <2> QED
    BY <1>w, <2>1, WriterEnds
<1>5. CASE Ensure /\ Stored /\ Edit("pipeline", Topology, PeerTuple, TRUE)
  <2>1. l.pc = "ensure" /\ UNCHANGED <<versions, top, commands>>
    BY <1>0, <1>5 DEF Ensure, w
  <2>2. PICK yes \in BOOLEAN : yes = TRUE
    OBVIOUS
  <2>3. Stored /\ Edit(w, Topology, PeerTuple, yes)
    BY <1>5, <2>2 DEF w
  <2>4. Topology \in Sections /\ PeerTuple \in Values
    BY GosutoAssumption
  <2>5. PICK new \in Local : /\ writer' = [writer EXCEPT ![w] = new]
                             /\ LocalInv(new) /\ NumberInv(new) /\ EditInv(new)
                             /\ Pending(new) <= 1 /\ new.pc # "prune"
    BY <1>w, <2>3, <2>4, EditFacts
  <2>6. Pending(writer[w]) = 1 /\ writer[w].pc # "prune"
    BY <1>0, <1>1, <2>1 DEF Pending, LocalInv
  <2>7. commands \in Nat /\ commands' = commands /\ commands' \in 0..MaxCommands
    BY <1>1, <2>1, Numbers DEF TableType
  <2>8. Pending(new) \in Nat
    BY PendingBounds
  <2>9. Pending(new) + commands <= Pending(writer[w]) + commands'
    BY <2>5, <2>6, <2>7, <2>8
  <2> QED
    BY <1>w, <2>1, <2>5, <2>6, <2>7, <2>9, WriterMoves
<1> QED
  BY <1>2, <1>3, <1>4, <1>5 DEF PipelineStep, VerifyStatus, Ensure

\* The agent restarts: no writer waits for a request any more.
LEMMA RestartKeepsTable ==
    ASSUME TableInv, Restart
    PROVE  TableInv'
<1>0. TableType /\ UNCHANGED <<versions, top, commands>> /\ \A u \in Writers : writer[u] \in Local
  BY DEF TableInv, TableType, Restart
<1>1. ASSUME NEW u \in Writers
      PROVE  /\ writer'[u] \in Local /\ writer'[u].pc = writer[u].pc
             /\ writer'[u].op = writer[u].op /\ writer'[u].doc = writer[u].doc
             /\ writer'[u].section = writer[u].section /\ writer'[u].since = writer[u].since
             /\ writer'[u].gap = writer[u].gap /\ writer'[u].number = writer[u].number
             /\ writer'[u].attempt = writer[u].attempt
  <2>1. PICK l \in Local : l = writer[u]
    BY <1>0
  <2>2. PICK new : new = [l EXCEPT !.call = 0]
    OBVIOUS
  <2>3. writer'[u] = new
    BY <2>1, <2>2 DEF Restart
  <2>4. 0 \in 0..MaxCalls
    BY Numbers
  <2>5. /\ new \in Local /\ new.pc = l.pc /\ new.op = l.op /\ new.doc = l.doc
        /\ new.section = l.section /\ new.since = l.since /\ new.gap = l.gap
        /\ new.number = l.number /\ new.attempt = l.attempt
    BY <2>2, <2>4 DEF Local
  <2> QED
    BY <2>1, <2>3, <2>5
<1>2. TableType'
  <2>1. writer' = [u \in Writers |-> writer'[u]]
    BY DEF Restart
  <2>2. writer' \in [Writers -> Local]
    BY <1>1, <2>1
  <2> QED
    BY <1>0, <2>2 DEF TableType
<1>3. TopInv'
  BY <1>0 DEF TableInv, TopInv
<1>4. BudgetInv'
  <2>1. \A u \in Writers : Pending(writer[u])' = Pending(writer[u])
    BY <1>1 DEF Pending
  <2> QED
    BY <1>0, <2>1 DEF TableInv, BudgetInv, Writers
<1>5. CardInv'
  <2>1. Pruning' = Pruning
    BY <1>1 DEF Pruning
  <2> QED
    BY <1>0, <2>1 DEF TableInv, CardInv
<1>6. ASSUME NEW u \in Writers
      PROVE  (LocalInv(writer[u]) /\ NumberInv(writer[u]) /\ EditInv(writer[u]))'
  <2>1. LocalInv(writer[u]) /\ NumberInv(writer[u]) /\ EditInv(writer[u])
    BY DEF TableInv
  <2>2. LocalInv(writer[u])'
    BY <1>0, <1>1, <2>1 DEF LocalInv
  <2>3. NumberInv(writer[u])'
    BY <1>0, <1>1, <2>1 DEF NumberInv, Above
  <2>4. EditInv(writer[u])'
    BY <1>0, <1>1, <2>1 DEF EditInv
  <2> QED
    BY <2>2, <2>3, <2>4
<1> QED
  BY <1>2, <1>3, <1>4, <1>5, <1>6 DEF TableInv

LEMMA TableStep ==
    ASSUME TableInv, [Next]_vars
    PROVE  TableInv'
<1>1. ASSUME NEW c \in Calls, AgentStep(c) PROVE UNCHANGED <<versions, writer, commands, top>>
  BY <1>1 DEF AgentStep, ApplyConfig, SaveAppliedConfig
<1>2. ListAgents \/ StatusUnknown \/ WriteActual \/ UNCHANGED vars
      => UNCHANGED <<versions, writer, commands, top>>
  BY DEF ListAgents, StatusUnknown, WriteActual, vars
<1> QED
  BY <1>1, <1>2, TableUnchanged, CommandSteps, WriterSteps, PipelineSteps, RestartKeepsTable
     DEF Next

-----------------------------------------------------------------------------
(* The agent, the agents row and the reconciler.                           *)

\* Requests come and are forgotten; none of them gets between Apply and Save.
LEMMA CallsMove ==
    ASSUME IInv, UNCHANGED <<live, saved, unsaved>>,
           \A c \in Calls : call'[c] = call[c] \/ (call[c].pc # "save" /\ call'[c].pc # "save")
    PROVE  CallInv' /\ SavedMatchesLive'
  BY DEF IInv, CallInv, SavedMatchesLive

LEMMA Requests ==
    ASSUME IInv, NEW w \in Writers, Send(w) \/ Answered(w) \/ AttemptFailed(w)
    PROVE  /\ call' \in [Calls -> [pc : {"none", "apply", "save", "reply"}, doc : Configs \cup {None}]]
           /\ CallInv' /\ SavedMatchesLive'
<1> DEFINE CallState == [pc : {"none", "apply", "save", "reply"}, doc : Configs \cup {None}]
<1>0. /\ call \in [Calls -> CallState] /\ UNCHANGED <<live, saved, unsaved>> /\ RestType
  BY DEF IInv, RestType, Send, Answered, AttemptFailed
<1>1. NoCall \in CallState /\ NoCall.pc # "save"
  BY DEF NoCall
<1>2. call' \in [Calls -> CallState]
      /\ \A c \in Calls : call'[c] = call[c] \/ (call[c].pc # "save" /\ call'[c].pc # "save")
  <2>1. CASE Send(w)
    <3>1. CASE UNCHANGED call
      BY <1>0, <3>1
    <3>2. CASE \E d \in Calls : /\ call[d].pc = "none"
                                /\ call' = [call EXCEPT ![d] = [pc |-> "apply", doc |-> writer[w].doc]]
      <4>1. PICK d \in Calls : /\ call[d].pc = "none"
                               /\ call' = [call EXCEPT ![d] = [pc |-> "apply", doc |-> writer[w].doc]]
        BY <3>2
      <4>2. writer[w].doc \in Configs
        BY <2>1 DEF Send, IInv, TableInv, LocalInv
      <4>3. [pc |-> "apply", doc |-> writer[w].doc] \in CallState
        BY <4>2
      <4> QED
        BY <1>0, <4>1, <4>3
    <3>3. ASSUME {c \in Calls : call[c].pc = "none"} # {}
          PROVE  Min({c \in Calls : call[c].pc = "none"}) \in {c \in Calls : call[c].pc = "none"}
      <4>1. {c \in Calls : call[c].pc = "none"} \subseteq Nat
        BY Numbers DEF Calls
      <4> QED
        BY <3>3, <4>1, LeastNumber
    <3> QED
      BY <2>1, <3>1, <3>2, <3>3 DEF Send
  <2>2. CASE Answered(w)
    BY <1>0, <1>1, <2>2 DEF Answered
  <2>3. CASE AttemptFailed(w)
    <3>1. call' = [c \in Calls |-> IF Waiting(w, c) /\ call[c].pc = "reply" THEN NoCall ELSE call[c]]
      BY <2>3 DEF AttemptFailed
    <3> QED
      BY <1>0, <1>1, <3>1
  <2> QED
    BY <2>1, <2>2, <2>3
<1> QED
  BY <1>0, <1>2, CallsMove

\* Loader.Apply and SaveAppliedConfig of any number of requests.
LEMMA AgentSteps ==
    ASSUME IInv, NEW c \in Calls, AgentStep(c)
    PROVE  RestType' /\ CallInv' /\ SavedMatchesLive'
<1> DEFINE CallState == [pc : {"none", "apply", "save", "reply"}, doc : Configs \cup {None}]
<1>0. RestType /\ CallInv /\ SavedMatchesLive /\ call \in [Calls -> CallState]
  BY DEF IInv, RestType
<1>1. CASE ApplyConfig(c)
  <2>1. /\ call'[c].pc = "save" /\ call'[c].doc = call[c].doc /\ live' = call[c].doc
        /\ \A d \in Calls \ {c} : call'[d] = call[d]
        /\ call' \in [Calls -> CallState]
    BY <1>0, <1>1 DEF ApplyConfig
  <2>2. RestType'
    BY <1>0, <1>1, <2>1 DEF ApplyConfig, RestType
  <2>3. (\E d \in Calls : call[d].pc = "save") => unsaved'
    BY <1>1 DEF ApplyConfig
  <2>4. CallInv'
    <3>1. SUFFICES ASSUME NEW d \in Calls, call'[d].pc = "save"
                   PROVE  live' = call'[d].doc \/ unsaved'
      BY DEF CallInv
    <3> QED
      BY <2>1, <2>3, <3>1
  <2>5. SavedMatchesLive'
    BY <2>1 DEF SavedMatchesLive
  <2> QED
    BY <2>2, <2>4, <2>5
<1>2. CASE SaveAppliedConfig(c)
  <2>1. /\ call'[c].pc # "save" /\ \A d \in Calls \ {c} : call'[d] = call[d]
        /\ call' \in [Calls -> CallState] /\ call[c].pc = "save" /\ UNCHANGED live
    <3>1. PICK k : k = IF \E w \in Writers : Waiting(w, c)
                       THEN [call[c] EXCEPT !.pc = "reply"] ELSE NoCall
      OBVIOUS
    <3>2. k \in CallState /\ k.pc # "save"
      BY <1>0, <3>1 DEF NoCall
    <3>3. call' = [call EXCEPT ![c] = k] /\ call[c].pc = "save" /\ UNCHANGED live
      BY <1>2, <3>1 DEF SaveAppliedConfig, Served
    <3> QED
      BY <1>0, <3>2, <3>3
  <2>2. call[c].doc \in Configs \cup {None}
    BY <1>0
  <2>3. CASE saved' = call[c].doc /\ UNCHANGED <<faults, unsaved>>
    <3>1. RestType'
      BY <1>0, <1>2, <2>1, <2>2, <2>3 DEF RestType, SaveAppliedConfig
    <3>2. CallInv'
      BY <1>0, <2>1, <2>3 DEF CallInv
    <3>3. SavedMatchesLive'
      BY <1>0, <2>1, <2>3 DEF CallInv, SavedMatchesLive
    <3> QED
      BY <3>1, <3>2, <3>3
  <2>4. CASE faults < MaxFaults /\ faults' = faults + 1 /\ unsaved' = TRUE /\ UNCHANGED saved
    <3>1. faults' \in 0..MaxFaults
      BY <1>0, <2>4, Numbers DEF RestType
    <3>2. RestType'
      BY <1>0, <1>2, <2>1, <2>4, <3>1 DEF RestType, SaveAppliedConfig
    <3> QED
      BY <2>4, <3>2 DEF CallInv, SavedMatchesLive
  <2> QED
    BY <1>2, <2>3, <2>4 DEF SaveAppliedConfig
<1> QED
  BY <1>1, <1>2 DEF AgentStep

LEMMA RestartKeepsRest ==
    ASSUME IInv, Restart
    PROVE  RestType' /\ CallInv' /\ SavedMatchesLive'
<1>1. \A c \in Calls : call'[c].pc = "none"
  BY DEF Restart, NoCall
<1>2. call' \in [Calls -> [pc : {"none", "apply", "save", "reply"}, doc : Configs \cup {None}]]
  BY DEF Restart, NoCall
<1>3. faults' \in 0..MaxFaults
  BY Numbers DEF IInv, RestType, Restart
<1>4. RestType'
  BY <1>2, <1>3 DEF IInv, RestType, Restart
<1> QED
  BY <1>1, <1>4 DEF CallInv, SavedMatchesLive, Restart

LEMMA RestUnchanged ==
    ASSUME IInv, UNCHANGED <<call, live, saved, faults, unsaved>>,
           row' \in [version : 0..MaxVersions, desired : Configs \cup {None},
                     actual : Configs \cup {None}, healthy : BOOLEAN],
           rec' \in [pc : {"idle", "status"}, desired : Configs \cup {None}, drift : BOOLEAN]
    PROVE  RestType' /\ CallInv' /\ SavedMatchesLive'
  BY DEF IInv, RestType, CallInv, SavedMatchesLive

\* Every write to the agents row and to the reconciler's state is well typed.
LEMMA RestStep ==
    ASSUME IInv, [Next]_vars
    PROVE  RestType' /\ CallInv' /\ SavedMatchesLive'
<1> DEFINE Rows == [version : 0..MaxVersions, desired : Configs \cup {None},
                    actual : Configs \cup {None}, healthy : BOOLEAN]
           Recs == [pc : {"idle", "status"}, desired : Configs \cup {None}, drift : BOOLEAN]
<1>0. /\ row \in Rows /\ rec \in Recs /\ live \in Configs \cup {None}
      /\ \A w \in Writers : /\ writer[w].doc \in Configs \cup {None}
                            /\ writer[w].number \in 0..MaxVersions
      /\ "pipeline" \in Writers
  BY DEF IInv, RestType, TableInv, TableType, Local, Writers
<1>1. ASSUME UNCHANGED <<row, rec, call, live, saved, faults, unsaved>>
      PROVE  RestType' /\ CallInv' /\ SavedMatchesLive'
  BY <1>0, <1>1, RestUnchanged
<1>2. ASSUME row' \in Rows, rec' \in Recs, UNCHANGED <<call, live, saved, faults, unsaved>>
      PROVE  RestType' /\ CallInv' /\ SavedMatchesLive'
  BY <1>2, RestUnchanged
<1>3. ASSUME \/ \E doc \in Documents : Set(doc)
             \/ \E v \in Versions : Rollback(v)
             \/ \E s \in Sections, x \in Values : Patch(s, x)
             \/ \E x \in Values, push \in BOOLEAN : EditTopology(x, push)
             \/ Push \/ Render \/ VerifyStatus \/ Ensure
             \/ \E w \in Writers : CompareLatest(w) \/ ReadNext(w) \/ Prune(w)
             \/ UNCHANGED vars
      PROVE  UNCHANGED <<row, rec, call, live, saved, faults, unsaved>>
  BY <1>3 DEF Set, Rollback, Patch, EditTopology, Push, Render, VerifyStatus, Ensure,
              CompareLatest, ReadNext, Prune, agent, vars
<1>4. ASSUME NEW w \in Writers, Insert(w)
      PROVE  row' \in Rows /\ rec' \in Recs /\ UNCHANGED <<call, live, saved, faults, unsaved>>
  BY <1>0, <1>4 DEF Insert, agent
<1>5. ASSUME NEW w \in Writers, RecordDesired(w)
      PROVE  row' \in Rows /\ rec' \in Recs /\ UNCHANGED <<call, live, saved, faults, unsaved>>
  BY <1>0, <1>5 DEF RecordDesired, agent
<1>6. ASSUME RecordApplied \/ RecordActual
      PROVE  row' \in Rows /\ rec' \in Recs /\ UNCHANGED <<call, live, saved, faults, unsaved>>
  BY <1>0, <1>6 DEF RecordApplied, RecordActual, agent
<1>7. ASSUME ListAgents \/ StatusUnknown \/ WriteActual
      PROVE  row' \in Rows /\ rec' \in Recs /\ UNCHANGED <<call, live, saved, faults, unsaved>>
  <2>1. CASE ListAgents
    BY <1>0, <2>1 DEF ListAgents, agent
  <2>2. CASE StatusUnknown
    BY <1>0, <2>2 DEF StatusUnknown, agent
  <2>3. CASE WriteActual
    <3>1. PICK d \in BOOLEAN : d = (rec.desired \notin {None, live})
      OBVIOUS
    <3>2. rec' = [pc |-> "idle", desired |-> None, drift |-> d]
      BY <2>3, <3>1 DEF WriteActual
    <3>3. rec' \in Recs
      BY <3>2
    <3> QED
      BY <1>0, <2>3, <3>3 DEF WriteActual, agent
  <2> QED
    BY <1>7, <2>1, <2>2, <2>3
<1>8. ASSUME NEW w \in Writers, Send(w) \/ Answered(w) \/ AttemptFailed(w)
      PROVE  RestType' /\ CallInv' /\ SavedMatchesLive'
  <2>1. UNCHANGED <<row, rec, live, saved, faults, unsaved>>
    BY <1>8 DEF Send, Answered, AttemptFailed
  <2>2. /\ call' \in [Calls -> [pc : {"none", "apply", "save", "reply"}, doc : Configs \cup {None}]]
        /\ CallInv' /\ SavedMatchesLive'
    BY <1>8, Requests
  <2> QED
    BY <2>1, <2>2 DEF IInv, RestType
<1>9. ASSUME NEW w \in Writers, WriterStep(w) PROVE RestType' /\ CallInv' /\ SavedMatchesLive'
  BY <1>1, <1>2, <1>3, <1>4, <1>5, <1>8, <1>9 DEF WriterStep
<1>10. ASSUME PipelineStep PROVE RestType' /\ CallInv' /\ SavedMatchesLive'
  BY <1>1, <1>2, <1>3, <1>6, <1>10 DEF PipelineStep
<1> HIDE DEF Rows, Recs
<1> QED
  BY <1>1, <1>2, <1>3, <1>7, <1>9, <1>10, AgentSteps, RestartKeepsRest DEF Next

LEMMA InitIInv == Init => IInv
<1> SUFFICES ASSUME Init PROVE IInv
  OBVIOUS
<1>0. 0 \in 0..MaxVersions /\ 0 \in 0..MaxCommands /\ 0 \in 0..MaxFaults /\ DOMAIN versions = {}
  BY Numbers DEF Init
<1>1. PICK l : l = [Idle EXCEPT !.op = "provision", !.pc = "render"]
  OBVIOUS
<1>2. l \in Local /\ l.pc = "render" /\ l.op = "provision" /\ l.attempt = 0
  <2>1. Idle \in Local
    BY IdleFacts
  <2>2. l \in Local /\ l.pc = "render" /\ l.op = "provision" /\ l.attempt = Idle.attempt
    BY <1>1, <2>1 DEF Local
  <2> QED
    BY <2>2 DEF Idle
<1>3. LocalInv(l) /\ NumberInv(l) /\ EditInv(l) /\ Pending(l) = 2
  BY <1>2, Numbers DEF LocalInv, NumberInv, EditInv, Pending
<1>4. writer["command"] = Idle /\ writer["pipeline"] = l
  BY <1>1 DEF Init, Writers
<1>5. \A w \in Writers : writer[w] = Idle \/ writer[w] = l
  BY <1>4 DEF Writers
<1>6. writer = [w \in Writers |-> writer[w]]
  BY DEF Init
<1>7. writer \in [Writers -> Local]
  BY <1>2, <1>5, <1>6, IdleFacts
<1>8. TableType
  BY <1>0, <1>7 DEF Init, TableType
<1>9. TopInv
  BY <1>0 DEF Init, TopInv
<1>10. BudgetInv
  BY <1>3, <1>4, IdleFacts DEF Init, BudgetInv
<1>11. CardInv
  <2>1. Cardinality(Pruning) \in Nat
    BY FiniteWriters DEF Pruning
  <2>2. Cardinality(DOMAIN versions) = 0
    BY <1>0, FS_EmptySet
  <2> QED
    BY <2>1, <2>2, Numbers DEF CardInv
<1>12. \A w \in Writers : LocalInv(writer[w]) /\ NumberInv(writer[w]) /\ EditInv(writer[w])
  BY <1>3, <1>5, IdleFacts
<1>13. TableInv
  BY <1>8, <1>9, <1>10, <1>11, <1>12 DEF TableInv
<1>14. RestType /\ CallInv /\ SavedMatchesLive
  BY <1>0 DEF Init, RestType, CallInv, SavedMatchesLive, NoCall
<1> QED
  BY <1>13, <1>14 DEF IInv

\* The version table and the writers stay consistent through the steps of both writers, and
\* so do the agent's requests: what CreateGosutoVersion, PruneGosutoVersions and
\* handleConfigApply rely on is inductive.
THEOREM InductiveInvariant == Spec => []IInv
<1>1. IInv /\ [Next]_vars => IInv'
  BY TableStep, RestStep DEF IInv
<1> QED
  BY InitIInv, <1>1, PTL DEF Spec

\* Retention by two writers that prune without a common lock keeps at most KeepN versions,
\* the newest among them (PruneGosutoVersions), and the agent restarts with what it ran
\* (SaveAppliedConfig), unless a save failed or was overtaken.
THEOREM Safe == Spec => []Inv
<1>1. IInv => Inv
  <2> SUFFICES ASSUME IInv PROVE Inv
    OBVIOUS
  <2>1. TypeOK
    BY DEF IInv, TableInv, TableType, RestType, TypeOK
  <2>2. RetentionHolds
    <3>1. Cardinality(DOMAIN versions)
              <= KeepN + Cardinality({w \in Writers : writer[w].pc = "prune"})
      BY DEF IInv, TableInv, CardInv, Pruning
    <3>2. top > 0 => Stored /\ Latest = top
      BY LatestIsTop DEF IInv, TableInv
    <3> QED
      BY <3>1, <3>2 DEF RetentionHolds
  <2> QED
    BY <2>1, <2>2 DEF IInv, Inv
<1> QED
  BY <1>1, InductiveInvariant, PTL

\* A stored version is never rewritten and its number comes again only when more than KeepN
\* versions were stored between SELECT MAX and INSERT (CreateGosutoVersion); an edit that
\* nobody overtook changes its own section only (patchCurrentGosuto).
THEOREM HistoryKept == Spec => HistoryIsKept
<1> DEFINE Reuse == \A v \in DOMAIN versions' :
                      IF v \in DOMAIN versions THEN versions'[v] = versions[v]
                      ELSE v > top \/ \E w \in Writers : writer[w].number = v
                                                         /\ writer[w].gap > KeepN
           Keeps == \A w \in Writers :
                      /\ writer[w].pc = "insert" /\ writer'[w].pc = "prune"
                      /\ writer[w].op = "patch" /\ writer[w].since = 0
                      => \A s \in Sections \ {writer[w].section} :
                            writer[w].doc[s] = versions[Latest][s]
<1>1. ASSUME IInv, [Next]_vars PROVE Reuse
  <2>1. CASE UNCHANGED versions
    BY <2>1
  <2>2. ASSUME NEW w \in Writers, Prune(w) PROVE Reuse
    <3>1. PICK vs : vs = PruneGosutoVersions(versions)
      OBVIOUS
    <3>2. DOMAIN vs \subseteq DOMAIN versions /\ \A v \in DOMAIN vs : vs[v] = versions[v]
      BY <1>1, <3>1, Prunes DEF IInv, TableInv
    <3> QED
      BY <2>2, <3>1, <3>2 DEF Prune
  <2>3. ASSUME NEW w \in Writers, Insert(w), ~UNCHANGED versions PROVE Reuse
    <3>1. /\ DOMAIN versions' = DOMAIN versions \cup {writer[w].number}
          /\ \A v \in DOMAIN versions : v # writer[w].number => versions'[v] = versions[v]
          /\ writer[w].number \notin DOMAIN versions /\ writer[w].pc = "insert"
      <4>1. PICK n : n = writer[w].number
        OBVIOUS
      <4>2. /\ n \notin DOMAIN versions /\ writer[w].pc = "insert"
            /\ versions' = [v \in DOMAIN versions \cup {n} |-> IF v = n THEN writer[w].doc ELSE versions[v]]
        BY <2>3, <4>1, Zenon DEF Insert
      <4> QED
        BY <4>1, <4>2
    <3>2. writer[w].number > top \/ writer[w].gap > KeepN
      BY <1>1, <3>1 DEF IInv, TableInv, NumberInv
    <3> QED
      BY <3>1, <3>2
  <2>4. (\E c \in Calls : AgentStep(c)) \/ Restart \/ ListAgents \/ StatusUnknown \/ WriteActual
        \/ UNCHANGED vars => UNCHANGED versions
    BY DEF AgentStep, ApplyConfig, SaveAppliedConfig, Restart, ListAgents, StatusUnknown,
           WriteActual, vars
  <2>5. \/ \E doc \in Documents : Set(doc)
        \/ \E v \in Versions : Rollback(v)
        \/ \E s \in Sections, x \in Values : Patch(s, x)
        \/ \E x \in Values, push \in BOOLEAN : EditTopology(x, push)
        \/ Push \/ PipelineStep
        => UNCHANGED versions
    BY DEF Set, Rollback, Patch, EditTopology, Push, PipelineStep, Render, RecordApplied,
           VerifyStatus, RecordActual, Ensure
  <2>6. ASSUME NEW w \in Writers, WriterStep(w) PROVE Prune(w) \/ Insert(w) \/ UNCHANGED versions
    BY <2>6 DEF WriterStep, CompareLatest, ReadNext, Send, Answered, AttemptFailed, RecordDesired
  <2> QED
    BY <1>1, <2>1, <2>2, <2>3, <2>4, <2>5, <2>6 DEF Next
<1>2. ASSUME IInv PROVE Keeps
  <2>1. TableType /\ TopInv /\ \A w \in Writers : EditInv(writer[w])
    BY <1>2 DEF IInv, TableInv
  <2>2. top > 0 => Latest = top
    BY <2>1, LatestIsTop
  <2> QED
    BY <2>1, <2>2 DEF EditInv
<1>3. IInv /\ [Next]_vars => [Reuse]_vars
  BY <1>1
<1>4. IInv /\ [Next]_vars => [Keeps]_vars
  BY <1>2
<1> QED
  BY <1>3, <1>4, InductiveInvariant, PTL
     DEF Spec, HistoryIsKept, NumberReusedOnlyByOverrun, EditKeepsOtherSections
=============================================================================

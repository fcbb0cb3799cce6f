-------------------------- MODULE DefinitionProofs --------------------------
(***************************************************************************)
(* Proofs about Definitions: load_pipeline accepts what is valid and       *)
(* nothing else, for any number of stages, needs and lanes.  The code's    *)
(* loops and its recursion are recursive functions of a natural number;    *)
(* that they exist, and what they return, is shown by induction over it.   *)
(***************************************************************************)
EXTENDS Definitions, PipelineProofs, FiniteSetTheorems, WellFoundedInduction

-----------------------------------------------------------------------------
(* Induction, from the well-founded order of the naturals. *)

Less == {p \in Nat \X Nat : p[1] < p[2]}

LEMMA LessIsWellFounded == IsWellFoundedOn(Less, Nat)
<1>1. IsWellFoundedOn({ss \in Nat \X Nat : ss[1] < ss[2]}, Nat)
  BY NatLessThanWellFounded DEF OpToRel
<1>2. QED
  BY <1>1 DEF Less

(* A set of naturals has a least element.                                  *)
LEMMA Least ==
  ASSUME NEW T \in SUBSET Nat, T # {}
  PROVE  \E x \in T : \A y \in T : x <= y
<1>1. PICK x \in T : \A y \in T : <<y, x>> \notin Less
  BY LessIsWellFounded, WFMin, Zenon
<1>2. ASSUME NEW y \in T, y < x PROVE <<y, x>> \in Less
  BY <1>2 DEF Less
<1>3. ASSUME NEW y \in T PROVE x <= y
  <2>1. ~ (y < x)
    BY <1>1, <1>2, Zenon
  <2>2. QED
    BY <2>1
<1>4. QED
  BY <1>3

(* A set of naturals that contains 0 and with n also n + 1 is all of Nat.   *)
LEMMA Induction ==
  ASSUME NEW Good \in SUBSET Nat, 0 \in Good, \A n \in Good : n + 1 \in Good
  PROVE  Good = Nat
<1>1. SUFFICES ASSUME Nat \ Good # {} PROVE FALSE
  OBVIOUS
<1>2. PICK x \in Nat \ Good : \A y \in Nat \ Good : x <= y
  BY <1>1, Least
<1>3. x # 0 /\ x - 1 \in Nat /\ x - 1 \in Good /\ x - 1 + 1 = x
  BY <1>2
<1>4. QED
  BY <1>3, <1>2

-----------------------------------------------------------------------------
(* Loops *)

(* found[i] is what a loop has found after i items of seq.                 *)
Steps(step, start, seq, n, found) ==
  found = [i \in 0 .. n |-> IF i = 0 THEN start ELSE step[found[i - 1]][seq[i]]]

LEMMA StepsExist ==
  ASSUME NEW step, NEW start, NEW seq, NEW n \in Nat
  PROVE  \E found : Steps(step, start, seq, n, found)
<1> USE DEF Steps
<1> DEFINE Is(f, k) == Steps(step, start, seq, k, f)
           Good == {k \in Nat : \E f : Is(f, k)}
<1>1. 0 \in Good
  <2>1. Is([i \in 0 .. 0 |-> start], 0)
    OBVIOUS
  <2>2. QED
    BY <2>1
<1>2. ASSUME NEW k \in Good PROVE k + 1 \in Good
  <2>1. PICK f : Is(f, k)
    OBVIOUS
  <2> DEFINE g == [i \in 0 .. k + 1 |-> IF i = k + 1 THEN step[f[k]][seq[k + 1]] ELSE f[i]]
  <2>2. ASSUME NEW i \in 0 .. k + 1
        PROVE  g[i] = IF i = 0 THEN start ELSE step[g[i - 1]][seq[i]]
    <3>1. CASE i = k + 1
      BY <3>1
    <3>2. CASE i # k + 1
      <4>1. i \in 0 .. k /\ g[i] = f[i] /\ (i # 0 => g[i - 1] = f[i - 1])
        BY <3>2
      <4>2. f[i] = IF i = 0 THEN start ELSE step[f[i - 1]][seq[i]]
        BY <2>1, <4>1
      <4>3. QED
        BY <4>1, <4>2
    <3>3. QED
      BY <3>1, <3>2
  <2>3. Is(g, k + 1)
    BY <2>2
  <2>4. k + 1 \in Nat
    OBVIOUS
  <2>5. \E f_2 : Is(f_2, k + 1)
    <3> HIDE DEF g, Is
    <3>1. QED
      BY <2>3
  <2>6. QED
    BY <2>4, <2>5
<1>3. n \in Good
  <2>1. Good = Nat
    <3> HIDE DEF Good
    <3>1. Good \in SUBSET Nat
      BY DEF Good
    <3>2. QED
      BY <1>1, <1>2, <3>1, Induction
  <2>2. QED
    BY <2>1
<1>4. QED
  BY <1>3

(* The recursive function in Along is the loop.                            *)
LEMMA AlongSteps ==
  ASSUME NEW step, NEW start, NEW seq, Len(seq) \in Nat
  PROVE  \E found : /\ found[0] = start
                    /\ \A i \in 1 .. Len(seq) : found[i] = step[found[i - 1]][seq[i]]
                    /\ Along(step, start, seq) = found[Len(seq)]
<1> DEFINE found == CHOOSE f : Steps(step, start, seq, Len(seq), f)
<1>1. Steps(step, start, seq, Len(seq), found)
  BY StepsExist
<1>2. Along(step, start, seq) = found[Len(seq)]
  BY DEF Along, Steps
<1>3. found[0] = start /\ \A i \in 1 .. Len(seq) : found[i] = step[found[i - 1]][seq[i]]
  <2> HIDE DEF found
  <2>1. QED
    BY <1>1 DEF Steps
<1>4. QED
  BY <1>2, <1>3

-----------------------------------------------------------------------------
(* Visits by their depth *)

NoVisit == [search \in Search |-> [s \in Stage |-> [search EXCEPT !.cycle = TRUE]]]
VisitWithin(below, needs) ==
  [search \in Search |-> [s \in Stage |-> VisitStage(below, needs, search, s)]]

Visits(needs, n, visit) ==
  visit = [d \in 0 .. n |-> IF d = 0 THEN NoVisit ELSE VisitWithin(visit[d - 1], needs)]

LEMMA VisitsExist ==
  ASSUME NEW needs, NEW n \in Nat
  PROVE  \E visit : Visits(needs, n, visit)
<1> USE DEF Visits
<1> DEFINE Good == {k \in Nat : \E f : Visits(needs, k, f)}
<1>1. 0 \in Good
  <2>1. Visits(needs, 0, [d \in 0 .. 0 |-> NoVisit])
    OBVIOUS
  <2>2. QED
    BY <2>1
<1>2. ASSUME NEW k \in Good PROVE k + 1 \in Good
  <2>1. PICK f : Visits(needs, k, f)
    OBVIOUS
  <2> DEFINE g == [d \in 0 .. k + 1 |-> IF d = k + 1 THEN VisitWithin(f[k], needs) ELSE f[d]]
  <2>2. ASSUME NEW d \in 0 .. k + 1
        PROVE  g[d] = IF d = 0 THEN NoVisit ELSE VisitWithin(g[d - 1], needs)
    <3>1. CASE d = k + 1
      BY <3>1
    <3>2. CASE d # k + 1
      <4>1. d \in 0 .. k /\ g[d] = f[d] /\ (d # 0 => g[d - 1] = f[d - 1])
        BY <3>2
      <4>2. f[d] = IF d = 0 THEN NoVisit ELSE VisitWithin(f[d - 1], needs)
        BY <2>1, <4>1
      <4>3. QED
        BY <4>1, <4>2
    <3>3. QED
      BY <3>1, <3>2
  <2>3. Visits(needs, k + 1, g)
    BY <2>2
  <2>4. k + 1 \in Nat
    OBVIOUS
  <2>5. \E h : Visits(needs, k + 1, h)
    <3> HIDE DEF g, Visits
    <3>1. QED
      BY <2>3
  <2>6. QED
    BY <2>4, <2>5
<1>3. n \in Good
  <2>1. Good = Nat
    <3> HIDE DEF Good
    <3>1. Good \in SUBSET Nat
      BY DEF Good
    <3>2. QED
      BY <1>1, <1>2, <3>1, Induction
  <2>2. QED
    BY <2>1
<1>4. QED
  BY <1>3

(* The recursive function in Visit is the recursion over the depth.        *)
LEMMA VisitSteps ==
  ASSUME NEW needs, NEW depth \in Nat
  PROVE  \E visit : /\ visit[0] = NoVisit
                    /\ \A d \in 1 .. depth : visit[d] = VisitWithin(visit[d - 1], needs)
                    /\ Visit(needs, depth) = visit[depth]
<1> DEFINE visit == CHOOSE f : Visits(needs, depth, f)
<1>1. Visits(needs, depth, visit)
  BY VisitsExist
<1>2. Visit(needs, depth) = visit[depth]
  BY DEF Visit, Visits, NoVisit, VisitWithin
<1>3. visit[0] = NoVisit /\ \A d \in 1 .. depth : visit[d] = VisitWithin(visit[d - 1], needs)
  <2> HIDE DEF visit
  <2>1. QED
    BY <1>1 DEF Visits
<1>4. QED
  BY <1>2, <1>3

-----------------------------------------------------------------------------
(* The search for cycles *)

\* Some stage of every set of these needs none of the set: there is no cycle among them.
NoCycle(needs, V) == \A T \in SUBSET V : T # {} => \E s \in T : ToSet(needs[s]) \cap T = {}

\* A search has found a cycle, or what it has visited has none and needs nothing else.
Sound(needs, search) ==
  /\ search \in Search
  /\ IF search.cycle THEN ~NoCycle(needs, Stage)
     ELSE NoCycle(needs, search.visited) /\ \A s \in search.visited : ToSet(needs[s]) \subseteq search.visited

\* Every stage that is being visited needs another of them, or s.
OnTheWay(needs, search, s) ==
  \A v \in search.visiting : ToSet(needs[v]) \cap (search.visiting \cup {s}) # {}

\* Unless it found a cycle, the search came back with T visited.
Visited(before, after, T) ==
  \/ after.cycle
  \/ /\ ~before.cycle
     /\ after.visiting = before.visiting
     /\ before.visited \subseteq after.visited
     /\ T \subseteq after.visited

\* What a visit promises when at most d stages are not being visited yet.
VisitsWell(visit, needs, d) ==
  \A search \in Search, s \in Stage :
    /\ Sound(needs, search)
    /\ ~search.cycle => OnTheWay(needs, search, s) /\ Cardinality(Stage \ search.visiting) <= d
    => Sound(needs, visit[search][s]) /\ Visited(search, visit[search][s], {s})

\* A loop of such visits keeps the promise for all of its stages.
LEMMA AlongVisits ==
  ASSUME NEW d \in Nat, NEW visit, NEW needs, VisitsWell(visit, needs, d),
         NEW search \in Search, Sound(needs, search), ~search.cycle,
         Cardinality(Stage \ search.visiting) <= d,
         NEW seq \in Seq(Stage), \A i \in 1 .. Len(seq) : OnTheWay(needs, search, seq[i])
  PROVE  LET after == Along(visit, search, seq)
         IN  Sound(needs, after) /\ Visited(search, after, ToSet(seq))
<1>1. Len(seq) \in Nat
  OBVIOUS
<1>2. PICK found : /\ found[0] = search
                   /\ \A i \in 1 .. Len(seq) : found[i] = visit[found[i - 1]][seq[i]]
                   /\ Along(visit, search, seq) = found[Len(seq)]
  BY <1>1, AlongSteps
<1> DEFINE Met(i) == {seq[k] : k \in 1 .. i}
           Good == {i \in Nat : i <= Len(seq) => Sound(needs, found[i]) /\ Visited(search, found[i], Met(i))}
<1>3. 0 \in Good
  <2>1. Met(0) = {}
    OBVIOUS
  <2>2. QED
    BY <1>2, <2>1 DEF Visited
<1>4. ASSUME NEW i \in Good PROVE i + 1 \in Good
  <2>1. SUFFICES ASSUME i + 1 <= Len(seq)
                 PROVE  Sound(needs, found[i + 1]) /\ Visited(search, found[i + 1], Met(i + 1))
    OBVIOUS
  <2> DEFINE was == found[i]
  <2>2. /\ Sound(needs, was) /\ Visited(search, was, Met(i))
        /\ seq[i + 1] \in Stage /\ found[i + 1] = visit[was][seq[i + 1]]
        /\ Met(i + 1) = Met(i) \cup {seq[i + 1]}
    <3>1. i + 1 \in 1 .. Len(seq) /\ i <= Len(seq) /\ i + 1 - 1 = i
      BY <2>1, <1>1
    <3>2. QED
      BY <3>1, <1>2
  <2>3. ~was.cycle => /\ OnTheWay(needs, was, seq[i + 1])
                      /\ Cardinality(Stage \ was.visiting) <= d
    <3>1. i + 1 \in 1 .. Len(seq)
      BY <2>1, <1>1
    <3>2. ~was.cycle => was.visiting = search.visiting
      BY <2>2 DEF Visited
    <3>3. QED
      BY <3>1, <3>2 DEF OnTheWay
  <2>4. was \in Search
    BY <2>2 DEF Sound
  <2>5. Sound(needs, found[i + 1]) /\ Visited(was, found[i + 1], {seq[i + 1]})
    <3> HIDE DEF was
    <3>1. QED
      BY <2>2, <2>3, <2>4 DEF VisitsWell
  <2>6. CASE was.cycle
    BY <2>5, <2>6 DEF Visited
  <2>7. CASE ~was.cycle
    BY <2>2, <2>5, <2>7 DEF Visited
  <2>8. QED
    BY <2>6, <2>7
<1>5. Good = Nat
  <2> HIDE DEF Good
  <2>1. Good \in SUBSET Nat
    BY DEF Good
  <2>2. QED
    BY <1>3, <1>4, <2>1, Induction
<1>6. Met(Len(seq)) = ToSet(seq)
  BY DEF ToSet
<1>7. Sound(needs, found[Len(seq)]) /\ Visited(search, found[Len(seq)], Met(Len(seq)))
  <2>1. Len(seq) \in Good
    BY <1>1, <1>5
  <2>2. QED
    BY <2>1
<1>8. QED
  BY <1>2, <1>6, <1>7

\* A stage that needs only visited ones may be visited next.
LEMMA VisitedNext ==
  ASSUME NEW needs, NEW V, NEW s, NoCycle(needs, V),
         \A v \in V : ToSet(needs[v]) \subseteq V, ToSet(needs[s]) \subseteq V
  PROVE  NoCycle(needs, V \cup {s})
<1>1. SUFFICES ASSUME NEW T \in SUBSET (V \cup {s}), T # {}
               PROVE  \E t \in T : ToSet(needs[t]) \cap T = {}
  BY DEF NoCycle
<1>2. CASE T \cap V = {}
  <2>1. s \in T
    BY <1>1, <1>2
  <2>2. ToSet(needs[s]) \cap T = {}
    BY <1>2
  <2>3. QED
    BY <2>1, <2>2
<1>3. CASE T \cap V # {}
  <2>1. PICK t \in T \cap V : ToSet(needs[t]) \cap (T \cap V) = {}
    BY <1>3 DEF NoCycle
  <2>2. ToSet(needs[t]) \cap T = {}
    BY <2>1
  <2>3. QED
    BY <2>1, <2>2
<1>4. QED
  BY <1>2, <1>3

\* The stages that are being visited and the one that is met again form a cycle.
LEMMA MetAgain ==
  ASSUME NEW needs, NEW search \in Search, NEW s \in search.visiting, OnTheWay(needs, search, s)
  PROVE  ~NoCycle(needs, Stage)
<1>1. search.visiting \subseteq Stage /\ search.visiting \cup {s} = search.visiting
  BY DEF Search
<1>2. \A v \in search.visiting : ToSet(needs[v]) \cap search.visiting # {}
  BY <1>1 DEF OnTheWay
<1>3. QED
  BY <1>1, <1>2 DEF NoCycle

\* When every stage is being visited, the next one is met again.
LEMMA NoVisitIsWell ==
  ASSUME IsFiniteSet(Stage), NEW needs
  PROVE  VisitsWell(NoVisit, needs, 0)
<1>1. SUFFICES ASSUME NEW search \in Search, NEW s \in Stage, Sound(needs, search),
                      ~search.cycle => /\ OnTheWay(needs, search, s)
                                       /\ Cardinality(Stage \ search.visiting) <= 0
               PROVE  /\ Sound(needs, NoVisit[search][s])
                      /\ Visited(search, NoVisit[search][s], {s})
  BY DEF VisitsWell
<1>2. NoVisit[search][s] = [search EXCEPT !.cycle = TRUE]
  BY DEF NoVisit
<1>3. [search EXCEPT !.cycle = TRUE] \in Search /\ [search EXCEPT !.cycle = TRUE].cycle
  BY DEF Search
<1>4. ~search.cycle => ~NoCycle(needs, Stage)
  <2>1. SUFFICES ASSUME ~search.cycle PROVE ~NoCycle(needs, Stage)
    OBVIOUS
  <2>2. IsFiniteSet(Stage \ search.visiting)
    BY FS_Subset
  <2>3. Stage \ search.visiting = {}
    BY <1>1, <2>1, <2>2, FS_EmptySet, FS_CardinalityType
  <2>4. s \in search.visiting
    BY <2>3
  <2>5. QED
    BY <1>1, <2>1, <2>4, MetAgain
<1>5. ~NoCycle(needs, Stage)
  BY <1>1, <1>4 DEF Sound
<1>6. QED
  BY <1>2, <1>3, <1>5 DEF Sound, Visited

\* A visit enters the stage, so that the visits below it have one stage less to go.
LEMMA VisitStageIsWell ==
  ASSUME IsFiniteSet(Stage), NEW needs \in [Stage -> Seq(Stage)], NEW d \in Nat, NEW below,
         VisitsWell(below, needs, d)
  PROVE  VisitsWell(VisitWithin(below, needs), needs, d + 1)
<1>1. SUFFICES ASSUME NEW search \in Search, NEW s \in Stage, Sound(needs, search),
                      ~search.cycle => /\ OnTheWay(needs, search, s)
                                       /\ Cardinality(Stage \ search.visiting) <= d + 1
               PROVE  /\ Sound(needs, VisitStage(below, needs, search, s))
                      /\ Visited(search, VisitStage(below, needs, search, s), {s})
  BY DEF VisitsWell, VisitWithin
<1> DEFINE result == VisitStage(below, needs, search, s)
<1>2. CASE search.cycle \/ s \in search.visited
  <2>1. result = search
    BY <1>2 DEF VisitStage
  <2>2. QED
    BY <1>1, <1>2, <2>1 DEF Visited
<1>3. CASE ~search.cycle /\ s \notin search.visited /\ s \in search.visiting
  <2>1. result = [search EXCEPT !.cycle = TRUE]
    BY <1>3 DEF VisitStage
  <2>2. result \in Search /\ result.cycle
    BY <2>1 DEF Search
  <2>3. ~NoCycle(needs, Stage)
    BY <1>1, <1>3, MetAgain
  <2> HIDE DEF result
  <2>4. QED
    BY <2>2, <2>3 DEF Sound, Visited, result
<1>4. CASE ~search.cycle /\ s \notin search.visited /\ s \notin search.visiting
  <2> DEFINE entered == [search EXCEPT !.visiting = @ \cup {s}]
             left == Along(below, entered, needs[s])
  <2>1. /\ entered \in Search /\ ~entered.cycle
        /\ entered.visiting = search.visiting \cup {s} /\ entered.visited = search.visited
    BY <1>4 DEF Search
  <2>2. result = [left EXCEPT !.visiting = @ \ {s}, !.visited = @ \cup {s}]
    BY <1>4 DEF VisitStage
  <2> HIDE DEF entered, result
  <2>3. Sound(needs, entered)
    BY <1>1, <1>4, <2>1 DEF Sound
  <2>4. Cardinality(Stage \ entered.visiting) <= d
    <3>1. IsFiniteSet(Stage \ search.visiting)
      BY FS_Subset
    <3>2. s \in Stage \ search.visiting /\ Stage \ entered.visiting = (Stage \ search.visiting) \ {s}
      BY <1>4, <2>1
    <3>3. Cardinality(Stage \ entered.visiting) = Cardinality(Stage \ search.visiting) - 1
      <4> DEFINE U == Stage \ search.visiting
      <4>1. Cardinality(U \ {s}) = IF s \in U THEN Cardinality(U) - 1 ELSE Cardinality(U)
        BY <3>1, FS_RemoveElement, Zenon
      <4>2. QED
        BY <3>2, <4>1
    <3>4. Cardinality(Stage \ search.visiting) \in Nat
      BY <3>1, FS_CardinalityType
    <3>5. QED
      BY <1>1, <1>4, <3>3, <3>4
  <2>5. needs[s] \in Seq(Stage)
    OBVIOUS
  <2>6. ASSUME NEW i \in 1 .. Len(needs[s]) PROVE OnTheWay(needs, entered, needs[s][i])
    <3>1. needs[s][i] \in ToSet(needs[s])
      BY <2>5 DEF ToSet
    <3>2. QED
      BY <1>1, <1>4, <2>1, <3>1 DEF OnTheWay
  <2>7. Sound(needs, left) /\ Visited(entered, left, ToSet(needs[s]))
    BY <2>1, <2>3, <2>4, <2>5, <2>6, AlongVisits
  <2> HIDE DEF left
  <2>8. left \in Search
    BY <2>7 DEF Sound
  <2>9. /\ result \in Search /\ result.cycle = left.cycle
        /\ result.visiting = left.visiting \ {s} /\ result.visited = left.visited \cup {s}
    BY <2>2, <2>8 DEF Search
  <2>10. CASE left.cycle
    <3>1. ~NoCycle(needs, Stage)
      BY <2>7, <2>10 DEF Sound
    <3>2. result.cycle
      BY <2>9, <2>10
    <3>3. QED
      BY <2>9, <3>1, <3>2 DEF Sound, Visited, result
  <2>11. CASE ~left.cycle
    <3>1. /\ left.visiting = entered.visiting /\ search.visited \subseteq left.visited
          /\ ToSet(needs[s]) \subseteq left.visited
      BY <2>1, <2>7, <2>11 DEF Visited
    <3>2. NoCycle(needs, left.visited) /\ \A v \in left.visited : ToSet(needs[v]) \subseteq left.visited
      BY <2>7, <2>11 DEF Sound
    <3>3. NoCycle(needs, result.visited)
      BY <2>9, <3>1, <3>2, VisitedNext
    <3>4. \A v \in result.visited : ToSet(needs[v]) \subseteq result.visited
      BY <2>9, <3>1, <3>2
    <3>5. result.visiting = search.visiting
      BY <1>4, <2>1, <2>9, <3>1
    <3>6. QED
      <4>1. ~result.cycle
        BY <2>9, <2>11
      <4>2. Sound(needs, result)
        BY <2>9, <3>3, <3>4, <4>1 DEF Sound
      <4>3. Visited(search, result, {s})
        BY <1>4, <2>9, <3>1, <3>5 DEF Visited
      <4>4. QED
        BY <4>2, <4>3 DEF result
  <2>12. QED
    BY <2>10, <2>11 DEF result
<1>5. QED
  BY <1>2, <1>3, <1>4

LEMMA VisitIsWell ==
  ASSUME IsFiniteSet(Stage), NEW needs \in [Stage -> Seq(Stage)], NEW depth \in Nat
  PROVE  VisitsWell(Visit(needs, depth), needs, depth)
<1>1. PICK visit : /\ visit[0] = NoVisit
                   /\ \A d \in 1 .. depth : visit[d] = VisitWithin(visit[d - 1], needs)
                   /\ Visit(needs, depth) = visit[depth]
  BY VisitSteps
<1> DEFINE Good == {d \in Nat : d <= depth => VisitsWell(visit[d], needs, d)}
<1>2. 0 \in Good
  BY <1>1, NoVisitIsWell
<1>3. ASSUME NEW d \in Good PROVE d + 1 \in Good
  <2>1. SUFFICES ASSUME d + 1 <= depth PROVE VisitsWell(visit[d + 1], needs, d + 1)
    OBVIOUS
  <2>2. d + 1 \in 1 .. depth /\ d <= depth /\ d + 1 - 1 = d /\ d \in Nat
    BY <2>1
  <2>3. visit[d + 1] = VisitWithin(visit[d], needs) /\ VisitsWell(visit[d], needs, d)
    BY <1>1, <2>2
  <2>4. QED
    BY <2>2, <2>3, VisitStageIsWell
<1>4. Good = Nat
  <2> HIDE DEF Good
  <2>1. Good \in SUBSET Nat
    BY DEF Good
  <2>2. QED
    BY <1>2, <1>3, <2>1, Induction
<1>5. QED
  BY <1>1, <1>4

\* _validate_dependency_graph: the search for cycles, which starts at every stage in turn,
\* accepts a graph if and only if every set of stages has one that needs none of the set.
THEOREM AcceptsAcyclic ==
  ASSUME NEW order \in Seq(Stage), ToSet(order) = Stage, NEW needs \in [Stage -> Seq(Stage)]
  PROVE  ValidateDependencyGraph(order, needs) <=> NoCycle(needs, Stage)
<1>1. Len(order) \in Nat
  OBVIOUS
<1>2. IsFiniteSet(Stage) /\ Cardinality(Stage) <= Len(order)
  <2>1. order \in Surjection(1 .. Len(order), Stage)
    <3>1. order \in [1 .. Len(order) -> Stage]
      OBVIOUS
    <3>2. \A s \in Stage : \E i \in 1 .. Len(order) : order[i] = s
      BY <3>1 DEF ToSet
    <3>3. QED
      BY <3>1, <3>2 DEF Surjection
  <2>2. IsFiniteSet(1 .. Len(order)) /\ Cardinality(1 .. Len(order)) = Len(order)
    <3>1. 1 \in Int /\ Len(order) \in Int
      BY <1>1
    <3>2. /\ IsFiniteSet(1 .. Len(order))
          /\ Cardinality(1 .. Len(order)) = IF 1 > Len(order) THEN 0 ELSE Len(order) - 1 + 1
      BY <3>1, FS_Interval, Zenon
    <3>3. QED
      BY <1>1, <3>2
  <2>3. QED
    BY <2>1, <2>2, FS_Surjection
<1> DEFINE visit == Visit(needs, Len(order))
           after == Along(visit, NothingVisited, order)
<1>3. VisitsWell(visit, needs, Len(order))
  BY <1>1, <1>2, VisitIsWell
<1>4. /\ NothingVisited \in Search /\ ~NothingVisited.cycle
      /\ NothingVisited.visiting = {} /\ NothingVisited.visited = {}
  BY DEF NothingVisited, Search
<1>5. Sound(needs, NothingVisited)
  BY <1>4 DEF Sound, NoCycle
<1>6. Cardinality(Stage \ NothingVisited.visiting) <= Len(order)
  <2>1. Stage \ NothingVisited.visiting = Stage
    BY <1>4
  <2>2. QED
    BY <1>2, <2>1
<1>7. \A i \in 1 .. Len(order) : OnTheWay(needs, NothingVisited, order[i])
  BY <1>4 DEF OnTheWay
<1>8. Sound(needs, after) /\ Visited(NothingVisited, after, Stage)
  <2> HIDE DEF visit
  <2>1. QED
    BY <1>1, <1>3, <1>4, <1>5, <1>6, <1>7, AlongVisits
<1> HIDE DEF after
<1>9. after.cycle <=> ~NoCycle(needs, Stage)
  <2>1. CASE after.cycle
    BY <1>8, <2>1 DEF Sound
  <2>2. CASE ~after.cycle
    <3>1. after.visited = Stage /\ NoCycle(needs, after.visited)
      BY <1>8, <2>2 DEF Sound, Visited, Search
    <3>2. QED
      BY <2>2, <3>1
  <2>3. QED
    BY <2>1, <2>2
<1>10. \A s \in ToSet(order) : ToSet(needs[s]) \subseteq ToSet(order)
  BY DEF ToSet
<1>11. QED
  BY <1>9, <1>10 DEF ValidateDependencyGraph, after

-----------------------------------------------------------------------------
(* The fields *)

\* _normalize_needs keeps every id.
LEMMA NormalizedNeeds ==
  ASSUME NEW raw, raw # Absent, raw \in Seq(ToSet(raw))
  PROVE  NormalizeNeeds(raw) \in Seq(ToSet(raw)) /\ ToSet(NormalizeNeeds(raw)) = ToSet(raw)
<1> DEFINE Ids == ToSet(raw)
           step == [needs \in Seq(Ids) |-> [id \in Ids |->
                      IF Contains(needs, id) THEN needs ELSE Append(needs, id)]]
<1>1. Len(raw) \in Nat /\ \A i \in 1 .. Len(raw) : raw[i] \in Ids
  OBVIOUS
<1>2. PICK found : /\ found[0] = <<>>
                   /\ \A i \in 1 .. Len(raw) : found[i] = step[found[i - 1]][raw[i]]
                   /\ Along(step, <<>>, raw) = found[Len(raw)]
  <2> HIDE DEF step, Ids
  <2>1. QED
    BY <1>1, AlongSteps
<1> DEFINE Met(i) == {raw[k] : k \in 1 .. i}
           Good == {i \in Nat : i <= Len(raw) => found[i] \in Seq(Ids) /\ ToSet(found[i]) = Met(i)}
<1>3. 0 \in Good
  <2>1. ToSet(<<>>) = {} /\ Met(0) = {}
    BY DEF ToSet
  <2>2. found[0] \in Seq(Ids) /\ ToSet(found[0]) = Met(0)
    <3> HIDE DEF Ids, Met
    <3>1. found[0] = <<>>
      BY <1>2
    <3>2. <<>> \in Seq(Ids)
      OBVIOUS
    <3>3. QED
      BY <2>1, <3>1, <3>2
  <2>3. QED
    BY <2>2
<1>4. ASSUME NEW i \in Good PROVE i + 1 \in Good
  <2>1. SUFFICES ASSUME i + 1 <= Len(raw)
                 PROVE  found[i + 1] \in Seq(Ids) /\ ToSet(found[i + 1]) = Met(i + 1)
    OBVIOUS
  <2> DEFINE was == found[i]
             id == raw[i + 1]
  <2>2. i + 1 \in 1 .. Len(raw) /\ i <= Len(raw) /\ i + 1 - 1 = i
    BY <2>1, <1>1
  <2>3. was \in Seq(Ids) /\ ToSet(was) = Met(i) /\ id \in Ids /\ Met(i + 1) = Met(i) \cup {id}
    BY <2>2, <1>1
  <2>4. found[i + 1] = IF Contains(was, id) THEN was ELSE Append(was, id)
    <3>1. found[i + 1] = step[was][id]
      <4> HIDE DEF step
      <4>1. QED
        BY <1>2, <2>2
    <3> HIDE DEF was, id, Ids
    <3>2. QED
      BY <2>3, <3>1
  <2> HIDE DEF was, id, Ids, Met
  <2>5. CASE Contains(was, id)
    <3>1. id \in ToSet(was)
      BY <2>3, <2>5 DEF Contains, ToSet
    <3>2. QED
      BY <2>3, <2>4, <2>5, <3>1
  <2>6. CASE ~Contains(was, id)
    <3>1. found[i + 1] = Append(was, id)
      BY <2>4, <2>6
    <3>2. ToSet(Append(was, id)) = ToSet(was) \cup {id}
      <4>1. /\ DOMAIN was = 1 .. Len(was) /\ Len(was) \in Nat
            /\ DOMAIN Append(was, id) = 1 .. Len(was) + 1 /\ Append(was, id)[Len(was) + 1] = id
            /\ \A k \in 1 .. Len(was) : Append(was, id)[k] = was[k]
        BY <2>3
      <4>2. QED
        BY <4>1 DEF ToSet
    <3>3. QED
      BY <2>3, <3>1, <3>2
  <2>7. QED
    BY <2>5, <2>6
<1>5. Good = Nat
  <2> HIDE DEF Good
  <2>1. Good \in SUBSET Nat
    BY DEF Good
  <2>2. QED
    BY <1>3, <1>4, <2>1, Induction
<1>6. NormalizeNeeds(raw) = found[Len(raw)]
  BY <1>2 DEF NormalizeNeeds
<1>7. found[Len(raw)] \in Seq(Ids) /\ ToSet(found[Len(raw)]) = Met(Len(raw))
  <2>1. Len(raw) \in Good
    BY <1>1, <1>5
  <2>2. QED
    BY <1>1, <2>1
<1>8. Met(Len(raw)) = Ids
  BY DEF ToSet
<1>9. QED
  BY <1>6, <1>7, <1>8

\* The values that are picked of the first k lists, given their lengths.
Picks(length, k) == {values \in [1 .. k -> 1 .. MaxLanes] : \A i \in 1 .. k : values[i] <= length[i]}

\* A pick of one list more is a pick of the first ones and a place in that list.
LEMMA PickOneMore ==
  ASSUME NEW length, NEW k \in Nat, length[k + 1] \in 0 .. MaxLanes
  PROVE  ExistsBijection(Picks(length, k) \X (1 .. length[k + 1]), Picks(length, k + 1))
<1> DEFINE Good == Picks(length, k) \X (1 .. length[k + 1])
           T == Picks(length, k + 1)
           More(p) == [i \in 1 .. k + 1 |-> IF i = k + 1 THEN p[2] ELSE p[1][i]]
           more == [p \in Good |-> More(p)]
<1>1. MaxLanes \in Nat
  BY PipelineAssumption
<1>2. ASSUME NEW p \in Good PROVE More(p) \in T
  <2>1. p[1] \in [1 .. k -> 1 .. MaxLanes] /\ p[2] \in 1 .. length[k + 1]
        /\ \A i \in 1 .. k : p[1][i] <= length[i]
    BY DEF Picks
  <2>2. ASSUME NEW i \in 1 .. k + 1 PROVE More(p)[i] \in 1 .. MaxLanes /\ More(p)[i] <= length[i]
    <3>1. CASE i = k + 1
      BY <1>1, <2>1, <3>1
    <3>2. CASE i # k + 1
      <4>1. i \in 1 .. k /\ More(p)[i] = p[1][i]
        BY <3>2
      <4>2. QED
        BY <2>1, <4>1
    <3>3. QED
      BY <3>1, <3>2
  <2>3. QED
    BY <2>2 DEF Picks
<1>3. ASSUME NEW p \in Good, NEW q \in Good, More(p) = More(q) PROVE p = q
  <2>1. p[1] \in [1 .. k -> 1 .. MaxLanes] /\ q[1] \in [1 .. k -> 1 .. MaxLanes]
        /\ p = <<p[1], p[2]>> /\ q = <<q[1], q[2]>>
    BY DEF Picks
  <2>2. p[2] = q[2]
    <3>1. More(p)[k + 1] = p[2] /\ More(q)[k + 1] = q[2]
      OBVIOUS
    <3>2. QED
      BY <1>3, <3>1
  <2>3. ASSUME NEW i \in 1 .. k PROVE p[1][i] = q[1][i]
    <3>1. More(p)[i] = p[1][i] /\ More(q)[i] = q[1][i]
      OBVIOUS
    <3>2. QED
      BY <1>3, <3>1
  <2>4. p[1] = q[1]
    BY <2>1, <2>3
  <2>5. QED
    BY <2>1, <2>2, <2>4
<1>4. ASSUME NEW values \in T PROVE \E p \in Good : More(p) = values
  <2> DEFINE first == [i \in 1 .. k |-> values[i]]
  <2>1. values \in [1 .. k + 1 -> 1 .. MaxLanes] /\ \A i \in 1 .. k + 1 : values[i] <= length[i]
    BY DEF Picks
  <2>2. first \in Picks(length, k) /\ values[k + 1] \in 1 .. length[k + 1]
    BY <1>1, <2>1 DEF Picks
  <2>3. More(<<first, values[k + 1]>>) = values
    BY <2>1
  <2>4. <<first, values[k + 1]>> \in Good
    BY <2>2
  <2> HIDE DEF Good, More, first
  <2>5. QED
    BY <2>3, <2>4
<1> HIDE DEF Good, T, More
<1>5. more \in [Good -> T] /\ \A p \in Good : more[p] = More(p)
  BY <1>2
<1> HIDE DEF more
<1>6. more \in Injection(Good, T)
  BY <1>3, <1>5 DEF Injection, IsInjective
<1>7. more \in Surjection(Good, T)
  BY <1>4, <1>5 DEF Surjection
<1>8. QED
  BY <1>6, <1>7 DEF ExistsBijection, Bijection, Good, T

LEMMA TimesNat ==
  ASSUME NEW m \in Nat, NEW n \in Nat
  PROVE  m * n \in Nat /\ (m * n # 0 <=> m # 0 /\ n # 0)
  OBVIOUS

\* matrix_lanes makes one lane of each combination, and none if a list is empty.
THEOREM LanesAreCombinations ==
  ASSUME NEW matrix, matrix \in Seq(ToSet(matrix)),
         \A i \in 1 .. Len(matrix) : Len(matrix[i]) \in 0 .. MaxLanes
  PROVE  /\ MatrixLanes(matrix) = Cardinality(Combinations(matrix))
         /\ MatrixLanes(matrix) \in Nat
         /\ MatrixLanes(matrix) # 0 <=> \A i \in 1 .. Len(matrix) : Len(matrix[i]) # 0
<1> DEFINE step == [lanes \in Nat |-> [values \in Nat |-> lanes * values]]
           length == [i \in 1 .. Len(matrix) |-> Len(matrix[i])]
<1>1. Len(matrix) \in Nat
  OBVIOUS
<1>2. Len(length) = Len(matrix)
  BY <1>1
<1>3. \A i \in 1 .. Len(matrix) : length[i] = Len(matrix[i]) /\ length[i] \in 0 .. MaxLanes
  OBVIOUS
<1>4. MaxLanes \in Nat
  BY PipelineAssumption
<1>5. MatrixLanes(matrix) = Along(step, 1, length)
  BY DEF MatrixLanes
<1> HIDE DEF length
<1>6. PICK found : /\ found[0] = 1
                   /\ \A i \in 1 .. Len(length) : found[i] = step[found[i - 1]][length[i]]
                   /\ Along(step, 1, length) = found[Len(length)]
  <2> HIDE DEF step
  <2>1. QED
    BY <1>1, <1>2, AlongSteps
<1> DEFINE Counts(i) == /\ found[i] \in Nat
                        /\ IsFiniteSet(Picks(length, i)) /\ Cardinality(Picks(length, i)) = found[i]
                        /\ found[i] # 0 <=> \A k \in 1 .. i : length[k] # 0
           Good == {i \in Nat : i <= Len(matrix) => Counts(i)}
<1>7. 0 \in Good
  <2>1. Picks(length, 0) = {[i \in 1 .. 0 |-> 1]}
    <3>1. \A values \in [1 .. 0 -> 1 .. MaxLanes] : values = [i \in 1 .. 0 |-> 1]
      OBVIOUS
    <3>2. [i \in 1 .. 0 |-> 1] \in [1 .. 0 -> 1 .. MaxLanes]
      OBVIOUS
    <3>3. [i \in 1 .. 0 |-> 1] \in Picks(length, 0)
      BY <3>2 DEF Picks
    <3>4. \A values \in Picks(length, 0) : values = [i \in 1 .. 0 |-> 1]
      BY <3>1 DEF Picks
    <3>5. QED
      BY <3>3, <3>4, Zenon
  <2>2. IsFiniteSet(Picks(length, 0)) /\ Cardinality(Picks(length, 0)) = 1
    BY <2>1, FS_Singleton
  <2>3. found[0] = 1
    BY <1>6
  <2>4. Counts(0)
    BY <2>2, <2>3
  <2>5. QED
    BY <2>4
<1>8. ASSUME NEW i \in Good PROVE i + 1 \in Good
  <2>1. SUFFICES ASSUME i + 1 <= Len(matrix) PROVE Counts(i + 1)
    OBVIOUS
  <2>2. i \in Nat /\ i + 1 \in 1 .. Len(matrix) /\ i <= Len(matrix) /\ i + 1 - 1 = i
    BY <2>1, <1>1
  <2>3. Counts(i)
    BY <2>2
  <2>4. length[i + 1] \in 0 .. MaxLanes /\ length[i + 1] \in Nat
    BY <1>3, <1>4, <2>2
  <2>5. found[i + 1] = found[i] * length[i + 1]
    <3>1. found[i + 1] = step[found[i]][length[i + 1]]
      <4> HIDE DEF step
      <4>1. QED
        BY <1>2, <1>6, <2>2
    <3>2. QED
      BY <2>3, <2>4, <3>1
  <2>6. found[i + 1] \in Nat /\ (found[i + 1] # 0 <=> found[i] # 0 /\ length[i + 1] # 0)
    BY <2>3, <2>4, <2>5, TimesNat
  <2>7. found[i + 1] # 0 <=> \A k \in 1 .. i + 1 : length[k] # 0
    <3>1. 1 .. i + 1 = (1 .. i) \cup {i + 1}
      BY <2>2
    <3>2. QED
      BY <2>3, <2>6, <3>1
  <2>8. IsFiniteSet(1 .. length[i + 1]) /\ Cardinality(1 .. length[i + 1]) = length[i + 1]
    <3>1. 1 \in Int /\ length[i + 1] \in Int
      BY <2>4
    <3>2. /\ IsFiniteSet(1 .. length[i + 1])
          /\ Cardinality(1 .. length[i + 1]) =
               IF 1 > length[i + 1] THEN 0 ELSE length[i + 1] - 1 + 1
      BY <3>1, FS_Interval, Zenon
    <3>3. QED
      BY <2>4, <3>2
  <2> DEFINE pairs == Picks(length, i) \X (1 .. length[i + 1])
  <2>9. IsFiniteSet(pairs) /\ Cardinality(pairs) = found[i] * length[i + 1]
    <3>1. /\ IsFiniteSet(pairs)
          /\ Cardinality(pairs) = Cardinality(Picks(length, i)) * Cardinality(1 .. length[i + 1])
      BY <2>3, <2>8, FS_Product, Zenon
    <3>2. QED
      BY <2>3, <2>8, <3>1
  <2>10. IsFiniteSet(Picks(length, i + 1)) /\ Cardinality(Picks(length, i + 1)) = found[i + 1]
    <3>1. ExistsBijection(pairs, Picks(length, i + 1))
      BY <2>2, <2>4, PickOneMore
    <3> HIDE DEF pairs
    <3>2. QED
      BY <2>5, <2>9, <3>1, FS_Bijection
  <2>11. QED
    BY <2>6, <2>7, <2>10
<1>9. Good = Nat
  <2> HIDE DEF Good
  <2>1. Good \in SUBSET Nat
    BY DEF Good
  <2>2. QED
    BY <1>7, <1>8, <2>1, Induction
<1>10. Counts(Len(matrix))
  <2>1. Len(matrix) \in Good
    BY <1>1, <1>9
  <2> HIDE DEF Counts
  <2>2. QED
    BY <1>1, <2>1
<1>11. Combinations(matrix) = Picks(length, Len(matrix))
  BY <1>3 DEF Combinations, Picks
<1>12. MatrixLanes(matrix) = found[Len(matrix)]
  BY <1>2, <1>5, <1>6
<1>13. QED
  BY <1>3, <1>10, <1>11, <1>12

-----------------------------------------------------------------------------
(* The whole of load_pipeline *)

\* The needs that are stored for a stage are what its field says.
LEMMA StoredNeeds ==
  ASSUME NEW raw \in Raw, NEW s \in Stage
  PROVE  LET needs == NormalizeNeeds(raw.field[s].needs)
         IN  /\ ToSet(needs) = Meant(raw).needs[s]
             /\ needs \in Seq(ToSet(needs))
             /\ \A id : Contains(needs, id) <=> id \in ToSet(needs)
<1> DEFINE field == raw.field[s].needs
           needs == NormalizeNeeds(field)
<1>1. Meant(raw).needs[s] = IF field = Absent THEN {} ELSE ToSet(field)
  BY DEF Meant
<1>2. ToSet(needs) = Meant(raw).needs[s] /\ needs \in Seq(ToSet(needs))
  <2>1. CASE field = Absent
    <3>1. needs = <<>> /\ ToSet(<<>>) = {}
      BY <2>1 DEF NormalizeNeeds, ToSet
    <3>2. <<>> \in Seq({})
      OBVIOUS
    <3>3. QED
      BY <1>1, <2>1, <3>1, <3>2
  <2>2. CASE field # Absent
    <3>1. field \in Seq(ToSet(field))
      BY <2>2, RawAssumption
    <3>2. needs \in Seq(ToSet(field)) /\ ToSet(needs) = ToSet(field)
      BY <2>2, <3>1, NormalizedNeeds
    <3>3. QED
      BY <1>1, <2>2, <3>2
  <2>3. QED
    BY <2>1, <2>2
<1> HIDE DEF needs
<1>3. DOMAIN needs = 1 .. Len(needs)
  BY <1>2
<1>4. \A id : Contains(needs, id) <=> id \in ToSet(needs)
  BY <1>3 DEF Contains, ToSet
<1>5. QED
  BY <1>2, <1>4 DEF needs

NeedsOf(raw) == [s \in Stage |-> NormalizeNeeds(raw.field[s].needs)]

\* The check of the graph is what Valid says of the needs that are meant.
LEMMA AcceptedGraph ==
  ASSUME NEW raw \in Raw
  PROVE  ValidateDependencyGraph(raw.order, NeedsOf(raw)) <=>
           /\ Meant(raw).needs \in [Stage -> SUBSET Stage]
           /\ \A T \in (SUBSET Stage) \ {{}} : \E s \in T : Meant(raw).needs[s] \cap T = {}
<1> DEFINE needs == NeedsOf(raw)
           meant == Meant(raw).needs
<1>1. raw.order \in Seq(Stage) /\ ToSet(raw.order) = Stage
  BY RawAssumption
<1>2. \A s \in Stage : needs[s] = NormalizeNeeds(raw.field[s].needs)
  BY DEF NeedsOf
<1>3. \A s \in Stage : ToSet(needs[s]) = meant[s] /\ needs[s] \in Seq(ToSet(needs[s]))
  BY <1>2, StoredNeeds
<1>4. meant = [s \in Stage |-> meant[s]]
  BY DEF Meant
<1>5. needs = [s \in Stage |-> needs[s]]
  BY DEF NeedsOf
<1> HIDE DEF needs, meant
<1>6. CASE \A s \in Stage : ToSet(needs[s]) \subseteq Stage
  <2>1. meant \in [Stage -> SUBSET Stage]
    BY <1>3, <1>4, <1>6
  <2>2. needs \in [Stage -> Seq(Stage)]
    <3>1. \A s \in Stage : needs[s] \in Seq(Stage)
      BY <1>3, <1>6
    <3>2. QED
      BY <1>5, <3>1
  <2>3. ValidateDependencyGraph(raw.order, needs) <=> NoCycle(needs, Stage)
    BY <1>1, <2>2, AcceptsAcyclic
  <2>4. NoCycle(needs, Stage) <=>
          \A T \in (SUBSET Stage) \ {{}} : \E s \in T : meant[s] \cap T = {}
    <3>1. \A T \in SUBSET Stage : (\E s \in T : ToSet(needs[s]) \cap T = {})
                                  <=> \E s \in T : meant[s] \cap T = {}
      BY <1>3
    <3>2. QED
      BY <3>1 DEF NoCycle
  <2>5. QED
    BY <2>1, <2>3, <2>4 DEF needs, meant
<1>7. CASE ~ \A s \in Stage : ToSet(needs[s]) \subseteq Stage
  <2>1. ~ValidateDependencyGraph(raw.order, needs)
    BY <1>1, <1>7 DEF ValidateDependencyGraph
  <2>2. meant \notin [Stage -> SUBSET Stage]
    BY <1>3, <1>7
  <2>3. QED
    BY <2>1, <2>2 DEF needs, meant
<1>8. QED
  BY <1>6, <1>7

\* A matrix has lanes if and only if none of its lists is empty.
LEMMA AcceptedLanes ==
  ASSUME NEW raw \in Raw
  PROVE  /\ Meant(raw).lanes = MatrixLanes(raw.matrix)
         /\ Meant(raw).lanes \in 1 .. MaxLanes <=> \A i \in 1 .. Len(raw.matrix) : raw.matrix[i] # <<>>
<1> DEFINE matrix == raw.matrix
<1>1. /\ matrix \in Seq(ToSet(matrix)) /\ MatrixLanes(matrix) <= MaxLanes
      /\ \A i \in 1 .. Len(matrix) : matrix[i] \in Seq(ToSet(matrix[i])) /\ Len(matrix[i]) <= MaxLanes
  BY RawAssumption
<1>2. MaxLanes \in Nat
  BY PipelineAssumption
<1>3. Meant(raw).lanes = Cardinality(Combinations(matrix))
  BY DEF Meant
<1> HIDE DEF matrix
<1>4. \A i \in 1 .. Len(matrix) : /\ Len(matrix[i]) \in 0 .. MaxLanes
                                  /\ Len(matrix[i]) # 0 <=> matrix[i] # <<>>
  BY <1>1, <1>2
<1>5. /\ MatrixLanes(matrix) = Cardinality(Combinations(matrix))
      /\ MatrixLanes(matrix) \in Nat
      /\ MatrixLanes(matrix) # 0 <=> \A i \in 1 .. Len(matrix) : Len(matrix[i]) # 0
  BY <1>1, <1>4, LanesAreCombinations
<1>6. MatrixLanes(matrix) \in 1 .. MaxLanes <=> MatrixLanes(matrix) # 0
  BY <1>1, <1>2, <1>5
<1>7. QED
  BY <1>3, <1>4, <1>5, <1>6 DEF matrix

\* What load_pipeline checks besides the fields of each stage by themselves.
Checked(raw, m) ==
  /\ \A i \in 1 .. Len(raw.matrix) : raw.matrix[i] # <<>>
  /\ ValidateDependencyGraph(raw.order, NeedsOf(raw))
  /\ InputsAccepted(NeedsOf(raw), m.retention, m.input)

\* With stages that are accepted by themselves, the other checks amount to Valid.
LEMMA CheckedIsValid ==
  ASSUME NEW raw \in Raw, \A s \in Stage : StageAccepted(s, raw.field[s])
  PROVE  Checked(raw, Meant(raw)) <=> Valid(Meant(raw))
<1> DEFINE m == Meant(raw)
           needs == NeedsOf(raw)
<1>1. m = [lanes |-> m.lanes, samples |-> Key, order |-> raw.order, needs |-> m.needs,
           scope |-> m.scope, form |-> m.form, if |-> m.if, retention |-> m.retention,
           input |-> m.input]
  BY DEF Meant
<1>2. /\ m.scope \in [Stage -> {"matrix", "pipeline"}]
      /\ m.form \in [Stage -> {"runner", "script"}]
      /\ m.if \in [Stage -> {"success()", "always()"}]
      /\ m.retention \in [Stage -> {"keep", "pipeline", "matrix", "none"}]
  BY DEF Meant, Or, StageAccepted
<1>3. DOMAIN m.input = Stage /\ m.input = [s \in Stage |-> m.input[s]]
  BY DEF Meant
<1>4. /\ raw.order \in Seq(Stage) /\ ToSet(raw.order) = Stage
      /\ \A i, k \in 1 .. Len(raw.order) : raw.order[i] = raw.order[k] => i = k
  BY RawAssumption
<1>5. \A s \in Stage : \E i \in 1 .. Len(raw.order) : raw.order[i] = s
  BY <1>4 DEF ToSet
<1>6. ASSUME NEW s \in Stage PROVE \A id : Contains(needs[s], id) <=> id \in m.needs[s]
  <2>1. needs[s] = NormalizeNeeds(raw.field[s].needs)
    BY DEF NeedsOf
  <2>2. QED
    BY <2>1, StoredNeeds
<1> DEFINE Reads == \A s \in Stage : m.input[s] # Dataset =>
                      m.input[s] \in m.needs[s] /\ m.retention[m.input[s]] # "none"
<1>7. m.lanes \in 1 .. MaxLanes <=> \A i \in 1 .. Len(raw.matrix) : raw.matrix[i] # <<>>
  BY AcceptedLanes
<1>8. ValidateDependencyGraph(raw.order, needs) <=>
        /\ m.needs \in [Stage -> SUBSET Stage]
        /\ \A T \in (SUBSET Stage) \ {{}} : \E s \in T : m.needs[s] \cap T = {}
  BY AcceptedGraph
<1> HIDE DEF m, needs
<1>9. InputsAccepted(needs, m.retention, m.input) <=> Reads
  BY <1>3, <1>6 DEF InputsAccepted
<1>10. m.needs \in [Stage -> SUBSET Stage] /\ Reads => m.input \in [Stage -> Stage \cup {Dataset}]
  BY <1>3
<1>11. m \in DefinitionType <=>
         /\ m.lanes \in 1 .. MaxLanes
         /\ m.needs \in [Stage -> SUBSET Stage]
         /\ m.input \in [Stage -> Stage \cup {Dataset}]
  <2>1. m.samples = Key /\ m.order = raw.order
    BY <1>1
  <2>2. QED
    BY <1>1, <1>2, <1>4, <2>1 DEF DefinitionType
<1>12. Valid(m) <=> /\ m.lanes \in 1 .. MaxLanes
                    /\ m.needs \in [Stage -> SUBSET Stage]
                    /\ \A T \in (SUBSET Stage) \ {{}} : \E s \in T : m.needs[s] \cap T = {}
                    /\ m.input \in [Stage -> Stage \cup {Dataset}] /\ Reads
  <2>1. m.samples = Key /\ m.order = raw.order
    BY <1>1
  <2>2. QED
    BY <1>4, <1>5, <1>11, <2>1 DEF Valid
<1>13. Checked(raw, m) <=> /\ \A i \in 1 .. Len(raw.matrix) : raw.matrix[i] # <<>>
                           /\ ValidateDependencyGraph(raw.order, needs)
                           /\ InputsAccepted(needs, m.retention, m.input)
  BY DEF Checked, needs
<1> HIDE DEF Reads
<1>14. Checked(raw, m) <=> Valid(m)
  BY <1>7, <1>8, <1>9, <1>10, <1>12, <1>13
<1>15. QED
  BY <1>14 DEF m

\* What is stored is what the file means, field by field.
LEMMA LoadsWhatIsMeant ==
  ASSUME NEW raw \in Raw
  PROVE  LoadPipeline(raw) = IF (\A s \in Stage : StageAccepted(s, raw.field[s])) /\ Checked(raw, Meant(raw))
                             THEN {Meant(raw)} ELSE {}
<1> DEFINE needs == NeedsOf(raw)
           m == Meant(raw)
<1>1. ToSet(raw.order) = Stage
  BY RawAssumption
<1>2. /\ needs = [s \in Stage |-> NormalizeNeeds(raw.field[s].needs)]
      /\ m.retention = [s \in Stage |-> Or(raw.field[s].retention, "keep")]
      /\ m.input = [s \in Stage |-> Or(raw.field[s].input, Dataset)]
  BY DEF NeedsOf, Meant
<1>3. m.lanes = MatrixLanes(raw.matrix)
  BY AcceptedLanes
<1>4. [s \in Stage |-> ToSet(needs[s])] = m.needs
  <2>1. \A s \in Stage : ToSet(needs[s]) = m.needs[s]
    BY <1>2, StoredNeeds
  <2>2. m.needs = [s \in Stage |-> m.needs[s]]
    BY DEF Meant
  <2> HIDE DEF needs, m
  <2>3. QED
    BY <2>1, <2>2
<1> DEFINE result == [lanes |-> MatrixLanes(raw.matrix), samples |-> Key, order |-> raw.order,
                      needs |-> [s \in Stage |-> ToSet(needs[s])],
                      scope |-> [s \in Stage |-> Or(raw.field[s].scope, "matrix")],
                      form |-> [s \in Stage |-> IF raw.field[s].runner THEN "runner" ELSE "script"],
                      if |-> [s \in Stage |-> Or(raw.field[s].if, "success()")],
                      retention |-> m.retention, input |-> m.input]
<1>5. result = m
  <2>1. m = [lanes |-> m.lanes, samples |-> Key, order |-> raw.order, needs |-> m.needs,
             scope |-> [s \in Stage |-> Or(raw.field[s].scope, "matrix")],
             form |-> [s \in Stage |-> IF raw.field[s].runner THEN "runner" ELSE "script"],
             if |-> [s \in Stage |-> Or(raw.field[s].if, "success()")],
             retention |-> m.retention, input |-> m.input]
    BY DEF Meant
  <2> HIDE DEF m, needs
  <2>2. QED
    BY <1>3, <1>4, <2>1
<1>6. LoadPipeline(raw) =
        IF (\A s \in Stage : StageAccepted(s, raw.field[s])) /\ Checked(raw, m) THEN {result} ELSE {}
  BY <1>1, <1>2 DEF LoadPipeline, Checked
<1> HIDE DEF result, m
<1>7. QED
  BY <1>5, <1>6 DEF m

\* load_pipeline accepts exactly the files whose stages pass their own checks and that mean
\* something valid, and stores what they mean.
THEOREM LoadsExactlyTheValid == LoadsTheValid
<1>1. SUFFICES ASSUME NEW raw \in Raw
               PROVE  LoadPipeline(raw) =
                        IF (\A s \in Stage : StageAccepted(s, raw.field[s])) /\ Valid(Meant(raw))
                        THEN {Meant(raw)} ELSE {}
  BY DEF LoadsTheValid
<1>2. CASE \A s \in Stage : StageAccepted(s, raw.field[s])
  <2>1. Checked(raw, Meant(raw)) <=> Valid(Meant(raw))
    BY <1>2, CheckedIsValid
  <2>2. QED
    BY <1>2, <2>1, LoadsWhatIsMeant
<1>3. CASE ~ \A s \in Stage : StageAccepted(s, raw.field[s])
  BY <1>3, LoadsWhatIsMeant
<1>4. QED
  BY <1>2, <1>3

\* What reconcile_pipeline_run fetches is a definition that load_pipeline can have accepted:
\* valid, as is exactly what load_pipeline accepts of any set of files.
THEOREM FetchedConfigIsValid == Spec => []FetchedIsValid
<1>1. TypeOK => FetchedIsValid
  <2>1. SUFFICES ASSUME TypeOK PROVE Valid(config) /\ LoadsTheValid
    BY DEF FetchedIsValid
  <2>2. Valid(config)
    BY <2>1, PipelineAssumption DEF TypeOK
  <2>3. QED
    BY <2>2, LoadsExactlyTheValid
<1>2. QED
  BY <1>1, TypeCorrect, PTL
=============================================================================

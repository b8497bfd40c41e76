---------------------------- MODULE RankingProof ----------------------------
(***************************************************************************)
(* Proofs about the ranks at the end of a game, for every number of         *)
(* characters, teams and hit points.                                       *)
(***************************************************************************)
EXTENDS Ranking, FoldProof

(* A bounded set of numbers has a largest one.                             *)
LEMMA LargestIs ==
    ASSUME NEW S \in SUBSET Nat, S # {}, NEW k \in Nat, \A x \in S : x <= k
    PROVE  Largest(S) \in S /\ \A x \in S : x <= Largest(S)
<1> DEFINE R == {k - x : x \in S}
<1>1. R \in SUBSET Nat /\ R # {}
  <2>1. \A x \in S : k - x \in Nat
    OBVIOUS
  <2> QED
    BY <2>1
<1>2. PICK r \in R : \A q \in R : r <= q
  BY <1>1, LeastNumber
<1>3. PICK y \in S : r = k - y
  BY <1>2
<1>4. \A x \in S : x <= y
  BY <1>2, <1>3
<1>5. \E y1 \in S : \A x \in S : x <= y1
  BY <1>4
<1> QED
  BY <1>5 DEF Largest

-----------------------------------------------------------------------------
(* The sum of hit points: MapThenSumSet is a recursive function on the sets *)
(* of a team's survivors, and there is one, by induction over their size.   *)

HP(f) == final[f].hp
SumStep(g, s) == IF s = {} THEN 0
                 ELSE HP(CHOOSE x \in s : TRUE) + g[s \ {CHOOSE x \in s : TRUE}]
SumsOver(S, g) == g = [s \in SUBSET S |-> SumStep(g, s)]
SumOf(S) == MapThenSumSet(LAMBDA f : final[f].hp, S)

LEMMA SumIsChosen ==
    ASSUME NEW S
    PROVE  SumOf(S) = (CHOOSE g : SumsOver(S, g))[S]
BY DEF SumOf, MapThenSumSet, MapThenFoldSet, SumsOver, SumStep, HP

LEMMA OneLess ==
    ASSUME NEW s, IsFiniteSet(s), s # {}
    PROVE  /\ (CHOOSE x \in s : TRUE) \in s
           /\ IsFiniteSet(s \ {CHOOSE x \in s : TRUE})
           /\ Cardinality(s \ {CHOOSE x \in s : TRUE}) = Cardinality(s) - 1
           /\ Cardinality(s) \in Nat \ {0}
<1>1. (CHOOSE x \in s : TRUE) \in s
  OBVIOUS
<1>2. Cardinality(s) \in Nat /\ Cardinality(s) # 0
  BY FS_CardinalityType, FS_EmptySet
<1> QED
  BY <1>1, <1>2, FS_RemoveElement

(* A function that is a sum for the sets of at most n characters.           *)
SumsUpTo(S, g, n) == \A s \in SUBSET S : Cardinality(s) <= n => g[s] = SumStep(g, s)

LEMMA SumsExist ==
    ASSUME NEW S, IsFiniteSet(S)
    PROVE  \E g : SumsOver(S, g)
<1> DEFINE Bad == {n \in Nat : \A g : ~SumsUpTo(S, g, n)}
<1>1. \A s \in SUBSET S : IsFiniteSet(s) /\ Cardinality(s) \in Nat
  BY FS_Subset, FS_CardinalityType
<1>2. Bad = {}
  <2> SUFFICES ASSUME Bad # {} PROVE FALSE
    OBVIOUS
  <2>1. PICK n \in Bad : \A m \in Bad : n <= m
    BY LeastNumber
  <2>2. PICK g : n > 0 => SumsUpTo(S, g, n - 1)
    <3>1. CASE n = 0
      BY <3>1
    <3>2. CASE n > 0
      <4>1. n - 1 \in Nat /\ n - 1 \notin Bad
        BY <2>1, <3>2
      <4> QED
        BY <4>1
    <3> QED
      BY <2>1, <3>1, <3>2
  <2> DEFINE h == [s \in SUBSET S |-> SumStep(g, s)]
  <2>3. SumsUpTo(S, h, n)
    <3> SUFFICES ASSUME NEW s \in SUBSET S, Cardinality(s) <= n
                 PROVE  h[s] = SumStep(h, s)
      BY DEF SumsUpTo
    <3>1. CASE s = {}
      BY <3>1 DEF SumStep
    <3>2. CASE s # {}
      <4> DEFINE r == s \ {CHOOSE x \in s : TRUE}
      <4>1. r \in SUBSET S /\ Cardinality(r) = Cardinality(s) - 1 /\ Cardinality(s) \in Nat \ {0}
        BY <1>1, <3>2, OneLess
      <4>2. g[r] = SumStep(g, r)
        <5>1. n \in Nat /\ n > 0 /\ Cardinality(r) <= n - 1
          BY <2>1, <4>1
        <5> QED
          BY <2>2, <4>1, <5>1 DEF SumsUpTo
      <4>3. h[r] = g[r]
        BY <4>1, <4>2
      <4> QED
        BY <3>2, <4>3 DEF SumStep
    <3> QED
      BY <3>1, <3>2
  <2> QED
    BY <2>1, <2>3
<1>3. PICK g : SumsUpTo(S, g, Cardinality(S))
  BY <1>1, <1>2
<1> DEFINE h == [s \in SUBSET S |-> g[s]]
<1>4. ASSUME NEW s \in SUBSET S PROVE h[s] = SumStep(h, s)
  <2>1. g[s] = SumStep(g, s)
    BY <1>3, FS_Subset DEF SumsUpTo
  <2>2. CASE s = {}
    BY <2>1, <2>2 DEF SumStep
  <2>3. CASE s # {}
    <3>1. s \ {CHOOSE x \in s : TRUE} \in SUBSET S
      OBVIOUS
    <3> QED
      BY <2>1, <2>3, <3>1 DEF SumStep
  <2> QED
    BY <2>2, <2>3
<1>5. h = [s \in SUBSET S |-> SumStep(h, s)]
  BY <1>4
<1> QED
  BY <1>5 DEF SumsOver

(* A sum of hit points is a number, and none of them is more.              *)
LEMMA SumBounds ==
    ASSUME NEW S, IsFiniteSet(S), \A f \in S : HP(f) \in Nat
    PROVE  SumOf(S) \in Nat /\ \A f \in S : HP(f) <= SumOf(S)
<1> DEFINE g == CHOOSE g0 : SumsOver(S, g0)
<1>1. SumsOver(S, g)
  BY SumsExist
<1> HIDE DEF g
<1> DEFINE Good(s) == g[s] \in Nat /\ \A f \in s : HP(f) <= g[s]
           Bad == {n \in Nat : \E s \in SUBSET S : Cardinality(s) = n /\ ~Good(s)}
<1>2. \A s \in SUBSET S : IsFiniteSet(s) /\ Cardinality(s) \in Nat
  BY FS_Subset, FS_CardinalityType
<1>3. Bad = {}
  <2> SUFFICES ASSUME Bad # {} PROVE FALSE
    OBVIOUS
  <2>1. PICK n \in Bad : \A m \in Bad : n <= m
    BY LeastNumber
  <2>2. PICK s \in SUBSET S : Cardinality(s) = n /\ ~Good(s)
    BY <2>1
  <2>3. g[s] = SumStep(g, s)
    BY <1>1 DEF SumsOver
  <2>4. s # {}
    BY <2>2, <2>3 DEF SumStep
  <2> DEFINE x == CHOOSE y \in s : TRUE
             r == s \ {x}
  <2>5. /\ x \in s /\ r \in SUBSET S /\ Cardinality(r) = n - 1 /\ n \in Nat \ {0}
        /\ g[s] = HP(x) + g[r]
    BY <1>2, <2>2, <2>3, <2>4, OneLess DEF SumStep
  <2> HIDE DEF x
  <2>6. Good(r)
    <3>1. n - 1 \notin Bad /\ n - 1 \in Nat
      BY <2>1, <2>5
    <3> QED
      BY <2>5, <3>1
  <2>7. HP(x) \in Nat
    BY <2>5
  <2>8. g[s] \in Nat /\ HP(x) <= g[s] /\ g[r] <= g[s]
    BY <2>5, <2>6, <2>7
  <2>9. ASSUME NEW f \in s PROVE HP(f) <= g[s]
    <3>1. CASE f = x
      BY <2>8, <3>1
    <3>2. CASE f # x
      <4>1. f \in r /\ HP(f) <= g[r] /\ HP(f) \in Nat
        BY <2>6, <3>2
      <4> QED
        BY <2>6, <2>8, <4>1
    <3> QED
      BY <3>1, <3>2
  <2> QED
    BY <2>2, <2>8, <2>9
<1>4. Good(S)
  BY <1>2, <1>3
<1>5. SumOf(S) = g[S]
  BY SumIsChosen DEF g
<1> QED
  BY <1>4, <1>5

-----------------------------------------------------------------------------
(* What the game has left, and what every pass keeps of it.                *)

Ranked == Entities \ rest

GameLeft ==
    /\ match \in {"single", "teams"}
    /\ Entities \subseteq Fighters /\ final \in [Entities -> FinalStates]
    /\ rest \subseteq Entities /\ next \in Nat

(* Who still plays has seen every turn and has hit points.                 *)
LEMMA FinalIs ==
    ASSUME GameLeft, NEW f \in Entities
    PROVE  /\ final[f].hp \in 0 .. MaxLife /\ final[f].turns \in 0 .. MaxTurn
           /\ final[f].alive \in BOOLEAN
           /\ Survivor(f) /\ final[f].conn = "AUTHED" =>
                final[f].turns = MaxTurn /\ final[f].hp >= 1
<1>1. final[f] \in FinalStates
  BY DEF GameLeft
<1>2. CASE final[f] \in {[conn |-> "AUTHED", alive |-> TRUE, hp |-> h, turns |-> MaxTurn] :
                           h \in 1 .. MaxLife}
  <2>1. PICK h \in 1 .. MaxLife :
               final[f] = [conn |-> "AUTHED", alive |-> TRUE, hp |-> h, turns |-> MaxTurn]
    BY <1>2
  <2>2. final[f].hp = h /\ final[f].turns = MaxTurn /\ final[f].alive = TRUE
    BY <2>1
  <2>3. h \in 0 .. MaxLife /\ h >= 1 /\ MaxTurn \in 0 .. MaxTurn
    BY RankingAssumption
  <2> QED
    BY <2>2, <2>3
<1>3. CASE final[f] \in [conn : {"DESTROY"}, alive : {TRUE}, hp : 0 .. MaxLife,
                         turns : 0 .. MaxTurn]
  BY <1>3, RankingAssumption
<1>4. CASE final[f] \in [conn : {"AUTHED"}, alive : {FALSE}, hp : {0, MaxLife},
                         turns : 0 .. MaxTurn]
  <2>1. ~Survivor(f)
    BY <1>4 DEF Survivor
  <2>2. final[f].hp \in {0, MaxLife} /\ final[f].alive = FALSE /\ final[f].turns \in 0 .. MaxTurn
    BY <1>4
  <2>3. 0 \in 0 .. MaxLife /\ MaxLife \in 0 .. MaxLife
    BY RankingAssumption
  <2> QED
    BY <2>1, <2>2, <2>3
<1> QED
  BY <1>1, <1>2, <1>3, <1>4 DEF FinalStates

LEMMA SetsAreFinite ==
    ASSUME GameLeft
    PROVE  /\ IsFiniteSet(Entities) /\ IsFiniteSet(rest) /\ IsFiniteSet(Ranked)
           /\ Cardinality(Entities) \in Nat /\ Cardinality(Ranked) \in Nat
           /\ Cardinality(Entities) <= Cardinality(Fighters) /\ Cardinality(Fighters) \in Nat
           /\ Cardinality(Ranked) <= Cardinality(Entities)
           /\ rest # {} => Cardinality(Ranked) + 1 <= Cardinality(Entities)
<1>1. IsFiniteSet(Fighters) /\ Entities \subseteq Fighters /\ rest \subseteq Entities
  BY BattleAssumption DEF GameLeft
<1>2. /\ IsFiniteSet(Entities) /\ Cardinality(Entities) <= Cardinality(Fighters)
      /\ Cardinality(Fighters) \in Nat /\ Cardinality(Entities) \in Nat
  BY <1>1, FS_Subset, FS_CardinalityType
<1>3. /\ IsFiniteSet(rest) /\ IsFiniteSet(Ranked) /\ Cardinality(Ranked) \in Nat
      /\ Cardinality(Ranked) <= Cardinality(Entities)
      /\ Cardinality(Entities) = Cardinality(Ranked) => Entities = Ranked
  BY <1>1, <1>2, FS_Subset, FS_CardinalityType DEF Ranked
<1>4. rest # {} => Cardinality(Ranked) # Cardinality(Entities)
  BY <1>1, <1>3 DEF Ranked
<1> QED
  BY <1>2, <1>3, <1>4

(* nNo does not reach its end: there are fewer characters than that.        *)
LEMMA FewerThanWrap == Cardinality(Fighters) \in Nat /\ Cardinality(Fighters) < LiveWrap
<1>1. \A n \in Nat : n <= n * n /\ n * n \in Nat
  <2> SUFFICES ASSUME NEW n \in Nat PROVE n <= n * n /\ n * n \in Nat
    OBVIOUS
  <2>1. CASE n = 0
    BY <2>1
  <2>2. CASE n > 0
    BY <2>2
  <2> QED
    BY <2>1, <2>2
<1> DEFINE k == Cardinality(Fighters)
           q == k * k
<1>2. k \in Nat
  BY BattleAssumption, FS_CardinalityType
<1>3. q \in Nat /\ k <= q
  BY <1>1, <1>2
<1>4. LiveWrap > MaxTurn + q /\ LiveWrap \in Nat /\ MaxTurn \in Nat
  BY RankingAssumption
<1> HIDE DEF q, k
<1> QED
  BY <1>2, <1>3, <1>4 DEF k

(* r * e + e stays below the wrap of live_count.                           *)
LEMMA ProductRises ==
    ASSUME NEW r \in Nat, NEW s \in Nat, NEW e \in Nat, r + 1 <= s
    PROVE  r * e + e <= s * e /\ r * e \in Nat /\ s * e \in Nat
<1>1. \A x, y, z \in Nat : x <= y => x * z <= y * z
  OBVIOUS
<1>2. (r + 1) * e = r * e + e /\ r + 1 \in Nat
  OBVIOUS
<1>3. (r + 1) * e <= s * e
  BY <1>1, <1>2
<1> QED
  BY <1>2, <1>3

LEMMA ProductsGrow ==
    ASSUME NEW r \in Nat, NEW e \in Nat, NEW k \in Nat, r + 1 <= e, e <= k
    PROVE  r * e + e <= k * k /\ r * e \in Nat /\ k * k \in Nat
<1>1. \A x, y, z \in Nat : x <= y => x * z <= y * z
  OBVIOUS
<1>2. (r + 1) * e = r * e + e /\ r * e \in Nat /\ r + 1 \in Nat
  OBVIOUS
<1>3. (r + 1) * e <= e * e
  BY <1>1, <1>2
<1>4. e * e <= k * e
  BY <1>1
<1>5. k * e = e * k /\ e * k <= k * k
  BY <1>1
<1> DEFINE a == r * e  b == e * e  c == k * e  d == k * k
<1>6. a \in Nat /\ b \in Nat /\ c \in Nat /\ d \in Nat
  OBVIOUS
<1>7. a + e <= b /\ b <= c /\ c <= d
  BY <1>2, <1>3, <1>4, <1>5
<1> HIDE DEF a, b, c, d
<1>8. a + e <= d
  BY <1>6, <1>7
<1> QED
  BY <1>6, <1>8 DEF a, d

-----------------------------------------------------------------------------
(* live_count: the dead have their turns, the survivors are all alike and   *)
(* ahead of every dead after the next pass.                                *)
LiveRight ==
    /\ \A f \in rest :
         IF Survivor(f)
           THEN live[f] \in MaxTurn .. MaxTurn + Cardinality(Ranked) * Cardinality(Entities)
           ELSE live[f] = final[f].turns
    /\ \A f, g \in rest : Survivor(f) /\ Survivor(g) => live[f] = live[g]

LEMMA NoWrap ==
    ASSUME GameLeft, LinksUp, LiveRight, NEW f \in rest
    PROVE  /\ Survivor(f) => LiveNow(f) = live[f] + Cardinality(Entities)
           /\ ~Survivor(f) => LiveNow(f) = final[f].turns
           /\ LiveNow(f) \in 0 .. LiveWrap
           /\ Survivor(f) => LiveNow(f) > MaxTurn
<1> DEFINE e == Cardinality(Entities)
           r == Cardinality(Ranked)
           k == Cardinality(Fighters)
<1>1. r \in Nat /\ e \in Nat /\ k \in Nat /\ r + 1 <= e /\ e <= k
  BY SetsAreFinite
<1>2. r * e + e <= k * k /\ r * e \in Nat /\ k * k \in Nat
  BY <1>1, ProductsGrow
<1>3. LiveWrap \in Nat /\ MaxTurn \in Nat /\ LiveWrap > MaxTurn + k * k
  BY RankingAssumption
<1>4. f \in Entities
  BY DEF GameLeft
<1>5. CASE Survivor(f)
  <2>1. final[f].conn = "AUTHED"
    BY <1>4, <1>5 DEF LinksUp
  <2>2. live[f] \in MaxTurn .. MaxTurn + r * e
    BY <1>5 DEF LiveRight
  <2> DEFINE p == r * e
             q == k * k
  <2>3. /\ p \in Nat /\ q \in Nat /\ p + e <= q /\ LiveWrap > MaxTurn + q
        /\ live[f] \in MaxTurn .. MaxTurn + p
    BY <1>2, <1>3, <2>2
  <2>4. LiveNow(f) = (live[f] + e) % LiveWrap
    BY <1>5, <2>1 DEF LiveNow
  <2> HIDE DEF p, q, e
  <2>5. live[f] + e \in 0 .. LiveWrap - 1 /\ live[f] + e > MaxTurn
    BY <1>1, <1>3, <2>3
  <2>6. (live[f] + e) % LiveWrap = live[f] + e
    <3>1. \A x \in 0 .. LiveWrap - 1 : x % LiveWrap = x
      BY <1>3
    <3> QED
      BY <2>5, <3>1
  <2> QED
    BY <1>3, <1>5, <2>4, <2>5, <2>6 DEF e
<1>6. CASE ~Survivor(f)
  <2>1. LiveNow(f) = final[f].turns /\ final[f].turns \in 0 .. MaxTurn
    BY <1>4, <1>6, FinalIs DEF LiveNow, LiveRight
  <2>2. MaxTurn <= LiveWrap
    BY <1>2, <1>3
  <2> QED
    BY <1>3, <1>6, <2>1, <2>2
<1> QED
  BY <1>5, <1>6

LEMMA LongestIs ==
    ASSUME GameLeft, LinksUp, LiveRight, rest # {}
    PROVE  /\ \E f \in rest : LiveNow(f) = LongestLive
           /\ \A f \in rest : LiveNow(f) <= LongestLive
<1> DEFINE S == {LiveNow(f) : f \in rest}
<1>1. S \in SUBSET Nat /\ S # {} /\ \A x \in S : x <= LiveWrap
  BY NoWrap, RankingAssumption
<1>2. Largest(S) \in S /\ \A x \in S : x <= Largest(S)
  BY <1>1, LargestIs, RankingAssumption
<1> QED
  BY <1>2 DEF LongestLive

(* A pass that gives a rank to somebody keeps live_count right.            *)
LEMMA LiveStaysRight ==
    ASSUME GameLeft, LinksUp, LiveRight, GameLeft', final' = final,
           rest' \subseteq rest, rest' # rest,
           live' = [f \in Entities |-> IF f \in rest THEN LiveNow(f) ELSE live[f]]
    PROVE  LiveRight'
<1> DEFINE e == Cardinality(Entities)
           r == Cardinality(Ranked)
           s == Cardinality(Ranked')
<1>1. Entities' = Entities /\ \A f \in Entities : Survivor(f)' = Survivor(f)
  BY DEF Entities, Survivor
<1>2. r \in Nat /\ s \in Nat /\ e \in Nat /\ r + 1 <= s
  <2>1. Ranked \subseteq Ranked' /\ Ranked # Ranked'
    BY <1>1 DEF Ranked, GameLeft
  <2>2. IsFiniteSet(Ranked')
    <3>1. IsFiniteSet(Entities) /\ Ranked' \subseteq Entities
      BY <1>1, SetsAreFinite DEF Ranked
    <3> QED
      BY <3>1, FS_Subset
  <2>3. r \in Nat /\ s \in Nat /\ e \in Nat /\ r <= s /\ r # s
    BY <2>1, <2>2, FS_Subset, FS_CardinalityType, SetsAreFinite
  <2> QED
    BY <2>3
<1>3. ASSUME NEW f \in rest', Survivor(f)
      PROVE  live'[f] \in MaxTurn .. MaxTurn + s * e
  <2>1. f \in rest /\ f \in Entities
    BY DEF GameLeft
  <2>2. live'[f] = live[f] + e /\ live[f] \in MaxTurn .. MaxTurn + r * e
    BY <1>3, <2>1, NoWrap DEF LiveRight
  <2>3. r * e + e <= s * e /\ r * e \in Nat /\ s * e \in Nat
    BY <1>2, ProductRises
  <2> DEFINE p == r * e
             q == s * e
  <2>4. /\ p \in Nat /\ q \in Nat /\ p + e <= q /\ live[f] \in MaxTurn .. MaxTurn + p
    BY <2>2, <2>3
  <2> HIDE DEF p, q, e
  <2>5. live[f] + e \in MaxTurn .. MaxTurn + q
    BY <1>2, <2>4, RankingAssumption
  <2> QED
    BY <2>2, <2>5 DEF q, e
<1>4. ASSUME NEW f \in rest', ~Survivor(f) PROVE live'[f] = final[f].turns
  <2>1. f \in rest /\ f \in Entities
    BY DEF GameLeft
  <2> QED
    BY <1>4, <2>1, NoWrap
<1>5. ASSUME NEW f \in rest', NEW g \in rest', Survivor(f), Survivor(g) PROVE live'[f] = live'[g]
  <2>1. f \in rest /\ g \in rest /\ f \in Entities /\ g \in Entities
    BY DEF GameLeft
  <2>2. live[f] = live[g]
    BY <1>5, <2>1 DEF LiveRight
  <2> QED
    BY <1>5, <2>1, <2>2, NoWrap
<1>6. rest' \subseteq Entities
  BY <1>1 DEF GameLeft
<1> QED
  BY <1>1, <1>3, <1>4, <1>5, <1>6 DEF LiveRight

-----------------------------------------------------------------------------
(* Passes give ranks away.                                                 *)

LEMMA GiveIs ==
    ASSUME GameLeft, NEW out \in SUBSET rest, NEW n \in Nat, Give(out, n)
    PROVE  /\ GameLeft' /\ Entities' = Entities /\ final' = final /\ match' = match
           /\ rest' = rest \ out /\ Ranked' = Ranked \cup out
           /\ Cardinality(Ranked') = Cardinality(Ranked) + Cardinality(out)
           /\ Cardinality(out) \in Nat
           /\ next + n <= LiveWrap => next' = next + n
           /\ \A f \in Entities : rank'[f] = IF f \in out THEN next ELSE rank[f]
<1>1. /\ final' = final /\ match' = match /\ rest' = rest \ out
      /\ next' = Smallest(next + n, LiveWrap)
      /\ rank' = [f \in Entities |-> IF f \in out THEN next ELSE rank[f]]
  BY DEF Give
<1>2. Entities' = Entities
  BY <1>1 DEF Entities
<1>3. next' \in Nat /\ (next + n <= LiveWrap => next' = next + n)
  BY <1>1, RankingAssumption DEF Smallest, GameLeft
<1>4. GameLeft'
  BY <1>1, <1>2, <1>3 DEF GameLeft
<1>5. Ranked' = Ranked \cup out /\ Ranked \cap out = {}
  BY <1>1, <1>2 DEF Ranked, GameLeft
<1>6. IsFiniteSet(Ranked) /\ IsFiniteSet(out) /\ Cardinality(out) \in Nat
      /\ Cardinality(Ranked) \in Nat
  BY SetsAreFinite, FS_Subset, FS_CardinalityType
<1>7. Cardinality(Ranked') = Cardinality(Ranked) + Cardinality(out) - Cardinality({})
  BY <1>5, <1>6, FS_Union
<1>8. Cardinality(Ranked') = Cardinality(Ranked) + Cardinality(out)
  BY <1>6, <1>7, FS_EmptySet
<1> QED
  BY <1>1, <1>2, <1>3, <1>4, <1>5, <1>6, <1>8

-----------------------------------------------------------------------------
(* A match of individuals: the ranks given so far are right, and those who  *)
(* have one came off better than all the rest.                             *)
SingleInv ==
    /\ LiveRight
    /\ next = Cardinality(Ranked)
    /\ \A f \in Ranked : rank[f] = Cardinality({g \in Entities : Better(g, f)})
    /\ \A f \in Ranked, g \in rest : Better(f, g)

BestOfRest(f) ==
    /\ LiveNow(f) = LongestLive
    /\ Survivor(f) => final[f].hp = RestHP

(* The best of the rest: there is one, none of the rest is better, and all  *)
(* others of the rest are worse.                                           *)
LEMMA RestHPIs ==
    ASSUME GameLeft, NEW s \in rest, Survivor(s)
    PROVE  /\ \A f \in rest : Survivor(f) => final[f].hp <= RestHP
           /\ \E f \in rest : Survivor(f) /\ final[f].hp = RestHP
<1> DEFINE T == {final[f].hp : f \in {g \in rest : Survivor(g)}}
           S == {0} \cup T
<1>1. \A f \in rest : final[f].hp \in 0 .. MaxLife
  BY FinalIs DEF GameLeft
<1>2. S \in SUBSET Nat /\ S # {} /\ \A x \in S : x <= MaxLife
  BY <1>1, RankingAssumption
<1>3. RestHP \in S /\ \A x \in S : x <= RestHP
  BY <1>2, LargestIs, RankingAssumption DEF RestHP
<1>4. \A f \in rest : Survivor(f) => final[f].hp <= RestHP
  BY <1>3
<1>5. CASE RestHP \in T
  BY <1>4, <1>5
<1>6. CASE RestHP = 0
  <2>1. final[s].hp <= 0 /\ final[s].hp \in Nat
    BY <1>1, <1>4, <1>6, RankingAssumption
  <2> QED
    BY <1>4, <1>6, <2>1
<1> QED
  BY <1>3, <1>5, <1>6

LEMMA BestIs ==
    ASSUME GameLeft, LinksUp, LiveRight, rest # {}
    PROVE  /\ \E f \in rest : BestOfRest(f)
           /\ \A f \in rest : BestOfRest(f) =>
                \A g \in rest : ~Better(g, f) /\ (Better(f, g) \/ BestOfRest(g))
<1>1. \A f \in rest : final[f].hp \in Nat /\ final[f].turns \in 0 .. MaxTurn
  BY FinalIs, RankingAssumption DEF GameLeft
<1>2. MaxTurn \in Nat /\ LiveWrap \in Nat
  BY RankingAssumption
<1>3. CASE \E s \in rest : Survivor(s)
  <2>1. PICK s \in rest : Survivor(s)
    BY <1>3
  <2>2. \A f \in rest : Survivor(f) <=> LiveNow(f) = LongestLive
    <3>1. LiveNow(s) > MaxTurn /\ LiveNow(s) <= LongestLive
      BY <2>1, NoWrap, LongestIs
    <3>2. \A f \in rest : Survivor(f) => LiveNow(f) = LiveNow(s)
      BY <2>1, NoWrap DEF LiveRight
    <3>3. \A f \in rest : ~Survivor(f) => LiveNow(f) <= MaxTurn
      BY <1>1, <1>2, NoWrap
    <3>4. \A f \in rest : LiveNow(f) \in Nat
      BY <1>2, NoWrap
    <3>5. PICK h \in rest : LiveNow(h) = LongestLive
      BY LongestIs
    <3>6. Survivor(h)
      BY <1>2, <2>1, <3>1, <3>3, <3>4, <3>5
    <3>7. LongestLive = LiveNow(s)
      BY <3>2, <3>5, <3>6
    <3> QED
      BY <1>2, <2>1, <3>1, <3>2, <3>3, <3>4, <3>7
  <2>3. \A f \in rest : BestOfRest(f) <=> Survivor(f) /\ final[f].hp = RestHP
    BY <2>2 DEF BestOfRest
  <2>4. /\ \A f \in rest : Survivor(f) => final[f].hp <= RestHP
        /\ \E f \in rest : Survivor(f) /\ final[f].hp = RestHP
    BY <2>1, RestHPIs
  <2>5. ASSUME NEW f \in rest, BestOfRest(f), NEW g \in rest
        PROVE  ~Better(g, f) /\ (Better(f, g) \/ BestOfRest(g))
    BY <1>1, <2>3, <2>4, <2>5 DEF Better
  <2> QED
    BY <2>3, <2>4, <2>5
<1>4. CASE \A s \in rest : ~Survivor(s)
  <2>1. \A f \in rest : BestOfRest(f) <=> final[f].turns = LongestLive
    BY <1>4, NoWrap DEF BestOfRest
  <2>2. \A f \in rest : final[f].turns <= LongestLive
    BY <1>4, NoWrap, LongestIs
  <2>3. \E f \in rest : BestOfRest(f)
    BY <1>4, <2>1, NoWrap, LongestIs
  <2>4. ASSUME NEW f \in rest, BestOfRest(f), NEW g \in rest
        PROVE  ~Better(g, f) /\ (Better(f, g) \/ BestOfRest(g))
    BY <1>1, <1>2, <1>4, <2>1, <2>2, <2>4 DEF Better
  <2> QED
    BY <2>3, <2>4
<1> QED
  BY <1>3, <1>4

LEMMA SinglePass ==
    ASSUME GameLeft, LinksUp, SingleInv, RankSingle
    PROVE  GameLeft' /\ SingleInv' /\ final' = final /\ match' = match
<1> DEFINE out == {f \in rest : LiveNow(f) = LongestLive /\ (Survivor(f) => final[f].hp = RestHP)}
<1>1. /\ rest # {} /\ Give(out, Cardinality(out))
      /\ live' = [f \in Entities |-> IF f \in rest THEN LiveNow(f) ELSE live[f]]
  BY DEF RankSingle
<1>2. out = {f \in rest : BestOfRest(f)}
  BY DEF BestOfRest
<1> HIDE DEF out
<1>3. out \in SUBSET rest /\ Cardinality(out) \in Nat
  BY <1>2, SetsAreFinite, FS_Subset, FS_CardinalityType
<1>4. /\ GameLeft' /\ Entities' = Entities /\ final' = final /\ match' = match
      /\ rest' = rest \ out /\ Ranked' = Ranked \cup out
      /\ Cardinality(Ranked') = Cardinality(Ranked) + Cardinality(out)
      /\ next + Cardinality(out) <= LiveWrap => next' = next + Cardinality(out)
      /\ \A f \in Entities : rank'[f] = IF f \in out THEN next ELSE rank[f]
  BY <1>1, <1>3, GiveIs
<1>5. /\ \E f \in out : TRUE
      /\ \A f \in out, g \in rest : ~Better(g, f) /\ (Better(f, g) \/ g \in out)
  BY <1>1, <1>2, BestIs DEF SingleInv
<1>6. LiveRight'
  BY <1>1, <1>3, <1>4, <1>5, LiveStaysRight DEF SingleInv
<1>7. next' = Cardinality(Ranked')
  <2>1. Cardinality(Ranked') <= Cardinality(Fighters) /\ Cardinality(Ranked') \in Nat
        /\ Cardinality(Fighters) \in Nat
    <3>1. IsFiniteSet(Fighters) /\ Ranked' \subseteq Fighters
      BY <1>3, <1>4, BattleAssumption DEF GameLeft, Ranked
    <3> QED
      BY <3>1, FS_Subset, FS_CardinalityType
  <2>2. Cardinality(Fighters) < LiveWrap
    BY FewerThanWrap
  <2>3. LiveWrap \in Nat /\ next = Cardinality(Ranked)
    BY RankingAssumption DEF SingleInv
  <2> QED
    BY <1>4, <2>1, <2>2, <2>3
<1>8. \A f, g : Better(f, g)' = Better(f, g)
  BY <1>4 DEF Better, Survivor
<1>9. ASSUME NEW f \in Ranked' PROVE rank'[f] = Cardinality({g \in Entities : Better(g, f)})
  <2>1. f \in Entities /\ (f \in Ranked \/ f \in out)
    BY <1>3, <1>4 DEF Ranked, GameLeft
  <2>2. CASE f \in out
    <3>1. {g \in Entities : Better(g, f)} = Ranked
      BY <1>3, <1>5, <2>2 DEF SingleInv, Ranked
    <3> QED
      BY <1>4, <2>1, <2>2, <3>1 DEF SingleInv
  <2>3. CASE f \notin out
    BY <1>4, <2>1, <2>3 DEF SingleInv
  <2> QED
    BY <2>2, <2>3
<1>10. ASSUME NEW f \in Ranked', NEW g \in rest' PROVE Better(f, g)
  BY <1>4, <1>5 DEF SingleInv
<1> QED
  BY <1>4, <1>6, <1>7, <1>8, <1>9, <1>10 DEF SingleInv

-----------------------------------------------------------------------------
(* Teams.  A team's hit points are a number, and more than none as long as  *)
(* it has somebody who lives and is connected.                             *)
LEMMA TeamHPIs ==
    ASSUME GameLeft, NEW t \in TeamNos
    PROVE  /\ TeamHP(t) \in Nat /\ IsFiniteSet(InTeam(t)) /\ Cardinality(InTeam(t)) \in Nat
           /\ InTeam(t) # {} => Cardinality(InTeam(t)) > 0
           /\ \A f \in InTeam(t) : Survivor(f) /\ final[f].conn = "AUTHED" => TeamHP(t) > 0
<1> DEFINE S == {f \in InTeam(t) : Survivor(f)}
<1>1. IsFiniteSet(Entities) /\ InTeam(t) \subseteq Entities /\ S \subseteq InTeam(t)
  BY SetsAreFinite DEF InTeam
<1>2. IsFiniteSet(InTeam(t)) /\ IsFiniteSet(S) /\ Cardinality(InTeam(t)) \in Nat
  BY <1>1, FS_Subset, FS_CardinalityType
<1>3. InTeam(t) # {} => Cardinality(InTeam(t)) > 0
  BY <1>2, FS_EmptySet
<1>4. \A f \in S : HP(f) \in Nat /\ (final[f].conn = "AUTHED" => HP(f) >= 1)
  BY <1>1, FinalIs, RankingAssumption DEF HP
<1>5. SumOf(S) \in Nat /\ \A f \in S : HP(f) <= SumOf(S)
  BY <1>2, <1>4, SumBounds
<1>6. TeamHP(t) = Scale * SumOf(S)
  BY DEF TeamHP, SumOf
<1> DEFINE x == SumOf(S)
<1>7. x \in Nat /\ \A f \in S : HP(f) <= x
  BY <1>5
<1>8. TeamHP(t) = 60 * x
  BY <1>6 DEF Scale
<1> HIDE DEF x
<1>9. TeamHP(t) \in Nat /\ (x >= 1 => TeamHP(t) > 0)
  BY <1>7, <1>8
<1>10. \A f \in S : final[f].conn = "AUTHED" => x >= 1
  BY <1>4, <1>7
<1> QED
  BY <1>2, <1>3, <1>9, <1>10

LEMMA TeamsAreFinite ==
    /\ IsFiniteSet(TeamNos) /\ Cardinality(TeamNos) = TeamCount /\ TeamCount \in Nat \ {0}
    /\ \A f \in Fighters : TeamOf[f] \in TeamNos
<1>1. TeamCount \in Nat \ {0} /\ 0 \in Int /\ TeamCount - 1 \in Int
  BY BattleAssumption
<1>2. IsFiniteSet(0 .. TeamCount - 1)
      /\ Cardinality(0 .. TeamCount - 1) =
           IF 0 > TeamCount - 1 THEN 0 ELSE TeamCount - 1 - 0 + 1
  BY <1>1, FS_Interval
<1> QED
  BY <1>1, <1>2, RankingAssumption DEF TeamNos

(* When the game was decided all who live are in one team.                 *)
LEMMA OneTeamLives ==
    ASSUME GameLeft, LinksUp, ~Undecided, NEW f \in Entities, NEW g \in Entities,
           Survivor(f), Survivor(g)
    PROVE  TeamOf[f] = TeamOf[g]
<1> DEFINE S == {t \in TeamNos : TeamHP(t) > 0}
           D == {TeamOf[f], TeamOf[g]}
<1>1. f \in Fighters /\ g \in Fighters /\ final[f].conn = "AUTHED" /\ final[g].conn = "AUTHED"
  BY DEF GameLeft, LinksUp
<1>2. /\ TeamOf[f] \in TeamNos /\ TeamOf[g] \in TeamNos
      /\ f \in InTeam(TeamOf[f]) /\ g \in InTeam(TeamOf[g])
  BY <1>1, TeamsAreFinite DEF InTeam
<1>3. D \subseteq S
  BY <1>1, <1>2, TeamHPIs
<1>4. IsFiniteSet(S) /\ Cardinality(S) \in Nat /\ ~(Cardinality(S) > 1)
  <2>1. S \subseteq TeamNos
    OBVIOUS
  <2> QED
    BY <2>1, TeamsAreFinite, FS_Subset, FS_CardinalityType DEF Undecided
<1>5. SUFFICES ASSUME TeamOf[f] # TeamOf[g] PROVE FALSE
  OBVIOUS
<1>6. Cardinality(D) = 2
  <2>1. Cardinality({TeamOf[g]}) = 1 /\ IsFiniteSet({TeamOf[g]})
    BY FS_Singleton
  <2>2. Cardinality({TeamOf[g]} \cup {TeamOf[f]}) = Cardinality({TeamOf[g]}) + 1
    BY <1>5, <2>1, FS_AddElement
  <2>3. D = {TeamOf[g]} \cup {TeamOf[f]}
    OBVIOUS
  <2> QED
    BY <2>1, <2>2, <2>3
<1>7. Cardinality(D) <= Cardinality(S)
  BY <1>3, <1>4, FS_Subset
<1> QED
  BY <1>4, <1>6, <1>7

(* Decided: before the first pass everybody is there; the first pass takes  *)
(* the whole team of who lives, and from then on nobody of it is left.      *)
DecidedInv ==
    /\ LiveRight
    /\ \A s \in Entities : Survivor(s) =>
         \/ next = 0 /\ rest = Entities
         \/ /\ next >= 1
            /\ \A f \in rest : TeamOf[f] # TeamOf[s]
            /\ \A f \in Ranked : rank[f] = 0 <=> TeamOf[f] = TeamOf[s]

(* As long as somebody who lives has no rank, those who live have the       *)
(* largest live_count.                                                     *)
LEMMA TheLivingLead ==
    ASSUME GameLeft, LinksUp, LiveRight, NEW s \in rest, Survivor(s)
    PROVE  \A f \in rest : Survivor(f) <=> LiveNow(f) = LongestLive
<1>1. \A f \in rest : final[f].turns \in 0 .. MaxTurn
  BY FinalIs DEF GameLeft
<1>2. MaxTurn \in Nat /\ LiveWrap \in Nat
  BY RankingAssumption
<1>3. LiveNow(s) > MaxTurn /\ LiveNow(s) <= LongestLive
  BY NoWrap, LongestIs
<1>4. \A f \in rest : Survivor(f) => LiveNow(f) = LiveNow(s)
  BY NoWrap DEF LiveRight
<1>5. \A f \in rest : ~Survivor(f) => LiveNow(f) <= MaxTurn
  BY <1>1, <1>2, NoWrap
<1>6. \A f \in rest : LiveNow(f) \in Nat
  BY <1>2, NoWrap
<1>7. PICK h \in rest : LiveNow(h) = LongestLive
  BY LongestIs
<1>8. Survivor(h)
  BY <1>2, <1>3, <1>5, <1>6, <1>7
<1>9. LongestLive = LiveNow(s)
  BY <1>4, <1>7, <1>8
<1> QED
  BY <1>2, <1>3, <1>4, <1>5, <1>6, <1>9

LEMMA DecidedPass ==
    ASSUME GameLeft, LinksUp, ~Undecided, DecidedInv, RankDecided
    PROVE  GameLeft' /\ DecidedInv' /\ final' = final /\ match' = match
<1>1. PICK g \in rest :
        /\ LiveNow(g) = LongestLive
        /\ Give({f \in rest : LiveNow(f) = LongestLive \/ TeamOf[f] = TeamOf[g]}, 1)
  BY DEF RankDecided
<1> DEFINE out == {f \in rest : LiveNow(f) = LongestLive \/ TeamOf[f] = TeamOf[g]}
<1>2. live' = [f \in Entities |-> IF f \in rest THEN LiveNow(f) ELSE live[f]]
  BY DEF RankDecided
<1>3. g \in out /\ out \in SUBSET rest
  BY <1>1
<1>4. /\ GameLeft' /\ Entities' = Entities /\ final' = final /\ match' = match
      /\ rest' = rest \ out /\ Ranked' = Ranked \cup out
      /\ next + 1 <= LiveWrap => next' = next + 1
      /\ \A f \in Entities : rank'[f] = IF f \in out THEN next ELSE rank[f]
  BY <1>1, <1>3, GiveIs
<1>5. next' >= 1 /\ next \in Nat
  <2>1. next' = Smallest(next + 1, LiveWrap)
    BY <1>1 DEF Give
  <2>2. LiveWrap \in Nat /\ LiveWrap >= 1
    <3>1. Cardinality(Fighters) \in Nat
      BY SetsAreFinite
    <3> DEFINE q == Cardinality(Fighters) * Cardinality(Fighters)
    <3>2. q \in Nat /\ LiveWrap > MaxTurn + q /\ LiveWrap \in Nat /\ MaxTurn \in Nat
      BY <3>1, RankingAssumption
    <3> HIDE DEF q
    <3> QED
      BY <3>2
  <2> QED
    BY <2>1, <2>2 DEF Smallest, GameLeft
<1>6. LiveRight'
  BY <1>2, <1>3, <1>4, LiveStaysRight DEF DecidedInv
<1>7. ASSUME NEW s \in Entities, Survivor(s)
      PROVE  /\ \A f \in rest' : TeamOf[f] # TeamOf[s]
             /\ \A f \in Ranked' : rank'[f] = 0 <=> TeamOf[f] = TeamOf[s]
  <2>1. CASE next = 0 /\ rest = Entities
    <3>1. \A f \in rest : Survivor(f) <=> LiveNow(f) = LongestLive
      BY <1>7, <2>1, TheLivingLead DEF DecidedInv
    <3>2. \A f \in Entities : Survivor(f) => TeamOf[f] = TeamOf[s]
      BY <1>7, OneTeamLives
    <3>3. TeamOf[g] = TeamOf[s]
      BY <1>1, <2>1, <3>1, <3>2
    <3>4. \A f \in Entities : f \in out <=> TeamOf[f] = TeamOf[s]
      BY <2>1, <3>1, <3>2, <3>3
    <3>5. Ranked' = out
      BY <1>4, <2>1 DEF Ranked
    <3> QED
      BY <1>3, <1>4, <2>1, <3>4, <3>5
  <2>2. CASE /\ next >= 1
             /\ \A f \in rest : TeamOf[f] # TeamOf[s]
             /\ \A f \in Ranked : rank[f] = 0 <=> TeamOf[f] = TeamOf[s]
    <3>1. rest \subseteq Entities /\ Ranked \subseteq Entities /\ Ranked \cap rest = {}
      BY DEF GameLeft, Ranked
    <3>2. \A f \in out : rank'[f] # 0 /\ TeamOf[f] # TeamOf[s]
      BY <1>3, <1>4, <1>5, <2>2, <3>1
    <3>3. \A f \in Ranked : rank'[f] = rank[f]
      BY <1>3, <1>4, <3>1
    <3> QED
      BY <1>3, <1>4, <2>2, <3>2, <3>3
  <2> QED
    BY <1>7, <2>1, <2>2 DEF DecidedInv
<1>8. \A f : Survivor(f)' = Survivor(f)
  BY <1>4 DEF Survivor
<1> QED
  BY <1>4, <1>5, <1>6, <1>7, <1>8 DEF DecidedInv

(* Undecided, with every team in the game.                                 *)
AllThere == Undecided /\ FirstEmpty = TeamCount

LEMMA DivisionIs ==
    ASSUME NEW x \in Nat, NEW y \in Nat, y > 0
    PROVE  x \div y \in Nat
OBVIOUS

(* The loops over the teams stop at the first one with nobody in it.        *)
LEMMA FirstEmptyIs == FirstEmpty \in 0 .. TeamCount /\ \A u \in 0 .. FirstEmpty - 1 : InTeam(u) # {}
<1> DEFINE Ends == {t \in 0 .. TeamCount : t = TeamCount \/ InTeam(t) = {}}
<1>1. TeamCount \in Nat \ {0}
  BY BattleAssumption
<1>2. Ends \in SUBSET Nat /\ Ends # {}
  BY <1>1
<1>3. PICK t \in Ends : \A u \in Ends : t <= u
  BY <1>2, LeastNumber
<1>4. \A u \in 0 .. t - 1 : InTeam(u) # {}
  BY <1>1, <1>3
<1>5. \E t1 \in 0 .. TeamCount :
         /\ t1 = TeamCount \/ InTeam(t1) = {}
         /\ \A u \in 0 .. t1 - 1 : InTeam(u) # {}
  BY <1>3, <1>4
<1> QED
  BY <1>5 DEF FirstEmpty

\* The teams that the loops look at.
Looked == {t \in TeamNos : t < FirstEmpty}

LEMMA LookedAre ==
    ASSUME GameLeft
    PROVE  /\ \A t \in Looked : InTeam(t) # {}
           /\ \A t \in TeamNos : Mean(t) \in Nat
<1>1. TeamCount \in Nat \ {0}
  BY BattleAssumption
<1>2. \A t \in TeamNos : t < FirstEmpty => InTeam(t) # {}
  BY <1>1, FirstEmptyIs DEF TeamNos
<1>3. ASSUME NEW t \in TeamNos PROVE Mean(t) \in Nat
  <2>1. /\ TeamHP(t) \in Nat /\ Cardinality(InTeam(t)) \in Nat
        /\ InTeam(t) # {} => Cardinality(InTeam(t)) > 0
    BY TeamHPIs
  <2>2. CASE Undecided /\ t < FirstEmpty
    BY <1>2, <2>1, <2>2, DivisionIs DEF Mean
  <2>3. CASE ~(Undecided /\ t < FirstEmpty)
    BY <2>1, <2>3 DEF Mean
  <2> QED
    BY <2>2, <2>3
<1> QED
  BY <1>2, <1>3 DEF Looked

LEMMA EveryTeamHasMembers ==
    ASSUME GameLeft, AllThere
    PROVE  \A t \in TeamNos : InTeam(t) # {} /\ t < FirstEmpty /\ Mean(t) \in Nat
<1>1. \A t \in TeamNos : t < FirstEmpty
  BY BattleAssumption DEF TeamNos, AllThere
<1> QED
  BY <1>1, LookedAre DEF Looked

(* A number for every team: there is a bound, by induction over the teams.  *)
LEMMA TeamsBounded ==
    ASSUME NEW m \in [TeamNos -> Nat]
    PROVE  \E k \in Nat : \A t \in TeamNos : m[t] <= k
<1> DEFINE UpTo(n) == \E k \in Nat : \A t \in 0 .. n - 1 : m[t] <= k
           Bad == {n \in 0 .. TeamCount : ~UpTo(n)}
<1>1. TeamCount \in Nat \ {0} /\ \A t \in 0 .. TeamCount - 1 : m[t] \in Nat
  BY BattleAssumption DEF TeamNos
<1>2. Bad = {}
  <2> SUFFICES ASSUME Bad # {} PROVE FALSE
    OBVIOUS
  <2>1. Bad \in SUBSET Nat
    BY <1>1
  <2>2. PICK n \in Bad : \A o \in Bad : n <= o
    BY <2>1, LeastNumber
  <2>3. CASE n = 0
    <3>1. \A t \in 0 .. n - 1 : m[t] <= 0
      BY <2>3
    <3> QED
      BY <2>2, <3>1
  <2>4. CASE n > 0
    <3> HIDE DEF UpTo
    <3>1. n \in 0 .. TeamCount /\ n - 1 \in 0 .. TeamCount /\ n - 1 \in 0 .. TeamCount - 1
      BY <1>1, <2>2, <2>4
    <3> DEFINE p == n - 1
    <3>7. p \in 0 .. TeamCount /\ ~(n <= p) /\ p \in 0 .. TeamCount - 1
      BY <1>1, <3>1
    <3> HIDE DEF p
    <3>8. p \notin Bad
      BY <2>2, <3>7
    <3>2. UpTo(p)
      BY <3>7, <3>8
    <3>3. PICK k \in Nat : \A t \in 0 .. p - 1 : m[t] <= k
      BY <3>2 DEF UpTo
    <3>4. m[p] \in Nat
      BY <1>1, <3>7
    <3> DEFINE k1 == k + m[p]
    <3>5. k1 \in Nat /\ k <= k1 /\ m[p] <= k1
      BY <3>4
    <3> HIDE DEF k1
    <3>6. \A t \in 0 .. n - 1 : m[t] <= k1
      <4> SUFFICES ASSUME NEW t \in 0 .. n - 1 PROVE m[t] <= k1
        OBVIOUS
      <4>1. CASE t = p
        BY <3>5, <4>1
      <4>2. CASE t # p
        <5>1. t \in 0 .. p - 1 /\ t \in 0 .. TeamCount - 1
          BY <1>1, <3>1, <4>2 DEF p
        <5>2. m[t] <= k /\ m[t] \in Nat
          BY <1>1, <3>3, <5>1
        <5> QED
          BY <3>5, <5>2
      <4> QED
        BY <4>1, <4>2
    <3> QED
      BY <2>2, <3>5, <3>6 DEF UpTo
  <2>5. n \in Nat
    BY <2>1, <2>2
  <2> QED
    BY <2>3, <2>4, <2>5
<1>3. UpTo(TeamCount)
  <2> HIDE DEF UpTo
  <2>1. TeamCount \in 0 .. TeamCount
    BY <1>1
  <2> QED
    BY <1>2, <2>1
<1> QED
  BY <1>3 DEF TeamNos

LEMMA MeansBounded ==
    ASSUME GameLeft, AllThere
    PROVE  \E k \in Nat : \A t \in TeamNos : Mean(t) <= k
<1> DEFINE m == [t \in TeamNos |-> Mean(t)]
<1>1. m \in [TeamNos -> Nat] /\ \A t \in TeamNos : m[t] = Mean(t)
  BY LookedAre
<1> HIDE DEF m
<1> QED
  BY <1>1, TeamsBounded

(* There are no more teams than characters, so nNo does not reach its end.  *)
LEMMA TeamsAreFew ==
    ASSUME GameLeft, AllThere
    PROVE  TeamCount <= LiveWrap
<1> DEFINE pick == [t \in TeamNos |-> CHOOSE f \in Entities : TeamOf[f] = t]
           k == Cardinality(Fighters)
<1>1. \A t \in TeamNos : pick[t] \in Entities /\ TeamOf[pick[t]] = t
  BY EveryTeamHasMembers DEF InTeam
<1>2. pick \in [TeamNos -> Fighters]
  BY <1>1 DEF GameLeft
<1>3. IsFiniteSet(Fighters) /\ Cardinality(Fighters) \in Nat
  BY BattleAssumption, FS_CardinalityType
<1>4. ~(Cardinality(Fighters) < Cardinality(TeamNos))
  <2> HIDE DEF pick
  <2> SUFFICES ASSUME Cardinality(Fighters) < Cardinality(TeamNos) PROVE FALSE
    OBVIOUS
  <2>1. \E x, y \in TeamNos : x # y /\ pick[x] = pick[y]
    BY <1>2, <1>3, TeamsAreFinite, FS_PigeonHole
  <2> QED
    BY <1>1, <2>1
<1>5. TeamCount <= k
  BY <1>3, <1>4, TeamsAreFinite
<1>6. k < LiveWrap /\ k \in Nat /\ LiveWrap \in Nat
  BY FewerThanWrap, RankingAssumption
<1> HIDE DEF k
<1> QED
  BY <1>5, <1>6, TeamsAreFinite

-----------------------------------------------------------------------------
(* What the game has left stays, and so does all that is computed from it.  *)
SumLeft(end, t) ==
    Scale * MapThenSumSet(LAMBDA f : end[f].hp,
                          {f \in {g \in DOMAIN end : TeamOf[g] = t} : end[f].alive})
EmptyLeft(end) ==
    CHOOSE t \in 0 .. TeamCount :
       /\ t = TeamCount \/ {f \in DOMAIN end : TeamOf[f] = t} = {}
       /\ \A u \in 0 .. t - 1 : {f \in DOMAIN end : TeamOf[f] = u} # {}

LEMMA TeamHPIsLeft == \A t : TeamHP(t) = SumLeft(final, t)
BY DEF TeamHP, SumLeft, InTeam, Survivor, Entities

LEMMA TeamHPWillBeLeft == (\A t : TeamHP(t) = SumLeft(final, t))'
BY TeamHPIsLeft, PTL

LEMMA TheEndStays ==
    ASSUME final' = final
    PROVE  /\ LinksUp' <=> LinksUp
           /\ Undecided' <=> Undecided
           /\ FirstEmpty' = FirstEmpty
           /\ \A t : TeamHP(t)' = TeamHP(t) /\ Mean(t)' = Mean(t)
<1>1. \A t : TeamHP(t)' = TeamHP(t)
  BY TeamHPIsLeft, TeamHPWillBeLeft
<1>2. FirstEmpty' = FirstEmpty
  <2>1. FirstEmpty = EmptyLeft(final)
    BY DEF FirstEmpty, EmptyLeft, InTeam, Entities
  <2>2. FirstEmpty' = EmptyLeft(final')
    BY DEF FirstEmpty, EmptyLeft, InTeam, Entities
  <2> QED
    BY <2>1, <2>2
<1>3. TeamNos' = TeamNos /\ Entities' = Entities /\ \A t : InTeam(t)' = InTeam(t)
  BY DEF TeamNos, Entities, InTeam
<1>4. Undecided' <=> Undecided
  BY <1>1, <1>3 DEF Undecided
<1>5. LinksUp' <=> LinksUp
  BY <1>3 DEF LinksUp, Survivor
<1>6. \A t : Mean(t)' = Mean(t)
  BY <1>1, <1>2, <1>3, <1>4 DEF Mean
<1> QED
  BY <1>1, <1>2, <1>4, <1>5, <1>6

-----------------------------------------------------------------------------
(* The teams that have their rank are those with the highest means; every   *)
(* other team still has its mean, and none of them is the one dropped.      *)
Taken == {TeamOf[f] : f \in Ranked}
Ahead(t) == {u \in TeamNos : Mean(u) > Mean(t)}

MeansKept ==
    /\ next = Cardinality(Taken)
    /\ \A t \in TeamNos \ Taken : mean[t] = Mean(t) /\ (Mean(t) # dropped \/ Mean(t) = 0)
    /\ \A t \in Taken : mean[t] \in {dropped, 0}

UndecidedInv ==
    /\ mean \in [TeamNos -> Nat] /\ dropped \in Nat
    /\ \A f \in rest : TeamOf[f] \notin Taken
    /\ \A t \in Taken, u \in TeamNos \ Taken : Mean(t) > Mean(u)
    /\ \A f \in Ranked : rank[f] = Cardinality(Ahead(TeamOf[f]))
    /\ rest # {} => MeansKept

(* Every team that is not taken has somebody without a rank.               *)
LEMMA TakenAre ==
    ASSUME GameLeft, AllThere, UndecidedInv
    PROVE  /\ Taken \subseteq TeamNos /\ IsFiniteSet(Taken) /\ Cardinality(Taken) \in Nat
           /\ \A t \in TeamNos \ Taken : \E f \in rest : TeamOf[f] = t
           /\ \A f \in rest : TeamOf[f] \in TeamNos \ Taken
<1>1. \A f \in Entities : TeamOf[f] \in TeamNos
  BY TeamsAreFinite DEF GameLeft
<1>2. Taken \subseteq TeamNos
  BY <1>1 DEF Taken, Ranked
<1>3. IsFiniteSet(Taken) /\ Cardinality(Taken) \in Nat
  BY <1>2, TeamsAreFinite, FS_Subset, FS_CardinalityType
<1>4. ASSUME NEW t \in TeamNos \ Taken PROVE \E f \in rest : TeamOf[f] = t
  <2>1. PICK f \in Entities : TeamOf[f] = t
    BY EveryTeamHasMembers DEF InTeam
  <2>2. f \notin Ranked
    BY <2>1 DEF Taken
  <2> QED
    BY <2>1, <2>2 DEF Ranked
<1>5. \A f \in rest : TeamOf[f] \in TeamNos \ Taken
  BY <1>1 DEF UndecidedInv, GameLeft
<1> QED
  BY <1>2, <1>3, <1>4, <1>5

NowOf == [t \in TeamNos |-> IF t \in {u \in TeamNos : u < FirstEmpty} /\ mean[t] = dropped
                              THEN 0 ELSE mean[t]]
Considered == {mean[t] : t \in {u \in {v \in TeamNos : v < FirstEmpty} : mean[u] # dropped}}
BestMean == Largest({0} \cup Considered)

(* What the next pass finds: the highest mean of the teams that are left.   *)
LEMMA BestMeanIs ==
    ASSUME GameLeft, AllThere, UndecidedInv, MeansKept
    PROVE  /\ BestMean \in Nat
           /\ \A t \in TeamNos \ Taken : NowOf[t] = Mean(t) /\ Mean(t) <= BestMean
           /\ \A t \in Taken : NowOf[t] = 0
           /\ BestMean > 0 => \E t \in TeamNos \ Taken : Mean(t) = BestMean
<1>1. mean \in [TeamNos -> Nat] /\ dropped \in Nat /\ Taken \subseteq TeamNos
  BY TakenAre DEF UndecidedInv
<1>2. \A t \in TeamNos : t < FirstEmpty /\ Mean(t) \in Nat
  BY EveryTeamHasMembers
<1>3. /\ \A t \in TeamNos \ Taken : mean[t] = Mean(t) /\ (Mean(t) # dropped \/ Mean(t) = 0)
      /\ \A t \in Taken : mean[t] \in {dropped, 0}
  BY DEF MeansKept
<1>4. Considered = {mean[t] : t \in {u \in TeamNos : mean[u] # dropped}}
  BY <1>2 DEF Considered
<1>5. \A t \in TeamNos : NowOf[t] = IF mean[t] = dropped THEN 0 ELSE mean[t]
  BY <1>2 DEF NowOf
<1> DEFINE S == {0} \cup Considered
<1>6. S \in SUBSET Nat /\ S # {}
  BY <1>1, <1>4
<1>7. \E k \in Nat : \A x \in S : x <= k
  <2> DEFINE M == {Mean(t) : t \in TeamNos}
  <2>1. \E k \in Nat : \A t \in TeamNos : Mean(t) <= k
    BY MeansBounded
  <2>2. PICK k \in Nat : \A t \in TeamNos : Mean(t) <= k
    BY <2>1
  <2>3. \A x \in S : x <= k
    BY <1>1, <1>2, <1>3, <1>4, <2>2
  <2> QED
    BY <2>3
<1>8. BestMean \in S /\ \A x \in S : x <= BestMean
  BY <1>6, <1>7, LargestIs DEF BestMean
<1>9. \A t \in TeamNos \ Taken : NowOf[t] = Mean(t)
  BY <1>3, <1>5
<1>10. ASSUME NEW t \in TeamNos \ Taken PROVE Mean(t) <= BestMean
  <2>1. CASE mean[t] # dropped
    BY <1>3, <1>4, <1>8, <2>1
  <2>2. CASE mean[t] = dropped
    BY <1>3, <1>6, <1>8, <2>2
  <2> QED
    BY <2>1, <2>2
<1>11. \A t \in Taken : NowOf[t] = 0
  BY <1>1, <1>3, <1>5
<1>12. ASSUME BestMean > 0 PROVE \E t \in TeamNos \ Taken : Mean(t) = BestMean
  <2>1. PICK t \in TeamNos : mean[t] # dropped /\ mean[t] = BestMean
    BY <1>4, <1>8, <1>12
  <2>2. t \notin Taken
    BY <1>3, <1>12, <2>1
  <2> QED
    BY <1>3, <2>1, <2>2
<1> QED
  BY <1>6, <1>8, <1>9, <1>10, <1>11, <1>12

LEMMA LevelIs ==
    ASSUME NEW best
    PROVE  LevelWith(best) \in Nat
<1> DEFINE S == {t \in TeamNos : t < FirstEmpty /\ mean[t] # dropped /\ mean[t] = best}
<1>1. S \subseteq TeamNos
  OBVIOUS
<1>2. Cardinality(S) \in Nat
  BY <1>1, TeamsAreFinite, FS_Subset, FS_CardinalityType
<1>3. LevelWith(best) = IF best > 0 THEN Cardinality(S) ELSE 1 + Cardinality(S)
  BY DEF LevelWith
<1> HIDE DEF S
<1> QED
  BY <1>2, <1>3

LEMMA UndecidedPass ==
    ASSUME GameLeft, AllThere, UndecidedInv, RankUndecided
    PROVE  GameLeft' /\ UndecidedInv' /\ final' = final /\ match' = match
<1> DEFINE out == {f \in rest : NowOf[TeamOf[f]] = BestMean}
           n == LevelWith(BestMean)
           level == {t \in TeamNos \ Taken : Mean(t) = BestMean}
<1>1. /\ rest # {} /\ Give(out, n) /\ mean' = NowOf /\ dropped' = BestMean
  BY DEF RankUndecided, NowOf, BestMean, Considered, DropAfter
<1>2. MeansKept
  BY <1>1 DEF UndecidedInv
<1>3. /\ BestMean \in Nat
      /\ \A t \in TeamNos \ Taken : NowOf[t] = Mean(t) /\ Mean(t) <= BestMean
      /\ \A t \in Taken : NowOf[t] = 0
      /\ BestMean > 0 => \E t \in TeamNos \ Taken : Mean(t) = BestMean
  BY <1>2, BestMeanIs
<1>4. /\ Taken \subseteq TeamNos /\ IsFiniteSet(Taken) /\ Cardinality(Taken) \in Nat
      /\ \A t \in TeamNos \ Taken : \E f \in rest : TeamOf[f] = t
      /\ \A f \in rest : TeamOf[f] \in TeamNos \ Taken
  BY TakenAre
<1>5. \A t \in TeamNos : Mean(t) \in Nat /\ t < FirstEmpty
  BY EveryTeamHasMembers
<1>6. \A f \in rest : f \in out <=> Mean(TeamOf[f]) = BestMean
  BY <1>3, <1>4
<1> HIDE DEF out
<1>7. out \in SUBSET rest
  BY DEF out
<1>8. n \in Nat
  BY LevelIs
<1>9. /\ GameLeft' /\ Entities' = Entities /\ final' = final /\ match' = match
      /\ rest' = rest \ out /\ Ranked' = Ranked \cup out
      /\ next + n <= LiveWrap => next' = next + n
      /\ \A f \in Entities : rank'[f] = IF f \in out THEN next ELSE rank[f]
  <2> HIDE DEF n
  <2> QED
    BY <1>1, <1>7, <1>8, GiveIs
<1>10. \A t : Mean(t)' = Mean(t)
  BY <1>9, TheEndStays
<1>11. Taken' = Taken \cup {TeamOf[f] : f \in out}
  BY <1>9 DEF Taken
<1>12. mean' \in [TeamNos -> Nat] /\ dropped' \in Nat
  <2>1. \A t \in TeamNos : NowOf[t] \in Nat
    BY <1>3, <1>5
  <2>2. NowOf = [t \in TeamNos |-> NowOf[t]]
    BY DEF NowOf
  <2> QED
    BY <1>1, <1>3, <2>1, <2>2
<1>13. ASSUME NEW f \in out PROVE Ahead(TeamOf[f]) = Taken
  <2>1. TeamOf[f] \in TeamNos \ Taken /\ Mean(TeamOf[f]) = BestMean
    BY <1>4, <1>6, <1>7
  <2>2. \A t \in Taken : Mean(t) > BestMean
    BY <2>1 DEF UndecidedInv
  <2>3. \A t \in TeamNos \ Taken : ~(Mean(t) > BestMean)
    BY <1>3, <1>5
  <2> QED
    BY <1>4, <2>1, <2>2, <2>3 DEF Ahead
<1>14. ASSUME NEW f \in Ranked' PROVE rank'[f] = Cardinality(Ahead(TeamOf[f]))
  <2>1. f \in Entities /\ (f \in out \/ (f \in Ranked /\ f \notin out))
    BY <1>7, <1>9 DEF Ranked, GameLeft
  <2>2. CASE f \in out
    BY <1>2, <1>9, <1>13, <2>1, <2>2 DEF MeansKept
  <2>3. CASE f \in Ranked /\ f \notin out
    BY <1>9, <2>1, <2>3 DEF UndecidedInv
  <2> QED
    BY <2>1, <2>2, <2>3
<1>15. \A t : Ahead(t)' = Ahead(t)
  BY <1>10 DEF Ahead, TeamNos
<1>16. CASE BestMean = 0
  <2>1. out = rest
    BY <1>3, <1>4, <1>5, <1>6, <1>7, <1>16
  <2>2. rest' = {}
    BY <1>9, <2>1
  <2>3. TeamNos \ Taken' = {}
    BY <1>4, <1>11, <2>1
  <2>4. TeamNos' = TeamNos
    BY DEF TeamNos
  <2>5. \A f \in rest' : TeamOf[f] \notin Taken'
    BY <2>2
  <2>6. \A t \in Taken', u \in TeamNos' \ Taken' : Mean(t)' > Mean(u)'
    BY <2>3, <2>4
  <2>7. \A f \in Ranked' : rank'[f] = Cardinality(Ahead(TeamOf[f])')
    BY <1>14, <1>15
  <2>8. UndecidedInv'
    BY <1>12, <2>2, <2>4, <2>5, <2>6, <2>7 DEF UndecidedInv
  <2> QED
    BY <1>9, <2>8
<1>17. CASE BestMean > 0
  <2>1. {TeamOf[f] : f \in out} = level
    BY <1>3, <1>4, <1>6, <1>7
  <2>2. {t \in TeamNos : t < FirstEmpty /\ mean[t] # dropped /\ mean[t] = BestMean} = level
    <3>1. ASSUME NEW t \in TeamNos
          PROVE  (t < FirstEmpty /\ mean[t] # dropped /\ mean[t] = BestMean) <=> t \in level
      <4>1. CASE t \in Taken
        BY <1>2, <1>3, <1>17, <4>1 DEF MeansKept
      <4>2. CASE t \notin Taken
        BY <1>2, <1>3, <1>5, <1>17, <4>2 DEF MeansKept
      <4> QED
        BY <4>1, <4>2
    <3> QED
      BY <3>1
  <2>3. n = Cardinality(level)
    BY <1>17, <2>2 DEF LevelWith
  <2> HIDE DEF level, n
  <2>4. Taken' = Taken \cup level /\ Taken \cap level = {} /\ level \subseteq TeamNos
    BY <1>11, <2>1 DEF level
  <2>5. Cardinality(Taken') = next + n /\ next + n <= LiveWrap
    <3>1. IsFiniteSet(level)
      BY <2>4, TeamsAreFinite, FS_Subset
    <3>2. Cardinality(Taken') = Cardinality(Taken) + Cardinality(level) - Cardinality({})
      BY <1>4, <2>4, <3>1, FS_Union
    <3>3. Cardinality(Taken') = next + n
      BY <1>2, <1>4, <1>8, <2>3, <3>2, FS_EmptySet DEF MeansKept
    <3>4. Cardinality(Taken') <= Cardinality(TeamNos)
      BY <1>4, <2>4, TeamsAreFinite, FS_Subset
    <3>5. TeamCount <= LiveWrap /\ LiveWrap \in Nat
      BY TeamsAreFew, RankingAssumption
    <3>6. next + n \in Nat
      BY <1>8 DEF GameLeft
    <3> QED
      BY <3>3, <3>4, <3>5, <3>6, TeamsAreFinite
  <2>6. next' = Cardinality(Taken')
    BY <1>9, <2>5
  <2>7. ASSUME NEW t \in TeamNos \ Taken'
        PROVE  mean'[t] = Mean(t) /\ Mean(t) < BestMean /\ (Mean(t) # dropped' \/ Mean(t) = 0)
    <3>1. t \in TeamNos \ Taken /\ t \notin level
      BY <2>4, <2>7
    <3>2. NowOf[t] = Mean(t) /\ Mean(t) <= BestMean /\ Mean(t) # BestMean
      BY <1>3, <3>1 DEF level
    <3> QED
      BY <1>1, <1>3, <1>5, <3>1, <3>2
  <2>8. ASSUME NEW t \in Taken' PROVE mean'[t] \in {dropped', 0} /\ Mean(t) >= BestMean
    <3>1. CASE t \in Taken
      <4>1. mean'[t] = 0
        BY <1>1, <1>3, <3>1
      <4>2. PICK u \in TeamNos \ Taken : Mean(u) = BestMean
        BY <1>3, <1>17
      <4>3. Mean(t) > BestMean
        BY <3>1, <4>2 DEF UndecidedInv
      <4> QED
        BY <1>3, <1>4, <1>5, <3>1, <4>1, <4>3
    <3>2. CASE t \in level
      BY <1>1, <1>3, <1>5, <3>2 DEF level
    <3> QED
      BY <2>4, <2>8, <3>1, <3>2
  <2>9. \A t \in Taken', u \in TeamNos \ Taken' : Mean(t) > Mean(u)
    <3>1. Taken' \subseteq TeamNos
      BY <1>4, <2>4
    <3> QED
      BY <1>3, <1>5, <2>7, <2>8, <3>1
  <2>10. \A f \in rest' : TeamOf[f] \notin Taken'
    <3> SUFFICES ASSUME NEW f \in rest' PROVE TeamOf[f] \notin Taken'
      OBVIOUS
    <3>1. f \in rest /\ f \notin out
      BY <1>9
    <3>2. TeamOf[f] \in TeamNos \ Taken /\ TeamOf[f] \notin level
      BY <1>4, <1>6, <3>1 DEF level
    <3> QED
      BY <2>4, <3>2
  <2>11. TeamNos' = TeamNos
    BY DEF TeamNos
  <2>12. MeansKept'
    BY <1>10, <2>6, <2>7, <2>8, <2>11 DEF MeansKept
  <2>13. \A f \in Ranked' : rank'[f] = Cardinality(Ahead(TeamOf[f])')
    BY <1>14, <1>15
  <2> QED
    BY <1>9, <1>10, <1>12, <2>9, <2>10, <2>11, <2>12, <2>13 DEF UndecidedInv
<1> QED
  BY <1>3, <1>9, <1>16, <1>17

-----------------------------------------------------------------------------
(* The inductive invariant.                                                *)
RankInv ==
    /\ GameLeft
    /\ match = "single" /\ LinksUp => SingleInv
    /\ match = "teams" /\ LinksUp /\ ~Undecided => DecidedInv
    /\ match = "teams" /\ AllThere => UndecidedInv

LEMMA RankInvInit == InitRanking => RankInv
<1> SUFFICES ASSUME InitRanking PROVE RankInv
  OBVIOUS
<1>1. PICK E \in SUBSET Fighters : final \in [E -> FinalStates]
  BY DEF InitRanking
<1>2. Entities = E
  BY <1>1 DEF Entities
<1>3. GameLeft
  BY <1>1, <1>2 DEF InitRanking, GameLeft
<1>4. Ranked = {} /\ rest = Entities /\ Taken = {} /\ Cardinality({}) = 0 /\ next = 0
  BY FS_EmptySet DEF InitRanking, Ranked, Taken
<1>5. LinksUp => LiveRight
  <2> SUFFICES ASSUME LinksUp PROVE LiveRight
    OBVIOUS
  <2>1. \A f \in Entities : live[f] = final[f].turns
    BY DEF InitRanking
  <2>2. \A f \in Entities : Survivor(f) => live[f] = MaxTurn
    BY <1>3, <2>1, FinalIs DEF LinksUp
  <2> DEFINE p == Cardinality(Ranked) * Cardinality(Entities)
  <2>3. p \in Nat
    BY <1>3, SetsAreFinite
  <2> HIDE DEF p
  <2>4. MaxTurn \in MaxTurn .. MaxTurn + p
    BY <2>3, RankingAssumption
  <2> QED
    BY <1>4, <2>1, <2>2, <2>4 DEF LiveRight, p
<1>6. LinksUp => SingleInv
  BY <1>4, <1>5 DEF SingleInv
<1>7. LinksUp => DecidedInv
  BY <1>4, <1>5 DEF DecidedInv
<1>8. match = "teams" /\ AllThere => UndecidedInv
  <2> SUFFICES ASSUME match = "teams", AllThere PROVE UndecidedInv
    OBVIOUS
  <2>1. \A t \in TeamNos : mean[t] = Mean(t) /\ Mean(t) \in Nat
    BY <1>3, EveryTeamHasMembers DEF InitRanking
  <2>2. mean \in [TeamNos -> Nat] /\ dropped = 0
    BY <2>1 DEF InitRanking
  <2>3. MeansKept
    BY <1>4, <2>1, <2>2 DEF MeansKept
  <2> QED
    BY <1>4, <2>2, <2>3 DEF UndecidedInv
<1> QED
  BY <1>3, <1>6, <1>7, <1>8 DEF RankInv

LEMMA RankInvStep == RankInv /\ [NextRanking]_rankVars => RankInv'
<1> SUFFICES ASSUME RankInv, [NextRanking]_rankVars PROVE RankInv'
  OBVIOUS
<1>1. ASSUME final' = final
      PROVE  (LinksUp' <=> LinksUp) /\ (Undecided' <=> Undecided) /\ (AllThere' <=> AllThere)
  BY <1>1, TheEndStays DEF AllThere
<1>2. CASE RankSingle
  <2>1. match = "single" /\ rest # {}
    BY <1>2 DEF RankSingle
  <2>2. /\ GameLeft' /\ final' = final /\ match' = match
    <3> DEFINE out == {f \in rest : /\ LiveNow(f) = LongestLive
                                    /\ Survivor(f) => final[f].hp = RestHP}
    <3>1. Give(out, Cardinality(out))
      BY <1>2 DEF RankSingle
    <3>2. out \in SUBSET rest
      OBVIOUS
    <3> HIDE DEF out
    <3>3. Cardinality(out) \in Nat
      BY <3>2, SetsAreFinite, FS_Subset, FS_CardinalityType DEF RankInv
    <3> QED
      BY <3>1, <3>2, <3>3, GiveIs DEF RankInv
  <2>3. LinksUp => SingleInv'
    BY <1>2, <2>1, SinglePass DEF RankInv
  <2> QED
    BY <1>1, <2>1, <2>2, <2>3 DEF RankInv
<1>3. CASE RankDecided
  <2>1. match = "teams" /\ ~Undecided
    BY <1>3 DEF RankDecided
  <2>2. GameLeft' /\ final' = final /\ match' = match
    <3>1. PICK g \in rest :
            Give({f \in rest : LiveNow(f) = LongestLive \/ TeamOf[f] = TeamOf[g]}, 1)
      BY <1>3 DEF RankDecided
    <3> QED
      BY <3>1, GiveIs DEF RankInv
  <2>3. LinksUp => DecidedInv'
    BY <1>3, <2>1, DecidedPass DEF RankInv
  <2> QED
    BY <1>1, <2>1, <2>2, <2>3 DEF RankInv, AllThere
<1>4. CASE RankUndecided
  <2>1. match = "teams" /\ Undecided
    BY <1>4 DEF RankUndecided
  <2>2. GameLeft' /\ final' = final /\ match' = match
    <3>a. PICK best : \E o \in SUBSET rest : Give(o, LevelWith(best))
      BY <1>4 DEF RankUndecided
    <3>1. PICK out \in SUBSET rest : Give(out, LevelWith(best))
      BY <3>a
    <3>2. LevelWith(best) \in Nat
      BY LevelIs
    <3> QED
      BY <3>1, <3>2, GiveIs DEF RankInv
  <2>3. AllThere => UndecidedInv'
    BY <1>4, <2>1, UndecidedPass DEF RankInv
  <2> QED
    BY <1>1, <2>1, <2>2, <2>3 DEF RankInv
<1>5. CASE UNCHANGED rankVars
  <2>1. /\ match' = match /\ final' = final /\ rest' = rest /\ live' = live /\ mean' = mean
        /\ dropped' = dropped /\ next' = next /\ rank' = rank
    BY <1>5 DEF rankVars
  <2>2. \A t : Mean(t)' = Mean(t)
    BY <2>1, TheEndStays
  <2>3. \A f, g : Better(f, g)' = Better(f, g)
    BY <2>1 DEF Better, Survivor
  <2>4. /\ GameLeft' <=> GameLeft
        /\ LiveRight' <=> LiveRight
        /\ Entities' = Entities /\ Ranked' = Ranked /\ Taken' = Taken /\ TeamNos' = TeamNos
        /\ \A f : Survivor(f)' = Survivor(f)
    BY <2>1 DEF GameLeft, LiveRight, Entities, Ranked, Taken, TeamNos, Survivor
  <2>5. \A t : Ahead(t)' = Ahead(t)
    BY <2>2, <2>4 DEF Ahead
  <2>6. SingleInv' <=> SingleInv
    BY <2>1, <2>3, <2>4 DEF SingleInv
  <2>7. DecidedInv' <=> DecidedInv
    BY <2>1, <2>4 DEF DecidedInv
  <2>8. UndecidedInv' <=> UndecidedInv
    BY <2>1, <2>2, <2>4, <2>5 DEF UndecidedInv, MeansKept
  <2> QED
    BY <1>1, <2>1, <2>4, <2>6, <2>7, <2>8 DEF RankInv
<1> QED
  BY <1>2, <1>3, <1>4, <1>5 DEF NextRanking

(* When nobody is left without a rank, the invariant is what is claimed.     *)
LEMMA RankInvMeans == RankInv => RanksAreRight
<1> SUFFICES ASSUME RankInv PROVE RankIsRight /\ TeamRankIsRight
  BY DEF RanksAreRight
<1>1. rest = {} => Ranked = Entities
  BY DEF Ranked
<1>2. RankIsRight
  BY <1>1 DEF RankIsRight, RankInv, SingleInv
<1>3. ASSUME match = "teams", rest = {}, LinksUp, Undecided, FirstEmpty = TeamCount,
             NEW f \in Entities
      PROVE  rank[f] = Cardinality({t \in TeamNos : Mean(t) > Mean(TeamOf[f])})
  BY <1>1, <1>3 DEF RankInv, AllThere, UndecidedInv, Ahead
<1>4. ASSUME match = "teams", rest = {}, LinksUp, ~Undecided, NEW s \in Entities, Survivor(s),
             NEW f \in Entities
      PROVE  rank[f] = 0 <=> TeamOf[f] = TeamOf[s]
  BY <1>1, <1>4 DEF RankInv, DecidedInv
<1> QED
  BY <1>2, <1>3, <1>4 DEF TeamRankIsRight

(* When CSyncMain::SetRankOrder has given everybody a rank, the ranks are    *)
(* right: a player's rank is the number of those who came off better, the    *)
(* winning team shares the first rank with nobody else, and without a        *)
(* decision a team's rank is the number of teams with a higher mean.  The     *)
(* passes change live_count, the means, fDelHP and nNo as they go, without    *)
(* live_count wrapping or nNo being counted wrong on the way.                *)
THEOREM TheRanksAreRight == SpecRanking => []RanksAreRight
<1>1. SpecRanking => []RankInv
  BY RankInvInit, RankInvStep, PTL DEF SpecRanking
<1> QED
  BY <1>1, RankInvMeans, PTL

-----------------------------------------------------------------------------
(* Types.  A rank is at most the number of characters although nNo itself    *)
(* has no such bound: with an empty team the undecided passes never end and   *)
(* nNo goes on rising.  It does so only after everybody it could rank has     *)
(* been ranked: a team with hit points that was not taken is still whole.     *)
WholeTeams == \A t \in Looked : mean[t] # dropped /\ mean[t] > 0 => InTeam(t) \subseteq rest

\* Nobody can be given a rank any more.
Spent ==
    /\ dropped = 0 /\ \A t \in Looked : mean[t] = 0
    /\ \A f \in rest : mean[TeamOf[f]] > 0

RankTypes ==
    /\ live \in [Entities -> 0 .. LiveWrap - 1]
    /\ mean \in [TeamNos -> Nat] /\ dropped \in Nat
    /\ rank \in [Entities -> -1 .. Cardinality(Fighters)]

RankTypeInv ==
    /\ GameLeft /\ RankTypes
    /\ match = "teams" /\ Undecided => WholeTeams
    /\ next <= Cardinality(Ranked) \/ (match = "teams" /\ Undecided /\ Spent)

LEMMA RankTypeInvInit == InitRanking => RankTypeInv
<1> SUFFICES ASSUME InitRanking PROVE RankTypeInv
  OBVIOUS
<1>1. GameLeft
  BY RankInvInit DEF RankInv
<1>2. Ranked = {} /\ rest = Entities /\ next = 0 /\ Cardinality({}) = 0
  BY FS_EmptySet DEF InitRanking, Ranked
<1>3. /\ live = [f \in Entities |-> final[f].turns] /\ dropped = 0
      /\ mean = [t \in TeamNos |-> IF match = "teams" THEN Mean(t) ELSE 0]
      /\ rank = [f \in Entities |-> -1]
  BY DEF InitRanking
<1>4. \A f \in Entities : final[f].turns \in 0 .. LiveWrap - 1
  <2>1. MaxTurn \in Nat /\ LiveWrap \in Nat /\ MaxTurn < LiveWrap
    <3> DEFINE q == Cardinality(Fighters) * Cardinality(Fighters)
    <3>1. q \in Nat
      <4>1. Cardinality(Fighters) \in Nat
        BY FewerThanWrap
      <4> QED
        BY <4>1
    <3>2. LiveWrap > MaxTurn + q /\ LiveWrap \in Nat /\ MaxTurn \in Nat
      BY RankingAssumption
    <3> HIDE DEF q
    <3> QED
      BY <3>1, <3>2
  <2>2. \A f \in Entities : final[f].turns \in 0 .. MaxTurn
    BY <1>1, FinalIs
  <2> QED
    BY <2>1, <2>2
<1>5. \A t \in TeamNos : Mean(t) \in Nat
  BY <1>1, LookedAre
<1>6. -1 \in -1 .. Cardinality(Fighters)
  BY FewerThanWrap
<1>7. RankTypes
  BY <1>3, <1>4, <1>5, <1>6 DEF RankTypes
<1>8. WholeTeams
  BY <1>2 DEF WholeTeams, InTeam
<1> QED
  BY <1>1, <1>2, <1>7, <1>8 DEF RankTypeInv

(* live_count stays an unsigned short.                                     *)
LEMMA LiveStaysShort ==
    ASSUME GameLeft, live \in [Entities -> 0 .. LiveWrap - 1]
    PROVE  [f \in Entities |-> IF f \in rest THEN LiveNow(f) ELSE live[f]]
             \in [Entities -> 0 .. LiveWrap - 1]
<1> DEFINE k == Cardinality(Entities)
<1>1. k \in Nat /\ LiveWrap \in Nat /\ LiveWrap > 0
  BY SetsAreFinite, FewerThanWrap, RankingAssumption
<1>2. \A x \in 0 .. LiveWrap - 1 : (x + k) % LiveWrap \in 0 .. LiveWrap - 1
  <2> HIDE DEF k
  <2>1. \A y \in Nat : y % LiveWrap \in 0 .. LiveWrap - 1
    BY <1>1
  <2> QED
    BY <1>1, <2>1
<1>3. \A f \in Entities : LiveNow(f) \in 0 .. LiveWrap - 1
  BY <1>2 DEF LiveNow
<1> QED
  BY <1>3

(* A pass that gives ranks gives one that is at most the number of those who *)
(* have one already.                                                       *)
LEMMA RanksStaySmall ==
    ASSUME GameLeft, rank \in [Entities -> -1 .. Cardinality(Fighters)],
           NEW out \in SUBSET rest, NEW n \in Nat, Give(out, n),
           out = {} \/ next <= Cardinality(Ranked)
    PROVE  rank' \in [Entities -> -1 .. Cardinality(Fighters)] /\ next' <= next + n
<1>1. rank' = [f \in Entities |-> IF f \in out THEN next ELSE rank[f]]
      /\ next' = Smallest(next + n, LiveWrap)
  BY DEF Give
<1>2. next \in Nat /\ next' <= next + n
  BY <1>1, RankingAssumption DEF Smallest, GameLeft
<1>3. \A f \in out : next \in -1 .. Cardinality(Fighters)
  <2> SUFFICES ASSUME NEW f \in out PROVE next \in -1 .. Cardinality(Fighters)
    OBVIOUS
  <2>1. next <= Cardinality(Ranked)
    OBVIOUS
  <2>2. /\ Cardinality(Ranked) \in Nat /\ Cardinality(Entities) \in Nat
        /\ Cardinality(Fighters) \in Nat /\ Cardinality(Ranked) <= Cardinality(Entities)
        /\ Cardinality(Entities) <= Cardinality(Fighters)
    BY SetsAreFinite
  <2> QED
    BY <1>2, <2>1, <2>2
<1> QED
  BY <1>1, <1>2, <1>3

LEMMA SingleTypes ==
    ASSUME RankTypeInv, RankSingle
    PROVE  RankTypeInv'
<1> DEFINE out == {f \in rest : LiveNow(f) = LongestLive /\ (Survivor(f) => final[f].hp = RestHP)}
<1>1. /\ match = "single" /\ Give(out, Cardinality(out)) /\ mean' = mean /\ dropped' = dropped
      /\ live' = [f \in Entities |-> IF f \in rest THEN LiveNow(f) ELSE live[f]]
  BY DEF RankSingle
<1>2. out \in SUBSET rest
  OBVIOUS
<1> HIDE DEF out
<1>3. GameLeft /\ RankTypes /\ next <= Cardinality(Ranked)
  BY <1>1 DEF RankTypeInv
<1>4. Cardinality(out) \in Nat
  BY <1>2, <1>3, SetsAreFinite, FS_Subset, FS_CardinalityType
<1>5. /\ GameLeft' /\ Entities' = Entities /\ match' = match
      /\ Cardinality(Ranked') = Cardinality(Ranked) + Cardinality(out)
  BY <1>1, <1>2, <1>3, <1>4, GiveIs
<1>6. rank' \in [Entities -> -1 .. Cardinality(Fighters)] /\ next' <= next + Cardinality(out)
  BY <1>1, <1>2, <1>3, <1>4, RanksStaySmall DEF RankTypes
<1>7. live' \in [Entities -> 0 .. LiveWrap - 1]
  BY <1>1, <1>3, LiveStaysShort DEF RankTypes
<1>8. next' <= Cardinality(Ranked')
  <2>1. Cardinality(Ranked) \in Nat /\ next \in Nat /\ next' \in Nat
    BY <1>3, <1>5, SetsAreFinite DEF GameLeft
  <2> QED
    BY <1>3, <1>4, <1>5, <1>6, <2>1
<1>9. TeamNos' = TeamNos
  BY DEF TeamNos
<1> QED
  BY <1>1, <1>3, <1>5, <1>6, <1>7, <1>8, <1>9 DEF RankTypeInv, RankTypes

LEMMA DecidedTypes ==
    ASSUME RankTypeInv, RankDecided
    PROVE  RankTypeInv'
<1>1. /\ match = "teams" /\ ~Undecided /\ mean' = mean /\ dropped' = dropped
      /\ live' = [f \in Entities |-> IF f \in rest THEN LiveNow(f) ELSE live[f]]
  BY DEF RankDecided
<1>2. PICK g \in rest :
        /\ LiveNow(g) = LongestLive
        /\ Give({f \in rest : LiveNow(f) = LongestLive \/ TeamOf[f] = TeamOf[g]}, 1)
  BY DEF RankDecided
<1> DEFINE out == {f \in rest : LiveNow(f) = LongestLive \/ TeamOf[f] = TeamOf[g]}
<1>3. Give(out, 1) /\ out \in SUBSET rest /\ g \in out
  BY <1>2
<1> HIDE DEF out
<1>4. GameLeft /\ RankTypes /\ next <= Cardinality(Ranked)
  BY <1>1 DEF RankTypeInv
<1>5. Cardinality(out) \in Nat /\ Cardinality(out) >= 1
  <2>1. IsFiniteSet(out)
    BY <1>3, <1>4, SetsAreFinite, FS_Subset
  <2> QED
    BY <1>3, <2>1, FS_EmptySet, FS_CardinalityType
<1>6. /\ GameLeft' /\ Entities' = Entities /\ match' = match /\ final' = final
      /\ Cardinality(Ranked') = Cardinality(Ranked) + Cardinality(out)
  BY <1>3, <1>4, GiveIs
<1>7. rank' \in [Entities -> -1 .. Cardinality(Fighters)] /\ next' <= next + 1
  BY <1>3, <1>4, RanksStaySmall DEF RankTypes
<1>8. live' \in [Entities -> 0 .. LiveWrap - 1]
  BY <1>1, <1>4, LiveStaysShort DEF RankTypes
<1>9. next' <= Cardinality(Ranked')
  <2>1. Cardinality(Ranked) \in Nat /\ next \in Nat /\ next' \in Nat
    BY <1>4, <1>6, SetsAreFinite DEF GameLeft
  <2> QED
    BY <1>4, <1>5, <1>6, <1>7, <2>1
<1>10. TeamNos' = TeamNos /\ ~Undecided'
  BY <1>1, <1>6, TheEndStays DEF TeamNos
<1> QED
  BY <1>1, <1>4, <1>6, <1>7, <1>8, <1>9, <1>10 DEF RankTypeInv, RankTypes

(* What an undecided pass finds, whoever is left: with a mean that is not 0   *)
(* it takes at least one character of every team that it counts.            *)
LEMMA PassFinds ==
    ASSUME GameLeft, RankTypes
    PROVE  /\ BestMean \in Nat /\ NowOf \in [TeamNos -> Nat]
           /\ \A t \in Looked : mean[t] # dropped => mean[t] <= BestMean
           /\ BestMean > 0 => \E t \in Looked : mean[t] # dropped /\ mean[t] = BestMean
<1>1. mean \in [TeamNos -> Nat] /\ dropped \in Nat
  BY DEF RankTypes
<1> DEFINE S == {0} \cup Considered
<1>2. Considered = {mean[t] : t \in {u \in Looked : mean[u] # dropped}}
      /\ Looked \subseteq TeamNos
  BY DEF Considered, Looked
<1>3. S \in SUBSET Nat /\ S # {}
  BY <1>1, <1>2
<1>4. PICK k \in Nat : \A t \in TeamNos : mean[t] <= k
  BY <1>1, TeamsBounded
<1>5. \A x \in S : x <= k
  BY <1>2, <1>4
<1>6. BestMean \in S /\ \A x \in S : x <= BestMean
  BY <1>3, <1>5, LargestIs DEF BestMean
<1>7. NowOf \in [TeamNos -> Nat]
  BY <1>1 DEF NowOf
<1> QED
  BY <1>2, <1>3, <1>6, <1>7

LEMMA TakesAsMany ==
    ASSUME GameLeft, RankTypes, WholeTeams, BestMean > 0
    PROVE  LevelWith(BestMean) <= Cardinality({f \in rest : NowOf[TeamOf[f]] = BestMean})
<1> DEFINE out == {f \in rest : NowOf[TeamOf[f]] = BestMean}
           level == {t \in TeamNos : t < FirstEmpty /\ mean[t] # dropped /\ mean[t] = BestMean}
           pick == [t \in level |-> CHOOSE f \in InTeam(t) : TRUE]
<1>1. LevelWith(BestMean) = Cardinality(level)
  BY DEF LevelWith
<1>2. \A t \in level : t \in Looked /\ InTeam(t) # {} /\ InTeam(t) \subseteq rest
  BY LookedAre DEF Looked, WholeTeams
<1>3. \A t \in level : pick[t] \in rest /\ TeamOf[pick[t]] = t
  BY <1>2 DEF InTeam
<1>4. \A t \in level : NowOf[t] = BestMean
  BY DEF NowOf
<1>5. pick \in [level -> out]
  BY <1>3, <1>4
<1>6. IsFiniteSet(level) /\ IsFiniteSet(out) /\ Cardinality(level) \in Nat /\ Cardinality(out) \in Nat
  BY SetsAreFinite, TeamsAreFinite, FS_Subset, FS_CardinalityType
<1>7. ~(Cardinality(out) < Cardinality(level))
  <2> HIDE DEF pick, out, level
  <2> SUFFICES ASSUME Cardinality(out) < Cardinality(level) PROVE FALSE
    OBVIOUS
  <2>1. \E x, y \in level : x # y /\ pick[x] = pick[y]
    BY <1>5, <1>6, FS_PigeonHole
  <2> QED
    BY <1>3, <2>1
<1> HIDE DEF out, level
<1>8. Cardinality(level) <= Cardinality(out)
  BY <1>6, <1>7
<1> QED
  BY <1>1, <1>8 DEF out

LEMMA UndecidedTypes ==
    ASSUME RankTypeInv, RankUndecided
    PROVE  RankTypeInv'
<1> DEFINE out == {f \in rest : NowOf[TeamOf[f]] = BestMean}
           n == LevelWith(BestMean)
<1>1. /\ match = "teams" /\ Undecided /\ Give(out, n)
      /\ mean' = NowOf /\ dropped' = BestMean /\ live' = live
  BY DEF RankUndecided, NowOf, BestMean, Considered, DropAfter
<1>2. GameLeft /\ RankTypes /\ WholeTeams /\ (next <= Cardinality(Ranked) \/ Spent)
  BY <1>1 DEF RankTypeInv
<1>3. /\ BestMean \in Nat /\ NowOf \in [TeamNos -> Nat]
      /\ \A t \in Looked : mean[t] # dropped => mean[t] <= BestMean
      /\ BestMean > 0 => \E t \in Looked : mean[t] # dropped /\ mean[t] = BestMean
  BY <1>2, PassFinds
<1>4. /\ Looked \subseteq TeamNos /\ mean \in [TeamNos -> Nat] /\ dropped \in Nat
      /\ \A f \in rest : TeamOf[f] \in TeamNos
      /\ \A t \in Looked : NowOf[t] = IF mean[t] = dropped THEN 0 ELSE mean[t]
      /\ \A t \in TeamNos : t \in Looked \/ NowOf[t] = mean[t]
  BY <1>2, TeamsAreFinite DEF Looked, RankTypes, NowOf, GameLeft
<1>5. n \in Nat
  BY LevelIs
<1>6. out \in SUBSET rest /\ Cardinality(out) \in Nat
  BY <1>2, SetsAreFinite, FS_Subset, FS_CardinalityType
<1>7. BestMean > 0 => n <= Cardinality(out)
  BY <1>2, TakesAsMany
<1>8. Spent => out = {} /\ BestMean = 0
  <2> SUFFICES ASSUME Spent PROVE out = {} /\ BestMean = 0
    OBVIOUS
  <2>1. \A t \in TeamNos : NowOf[t] = mean[t]
    BY <1>4 DEF Spent
  <2>2. BestMean = 0
    BY <1>3 DEF Spent
  <2> QED
    BY <1>4, <2>1, <2>2 DEF Spent
<1>9. \A f \in rest : f \in out <=> NowOf[TeamOf[f]] = BestMean
  OBVIOUS
<1> HIDE DEF out, n
<1>10. /\ GameLeft' /\ Entities' = Entities /\ match' = match /\ final' = final
       /\ rest' = rest \ out
       /\ Cardinality(Ranked') = Cardinality(Ranked) + Cardinality(out)
  BY <1>1, <1>2, <1>5, <1>6, GiveIs
<1>11. rank' \in [Entities -> -1 .. Cardinality(Fighters)] /\ next' <= next + n
  BY <1>1, <1>2, <1>5, <1>6, <1>8, RanksStaySmall DEF RankTypes
<1>12. /\ TeamNos' = TeamNos /\ Undecided' /\ Looked' = Looked
       /\ \A t : InTeam(t)' = InTeam(t)
  BY <1>1, <1>10, TheEndStays DEF TeamNos, Looked, InTeam
<1>13. RankTypes'
  BY <1>1, <1>2, <1>3, <1>10, <1>11, <1>12 DEF RankTypes
<1>14. WholeTeams'
  <2> SUFFICES ASSUME NEW t \in Looked, NowOf[t] # BestMean, NowOf[t] > 0
               PROVE  InTeam(t) \subseteq rest \ out
    BY <1>1, <1>10, <1>12 DEF WholeTeams
  <2>1. mean[t] # dropped /\ mean[t] > 0
    BY <1>4
  <2>2. InTeam(t) \subseteq rest /\ \A f \in InTeam(t) : TeamOf[f] = t
    BY <1>2, <2>1 DEF WholeTeams, InTeam
  <2> QED
    BY <1>9, <2>2
<1>15. CASE BestMean > 0
  <2>1. next <= Cardinality(Ranked)
    BY <1>2, <1>8, <1>15
  <2>2. Cardinality(Ranked) \in Nat /\ next \in Nat /\ next' \in Nat
    BY <1>2, <1>10, SetsAreFinite DEF GameLeft
  <2>3. next' <= Cardinality(Ranked')
    BY <1>5, <1>6, <1>7, <1>10, <1>11, <1>15, <2>1, <2>2
  <2> QED
    BY <1>10, <1>13, <1>14, <2>3 DEF RankTypeInv
<1>16. CASE BestMean = 0
  <2>1. \A t \in Looked : NowOf[t] = 0
    BY <1>3, <1>4, <1>16
  <2>2. \A f \in rest \ out : NowOf[TeamOf[f]] > 0
    BY <1>3, <1>4, <1>9, <1>16
  <2>3. Spent'
    BY <1>1, <1>10, <1>12, <1>16, <2>1, <2>2 DEF Spent
  <2> QED
    BY <1>1, <1>10, <1>12, <1>13, <1>14, <2>3 DEF RankTypeInv
<1> QED
  BY <1>3, <1>15, <1>16

LEMMA RankTypeInvStep == RankTypeInv /\ [NextRanking]_rankVars => RankTypeInv'
<1> SUFFICES ASSUME RankTypeInv, [NextRanking]_rankVars PROVE RankTypeInv'
  OBVIOUS
<1>1. CASE UNCHANGED rankVars
  <2>1. /\ match' = match /\ final' = final /\ rest' = rest /\ live' = live /\ mean' = mean
        /\ dropped' = dropped /\ next' = next /\ rank' = rank
    BY <1>1 DEF rankVars
  <2>2. /\ Entities' = Entities /\ Ranked' = Ranked /\ TeamNos' = TeamNos
        /\ Looked' = Looked /\ (Undecided' <=> Undecided) /\ \A t : InTeam(t)' = InTeam(t)
    BY <2>1, TheEndStays DEF Entities, Ranked, TeamNos, Looked, InTeam
  <2>3. (GameLeft' <=> GameLeft) /\ (RankTypes' <=> RankTypes)
    BY <2>1, <2>2 DEF GameLeft, RankTypes
  <2>4. (WholeTeams' <=> WholeTeams) /\ (Spent' <=> Spent)
    BY <2>1, <2>2 DEF WholeTeams, Spent
  <2> QED
    BY <2>1, <2>2, <2>3, <2>4 DEF RankTypeInv
<1> QED
  BY <1>1, SingleTypes, DecidedTypes, UndecidedTypes DEF NextRanking

(* The variables of CSyncMain::SetRankOrder keep their types, and no rank is *)
(* higher than the number of characters, however often the passes go round.  *)
THEOREM RankingHasItsTypes == SpecRanking => []TypeOKRanking
<1>1. SpecRanking => []RankTypeInv
  BY RankTypeInvInit, RankTypeInvStep, PTL DEF SpecRanking
<1>2. RankTypeInv => TypeOKRanking
  BY DEF RankTypeInv, RankTypes, GameLeft, TypeOKRanking
<1> QED
  BY <1>1, <1>2, PTL
=============================================================================

------------------------------- MODULE Ranking ------------------------------
(***************************************************************************)
(* The ranks at the end of a game: CSyncMain::SetRankOrder, which GameEnd  *)
(* runs under the Session lock.  It goes over the characters that have no   *)
(* rank yet again and again until there is none, and every step here is one *)
(* of these passes.  What a pass gives away depends on sums and counts that *)
(* earlier passes have changed, so neither that it gives anything away nor  *)
(* that the ranks are in the right order is plain.                          *)
(*                                                                         *)
(* The hit points are those of 100, so that percentages and averages are    *)
(* compared as they are; the float arithmetic of the code is not modelled.  *)
(***************************************************************************)
EXTENDS Battle, FiniteSetsExt

CONSTANTS
    MaxLife,    \* bound: hit points at the end, HP_c of HP_m
    MaxTurn,    \* bound: live_count at the end
    LiveWrap    \* live_count is an unsigned short: 2^16, smaller when checked

ASSUME RankingAssumption ==
    /\ MaxLife \in Nat \ {0} /\ MaxTurn \in Nat \ {0}
    /\ LiveWrap \in Nat /\ LiveWrap > MaxTurn + Cardinality(Fighters) * Cardinality(Fighters)
    /\ TeamOf \in [Fighters -> 0 .. TeamCount - 1]   \* in a battle of teams

VARIABLES
    match,   \* "single", or "teams": TeamCount is more than 1
    final,   \* the characters with entity at the end of the game: conn, alive,
             \* hp and turns (live_count)
    rest,    \* vecEntityCharacters: those without a rank
    live,    \* live_count, which the passes go on changing
    mean,    \* fHPAvg of each team
    dropped, \* fDelHP
    next,    \* nNo
    rank     \* frame_count: the rank, from 0

rankVars == <<match, final, rest, live, mean, dropped, next, rank>>

Entities   == DOMAIN final
Survivor(f) == final[f].alive
InTeam(t)  == {f \in Entities : TeamOf[f] = t}
TeamNos    == 0 .. TeamCount - 1
Largest(S) == CHOOSE x \in S : \A y \in S : y <= x

\* How the game may have left a character.  Who is connected and lives has seen
\* every turn; who has died may have been healed by an item bullet afterwards.
FinalStates ==
    {[conn |-> "AUTHED", alive |-> TRUE, hp |-> h, turns |-> MaxTurn] : h \in 1 .. MaxLife}
      \cup [conn : {"DESTROY"}, alive : {TRUE}, hp : 0 .. MaxLife, turns : 0 .. MaxTurn]
      \cup [conn : {"AUTHED"}, alive : {FALSE}, hp : {0, MaxLife}, turns : 0 .. MaxTurn]

-----------------------------------------------------------------------------
(* What the battle of teams prepares. *)

Scale == 60    \* divided by every team's size up to 6

\* The hit points of a team's survivors, added up.
TeamHP(t) == Scale * MapThenSumSet(LAMBDA f : final[f].hp, {f \in InTeam(t) : Survivor(f)})

\* The loops over the teams break at the first one with nobody in it.
FirstEmpty == CHOOSE t \in 0 .. TeamCount :
                 /\ t = TeamCount \/ InTeam(t) = {}
                 /\ \A u \in 0 .. t - 1 : InTeam(u) # {}

\* Several teams have hit points left: the game ended without a decision.
Undecided == Cardinality({t \in TeamNos : TeamHP(t) > 0}) > 1

Mean(t) ==
    IF Undecided /\ t < FirstEmpty THEN TeamHP(t) \div Cardinality(InTeam(t)) ELSE TeamHP(t)

InitRanking ==
    /\ match \in {"single", "teams"}
    /\ \E E \in SUBSET Fighters : final \in [E -> FinalStates]
    /\ rest = Entities
    /\ live = [f \in Entities |-> final[f].turns]
    /\ mean = [t \in TeamNos |-> IF match = "teams" THEN Mean(t) ELSE 0]
    /\ dropped = 0 /\ next = 0
    /\ rank = [f \in Entities |-> -1]

-----------------------------------------------------------------------------
(* One pass. *)

\* Mutant: survivors get nothing.
LiveNowPlain(f) == live[f]

\* Every survivor that is connected is ahead of the dead.
LiveNow(f) ==
    IF final[f].conn = "AUTHED" /\ Survivor(f)
      THEN (live[f] + Cardinality(Entities)) % LiveWrap ELSE live[f]

LongestLive == Largest({LiveNow(f) : f \in rest})

Smallest(x, y) == IF x < y THEN x ELSE y

\* Those in out get the rank, the next rank is n further (bound: nNo stops
\* counting at LiveWrap).
Give(out, n) ==
    /\ rank' = [f \in Entities |-> IF f \in out THEN next ELSE rank[f]]
    /\ rest' = rest \ out
    /\ next' = Smallest(next + n, LiveWrap)
    /\ UNCHANGED <<match, final>>

\* nRestHP: the dead do not count.
RestHP == Largest({0} \cup {final[f].hp : f \in {g \in rest : Survivor(g)}})

\* SetRankOrderOfIndividualMatch
RankSingle ==
    /\ match = "single" /\ rest # {}
    /\ LET out == {f \in rest : /\ LiveNow(f) = LongestLive
                                /\ Survivor(f) => final[f].hp = RestHP} IN
         Give(out, Cardinality(out))
    /\ live' = [f \in Entities |-> IF f \in rest THEN LiveNow(f) ELSE live[f]]
    /\ UNCHANGED <<mean, dropped>>

\* SetRankOrderOfTeamBattle, decided: who has lived longest, and its whole team.
RankDecided ==
    /\ match = "teams" /\ ~Undecided /\ rest # {}
    /\ \E g \in rest :
         /\ LiveNow(g) = LongestLive
         /\ Give({f \in rest : LiveNow(f) = LongestLive \/ TeamOf[f] = TeamOf[g]}, 1)
    /\ live' = [f \in Entities |-> IF f \in rest THEN LiveNow(f) ELSE live[f]]
    /\ UNCHANGED <<mean, dropped>>

\* Mutant: what was given away is not remembered.
DropAfterKept(best) == dropped

\* fDelHP: the teams that had this much are set to 0 by the next pass.
DropAfter(best) == best

\* nCount; it starts at 1, and is set to 1 again whenever a larger mean is met.
LevelWith(best) ==
    LET S == {t \in TeamNos : t < FirstEmpty /\ mean[t] # dropped /\ mean[t] = best} IN
    IF best > 0 THEN Cardinality(S) ELSE 1 + Cardinality(S)

\* SetRankOrderOfTeamBattle, undecided: the teams with the highest mean.
RankUndecided ==
    /\ match = "teams" /\ Undecided /\ rest # {}
    /\ LET looked == {t \in TeamNos : t < FirstEmpty}
           now    == [t \in TeamNos |-> IF t \in looked /\ mean[t] = dropped
                                          THEN 0 ELSE mean[t]]
           best   == Largest({0} \cup {mean[t] : t \in {u \in looked : mean[u] # dropped}}) IN
       /\ Give({f \in rest : now[TeamOf[f]] = best}, LevelWith(best))
       /\ mean' = now /\ dropped' = DropAfter(best)
    /\ UNCHANGED live

NextRanking == RankSingle \/ RankDecided \/ RankUndecided

SpecRanking == InitRanking /\ [][NextRanking]_rankVars /\ WF_rankVars(NextRanking)

-----------------------------------------------------------------------------
(* Properties. *)

TypeOKRanking ==
    /\ match \in {"single", "teams"} /\ Entities \subseteq Fighters /\ rest \subseteq Entities
    /\ live \in [Entities -> 0 .. LiveWrap - 1] /\ mean \in [TeamNos -> Nat]
    /\ dropped \in Nat /\ next \in Nat
    /\ rank \in [Entities -> -1 .. Cardinality(Fighters)]

\* Nobody plays on over a connection that the sender has found dead.
LinksUp == \A f \in Entities : Survivor(f) => final[f].conn = "AUTHED"

\* a came off better than b in a match of individuals.
Better(a, b) ==
    \/ Survivor(a) /\ ~Survivor(b)
    \/ Survivor(a) /\ Survivor(b) /\ final[a].hp > final[b].hp
    \/ ~Survivor(a) /\ ~Survivor(b) /\ final[a].turns > final[b].turns

\* In a match of individuals everybody's rank is the number of those who came off
\* better: survivors before the dead, by hit points; the dead by their turns.
RankIsRight ==
    match = "single" /\ rest = {} /\ LinksUp =>
      \A f \in Entities : rank[f] = Cardinality({g \in Entities : Better(g, f)})

\* In a battle of teams the winners share the first rank with their dead and with
\* nobody else; without a decision a team's rank is the number of better teams.
TeamRankIsRight ==
    match = "teams" /\ rest = {} /\ LinksUp =>
      IF Undecided
        THEN FirstEmpty = TeamCount =>
               \A f \in Entities :
                 rank[f] = Cardinality({t \in TeamNos : Mean(t) > Mean(TeamOf[f])})
        ELSE \A s \in Entities : Survivor(s) =>
               \A f \in Entities : rank[f] = 0 <=> TeamOf[f] = TeamOf[s]

\* The ranks told at the end of either kind of match are right.
RanksAreRight == RankIsRight /\ TeamRankIsRight

\* The ranking, under the Session lock, comes to an end: when nobody who lives has
\* a broken connection and every team still has somebody in the game.
RankingEnds == LinksUp /\ (match = "teams" => FirstEmpty = TeamCount) => <>(rest = {})

\* The comment of the undecided case: the ranks of the teams are set.
TeamsAreRanked == LinksUp => <>(rest = {})
=============================================================================

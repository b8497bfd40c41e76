------------------------------ MODULE SyncMain ------------------------------
(***************************************************************************)
(* The turns of a game: CSyncMain, which the synchronizer thread runs one  *)
(* frame at a time, and the packets of CPacketProcMain, which the receiver *)
(* thread handles in between.                                              *)
(*                                                                         *)
(* A frame reads the phase without a lock and then runs that phase's case  *)
(* under the Session lock, so a packet may change the phase in between; the *)
(* case of the second shot (DOUBLE) takes no lock at all.  What scripts and *)
(* physics decide (who is hit, how long a bullet flies, what a turn costs) *)
(* is a choice.  Spectators take no part; KillGame is left out.            *)
(***************************************************************************)
EXTENDS Integers, FiniteSets

CONSTANTS
    N,            \* m_vecCharacters.size(): characters, in slot order
    Base,         \* each character's delay in its script
    StartDelays,  \* the delays PutCharacter may draw
    Team,         \* team_no of each character
    TeamCount,    \* GetTeamCount(); 1 in an individual match
    TurnLimit,    \* m_nTurnLimit; 0 for none
    Time,         \* the frames of each phase (GAME_MAIN_PHASE_TIME_*)
    PowerTime,    \* GAME_MAIN_PHASE_TIME_SHOTPOWER
    TurnCosts,    \* what time, moves and scripts add to the active delay
    Items,        \* the items each character starts with
    ItemDelay,    \* the delay an item adds
    MaxFlight,    \* bound: frames a bullet stays active
    MaxDeaths,    \* bound: characters that die in one frame
    MaxTurns,     \* bound: turn_count and m_nTurnCount stop counting here
    None,         \* p_pActiveSession = NULL
    Shoots,       \* FALSE: an active character only passes and uses items
    OldPass,      \* TRUE: clients may send PK_CMD_MAIN_PASS
    SendFails,    \* TRUE: the sender thread may meet a dead socket
    NewMaster     \* TRUE: the dialog may hand the master's office over

Chars  == 0 .. N - 1
Teams  == 0 .. TeamCount - 1
Phases == {"ACT", "TRIGGER", "SHOOTING", "SHOT", "DOUBLE", "CHECK", "SYNC",
           "TURNEND", "RETURN"}
Doubles == {"DOUBLE", "DOUBLE2"}
Kinds   == Doubles \cup {"HEAL", "OTHER"}
Costs  == TurnCosts \cup {0}

ASSUME CharsAssumption == N \in Nat \ {0} /\ None \notin Int
ASSUME DelayAssumption ==
    /\ Base \in [Chars -> Nat] /\ StartDelays \subseteq Nat /\ StartDelays # {}
    /\ TurnCosts \subseteq Nat /\ ItemDelay \in Nat
ASSUME TeamAssumption == TeamCount \in Nat \ {0} /\ Team \in [Chars -> Teams]
ASSUME TimeAssumption == Time \in [Phases -> Nat] /\ PowerTime \in Nat
ASSUME BoundAssumption ==
    /\ TurnLimit \in Nat /\ MaxFlight \in Nat \ {0} /\ MaxDeaths \in Nat
    /\ MaxTurns \in Nat /\ TurnLimit <= MaxTurns
ASSUME ItemAssumption == Items \in [Chars -> SUBSET Kinds]
ASSUME SwitchAssumption == {Shoots, OldPass, SendFails, NewMaster} \subseteq BOOLEAN

VARIABLES
    eng,      \* [phase |-> m_eGameMainPhase, next |-> m_eGameNextPhase,
              \*  counter |-> m_nPhaseTimeCounter, time |-> m_nPhaseTime,
              \*  power |-> m_bShotPowerWorking, req |-> m_bReqShotFlg,
              \*  idx |-> m_nPhaseReturnIndex, second |-> m_bDoubleShotFlg]
    pc,       \* the synchronizer: "top", the phase its frame read, "fire"
              \* (inside the case DOUBLE), "over" or "crashed"
    active,   \* p_pActiveSession
    conn,     \* connect_state of each character's session
    obj,      \* obj_state: "WAIT", "ACTIVE", "DEAD" (or DROP), "EMPTY"
    ack,      \* game_ready
    delay,    \* delay
    turns,    \* turn_count
    turnCount,\* m_nTurnCount
    table,    \* m_nLivingTeamCountTable
    items,    \* the items left
    double,   \* chara_state[CHARA_STATE_DOUBLE_INDEX]
    saved,    \* m_nSaveCharaObjNo: whose shot is saved
    bullets,  \* frames until no bullet is active
    falling,  \* some character moves
    restart,  \* g_bRestartFlg
    owes      \* the clients that have a SYN to answer

engVars  == <<eng, pc>>
charVars == <<conn, obj, ack, delay, turns, items, double>>
gameVars == <<active, turnCount, table, saved, bullets, falling, restart, owes>>
vars     == <<engVars, charVars, gameVars>>

-----------------------------------------------------------------------------
(* The characters. *)

Authed    == {p \in Chars : conn[p] = "AUTHED"}
Living    == {p \in Chars : obj[p] \in {"WAIT", "ACTIVE"}}
Players   == Authed \cap Living
Able(p)   == p # None /\ p \in Players     \* IsControlChara
LeastOf(S) == CHOOSE p \in S : \A q \in S : p <= q

\* m_nLivingTeamCountTable after the death of a set of living characters.
TableAfter(K) ==
    IF TeamCount > 1
      THEN [t \in Teams |-> table[t] - Cardinality({p \in K : Team[p] = t})]
      ELSE table

\* CSyncMain::IsGameEnd, after this step's deaths and turns.
IsGameEnd ==
    \/ TurnLimit # 0 /\ TurnLimit <= turnCount'
    \/ IF TeamCount <= 1
         THEN Cardinality(Authed \cap {p \in Chars : obj'[p] \in {"WAIT", "ACTIVE"}}) <= 1
         ELSE Cardinality({t \in Teams : table'[t] > 0}) <= 1

\* The end of a frame that asks IsGameEnd.
EndFrame == pc' = IF IsGameEnd THEN "over" ELSE "top"

-----------------------------------------------------------------------------
(* The phases. *)

NextOf == [ACT |-> "TRIGGER", TRIGGER |-> "SHOOTING", DOUBLE |-> "SHOT",
           SHOOTING |-> "SHOT", SHOT |-> "CHECK", TURNEND |-> "RETURN",
           RETURN |-> "ACT"]

\* CSyncMain::SetPhase, without ClearGameReady (see Frame actions).
SetPhase(e, ph) ==
    [e EXCEPT !.phase = ph, !.counter = 0, !.time = Time[ph],
              !.next = IF ph \in DOMAIN NextOf THEN NextOf[ph] ELSE @,
              !.power = IF ph = "ACT" THEN FALSE ELSE @,
              !.req = IF ph = "TRIGGER" THEN FALSE ELSE @,
              !.idx = IF ph = "RETURN" THEN 0 ELSE @]

\* Mutant: m_eGameNextPhase is not set.
SetCheckPhaseKeepsNext(e, nxt) == SetPhase(e, "CHECK")

\* CSyncMain::SetCheckPhase
SetCheckPhase(e, nxt) == [SetPhase(e, "CHECK") EXCEPT !.next = nxt]

Counted(e) == [e EXCEPT !.counter = @ + 1]

Init ==
    /\ eng = [phase |-> "TURNEND", next |-> "RETURN", counter |-> 0,
              time |-> Time["TURNEND"], power |-> FALSE, req |-> FALSE,
              idx |-> 0, second |-> FALSE]
    /\ pc = "top"
    /\ active = None
    /\ conn = [p \in Chars |-> "AUTHED"]
    /\ obj = [p \in Chars |-> "WAIT"]
    /\ ack = [p \in Chars |-> FALSE]
    /\ delay \in [Chars -> StartDelays]
    /\ turns = [p \in Chars |-> 0]
    /\ turnCount = 0
    /\ table = [t \in Teams |-> IF TeamCount > 1
                                  THEN Cardinality({p \in Chars : Team[p] = t})
                                  ELSE 0]
    /\ items = Items
    /\ double = [p \in Chars |-> FALSE]
    /\ saved = None
    /\ bullets = 0
    /\ falling = FALSE
    /\ restart = FALSE
    /\ owes = {}

-----------------------------------------------------------------------------
(* The packets of the active character: none of them but the trigger and   *)
(* the shot looks at the phase, obj_state is what keeps them in their turn. *)

Acting(p) == pc \notin {"over", "crashed"} /\ p \in Authed /\ obj[p] = "ACTIVE"

\* PK_CMD_MAIN_SHOTPOWER; a client starts the meter once in a turn.
SetShotPowerStart(p) ==
    /\ Acting(p) /\ Shoots /\ ~eng.power
    /\ eng' = [eng EXCEPT !.power = TRUE, !.counter = 0, !.time = PowerTime]
    /\ saved' = p
    /\ UNCHANGED <<pc, charVars, active, turnCount, table, bullets, falling,
                   restart, owes>>

\* PK_CMD_MAIN_TRIGGER: the others show the shot and say when they have.
SetTrigger(p) ==
    /\ Acting(p) /\ Shoots
    /\ eng.phase = "ACT" /\ eng.power /\ eng.counter <= PowerTime
    /\ eng' = SetCheckPhase(eng, "TRIGGER")
    /\ saved' = p
    /\ ack' = [q \in Chars |-> ack[q] /\ q \notin Authed]
    /\ UNCHANGED <<pc, conn, obj, delay, turns, items, double, active, turnCount,
                   table, bullets, falling, restart, owes>>

\* CPacketProcMain::ShootingBullet in frame 0: done at once or in more frames.
ShootingBullet(e) == {SetPhase(e, "SHOT"), SetPhase(e, "SHOOTING")}

\* PK_CMD_MAIN_SHOT, which a client sends when it is asked to.
SetShot(p) ==
    /\ Acting(p) /\ eng.phase = "TRIGGER" /\ eng.req
    /\ eng' \in ShootingBullet(eng)
    /\ saved' = p
    /\ bullets' \in 1 .. MaxFlight
    /\ UNCHANGED <<pc, charVars, active, turnCount, table, falling, restart, owes>>

\* PK_USER_MAIN_TRIGGER_END
RcvTriggerEnd(p) ==
    /\ p \in Authed /\ eng.phase = "TRIGGER" /\ ~ack[p] /\ pc \notin {"over", "crashed"}
    /\ ack' = [ack EXCEPT ![p] = TRUE]
    /\ UNCHANGED <<engVars, gameVars, conn, obj, delay, turns, items, double>>

\* PK_CMD_MAIN_TURN_PASS
SetTurnPass(p) ==
    /\ Acting(p)
    /\ eng' = SetCheckPhase(eng, "TURNEND")
    /\ UNCHANGED <<pc, charVars, gameVars>>

\* PK_CMD_MAIN_PASS: the phase CHECK, whatever follows the present phase.
TurnPass(p) ==
    /\ Acting(p) /\ OldPass
    /\ eng' = SetPhase(eng, "CHECK")
    /\ UNCHANGED <<pc, charVars, gameVars>>

\* PK_CMD_MAIN_ITEM: a second shot, a healing that ends the turn, or an item
\* whose effect is elsewhere; an item that is stolen has none (used = FALSE).
OrderItem(p, i, used) ==
    /\ Acting(p) /\ i \in items[p]
    /\ items' = [items EXCEPT ![p] = @ \ {i}]
    /\ delay' = [delay EXCEPT ![p] = IF used THEN @ + ItemDelay ELSE @]
    /\ double' = [double EXCEPT ![p] = @ \/ (used /\ i \in Doubles)]
    /\ eng' = IF used /\ i = "HEAL" THEN SetCheckPhase(eng, "TURNEND") ELSE eng
    /\ UNCHANGED <<pc, conn, obj, ack, turns, gameVars>>

\* PK_ACK
SetAck(p) ==
    /\ p \in Authed \cap owes
    /\ ack' = [ack EXCEPT ![p] = TRUE]
    /\ owes' = owes \ {p}
    /\ UNCHANGED <<engVars, conn, obj, delay, turns, items, double, active, turnCount,
                   table, saved, bullets, falling, restart>>

-----------------------------------------------------------------------------
(* Disconnections and the other threads. *)

\* Mutants: the dead are counted again, or leaving is not counted at all.
DiesNowThoughDead(p) == p \in Authed
DiesNowNever(p)      == FALSE

\* NotifyCharaDead: who leaves (AUTHED) and is not dead yet dies.
DiesNow(p) == p \in Players

\* CSyncMain::OnDisconnectSession and CNetworkSession::ClearSession, by the
\* receiver, by the dialog or by a kick.
Leave(p) ==
    /\ table' = IF DiesNow(p) THEN TableAfter({p}) ELSE table
    /\ active' = IF p = active THEN None ELSE active
    /\ conn' = [conn EXCEPT ![p] = "EMPTY"]
    /\ obj' = [obj EXCEPT ![p] = "EMPTY"]
    /\ owes' = owes \ {p}

Disconnect(p) ==
    /\ conn[p] # "EMPTY" /\ pc \notin {"over", "crashed"}
    /\ Leave(p)
    /\ UNCHANGED <<engVars, ack, delay, turns, items, double, turnCount, saved,
                   bullets, falling, restart>>

\* SetErrorSession of the sender thread.
SendError(p) ==
    /\ SendFails /\ p \in Authed /\ pc \notin {"over", "crashed"}
    /\ conn' = [conn EXCEPT ![p] = "DESTROY"]
    /\ UNCHANGED <<engVars, gameVars, obj, ack, delay, turns, items, double>>

\* srv.cpp SetMaster: neither the old nor the new master is ready any more.
SetMaster(p, q) ==
    /\ NewMaster /\ p # q /\ {p, q} \subseteq Authed /\ pc \notin {"over", "crashed"}
    /\ ack' = [ack EXCEPT ![p] = FALSE, ![q] = FALSE]
    /\ UNCHANGED <<engVars, gameVars, conn, obj, delay, turns, items, double>>

-----------------------------------------------------------------------------
(* Frames of the synchronizer. *)

\* switch (m_eGameMainPhase): read without a lock.
FrameRead ==
    /\ pc = "top"
    /\ pc' = eng.phase
    /\ UNCHANGED <<eng, charVars, gameVars>>

\* FrameCharacters and FrameObjects: bullets fly on, characters fall, and some
\* of the living may die (NotifyCharaDead) while anything moves; in IsGameEnd,
\* at the end of the frame, die those whose HP are used up.
Physics(mayFall, fires) ==
    LET moving == bullets > 0 \/ falling IN
    /\ \E K \in SUBSET Living :
         /\ Cardinality(K) <= MaxDeaths /\ (K # {} => moving)
         /\ obj' = [p \in Chars |-> IF p \in K THEN "DEAD" ELSE obj[p]]
         /\ double' = [p \in Chars |-> double[p] /\ p \notin K]
         /\ table' = TableAfter(K)
    /\ bullets' \in {IF bullets > 0 THEN bullets - 1 ELSE 0}
                     \cup IF fires THEN 1 .. MaxFlight ELSE {}
    /\ falling' \in IF bullets > 0 \/ mayFall THEN BOOLEAN ELSE {FALSE}

AtRest == bullets = 0 /\ ~falling

FrameAct ==
    /\ pc = "ACT"
    /\ LET e == Counted(eng)
           goesOn == e.counter < e.time /\ Able(active) IN
       \/ /\ goesOn
          /\ eng' = e
          /\ Physics(TRUE, FALSE)
          /\ UNCHANGED turnCount
          /\ EndFrame
       \/ /\ ~goesOn
          /\ eng' = SetCheckPhase(e, IF active # None /\ e.power THEN "TRIGGER" ELSE "TURNEND")
          /\ pc' = "top"
          /\ UNCHANGED <<obj, double, table, bullets, falling, turnCount>>
    /\ UNCHANGED <<conn, ack, delay, turns, items, active, saved, restart, owes>>

\* The others are ready, or have had their time: the shot is asked for.
FrameTrigger ==
    /\ pc = "TRIGGER" /\ pc' = "top"
    /\ LET e      == IF eng.counter < Time["TRIGGER"] THEN Counted(eng) ELSE eng
           others == Authed \ {active}
           shoot  == /\ Able(active) /\ ~e.req
                     /\ e.counter >= Time["TRIGGER"] \/ \A p \in others : ack[p] IN
       /\ eng' = IF ~Able(active) THEN SetPhase(e, "TURNEND") ELSE [e EXCEPT !.req = @ \/ shoot]
       /\ ack' = [p \in Chars |-> ack[p] \/ (shoot /\ p \in Authed)]
    /\ UNCHANGED <<gameVars, conn, obj, delay, turns, items, double>>

\* ShootingBullet in a later frame ends the shooting, or time does.
FrameShooting ==
    /\ pc = "SHOOTING"
    /\ LET e == Counted(eng) IN
       IF Able(active)
         THEN \/ eng' = SetPhase(e, "SHOT")
              \/ e.counter <= e.time /\ eng' = e
         ELSE eng' = SetCheckPhase(eng, "TURNEND")
    /\ Physics(FALSE, Able(active))
    /\ UNCHANGED turnCount
    /\ EndFrame
    /\ UNCHANGED <<conn, ack, delay, turns, items, active, saved, restart, owes>>

\* CPacketProcMain::IsDoubleShot; a spell (spell = TRUE) has no second shot.
IsDoubleShot(spell) == active # None /\ double[active] /\ active = saved /\ ~spell

\* Mutant: m_bDoubleShotFlg is not asked.
SecondShotAgain(spell) == IsDoubleShot(spell)

\* !m_bDoubleShotFlg && IsDoubleShot(p_pActiveSession)
SecondShot(spell) == ~eng.second /\ IsDoubleShot(spell)

FrameShot ==
    /\ pc = "SHOT"
    /\ \E spell \in BOOLEAN :
         eng' = CASE bullets > 0 -> eng
                  [] bullets = 0 /\ SecondShot(spell) -> SetCheckPhase(eng, "DOUBLE")
                  [] OTHER -> SetCheckPhase(eng, "TURNEND")
    /\ Physics(FALSE, FALSE)
    /\ UNCHANGED turnCount
    /\ EndFrame
    /\ UNCHANGED <<conn, ack, delay, turns, items, active, saved, restart, owes>>

\* The case DOUBLE looks at p_pActiveSession ...
FrameDouble ==
    /\ pc = "DOUBLE"
    /\ IF active # None /\ double[active]
         THEN pc' = "fire" /\ UNCHANGED eng
         ELSE pc' = "top" /\ eng' = SetPhase(eng, "TURNEND")
    /\ UNCHANGED <<charVars, gameVars>>

\* ... and uses it.
FrameFire ==
    /\ pc = "fire" /\ active # None
    /\ eng' \in {[e EXCEPT !.second = TRUE] : e \in ShootingBullet(eng)}
    /\ double' = [double EXCEPT ![active] = FALSE]
    /\ bullets' \in 1 .. MaxFlight
    /\ pc' = "top"
    /\ UNCHANGED <<conn, obj, ack, delay, turns, items, active, turnCount, table,
                   saved, falling, restart, owes>>

FrameFireNull ==
    /\ pc = "fire" /\ active = None
    /\ pc' = "crashed"
    /\ UNCHANGED <<eng, charVars, gameVars>>

FrameCheck ==
    /\ pc = "CHECK"
    /\ eng' = IF AtRest THEN SetPhase(eng, eng.next) ELSE eng
    /\ ack' = [p \in Chars |-> ack[p] /\ ~(AtRest /\ eng.next = "RETURN")]
    /\ Physics(FALSE, FALSE)
    /\ UNCHANGED turnCount
    /\ EndFrame
    /\ UNCHANGED <<conn, delay, turns, items, active, saved, restart, owes>>

-----------------------------------------------------------------------------
(* The end of a turn. *)

\* Mutant: the script's delay decides among all the living.
NextCharaByScript(d, L) ==
    IF L = {} THEN None ELSE LeastOf({p \in L : \A q \in L : Base[p] <= Base[q]})

\* The character whose delay has run out; of several the one whose script has
\* the lowest delay, and of several of those the first of the table.
NextChara(d, L) ==
    LET zero == {p \in L : d[p] = 0}
        low  == {p \in zero : \A q \in zero : Base[p] <= Base[q]} IN
    IF zero = {} THEN None ELSE LeastOf(low)

Shortest(d, L) == d[CHOOSE p \in L : \A q \in L : d[p] <= d[q]]

\* Mutant: the delays of the dead go on falling.
ElapseForAll(d, L) == [p \in Chars |-> IF L = {} THEN d[p] ELSE d[p] - Shortest(d, L)]

\* sess->delay -= nMinDelay, for the living.
Elapse(d, L) == [p \in Chars |-> IF p \in L THEN d[p] - Shortest(d, L) ELSE d[p]]

\* Mutant: who had the turn stays OBJ_STATE_MAIN_ACTIVE.
AfterTurnStillActive(L, K) ==
    [p \in Chars |-> CASE p \in K -> "DEAD" [] p \in L \ (K \cup {active}) -> "WAIT" [] OTHER -> obj[p]]

\* The living wait for the next turn; those whom poison has killed are dead.
AfterTurn(L, K) ==
    [p \in Chars |-> CASE p \in K -> "DEAD" [] p \in L \ K -> "WAIT" [] OTHER -> obj[p]]

\* FrameTurnEnd and SetSyncPhase(GAME_MAIN_PHASE_RETURN): the turn is counted
\* and paid for, time passes until the next delay runs out, poison is paid.
FrameTurnEnd ==
    /\ pc = "TURNEND"
    /\ \E cost \in Costs, K \in {{}} \cup {{p} : p \in Players} :
         LET L == Players
             d == Elapse(IF active = None THEN delay ELSE [delay EXCEPT ![active] = @ + cost], L) IN
         /\ Cardinality(K) <= MaxDeaths
         /\ delay' = d
         /\ active' = NextChara(d, L)
         /\ obj' = AfterTurn(L, K)
         /\ double' = [p \in Chars |-> double[p] /\ p \notin K]
         /\ table' = TableAfter(K)
    /\ turns' = IF active = None \/ turns[active] >= MaxTurns
                  THEN turns ELSE [turns EXCEPT ![active] = @ + 1]
    /\ turnCount' = IF turnCount < MaxTurns THEN turnCount + 1 ELSE turnCount
    /\ ack' = [p \in Chars |-> ack[p] /\ p \notin Authed]
    /\ eng' = [SetPhase(eng, "SYNC") EXCEPT !.next = "RETURN", !.second = FALSE]
    /\ EndFrame
    /\ UNCHANGED <<conn, items, saved, bullets, falling, restart, owes>>

\* Mutants: the next character is not sent a SYN; or the wait starts again in
\* every frame.
SyncStepKeepsCounter(skip) ==
    LET e == [eng EXCEPT !.idx = IF skip THEN @ + 1 ELSE @,
                         !.counter = IF skip THEN @ ELSE @ + 1] IN
    /\ eng' = IF skip /\ e.idx >= N THEN SetPhase(e, eng.next) ELSE e
    /\ ack' = [p \in Chars |-> ack[p] /\ eng'.phase # "RETURN"]
SyncStepRestarts(skip) ==
    LET e == [eng EXCEPT !.idx = IF skip THEN @ + 1 ELSE @,
                         !.counter = IF skip THEN 0 ELSE 1] IN
    /\ eng' = IF skip /\ e.idx >= N THEN SetPhase(e, eng.next) ELSE e
    /\ ack' = [p \in Chars |-> ack[p] /\ eng'.phase # "RETURN"]

\* FrameSync: one character after the other is sent a SYN, has answered, or
\* has had its time and is kicked.
SyncStep(skip) ==
    LET e == [eng EXCEPT !.idx = IF skip THEN @ + 1 ELSE @,
                         !.counter = IF skip THEN 0 ELSE @ + 1] IN
    /\ eng' = IF skip /\ e.idx >= N THEN SetPhase(e, eng.next) ELSE e
    /\ ack' = [p \in Chars |-> ack[p] /\ eng'.phase # "RETURN"]

FrameSync ==
    /\ pc = "SYNC" /\ pc' = "top"
    /\ LET p == eng.idx
           TimesOut == eng.counter + 1 > eng.time IN
       \/ /\ p \notin Authed \/ (eng.counter > 0 /\ ack[p])
          /\ SyncStep(TRUE)
          /\ UNCHANGED <<conn, obj, table, active, owes>>
       \/ /\ p \in Authed /\ eng.counter = 0
          /\ SyncStep(FALSE)
          /\ owes' = owes \cup {p}
          /\ UNCHANGED <<conn, obj, table, active>>
       \/ /\ p \in Authed /\ eng.counter > 0 /\ ~ack[p] /\ ~TimesOut
          /\ SyncStep(FALSE)
          /\ UNCHANGED <<conn, obj, table, active, owes>>
       \/ /\ p \in Authed /\ eng.counter > 0 /\ ~ack[p] /\ TimesOut
          /\ SyncStep(TRUE)
          /\ Leave(p)
    /\ UNCHANGED <<delay, turns, items, double, turnCount, saved, bullets, falling,
                   restart>>


\* GetNextActiveChara: the lowest delay, of several the fewest turns.
GetNextActiveChara ==
    LET low == {p \in Players : \A q \in Players : delay[p] <= delay[q]}
        few == {p \in low : \A q \in low : turns[p] <= turns[q]} IN
    LeastOf(few)

\* FrameReturn: the next turn, or nobody is left and the server restarts.
FrameReturn ==
    /\ pc = "RETURN"
    /\ IF Able(active) \/ Players # {}
         THEN /\ active' = IF Able(active) THEN active ELSE GetNextActiveChara
              /\ obj' = [obj EXCEPT ![active'] = "ACTIVE"]
              /\ delay' = [delay EXCEPT ![active'] = Base[active']]
              /\ eng' = SetPhase(eng, "ACT")
              /\ UNCHANGED restart
         ELSE /\ active' = None
              /\ restart' = TRUE
              /\ UNCHANGED <<obj, delay, eng>>
    /\ UNCHANGED <<table, turnCount>>
    /\ EndFrame
    /\ UNCHANGED <<conn, ack, turns, items, double, saved, bullets, falling, owes>>

-----------------------------------------------------------------------------
Packets ==
    \E p \in Chars :
      \/ SetShotPowerStart(p)
      \/ SetTrigger(p)
      \/ SetShot(p)
      \/ RcvTriggerEnd(p)
      \/ SetTurnPass(p)
      \/ TurnPass(p)
      \/ \E i \in items[p], used \in BOOLEAN : OrderItem(p, i, used)
      \/ SetAck(p)

Environment ==
    \E p \in Chars :
      \/ Disconnect(p)
      \/ SendError(p)
      \/ \E q \in Chars : SetMaster(p, q)

Frame ==
    \/ FrameRead \/ FrameAct \/ FrameTrigger \/ FrameShooting \/ FrameShot
    \/ FrameDouble \/ FrameFire \/ FrameFireNull \/ FrameCheck
    \/ FrameTurnEnd \/ FrameSync \/ FrameReturn

\* A game that is over, or a process that is dead, does not move any more.
Done == pc \in {"over", "crashed"} /\ UNCHANGED vars

Next == Packets \/ Environment \/ Frame \/ Done

Spec == Init /\ [][Next]_vars

\* The synchronizer thread runs; the receiver thread closes the sessions whose
\* sending failed; a client that is asked for its shot sends it or goes away,
\* and does not pass again and again, once in every frame, for ever.
Fairness ==
    /\ WF_vars(Frame)
    /\ SF_vars(FrameRead /\ eng.phase = "TURNEND")
    /\ \A p \in Chars :
         /\ WF_vars(conn[p] = "DESTROY" /\ Disconnect(p))
         /\ WF_vars(SetShot(p) \/ (eng.phase = "TRIGGER" /\ eng.req /\ p = active /\ Disconnect(p)))
LiveSpec == Spec /\ Fairness

-----------------------------------------------------------------------------
(* Properties. *)

Running == pc \notin {"over", "crashed"}

\* The state of the game has its types; delays are never negative.
TypeOK ==
    /\ eng \in [phase : Phases, next : Phases, counter : Nat, time : Nat,
                power : BOOLEAN, req : BOOLEAN, idx : 0 .. N, second : BOOLEAN]
    /\ pc \in Phases \cup {"top", "fire", "over", "crashed"}
    /\ active \in Chars \cup {None} /\ saved \in Chars \cup {None}
    /\ conn \in [Chars -> {"AUTHED", "DESTROY", "EMPTY"}]
    /\ obj \in [Chars -> {"WAIT", "ACTIVE", "DEAD", "EMPTY"}]
    /\ ack \in [Chars -> BOOLEAN] /\ double \in [Chars -> BOOLEAN]
    /\ delay \in [Chars -> Nat] /\ turns \in [Chars -> Nat] /\ turnCount \in Nat
    /\ table \in [Teams -> Int] /\ bullets \in Nat
    /\ items \in [Chars -> SUBSET Kinds]
    /\ {falling, restart} \subseteq BOOLEAN /\ owes \subseteq Chars

\* Nobody but p_pActiveSession may act: obj_state alone admits a client's
\* packets, so no second character is ever left ACTIVE.
OneActive == \A p \in Authed : obj[p] = "ACTIVE" => p = active

\* While the clients are synchronized and the next turn is chosen nobody acts:
\* no packet can move the phase while FrameSync or FrameReturn relies on it.
BetweenTurnsNobodyActs ==
    eng.phase \in {"SYNC", "RETURN"} /\ Running
      => \A p \in Authed : obj[p] # "ACTIVE"

\* The state DOUBLE buys one second shot, never a third: once it is fired the
\* turn cannot come back to the phase DOUBLE.
NoThirdShot ==
    eng.second => /\ eng.phase # "DOUBLE"
                  /\ ~(eng.phase = "CHECK" /\ eng.next = "DOUBLE")

\* The right to act is one player's at a time, for two shots at most, and is back
\* with the engine before it is given again, whichever path ended the turn.
OneActor == OneActive /\ BetweenTurnsNobodyActs /\ NoThirdShot

\* m_nLivingTeamCountTable is the number of each team's living players.
TableExact ==
    TeamCount > 1 =>
      \A t \in Teams :
        table[t] = Cardinality({p \in Living : conn[p] # "EMPTY" /\ Team[p] = t})

\* A turn is given to a living player whose delay no other has undercut,
\* whoever has left or died since FrameTurnEnd chose the next one.
LeastDelay ==
    [][eng.phase = "RETURN" /\ eng'.phase = "ACT"
         => /\ active' \in Players
            /\ \A q \in Players : delay[active'] <= delay[q]]_vars

\* A turn that a pass or a healing has closed stays closed: it goes to TURNEND
\* and to the synchronization, and nobody shoots in it any more.
TurnStaysClosed ==
    [][eng.phase = "CHECK" /\ eng.next = "TURNEND"
         => eng'.phase = "TURNEND" \/ eng'.phase = "SYNC" \/ (eng'.phase = "CHECK" /\ eng'.next = "TURNEND")]_vars

\* A synchronization kicks only those who have not answered their SYN.
OnlySilentAreKicked ==
    [][\A p \in Chars :
         pc = "SYNC" /\ pc' = "top" /\ conn[p] # "EMPTY" /\ conn'[p] = "EMPTY" => p \in owes]_vars

\* The server is told to restart only when nobody is connected any more.
RestartMeansEmpty == restart => Authed = {}

\* The synchronizer never uses a p_pActiveSession that is NULL.
NeverCrashes == pc # "crashed"

\* Every turn ends: whatever the active player does or fails to do, the turn
\* is closed by FrameTurnEnd or the game ends.
TurnEnds == eng.phase = "ACT" /\ Running ~> eng.phase = "SYNC" \/ ~Running

\* No silent client keeps the others waiting: a synchronization always ends.
SyncEnds == eng.phase = "SYNC" /\ Running ~> eng.phase = "RETURN" \/ ~Running

\* So the game goes round: no phase of a turn and no silent client stops it.
TurnsGoOn == TurnEnds /\ SyncEnds

\* The players (or teams) still in the game.
Contenders == IF TeamCount > 1 THEN {Team[p] : p \in Players} ELSE Players

\* Without a turn limit a game is only over when it is decided: whatever leaves,
\* fails or dies, IsGameEnd does not give the game to one of two contenders.
NoEarlyEnd == pc = "over" /\ TurnLimit = 0 => Cardinality(Contenders) <= 1

\* IsGameEnd notices that at most one contender is left, as long as anybody is
\* connected to be told.
GameEnds == Cardinality(Contenders) <= 1 ~> ~Running \/ Authed = {}

\* The delays bring everybody to a turn: who stays in the game gets to act.
NobodyStarves ==
    \A p \in Chars :
      p \in Players /\ Running ~> (eng.phase = "ACT" /\ active = p)
                                             \/ p \notin Players \/ ~Running
=============================================================================

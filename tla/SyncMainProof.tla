---------------------------- MODULE SyncMainProof ----------------------------
(***************************************************************************)
(* Proofs about SyncMain for every number of characters and teams, every    *)
(* delay, duration and choice of items.                                    *)
(***************************************************************************)
EXTENDS SyncMain, TLAPS, FiniteSetTheorems

-----------------------------------------------------------------------------
(* Least elements: the loops over the characters that keep the best so far. *)

(* The naturals are well-ordered. *)
LEMMA LeastNatural ==
    ASSUME NEW S \in SUBSET Nat, S # {}
    PROVE  \E m \in S : \A n \in S : m <= n
<1>1. PICK m \in S : \A n \in S : <<n, m>> \notin OpToRel(<, Nat)
  BY NatLessThanWellFounded, WFMin
<1>2. \A n \in S : ~(n < m)
  BY <1>1 DEF OpToRel
<1> QED
  BY <1>2

LEMMA LeastOfIsMember ==
    ASSUME NEW S \in SUBSET Chars, S # {}
    PROVE  LeastOf(S) \in S
<1>1. \E p \in S : \A q \in S : p <= q
  BY LeastNatural, CharsAssumption DEF Chars
<1> QED
  BY <1>1 DEF LeastOf

(* Some member of a set of characters has the least value. *)
LEMMA SomeLeast ==
    ASSUME NEW f \in [Chars -> Nat], NEW S \in SUBSET Chars, S # {}
    PROVE  \E p \in S : \A q \in S : f[p] <= f[q]
<1> DEFINE V == {f[p] : p \in S}
<1>1. V \in SUBSET Nat /\ V # {}
  OBVIOUS
<1>2. PICK m \in V : \A n \in V : m <= n
  <2> HIDE DEF V
  <2> QED
    BY <1>1, LeastNatural
<1>3. PICK p \in S : m = f[p]
  OBVIOUS
<1> QED
  BY <1>2, <1>3

-----------------------------------------------------------------------------
(* The phases. *)

EngType == [phase : Phases, next : Phases, counter : Nat, time : Nat,
            power : BOOLEAN, req : BOOLEAN, idx : 0 .. N, second : BOOLEAN]

(* SetPhase changes the phase and its clock, and the next phase unless the  *)
(* new one has several successors; it keeps m_bDoubleShotFlg.              *)
LEMMA SetPhaseEffect ==
    ASSUME NEW e \in EngType, NEW ph \in Phases
    PROVE  /\ SetPhase(e, ph) \in EngType
           /\ SetPhase(e, ph).phase = ph /\ SetPhase(e, ph).counter = 0
           /\ SetPhase(e, ph).second = e.second
           /\ SetPhase(e, ph).idx = IF ph = "RETURN" THEN 0 ELSE e.idx
           /\ ph \in {"CHECK", "SYNC"} => SetPhase(e, ph).next = e.next
           /\ ph \notin {"CHECK", "SYNC"} =>
                SetPhase(e, ph).next \in {"TRIGGER", "SHOOTING", "SHOT", "CHECK",
                                          "RETURN", "ACT"}
<1>1. /\ DOMAIN NextOf = {"ACT", "TRIGGER", "DOUBLE", "SHOOTING", "SHOT", "TURNEND", "RETURN"}
      /\ \A f \in DOMAIN NextOf :
           NextOf[f] \in {"TRIGGER", "SHOOTING", "SHOT", "CHECK", "RETURN", "ACT"}
  BY DEF NextOf
<1>2. Time[ph] \in Nat /\ 0 \in 0 .. N
  BY TimeAssumption, CharsAssumption
<1>3. (IF ph \in DOMAIN NextOf THEN NextOf[ph] ELSE e.next) \in Phases
  BY <1>1 DEF EngType, Phases
<1> HIDE DEF NextOf
<1>4. SetPhase(e, ph) \in EngType
  BY <1>2, <1>3 DEF SetPhase, EngType
<1> QED
  BY <1>1, <1>4 DEF SetPhase, EngType, Phases

LEMMA SetCheckPhaseEffect ==
    ASSUME NEW e \in EngType, NEW nxt \in Phases
    PROVE  /\ SetCheckPhase(e, nxt) \in EngType
           /\ SetCheckPhase(e, nxt).phase = "CHECK"
           /\ SetCheckPhase(e, nxt).next = nxt
           /\ SetCheckPhase(e, nxt).second = e.second
           /\ SetCheckPhase(e, nxt).idx = e.idx
<1>1. "CHECK" \in Phases
  BY DEF Phases
<1>2. SetPhase(e, "CHECK") \in EngType
  BY <1>1, SetPhaseEffect
<1> QED
  BY <1>1, <1>2, SetPhaseEffect DEF SetCheckPhase, EngType

LEMMA CountedEffect ==
    ASSUME NEW e \in EngType
    PROVE  /\ Counted(e) \in EngType
           /\ Counted(e).phase = e.phase /\ Counted(e).next = e.next
           /\ Counted(e).second = e.second /\ Counted(e).idx = e.idx
           /\ Counted(e).counter = e.counter + 1
BY DEF Counted, EngType

LEMMA ShootingBulletEffect ==
    ASSUME NEW e \in EngType, NEW x \in ShootingBullet(e)
    PROVE  /\ x \in EngType
           /\ x.phase \in {"SHOT", "SHOOTING"} /\ x.next # "DOUBLE"
           /\ x.second = e.second /\ x.idx = e.idx
BY SetPhaseEffect DEF ShootingBullet, Phases

(* The walk of the synchronization is within the characters, nothing but    *)
(* FrameTurnEnd leads to it and it leads to RETURN; a second shot that was  *)
(* fired cannot come again; and but for PK_CMD_MAIN_PASS, which leaves      *)
(* m_eGameNextPhase alone, CHECK leads on within the turn.                 *)
EngShape(e) ==
    /\ e \in EngType /\ e.idx < N
    /\ e.next # "SYNC" /\ (e.phase = "SYNC" => e.next = "RETURN")
    /\ e.second => e.phase # "DOUBLE" /\ e.next # "DOUBLE"
    /\ ~OldPass /\ e.phase = "CHECK" => e.next \in {"TRIGGER", "TURNEND", "DOUBLE"}

LEMMA SetPhaseShape ==
    ASSUME NEW e, EngShape(e), NEW ph \in Phases, ph # "SYNC", ph = "DOUBLE" => ~e.second,
           ph = "CHECK" => OldPass
    PROVE  /\ EngShape(SetPhase(e, ph)) /\ SetPhase(e, ph).phase = ph
           /\ SetPhase(e, ph).second = e.second
<1>1. e \in EngType /\ 0 < N
  BY CharsAssumption DEF EngShape
<1>2. SetPhase(e, ph).next \notin {"SYNC", "DOUBLE"} \/ SetPhase(e, ph).next = e.next
  BY <1>1, SetPhaseEffect
<1> QED
  BY <1>1, <1>2, SetPhaseEffect DEF EngShape

LEMMA SetCheckPhaseShape ==
    ASSUME NEW e, EngShape(e), NEW nxt \in {"TRIGGER", "TURNEND", "DOUBLE"},
           nxt = "DOUBLE" => ~e.second
    PROVE  /\ EngShape(SetCheckPhase(e, nxt)) /\ SetCheckPhase(e, nxt).phase = "CHECK"
           /\ SetCheckPhase(e, nxt).next = nxt
           /\ SetCheckPhase(e, nxt).second = e.second
BY SetCheckPhaseEffect DEF EngShape, Phases

LEMMA CountedShape ==
    ASSUME NEW e, EngShape(e)
    PROVE  /\ EngShape(Counted(e)) /\ Counted(e).phase = e.phase
           /\ Counted(e).second = e.second
BY CountedEffect DEF EngShape

LEMMA ShootingBulletShape ==
    ASSUME NEW e, EngShape(e), NEW x \in ShootingBullet(e)
    PROVE  EngShape(x) /\ x.phase \in {"SHOT", "SHOOTING"}
BY SetPhaseShape DEF ShootingBullet, Phases

-----------------------------------------------------------------------------
(* Delays and the choice of the next character. *)

LEMMA NextCharaEffect ==
    ASSUME NEW d \in [Chars -> Nat], NEW L \in SUBSET Chars, NextChara(d, L) # None
    PROVE  NextChara(d, L) \in L /\ d[NextChara(d, L)] = 0
<1> DEFINE zero == {p \in L : d[p] = 0}
           low  == {p \in zero : \A q \in zero : Base[p] <= Base[q]}
<1>1. zero # {} /\ NextChara(d, L) = LeastOf(low)
  BY DEF NextChara
<1>2. low # {}
  <2>1. \E p \in zero : \A q \in zero : Base[p] <= Base[q]
    BY <1>1, SomeLeast, DelayAssumption
  <2> QED
    BY <2>1
<1>3. LeastOf(low) \in low
  <2> HIDE DEF zero
  <2>1. low \in SUBSET Chars
    <3>1. zero \subseteq Chars
      BY DEF zero
    <3> QED
      BY <3>1
  <2> HIDE DEF low
  <2> QED
    BY <1>2, <2>1, LeastOfIsMember
<1> QED
  BY <1>1, <1>3

LEMMA ElapseEffect ==
    ASSUME NEW d \in [Chars -> Nat], NEW L \in SUBSET Chars
    PROVE  Elapse(d, L) \in [Chars -> Nat]
<1>1. CASE L = {}
  BY <1>1 DEF Elapse
<1>2. CASE L # {}
  <2>1. \E p \in L : \A q \in L : d[p] <= d[q]
    BY <1>2, SomeLeast
  <2>2. PICK p \in L : Shortest(d, L) = d[p] /\ \A q \in L : d[p] <= d[q]
    BY <2>1 DEF Shortest
  <2> QED
    BY <2>2 DEF Elapse
<1> QED
  BY <1>1, <1>2

LEMMA GetNextActiveCharaEffect ==
    ASSUME delay \in [Chars -> Nat], turns \in [Chars -> Nat], Players # {}
    PROVE  /\ GetNextActiveChara \in Players
           /\ \A q \in Players : delay[GetNextActiveChara] <= delay[q]
<1> DEFINE low == {p \in Players : \A q \in Players : delay[p] <= delay[q]}
           few == {p \in low : \A q \in low : turns[p] <= turns[q]}
<1>1. Players \in SUBSET Chars
  BY DEF Players, Authed
<1>2. low # {} /\ low \in SUBSET Chars
  BY <1>1, SomeLeast
<1>3. few # {} /\ few \in SUBSET Chars
  <2> HIDE DEF low
  <2> QED
    BY <1>2, SomeLeast
<1>4. LeastOf(few) \in few
  <2> HIDE DEF few
  <2> QED
    BY <1>3, LeastOfIsMember
<1> QED
  BY <1>4 DEF GetNextActiveChara

-----------------------------------------------------------------------------
(* Types.  They need to know that the walk of the synchronization ends at   *)
(* the last character, and so that nobody can change the phase under it.    *)

StateType ==
    /\ pc \in Phases \cup {"top", "fire", "over", "crashed"}
    /\ active \in Chars \cup {None} /\ saved \in Chars \cup {None}
    /\ conn \in [Chars -> {"AUTHED", "DESTROY", "EMPTY"}]
    /\ obj \in [Chars -> {"WAIT", "ACTIVE", "DEAD", "EMPTY"}]
    /\ ack \in [Chars -> BOOLEAN] /\ double \in [Chars -> BOOLEAN]
    /\ delay \in [Chars -> Nat] /\ turns \in [Chars -> Nat] /\ turnCount \in Nat
    /\ table \in [Teams -> Int] /\ bullets \in Nat
    /\ items \in [Chars -> SUBSET Kinds]
    /\ {falling, restart} \subseteq BOOLEAN /\ owes \subseteq Chars

(* While the clients are synchronized nobody acts, and the frames of SYNC   *)
(* and CHECK find the phase they have read.                                *)
SyncInv ==
    /\ pc \in {"SYNC", "CHECK"} => eng.phase = pc
    /\ eng.phase = "SYNC" /\ Running => \A p \in Authed : obj[p] # "ACTIVE"

TypeInv == StateType /\ EngShape(eng) /\ SyncInv

LEMMA TypeInvIsTyped == TypeInv => TypeOK
BY DEF TypeInv, StateType, EngShape, EngType, TypeOK

LEMMA InitTyped == Init => TypeInv
<1> SUFFICES ASSUME Init PROVE TypeInv
  OBVIOUS
<1>1. EngShape(eng)
  <2>1. Time["TURNEND"] \in Nat /\ 0 \in 0 .. N /\ 0 < N
    BY TimeAssumption, CharsAssumption DEF Phases
  <2> QED
    BY <2>1 DEF Init, EngShape, EngType, Phases
<1>2. SyncInv
  BY DEF Init, SyncInv
<1>3. table \in [Teams -> Int]
  <2>1. \A t \in Teams : Cardinality({p \in Chars : Team[p] = t}) \in Int
    <3> SUFFICES ASSUME NEW t \in Teams
                 PROVE  Cardinality({p \in Chars : Team[p] = t}) \in Int
      OBVIOUS
    <3>1. IsFiniteSet(Chars)
      BY FS_Interval, CharsAssumption DEF Chars
    <3>2. IsFiniteSet({p \in Chars : Team[p] = t})
      BY <3>1, FS_Subset
    <3> QED
      BY <3>2, FS_CardinalityType
  <2> QED
    BY <2>1 DEF Init
<1>4. StateType
  BY <1>3, ItemAssumption, DelayAssumption DEF Init, StateType
<1> QED
  BY <1>1, <1>2, <1>4 DEF TypeInv

LEMMA CharsAreFinite == IsFiniteSet(Chars)
BY FS_Interval, CharsAssumption DEF Chars

(* Deaths keep the type of the table of living teams. *)
LEMMA TableAfterType ==
    ASSUME table \in [Teams -> Int], NEW K \in SUBSET Chars
    PROVE  TableAfter(K) \in [Teams -> Int]
<1>1. \A t \in Teams : Cardinality({p \in K : Team[p] = t}) \in Int
  <2> SUFFICES ASSUME NEW t \in Teams
               PROVE  Cardinality({p \in K : Team[p] = t}) \in Int
    OBVIOUS
  <2>1. IsFiniteSet({p \in K : Team[p] = t})
    BY CharsAreFinite, FS_Subset
  <2> QED
    BY <2>1, FS_CardinalityType
<1> QED
  BY <1>1 DEF TableAfter

LEMMA LeaveType ==
    ASSUME StateType, NEW p \in Chars, Leave(p)
    PROVE  /\ table' \in [Teams -> Int] /\ active' \in Chars \cup {None}
           /\ conn' \in [Chars -> {"AUTHED", "DESTROY", "EMPTY"}]
           /\ obj' \in [Chars -> {"WAIT", "ACTIVE", "DEAD", "EMPTY"}]
           /\ owes' \subseteq Chars
           /\ Authed' \subseteq Authed /\ \A q \in Authed' : obj'[q] = obj[q]
<1>1. table' \in [Teams -> Int]
  BY TableAfterType DEF Leave, StateType
<1> QED
  BY <1>1 DEF Leave, StateType, Authed

LEMMA PhysicsType ==
    ASSUME StateType, NEW mayFall, NEW fires, Physics(mayFall, fires)
    PROVE  /\ table' \in [Teams -> Int]
           /\ obj' \in [Chars -> {"WAIT", "ACTIVE", "DEAD", "EMPTY"}]
           /\ double' \in [Chars -> BOOLEAN]
           /\ bullets' \in Nat /\ falling' \in BOOLEAN
           /\ \A q \in Chars : obj'[q] = "ACTIVE" => obj[q] = "ACTIVE"
<1>1. PICK K \in SUBSET Living :
          /\ obj' = [p \in Chars |-> IF p \in K THEN "DEAD" ELSE obj[p]]
          /\ double' = [p \in Chars |-> double[p] /\ p \notin K]
          /\ table' = TableAfter(K)
  BY DEF Physics
<1>2. table' \in [Teams -> Int]
  BY <1>1, TableAfterType DEF StateType, Living
<1>3. bullets' \in Nat
  BY BoundAssumption DEF Physics, StateType
<1>4. falling' \in BOOLEAN
  BY DEF Physics
<1>5. double' \in [Chars -> BOOLEAN]
  BY <1>1 DEF StateType
<1> QED
  BY <1>1, <1>2, <1>3, <1>4, <1>5 DEF StateType

(* Packets. *)
LEMMA PacketsType == TypeInv /\ Packets => TypeInv'
<1> SUFFICES ASSUME TypeInv, NEW p \in Chars,
                    \/ SetShotPowerStart(p) \/ SetTrigger(p) \/ SetShot(p)
                    \/ RcvTriggerEnd(p) \/ SetTurnPass(p) \/ TurnPass(p)
                    \/ \E i \in items[p], used \in BOOLEAN : OrderItem(p, i, used)
                    \/ SetAck(p)
             PROVE  TypeInv'
  BY DEF Packets
<1> USE DEF TypeInv
<1>a. /\ "CHECK" \in Phases /\ "TRIGGER" \in Phases /\ "TURNEND" \in Phases
      /\ eng \in EngType
  BY DEF Phases, EngShape
<1>b. Acting(p) => Running /\ eng.phase # "SYNC" /\ pc # "SYNC"
  BY DEF Acting, SyncInv, Running
<1>1. CASE SetShotPowerStart(p)
  <2>1. EngShape(eng') /\ eng'.phase = eng.phase
    BY <1>1, TimeAssumption DEF SetShotPowerStart, EngType, EngShape
  <2>2. StateType'
    BY <1>1 DEF SetShotPowerStart, StateType, charVars
  <2>3. SyncInv'
    BY <1>1, <2>1 DEF SetShotPowerStart, SyncInv, charVars, Running, Authed
  <2> QED
    BY <2>1, <2>2, <2>3
<1>2. CASE SetTrigger(p)
  <2>1. EngShape(eng') /\ eng'.phase = "CHECK" /\ pc' # "SYNC"
    BY <1>2, <1>a, <1>b, SetCheckPhaseShape DEF SetTrigger
  <2>2. StateType'
    BY <1>2 DEF SetTrigger, StateType
  <2> QED
    BY <2>1, <2>2 DEF SyncInv
<1>3. CASE SetShot(p)
  <2>1. EngShape(eng') /\ eng'.phase # "SYNC" /\ pc' \notin {"SYNC", "CHECK"}
    BY <1>3, <1>a, <1>b, ShootingBulletShape DEF SetShot, SyncInv
  <2>2. StateType'
    BY <1>3, BoundAssumption DEF SetShot, StateType, charVars
  <2> QED
    BY <2>1, <2>2 DEF SyncInv
<1>4. CASE RcvTriggerEnd(p)
  <2>1. StateType'
    BY <1>4 DEF RcvTriggerEnd, StateType, engVars, gameVars
  <2> QED
    BY <1>4, <2>1 DEF RcvTriggerEnd, EngShape, SyncInv, engVars, gameVars, Running, Authed
<1>5. CASE SetTurnPass(p)
  <2>1. EngShape(eng') /\ eng'.phase = "CHECK" /\ pc' # "SYNC"
    BY <1>5, <1>a, <1>b, SetCheckPhaseShape DEF SetTurnPass
  <2>2. StateType'
    BY <1>5 DEF SetTurnPass, StateType, charVars, gameVars
  <2> QED
    BY <2>1, <2>2 DEF SyncInv
<1>6. CASE TurnPass(p)
  <2>1. EngShape(eng') /\ eng'.phase = "CHECK" /\ pc' # "SYNC"
    BY <1>6, <1>a, <1>b, SetPhaseShape DEF TurnPass
  <2>2. StateType'
    BY <1>6 DEF TurnPass, StateType, charVars, gameVars
  <2> QED
    BY <2>1, <2>2 DEF SyncInv
<1>7. ASSUME NEW i \in items[p], NEW used \in BOOLEAN, OrderItem(p, i, used)
      PROVE  TypeInv'
  <2>1. /\ EngShape(eng') /\ eng'.phase # "SYNC" /\ pc' # "SYNC"
        /\ pc' = "CHECK" => eng'.phase = "CHECK"
    BY <1>7, <1>a, <1>b, SetCheckPhaseShape DEF OrderItem, SyncInv
  <2>2. delay' \in [Chars -> Nat]
    BY <1>7, DelayAssumption DEF OrderItem, StateType
  <2>3. double' \in [Chars -> BOOLEAN] /\ items' \in [Chars -> SUBSET Kinds]
    BY <1>7 DEF OrderItem, StateType
  <2>4. StateType'
    BY <1>7, <2>2, <2>3 DEF OrderItem, StateType, gameVars
  <2> QED
    BY <2>1, <2>4 DEF SyncInv
<1>8. CASE SetAck(p)
  <2>1. StateType'
    BY <1>8 DEF SetAck, StateType, engVars
  <2> QED
    BY <1>8, <2>1 DEF SetAck, EngShape, SyncInv, engVars, Running, Authed
<1> QED
  BY <1>1, <1>2, <1>3, <1>4, <1>5, <1>6, <1>7, <1>8

(* Disconnections, dead sockets and the operator. *)
LEMMA EnvironmentType == TypeInv /\ Environment => TypeInv'
<1> SUFFICES ASSUME TypeInv, NEW p \in Chars,
                    Disconnect(p) \/ SendError(p) \/ \E q \in Chars : SetMaster(p, q)
             PROVE  TypeInv'
  BY DEF Environment
<1> USE DEF TypeInv
<1>1. CASE Disconnect(p)
  <2>1. StateType'
    BY <1>1, LeaveType DEF Disconnect, StateType, engVars
  <2> QED
    BY <1>1, <2>1, LeaveType DEF Disconnect, EngShape, SyncInv, engVars, Running
<1>2. CASE SendError(p)
  <2>1. StateType'
    BY <1>2 DEF SendError, StateType, engVars, gameVars
  <2> QED
    BY <1>2, <2>1 DEF SendError, StateType, EngShape, SyncInv, engVars, Running, Authed
<1>3. ASSUME NEW q \in Chars, SetMaster(p, q) PROVE TypeInv'
  <2>1. StateType'
    BY <1>3 DEF SetMaster, StateType, engVars, gameVars
  <2> QED
    BY <1>3, <2>1 DEF SetMaster, EngShape, SyncInv, engVars, gameVars, Running, Authed
<1> QED
  BY <1>1, <1>2, <1>3

(* What a frame does to the phase: it leads to SYNC only in FrameTurnEnd.   *)
LEMMA FramesBeforeTheEnd ==
    ASSUME TypeInv,
           FrameRead \/ FrameAct \/ FrameTrigger \/ FrameShooting \/ FrameShot
             \/ FrameDouble \/ FrameFire \/ FrameFireNull \/ FrameCheck
    PROVE  /\ EngShape(eng') /\ (eng'.phase = "SYNC" => eng.phase = "SYNC")
           /\ eng'.phase = "RETURN" => eng.phase = "RETURN" \/ OldPass
           /\ ~OldPass /\ eng.phase = "RETURN" => eng'.phase # "ACT"
           /\ pc' \in {"SYNC", "CHECK"} => pc' = eng.phase /\ eng' = eng
<1> USE DEF TypeInv
<1>a. {"CHECK", "TRIGGER", "TURNEND", "SHOT", "DOUBLE"} \subseteq Phases
  BY DEF Phases
<1>b. EngShape(Counted(eng)) /\ Counted(eng).phase = eng.phase
  BY CountedShape
<1>c. ~FrameRead => pc' \notin {"SYNC", "CHECK"}
  BY DEF FrameAct, FrameShooting, FrameShot, FrameCheck, EndFrame, FrameTrigger,
         FrameDouble, FrameFire, FrameFireNull
<1>1. CASE FrameRead
  BY <1>1 DEF FrameRead
<1>2. CASE FrameAct
  <2>1. \/ eng' = Counted(eng)
        \/ \E nxt \in {"TRIGGER", "TURNEND"} : eng' = SetCheckPhase(Counted(eng), nxt)
    BY <1>2 DEF FrameAct
  <2> QED
    BY <1>2, <1>a, <1>b, <1>c, <2>1, SetCheckPhaseShape DEF FrameAct, FrameRead
<1>3. CASE FrameTrigger
  <2>0. PICK e \in {eng, Counted(eng)} : \E s :
             eng' = IF ~Able(active) THEN SetPhase(e, "TURNEND") ELSE [e EXCEPT !.req = @ \/ s]
    BY <1>3 DEF FrameTrigger
  <2>1. PICK shoot :
             eng' = IF ~Able(active) THEN SetPhase(e, "TURNEND") ELSE [e EXCEPT !.req = @ \/ shoot]
    BY <2>0
  <2>2. EngShape(e) /\ e.phase = eng.phase
    BY <1>b, <2>1
  <2>3. CASE ~Able(active)
    BY <1>3, <1>a, <1>c, <2>1, <2>2, <2>3, SetPhaseShape DEF FrameTrigger, FrameRead
  <2>4. CASE Able(active)
    <3>1. eng' = [e EXCEPT !.req = e.req \/ shoot]
      BY <2>1, <2>4
    <3>2. EngShape(eng') /\ eng'.phase = e.phase
      BY <2>2, <3>1 DEF EngShape, EngType
    <3> QED
      BY <1>3, <1>c, <2>2, <3>2 DEF FrameTrigger, FrameRead
  <2> QED
    BY <2>3, <2>4
<1>4. CASE FrameShooting
  <2>1. \/ eng' = Counted(eng) \/ eng' = SetPhase(Counted(eng), "SHOT")
        \/ eng' = SetCheckPhase(eng, "TURNEND")
    BY <1>4 DEF FrameShooting
  <2>2. CASE eng' = SetPhase(Counted(eng), "SHOT")
    BY <1>4, <1>a, <1>b, <1>c, <2>2, SetPhaseShape DEF FrameShooting, FrameRead
  <2> QED
    BY <1>4, <1>a, <1>b, <1>c, <2>1, <2>2, SetCheckPhaseShape DEF FrameShooting, FrameRead
<1>5. CASE FrameShot
  <2>1. PICK spell \in BOOLEAN :
          eng' = CASE bullets > 0 -> eng
                   [] bullets = 0 /\ SecondShot(spell) -> SetCheckPhase(eng, "DOUBLE")
                   [] OTHER -> SetCheckPhase(eng, "TURNEND")
    BY <1>5 DEF FrameShot
  <2>2. \/ eng' = eng
        \/ eng' = SetCheckPhase(eng, "DOUBLE") /\ ~eng.second
        \/ eng' = SetCheckPhase(eng, "TURNEND")
    BY <2>1 DEF SecondShot
  <2> QED
    BY <1>5, <1>a, <1>c, <2>2, SetCheckPhaseShape DEF FrameShot, FrameRead
<1>6. CASE FrameDouble
  <2>1. eng' = eng \/ eng' = SetPhase(eng, "TURNEND")
    BY <1>6 DEF FrameDouble
  <2> QED
    BY <1>6, <1>a, <1>c, <2>1, SetPhaseShape DEF FrameDouble, FrameRead
<1>7. CASE FrameFire
  <2>1. PICK e \in ShootingBullet(eng) : eng' = [e EXCEPT !.second = TRUE]
    BY <1>7 DEF FrameFire
  <2>2. EngShape(e) /\ e.phase \in {"SHOT", "SHOOTING"}
    BY ShootingBulletShape
  <2>3. e.next # "DOUBLE"
    BY SetPhaseEffect DEF ShootingBullet, Phases, EngShape
  <2>4. EngShape(eng') /\ eng'.phase = e.phase
    BY <2>1, <2>2, <2>3 DEF EngShape, EngType
  <2> QED
    BY <1>7, <1>c, <2>2, <2>4 DEF FrameFire, FrameRead
<1>8. CASE FrameFireNull
  BY <1>8, <1>c DEF FrameFireNull, FrameRead
<1>9. CASE FrameCheck
  <2>1. /\ eng.next \in Phases /\ eng.next # "SYNC" /\ (eng.next = "DOUBLE" => ~eng.second)
        /\ eng.phase = "CHECK" /\ (eng.next \in {"RETURN", "CHECK"} => OldPass)
    BY <1>9 DEF EngShape, EngType, FrameCheck, SyncInv
  <2>2. eng' = eng \/ eng' = SetPhase(eng, eng.next)
    BY <1>9 DEF FrameCheck
  <2> QED
    BY <1>9, <1>c, <2>1, <2>2, SetPhaseShape DEF FrameCheck, FrameRead
<1> QED
  BY <1>1, <1>2, <1>3, <1>4, <1>5, <1>6, <1>7, <1>8, <1>9

LEMMA FramesBeforeTheEndType ==
    ASSUME TypeInv,
           FrameRead \/ FrameAct \/ FrameTrigger \/ FrameShooting \/ FrameShot
             \/ FrameDouble \/ FrameFire \/ FrameFireNull \/ FrameCheck
    PROVE  TypeInv'
<1> USE DEF TypeInv
<1>1. /\ EngShape(eng') /\ (eng'.phase = "SYNC" => eng.phase = "SYNC")
      /\ pc' \in {"SYNC", "CHECK"} => eng'.phase = pc'
  BY FramesBeforeTheEnd
<1>2. StateType' /\ Authed' = Authed
      /\ \A p \in Chars : obj'[p] = "ACTIVE" => obj[p] = "ACTIVE"
  <2>1. CASE FrameRead
    BY <2>1 DEF FrameRead, StateType, EngShape, EngType, charVars, gameVars, Authed
  <2>2. CASE FrameAct
    <3>1. UNCHANGED <<obj, double, table, bullets, falling>> \/ Physics(TRUE, FALSE)
      BY <2>2 DEF FrameAct
    <3>2. pc' \in {"top", "over"} /\ turnCount' = turnCount
      BY <2>2 DEF FrameAct, EndFrame
    <3> QED
      BY <2>2, <3>1, <3>2, PhysicsType DEF FrameAct, StateType, Authed
  <2>3. CASE FrameTrigger
    <3>1. ack' \in [Chars -> BOOLEAN]
      BY <2>3 DEF FrameTrigger, StateType
    <3> QED
      BY <2>3, <3>1 DEF FrameTrigger, StateType, gameVars, Authed
  <2>4. CASE FrameShooting
    BY <2>4, PhysicsType DEF FrameShooting, StateType, Authed, EndFrame
  <2>5. CASE FrameShot
    BY <2>5, PhysicsType DEF FrameShot, StateType, Authed, EndFrame
  <2>6. CASE FrameDouble
    BY <2>6 DEF FrameDouble, StateType, charVars, gameVars, Authed
  <2>7. CASE FrameFire
    BY <2>7, BoundAssumption DEF FrameFire, StateType, Authed
  <2>8. CASE FrameFireNull
    BY <2>8 DEF FrameFireNull, StateType, charVars, gameVars, Authed
  <2>9. CASE FrameCheck
    <3>1. ack' \in [Chars -> BOOLEAN]
      BY <2>9 DEF FrameCheck, StateType
    <3> QED
      BY <2>9, <3>1, PhysicsType DEF FrameCheck, StateType, Authed, EndFrame
  <2> QED
    BY <2>1, <2>2, <2>3, <2>4, <2>5, <2>6, <2>7, <2>8, <2>9
<1>3. Running' => Running
  BY DEF Running, FrameRead, FrameAct, FrameTrigger, FrameShooting, FrameShot,
         FrameDouble, FrameFire, FrameFireNull, FrameCheck
<1> QED
  BY <1>1, <1>2, <1>3 DEF SyncInv, Authed

(* The end of a turn chooses the next one among the players. *)
LEMMA FrameTurnEndEffect ==
    ASSUME StateType, FrameTurnEnd
    PROVE  /\ active' \in Players \cup {None} /\ active' \in Chars \cup {None}
           /\ delay' \in [Chars -> Nat]
           /\ active' # None => delay'[active'] = 0
           /\ obj' \in [Chars -> {"WAIT", "ACTIVE", "DEAD", "EMPTY"}]
           /\ \A p \in Authed : obj'[p] # "ACTIVE"
           /\ double' \in [Chars -> BOOLEAN]
           /\ \E K \in SUBSET Players :
                /\ table' = TableAfter(K)
                /\ obj' = [p \in Chars |-> CASE p \in K -> "DEAD" [] p \in Players \ K -> "WAIT"
                                             [] OTHER -> obj[p]]
<1>1. PICK cost \in Costs, K \in {{}} \cup {{p} : p \in Players} :
        LET d == Elapse(IF active = None THEN delay ELSE [delay EXCEPT ![active] = @ + cost], Players)
        IN  /\ delay' = d
            /\ active' = NextChara(d, Players)
            /\ obj' = AfterTurn(Players, K)
            /\ double' = [p \in Chars |-> double[p] /\ p \notin K]
            /\ table' = TableAfter(K)
  BY DEF FrameTurnEnd
<1>2. K \in SUBSET Players /\ Players \in SUBSET Chars
  BY DEF Players, Authed
<1>3. delay' \in [Chars -> Nat]
  <2> DEFINE paid == IF active = None THEN delay ELSE [delay EXCEPT ![active] = @ + cost]
  <2>1. paid \in [Chars -> Nat]
    BY DelayAssumption DEF Costs, StateType
  <2>2. delay' = Elapse(paid, Players)
    BY <1>1
  <2> HIDE DEF paid
  <2> QED
    BY <1>2, <2>1, <2>2, ElapseEffect
<1>4. active' = NextChara(delay', Players)
  BY <1>1
<1>5. active' # None => active' \in Players /\ delay'[active'] = 0
  BY <1>2, <1>3, <1>4, NextCharaEffect
<1>6. obj' = [p \in Chars |-> CASE p \in K -> "DEAD" [] p \in Players \ K -> "WAIT"
                                [] OTHER -> obj[p]]
  BY <1>1 DEF AfterTurn
<1>7. \A p \in Chars : obj'[p] \in {"DEAD", "WAIT"} \/ (p \notin Players /\ obj'[p] = obj[p])
  BY <1>6
<1>8. obj' \in [Chars -> {"WAIT", "ACTIVE", "DEAD", "EMPTY"}]
  BY <1>6, <1>7 DEF StateType
<1>9. \A p \in Authed : obj'[p] # "ACTIVE"
  BY <1>7 DEF Authed, Players, Living
<1>10. double' \in [Chars -> BOOLEAN]
  BY <1>1 DEF StateType
<1> QED
  BY <1>1, <1>2, <1>3, <1>5, <1>6, <1>8, <1>9, <1>10

LEMMA FrameTurnEndType ==
    ASSUME TypeInv, FrameTurnEnd
    PROVE  TypeInv' /\ eng'.counter = 0 /\ eng'.phase = "SYNC"
<1> USE DEF TypeInv
<1>1. EngShape(eng') /\ eng'.phase = "SYNC" /\ eng'.counter = 0
  <2>1. eng' = [SetPhase(eng, "SYNC") EXCEPT !.next = "RETURN", !.second = FALSE]
    BY DEF FrameTurnEnd
  <2>2. "SYNC" \in Phases /\ "RETURN" \in Phases /\ eng \in EngType
    BY DEF Phases, EngShape
  <2>3. PICK s \in EngType : /\ s = SetPhase(eng, "SYNC") /\ s.phase = "SYNC"
                             /\ s.idx = eng.idx /\ s.counter = 0
    BY <2>2, SetPhaseEffect
  <2>4. eng' = [s EXCEPT !.next = "RETURN", !.second = FALSE]
    BY <2>1, <2>3
  <2>5. /\ eng' \in EngType /\ eng'.phase = "SYNC" /\ eng'.next = "RETURN"
        /\ eng'.second = FALSE /\ eng'.idx = eng.idx /\ eng'.counter = 0
    BY <2>2, <2>3, <2>4 DEF EngType
  <2> QED
    BY <2>5 DEF EngShape
<1>2. table' \in [Teams -> Int]
  BY FrameTurnEndEffect, TableAfterType DEF Players, Authed, StateType
<1>3. turns' \in [Chars -> Nat] /\ turnCount' \in Nat
  BY DEF FrameTurnEnd, StateType
<1>4. ack' \in [Chars -> BOOLEAN]
  BY DEF FrameTurnEnd, StateType
<1>5. pc' \in {"top", "over"}
  BY DEF FrameTurnEnd, EndFrame
<1>6. StateType'
  BY <1>2, <1>3, <1>4, <1>5, FrameTurnEndEffect DEF FrameTurnEnd, StateType
<1>7. SyncInv'
  BY <1>5, FrameTurnEndEffect DEF SyncInv, FrameTurnEnd, Authed
<1> QED
  BY <1>1, <1>6, <1>7

(* A step of the walk stays in it or ends it.                              *)
LEMMA SyncStepEffect ==
    ASSUME EngShape(eng), eng.phase = "SYNC", StateType, NEW skip \in BOOLEAN, SyncStep(skip)
    PROVE  /\ EngShape(eng') /\ eng'.phase \in {"SYNC", "RETURN"}
           /\ eng'.phase = "SYNC" =>
                /\ eng'.idx = (IF skip THEN eng.idx + 1 ELSE eng.idx)
                /\ eng'.counter = (IF skip THEN 0 ELSE eng.counter + 1)
                /\ ack' = ack
           /\ ack' \in [Chars -> BOOLEAN]
<1> DEFINE e == [eng EXCEPT !.idx = IF skip THEN @ + 1 ELSE @,
                            !.counter = IF skip THEN 0 ELSE @ + 1]
<1>1. /\ e \in EngType /\ e.phase = "SYNC" /\ e.next = "RETURN" /\ e.second = eng.second
      /\ e.idx = (IF skip THEN eng.idx + 1 ELSE eng.idx)
      /\ e.counter = (IF skip THEN 0 ELSE eng.counter + 1)
  <2>1. CASE skip
    <3>1. e = [eng EXCEPT !.idx = eng.idx + 1, !.counter = 0]
      BY <2>1
    <3>2. eng.idx + 1 \in 0 .. N
      BY CharsAssumption DEF EngShape, EngType
    <3> QED
      BY <2>1, <3>1, <3>2 DEF EngShape, EngType
  <2>2. CASE ~skip
    <3>1. e = [eng EXCEPT !.idx = eng.idx, !.counter = eng.counter + 1]
      BY <2>2
    <3>2. eng \in EngType /\ eng.counter + 1 \in Nat /\ eng.idx \in 0 .. N
      BY DEF EngShape, EngType
    <3> QED
      BY <2>2, <3>1, <3>2 DEF EngShape, EngType
  <2> QED
    BY <2>1, <2>2
<1>2. eng' = IF skip /\ e.idx >= N THEN SetPhase(e, "RETURN") ELSE e
  BY DEF SyncStep, EngShape
<1>3. ack' = [p \in Chars |-> ack[p] /\ eng'.phase # "RETURN"]
  BY DEF SyncStep
<1> HIDE DEF e
<1>4. CASE skip /\ e.idx >= N
  <2>1. "RETURN" \in Phases /\ 0 < N
    BY CharsAssumption DEF Phases
  <2>2. /\ eng' \in EngType /\ eng'.phase = "RETURN" /\ eng'.second = eng.second
        /\ eng'.idx = 0 /\ eng'.next \notin {"SYNC", "DOUBLE"}
    BY <1>1, <1>2, <1>4, <2>1, SetPhaseEffect
  <2> QED
    BY <1>3, <2>1, <2>2 DEF EngShape
<1>5. CASE ~(skip /\ e.idx >= N)
  <2>1. eng' = e /\ e.idx < N
    BY <1>1, <1>2, <1>5, CharsAssumption DEF EngShape, EngType
  <2>2. ack' = ack
    BY <1>1, <1>3, <2>1 DEF StateType
  <2> QED
    BY <1>1, <2>1, <2>2 DEF EngShape, StateType
<1> QED
  BY <1>4, <1>5

LEMMA FrameSyncType == TypeInv /\ FrameSync => TypeInv'
<1> SUFFICES ASSUME TypeInv, FrameSync PROVE TypeInv'
  OBVIOUS
<1> USE DEF TypeInv
<1>1. pc = "SYNC" /\ pc' = "top" /\ eng.phase = "SYNC" /\ eng.idx \in Chars
  <2>1. eng.idx \in 0 .. N /\ eng.idx < N
    BY DEF EngShape, EngType
  <2> QED
    BY <2>1, CharsAssumption DEF FrameSync, SyncInv, Chars
<1>2. PICK skip \in BOOLEAN : SyncStep(skip)
  BY DEF FrameSync
<1>3. EngShape(eng') /\ ack' \in [Chars -> BOOLEAN]
  BY <1>1, <1>2, SyncStepEffect
<1>4. \/ UNCHANGED <<conn, obj, table, active>> /\ owes' \in {owes, owes \cup {eng.idx}}
      \/ Leave(eng.idx)
  BY DEF FrameSync
<1>5. /\ table' \in [Teams -> Int] /\ active' \in Chars \cup {None}
      /\ conn' \in [Chars -> {"AUTHED", "DESTROY", "EMPTY"}]
      /\ obj' \in [Chars -> {"WAIT", "ACTIVE", "DEAD", "EMPTY"}]
      /\ owes' \subseteq Chars
      /\ Authed' \subseteq Authed /\ \A q \in Authed' : obj'[q] = obj[q]
  <2>1. CASE UNCHANGED <<conn, obj, table, active>> /\ owes' \in {owes, owes \cup {eng.idx}}
    BY <1>1, <2>1 DEF StateType, Authed
  <2> QED
    BY <1>1, <1>4, <2>1, LeaveType
<1>6. StateType'
  BY <1>1, <1>3, <1>5 DEF FrameSync, StateType
<1>7. SyncInv'
  BY <1>1, <1>5 DEF SyncInv, Running
<1> QED
  BY <1>3, <1>6, <1>7

(* The next turn is a player's, who alone becomes active.                  *)
LEMMA FrameReturnEffect ==
    ASSUME StateType, FrameReturn
    PROVE  \/ /\ active' \in Players
              /\ active' = active \/ ~Able(active)
              /\ active' = active \/ \A q \in Players : delay[active'] <= delay[q]
              /\ obj' = [obj EXCEPT ![active'] = "ACTIVE"]
              /\ delay' = [delay EXCEPT ![active'] = Base[active']]
              /\ eng' = SetPhase(eng, "ACT")
              /\ restart' = restart
           \/ /\ Players = {} /\ active' = None /\ restart' = TRUE
              /\ UNCHANGED <<obj, delay, eng>>
<1>1. CASE Able(active)
  BY <1>1 DEF FrameReturn, Able
<1>2. CASE ~Able(active) /\ Players # {}
  <2>1. active' = GetNextActiveChara
    BY <1>2 DEF FrameReturn
  <2> QED
    BY <1>2, <2>1, GetNextActiveCharaEffect DEF FrameReturn, StateType
<1>3. CASE ~Able(active) /\ Players = {}
  BY <1>3 DEF FrameReturn
<1> QED
  BY <1>1, <1>2, <1>3

LEMMA FrameReturnType ==
    ASSUME TypeInv, FrameReturn
    PROVE  TypeInv' /\ (eng'.phase = "SYNC" => eng.phase = "SYNC")
<1> USE DEF TypeInv
<1>1. pc' \in {"top", "over"}
  BY DEF FrameReturn, EndFrame
<1>2. Players \subseteq Chars
  BY DEF Players, Authed
<1>3. CASE UNCHANGED <<obj, delay, eng>> /\ active' = None /\ restart' = TRUE
  <2>1. StateType'
    BY <1>1, <1>3 DEF FrameReturn, StateType
  <2> QED
    BY <1>1, <1>3, <2>1 DEF FrameReturn, SyncInv, Running, Authed
<1>4. CASE /\ active' \in Players
           /\ obj' = [obj EXCEPT ![active'] = "ACTIVE"]
           /\ delay' = [delay EXCEPT ![active'] = Base[active']]
           /\ eng' = SetPhase(eng, "ACT") /\ restart' = restart
  <2>1. EngShape(eng') /\ eng'.phase = "ACT"
    BY <1>4, SetPhaseShape DEF Phases
  <2>2. delay' \in [Chars -> Nat] /\ obj' \in [Chars -> {"WAIT", "ACTIVE", "DEAD", "EMPTY"}]
    BY <1>2, <1>4, DelayAssumption DEF StateType
  <2>3. StateType'
    BY <1>1, <1>2, <1>4, <2>2 DEF FrameReturn, StateType
  <2> QED
    BY <1>1, <2>1, <2>3 DEF SyncInv
<1> QED
  BY <1>3, <1>4, FrameReturnEffect

LEMMA StepTyped == TypeInv /\ [Next]_vars => TypeInv'
<1> SUFFICES ASSUME TypeInv, [Next]_vars PROVE TypeInv'
  OBVIOUS
<1>1. CASE UNCHANGED vars
  BY <1>1 DEF TypeInv, StateType, SyncInv, Running, Authed, vars, engVars, charVars, gameVars
<1> QED
  BY <1>1, PacketsType, EnvironmentType, FramesBeforeTheEndType, FrameTurnEndType,
     FrameSyncType, FrameReturnType DEF Next, Frame, Done

LEMMA AlwaysTyped == Spec => []TypeInv
BY InitTyped, StepTyped, PTL DEF Spec

(* Every variable of a game keeps its type: in particular delays never fall *)
(* below 0, the walk of the synchronization never asks beyond the last      *)
(* character, and there is always a least delay to choose by.               *)
THEOREM TypeCorrect == Spec => []TypeOK
BY AlwaysTyped, TypeInvIsTyped, PTL

(* Whatever interleaves with its frames, a turn whose second shot was fired *)
(* never comes back to the phase DOUBLE.                                   *)
THEOREM NoThirdShotIsFired == Spec => []NoThirdShot
<1>1. TypeInv => NoThirdShot
  BY DEF TypeInv, EngShape, NoThirdShot
<1> QED
  BY <1>1, AlwaysTyped, PTL

-----------------------------------------------------------------------------
(* Who acts. *)

(* The delay of the next character has run out, and stays so until its turn *)
(* begins: only who acts is charged.                                       *)
DelayRunsOut ==
    eng.phase \in {"SYNC", "RETURN"} /\ Running /\ active # None => delay[active] = 0

(* What every step but the end and the beginning of a turn leaves alone: it *)
(* activates nobody, takes the turn only from who leaves, charges delays    *)
(* only for who acts, and brings RETURN about only after SYNC.             *)
KeepsTurn ==
    /\ Authed' \subseteq Authed
    /\ \A q \in Authed' : obj'[q] = "ACTIVE" => obj[q] = "ACTIVE"
    /\ active' = active \/ (active' = None /\ active \notin Authed')
    /\ Running' => Running
    /\ eng'.phase = "SYNC" => eng.phase = "SYNC"
    /\ ~OldPass /\ eng'.phase = "RETURN" => eng.phase \in {"SYNC", "RETURN"}
    /\ ~OldPass /\ eng.phase = "RETURN" => eng'.phase # "ACT"
    /\ delay' = delay \/ \E p \in Chars : Acting(p)

LEMMA PacketsKeepTurn == TypeInv /\ Packets => KeepsTurn
<1> SUFFICES ASSUME TypeInv, NEW p \in Chars,
                    \/ SetShotPowerStart(p) \/ SetTrigger(p) \/ SetShot(p)
                    \/ RcvTriggerEnd(p) \/ SetTurnPass(p) \/ TurnPass(p)
                    \/ \E i \in items[p], used \in BOOLEAN : OrderItem(p, i, used)
                    \/ SetAck(p)
             PROVE  KeepsTurn
  BY DEF Packets
<1>1. /\ UNCHANGED <<conn, obj, active, pc>>
      /\ delay' = delay \/ Acting(p)
  BY DEF SetShotPowerStart, SetTrigger, SetShot, RcvTriggerEnd, SetTurnPass, TurnPass,
         OrderItem, SetAck, engVars, charVars, gameVars
<1>2. eng'.phase = eng.phase \/ eng'.phase \in {"CHECK", "SHOT", "SHOOTING"}
  <2>1. eng \in EngType /\ {"CHECK", "TRIGGER", "TURNEND"} \subseteq Phases
    BY DEF TypeInv, EngShape, Phases
  <2>2. \/ eng' = eng \/ eng'.phase = eng.phase
        \/ \E nxt \in {"TRIGGER", "TURNEND"} : eng' = SetCheckPhase(eng, nxt)
        \/ eng' = SetPhase(eng, "CHECK") \/ eng' \in ShootingBullet(eng)
    BY <2>1 DEF SetShotPowerStart, SetTrigger, SetShot, RcvTriggerEnd, SetTurnPass,
           TurnPass, OrderItem, SetAck, engVars, EngType
  <2>3. ASSUME NEW nxt \in {"TRIGGER", "TURNEND"}, eng' = SetCheckPhase(eng, nxt)
        PROVE  eng'.phase = "CHECK"
    BY <2>1, <2>3, SetCheckPhaseEffect
  <2>4. eng' = SetPhase(eng, "CHECK") => eng'.phase = "CHECK"
    BY <2>1, SetPhaseEffect
  <2>5. eng' \in ShootingBullet(eng) => eng'.phase \in {"SHOT", "SHOOTING"}
    BY <2>1, ShootingBulletEffect
  <2> QED
    BY <2>2, <2>3, <2>4, <2>5
<1> QED
  BY <1>1, <1>2 DEF KeepsTurn, Authed, Running

LEMMA EnvironmentKeepsTurn == TypeInv /\ Environment => KeepsTurn
<1> SUFFICES ASSUME TypeInv, NEW p \in Chars,
                    Disconnect(p) \/ SendError(p) \/ \E q \in Chars : SetMaster(p, q)
             PROVE  KeepsTurn
  BY DEF Environment
<1>1. CASE Disconnect(p)
  BY <1>1 DEF Disconnect, Leave, KeepsTurn, TypeInv, StateType, Authed, engVars, Running
<1>2. CASE SendError(p)
  BY <1>2 DEF SendError, KeepsTurn, TypeInv, StateType, Authed, engVars, gameVars, Running
<1>3. CASE \E q \in Chars : SetMaster(p, q)
  BY <1>3 DEF SetMaster, KeepsTurn, Authed, engVars, gameVars, Running
<1> QED
  BY <1>1, <1>2, <1>3

LEMMA FramesKeepTurn ==
    ASSUME TypeInv,
           \/ FrameRead \/ FrameAct \/ FrameTrigger \/ FrameShooting \/ FrameShot
           \/ FrameDouble \/ FrameFire \/ FrameFireNull \/ FrameCheck \/ FrameSync
    PROVE  KeepsTurn
<1>1. CASE FrameSync
  <2>1. pc' = "top" /\ eng.phase = "SYNC" /\ delay' = delay /\ eng.idx \in Chars
    <3>1. eng.idx \in 0 .. N /\ eng.idx < N
      BY DEF TypeInv, EngShape, EngType
    <3> QED
      BY <1>1, <3>1, CharsAssumption DEF FrameSync, TypeInv, SyncInv, Chars
  <2>2. UNCHANGED <<conn, obj, active>> \/ Leave(eng.idx)
    BY <1>1 DEF FrameSync
  <2>3. /\ Authed' \subseteq Authed
        /\ \A q \in Authed' : obj'[q] = "ACTIVE" => obj[q] = "ACTIVE"
        /\ active' = active \/ (active' = None /\ active \notin Authed')
    BY <2>1, <2>2 DEF Leave, TypeInv, StateType, Authed
  <2>4. Running
    BY <1>1 DEF FrameSync, Running
  <2> QED
    BY <2>1, <2>3, <2>4 DEF KeepsTurn
<1>2. CASE ~FrameSync
  <2>1. UNCHANGED <<conn, active, delay>> /\ (Running' => Running)
    BY <1>2 DEF FrameRead, FrameAct, FrameTrigger, FrameShooting, FrameShot, FrameDouble,
           FrameFire, FrameFireNull, FrameCheck, charVars, gameVars, Running
  <2>2. \A q \in Chars : obj'[q] = "ACTIVE" => obj[q] = "ACTIVE"
    <3>1. UNCHANGED obj \/ \E mf, fires \in BOOLEAN : Physics(mf, fires)
      BY <1>2 DEF FrameRead, FrameAct, FrameTrigger, FrameShooting, FrameShot, FrameDouble,
             FrameFire, FrameFireNull, FrameCheck, charVars, Able
    <3> QED
      BY <3>1, PhysicsType DEF TypeInv
  <2>3. /\ eng'.phase = "SYNC" => eng.phase = "SYNC"
        /\ eng'.phase = "RETURN" => eng.phase = "RETURN" \/ OldPass
        /\ ~OldPass /\ eng.phase = "RETURN" => eng'.phase # "ACT"
    BY <1>2, FramesBeforeTheEnd
  <2> QED
    BY <2>1, <2>2, <2>3 DEF KeepsTurn, Authed
<1> QED
  BY <1>1, <1>2

(* The right to act is handed out once: by FrameReturn, after FrameTurnEnd  *)
(* has taken it from everybody.                                            *)
LEMMA StepKeepsOneActive == TypeInv /\ OneActive /\ [Next]_vars => OneActive'
<1> SUFFICES ASSUME TypeInv, OneActive, [Next]_vars PROVE OneActive'
  OBVIOUS
<1>1. CASE KeepsTurn
  BY <1>1 DEF KeepsTurn, OneActive
<1>2. CASE FrameTurnEnd
  <2>1. Authed' = Authed
    BY <1>2 DEF FrameTurnEnd, Authed
  <2> QED
    BY <1>2, <2>1, FrameTurnEndEffect DEF TypeInv, OneActive
<1>3. CASE FrameReturn
  <2>1. Authed' = Authed
    BY <1>3 DEF FrameReturn, Authed
  <2>2. CASE /\ active' \in Players /\ (active' = active \/ ~Able(active))
             /\ obj' = [obj EXCEPT ![active'] = "ACTIVE"]
    <3> SUFFICES ASSUME NEW q \in Authed, obj'[q] = "ACTIVE", q # active' PROVE FALSE
      BY <2>1 DEF OneActive
    <3>1. obj[q] = "ACTIVE" /\ q \in Players
      BY <2>2 DEF TypeInv, StateType, Players, Authed, Living
    <3>2. q = active
      BY <3>1 DEF OneActive
    <3> QED
      BY <2>2, <3>1, <3>2, CharsAssumption DEF Able, Players, Authed, Chars
  <2>3. CASE Players = {} /\ obj' = obj
    BY <2>1, <2>3 DEF OneActive, Players, Living, Authed
  <2> QED
    BY <1>3, <2>2, <2>3, FrameReturnEffect DEF TypeInv
<1>4. CASE UNCHANGED vars
  BY <1>4 DEF OneActive, Authed, vars, charVars, gameVars
<1> QED
  BY <1>1, <1>2, <1>3, <1>4, PacketsKeepTurn, EnvironmentKeepsTurn, FramesKeepTurn
     DEF Next, Frame, Done

LEMMA InitOneActive == Init => OneActive
BY DEF Init, OneActive, Authed

LEMMA StepKeepsTurnsApart ==
    ASSUME ~OldPass, TypeInv, TypeInv', BetweenTurnsNobodyActs, DelayRunsOut, [Next]_vars
    PROVE  BetweenTurnsNobodyActs' /\ DelayRunsOut'
<1>1. CASE KeepsTurn
  <2>1. BetweenTurnsNobodyActs'
    BY <1>1 DEF KeepsTurn, BetweenTurnsNobodyActs
  <2>2. ASSUME eng'.phase \in {"SYNC", "RETURN"}, Running', active' # None
        PROVE  delay'[active'] = 0
    <3>1. Running /\ eng.phase \in {"SYNC", "RETURN"} /\ active' = active
      BY <1>1, <2>2 DEF KeepsTurn
    <3>2. delay' = delay
      BY <1>1, <3>1 DEF KeepsTurn, BetweenTurnsNobodyActs, Acting
    <3> QED
      BY <2>2, <3>1, <3>2 DEF DelayRunsOut
  <2> QED
    BY <2>1, <2>2 DEF DelayRunsOut
<1>2. CASE FrameTurnEnd
  <2>1. Authed' = Authed
    BY <1>2 DEF FrameTurnEnd, Authed
  <2> QED
    BY <1>2, <2>1, FrameTurnEndEffect DEF TypeInv, BetweenTurnsNobodyActs, DelayRunsOut
<1>3. CASE FrameReturn
  <2>1. Authed' = Authed /\ Running
    BY <1>3 DEF FrameReturn, Authed, Running
  <2>2. CASE eng' = SetPhase(eng, "ACT")
    <3>1. eng'.phase = "ACT"
      BY <2>2, SetPhaseEffect DEF TypeInv, EngShape, Phases
    <3> QED
      BY <3>1 DEF BetweenTurnsNobodyActs, DelayRunsOut
  <2>3. CASE active' = None /\ UNCHANGED <<obj, eng>>
    BY <2>1, <2>3 DEF BetweenTurnsNobodyActs, DelayRunsOut
  <2> QED
    BY <1>3, <2>2, <2>3, FrameReturnEffect DEF TypeInv
<1>4. CASE UNCHANGED vars
  BY <1>4 DEF BetweenTurnsNobodyActs, DelayRunsOut, Authed, Running, vars, engVars, charVars, gameVars
<1> QED
  BY <1>1, <1>2, <1>3, <1>4, PacketsKeepTurn, EnvironmentKeepsTurn, FramesKeepTurn
     DEF Next, Frame, Done

LEMMA TurnsApart ==
    ASSUME ~OldPass
    PROVE  Spec => [](TypeInv /\ BetweenTurnsNobodyActs /\ DelayRunsOut)
<1>1. Init => TypeInv /\ BetweenTurnsNobodyActs /\ DelayRunsOut
  BY InitTyped DEF Init, BetweenTurnsNobodyActs, DelayRunsOut
<1>2. TypeInv /\ BetweenTurnsNobodyActs /\ DelayRunsOut /\ [Next]_vars
        => (TypeInv /\ BetweenTurnsNobodyActs /\ DelayRunsOut)'
  BY StepTyped, StepKeepsTurnsApart
<1> QED
  BY <1>1, <1>2, PTL DEF Spec

(* Without the packet PK_CMD_MAIN_PASS, the right to act is one player's at *)
(* a time, for two shots at most, and nobody's between two turns.           *)
(* (PK_CMD_MAIN_PASS in the phase TURNEND leads to RETURN without           *)
(* FrameTurnEnd; see the README.)                                          *)
THEOREM OneActorAtATime ==
    ASSUME ~OldPass
    PROVE  Spec => []OneActor
<1>1. Spec => []OneActive
  <2>1. Spec => [](TypeInv /\ OneActive)
    BY InitTyped, StepTyped, InitOneActive, StepKeepsOneActive, PTL DEF Spec
  <2> QED
    BY <2>1, PTL
<1>2. OneActive /\ BetweenTurnsNobodyActs /\ NoThirdShot => OneActor
  BY DEF OneActor
<1> QED
  BY <1>1, <1>2, TurnsApart, NoThirdShotIsFired, PTL

(* A turn begins with a player whom no other has undercut: whoever was      *)
(* chosen when the last turn ended has a delay of 0, and if he is gone the  *)
(* least is found anew.                                                    *)
THEOREM LeastDelayActs ==
    ASSUME ~OldPass
    PROVE  Spec => LeastDelay
<1>1. ASSUME TypeInv, BetweenTurnsNobodyActs, DelayRunsOut, Next,
             eng.phase = "RETURN", eng'.phase = "ACT"
      PROVE  /\ active' \in Players
             /\ \A q \in Players : delay[active'] <= delay[q]
  <2>1. ~KeepsTurn
    BY <1>1 DEF KeepsTurn
  <2>2. ~FrameTurnEnd
    BY <1>1, FrameTurnEndType
  <2>3. FrameReturn
    BY <1>1, <2>1, <2>2, PacketsKeepTurn, EnvironmentKeepsTurn, FramesKeepTurn
       DEF Next, Frame, Done, vars, engVars
  <2>4. active' \in Players
    BY <1>1, <2>3, FrameReturnEffect DEF TypeInv
  <2>5. CASE active' = active
    <3>1. active # None /\ delay[active] = 0
      BY <1>1, <2>3, <2>4, <2>5, CharsAssumption
         DEF DelayRunsOut, FrameReturn, Running, Players, Authed, Chars
    <3> QED
      BY <1>1, <2>4, <2>5, <3>1 DEF TypeInv, StateType, Players, Authed
  <2>6. CASE active' # active
    BY <1>1, <2>3, <2>4, <2>6, FrameReturnEffect DEF TypeInv
  <2> QED
    BY <2>4, <2>5, <2>6
<1>2. TypeInv /\ BetweenTurnsNobodyActs /\ DelayRunsOut /\ [Next]_vars
        => [eng.phase = "RETURN" /\ eng'.phase = "ACT"
              => /\ active' \in Players
                 /\ \A q \in Players : delay[active'] <= delay[q]]_vars
  BY <1>1
<1> QED
  BY <1>2, TurnsApart, PTL DEF Spec, LeastDelay

-----------------------------------------------------------------------------
(* Who is kicked. *)

(* Nothing but the frames of SYNC and the clients' answers runs while the   *)
(* clients are synchronized, and whoever the walk has waited for without an *)
(* answer has been asked.                                                  *)
SilentWereAsked ==
    eng.phase = "SYNC" =>
      /\ pc \in {"top", "SYNC", "over"}
      /\ eng.counter > 0 /\ eng.idx \in Authed /\ ~ack[eng.idx] => eng.idx \in owes

LEMMA FrameSyncAsks ==
    ASSUME TypeInv, SilentWereAsked, FrameSync
    PROVE  SilentWereAsked'
<1> USE DEF TypeInv
<1>1. eng.phase = "SYNC" /\ pc' = "top"
  BY DEF FrameSync, SyncInv
<1>2. CASE SyncStep(TRUE)
  <2>1. eng'.phase = "SYNC" => eng'.counter = 0
    BY <1>1, <1>2, SyncStepEffect
  <2> QED
    BY <1>1, <2>1 DEF SilentWereAsked
<1>3. CASE SyncStep(FALSE) /\ conn' = conn /\ (eng.idx \in owes \/ owes' = owes \cup {eng.idx})
           /\ owes \subseteq owes'
  BY <1>1, <1>3, SyncStepEffect DEF SilentWereAsked
<1>4. eng.counter \in Nat
  BY DEF EngShape, EngType
<1> QED
  BY <1>1, <1>2, <1>3, <1>4 DEF FrameSync, SilentWereAsked

LEMMA StepAsks ==
    ASSUME ~NewMaster, TypeInv, SilentWereAsked, [Next]_vars
    PROVE  SilentWereAsked'
<1> USE DEF TypeInv
<1>1. ASSUME Packets PROVE SilentWereAsked'
  <2> SUFFICES ASSUME NEW p \in Chars,
                      \/ SetShotPowerStart(p) \/ SetTrigger(p) \/ SetShot(p)
                      \/ RcvTriggerEnd(p) \/ SetTurnPass(p) \/ TurnPass(p)
                      \/ \E i \in items[p], used \in BOOLEAN : OrderItem(p, i, used)
                      \/ SetAck(p),
                      eng'.phase = "SYNC"
               PROVE  SilentWereAsked'
    BY <1>1 DEF Packets, SilentWereAsked
  <2>1. SetAck(p)
    <3>1. eng.phase = "SYNC"
      BY <1>1, PacketsKeepTurn DEF KeepsTurn
    <3>2. ~Acting(p)
      BY <3>1 DEF Acting, SyncInv, Running
    <3> QED
      BY <3>1, <3>2 DEF SetShotPowerStart, SetTrigger, SetShot, RcvTriggerEnd, SetTurnPass,
         TurnPass, OrderItem
  <2> QED
    BY <2>1 DEF SetAck, SilentWereAsked, StateType, engVars, Authed
<1>2. ASSUME Environment PROVE SilentWereAsked'
  <2>1. PICK p \in Chars : Disconnect(p) \/ SendError(p)
    BY <1>2 DEF Environment, SetMaster
  <2> QED
    BY <2>1 DEF Disconnect, Leave, SendError, SilentWereAsked, StateType, engVars, gameVars,
       Authed
<1>3. CASE FrameRead
  BY <1>3 DEF FrameRead, SilentWereAsked, charVars, gameVars, Authed
<1>4. CASE \/ FrameAct \/ FrameTrigger \/ FrameShooting \/ FrameShot
           \/ FrameDouble \/ FrameFire \/ FrameFireNull \/ FrameCheck
  <2>1. pc \notin {"top", "SYNC", "over"}
    BY <1>4 DEF FrameAct, FrameTrigger, FrameShooting, FrameShot, FrameDouble, FrameFire,
       FrameFireNull, FrameCheck
  <2>2. eng'.phase # "SYNC"
    BY <1>4, <2>1, FramesBeforeTheEnd DEF SilentWereAsked
  <2> QED
    BY <2>2 DEF SilentWereAsked
<1>5. CASE FrameTurnEnd
  <2>1. pc' \in {"top", "over"}
    BY <1>5 DEF FrameTurnEnd, EndFrame
  <2> QED
    BY <1>5, <2>1, FrameTurnEndType DEF SilentWereAsked
<1>6. CASE FrameReturn
  BY <1>6, FrameReturnType DEF FrameReturn, SilentWereAsked
<1>7. CASE UNCHANGED vars
  BY <1>7 DEF SilentWereAsked, Authed, vars, engVars, charVars, gameVars
<1> QED
  BY <1>1, <1>2, <1>3, <1>4, <1>5, <1>6, <1>7, FrameSyncAsks DEF Next, Frame, Done

(* As long as the operator hands nobody the master's office, which clears   *)
(* game_ready, only a client that was sent a SYN and did not answer is      *)
(* kicked by the synchronization.                                          *)
THEOREM OnlyTheSilentAreKicked ==
    ASSUME ~NewMaster
    PROVE  Spec => OnlySilentAreKicked
<1>1. ASSUME TypeInv, SilentWereAsked, Next, NEW p \in Chars,
             pc = "SYNC", pc' = "top", conn[p] # "EMPTY", conn'[p] = "EMPTY"
      PROVE  p \in owes
  <2>1. FrameSync
    BY <1>1 DEF Next, Packets, Environment, Frame, Done, SetShotPowerStart, SetTrigger, SetShot,
       RcvTriggerEnd, SetTurnPass, TurnPass, OrderItem, SetAck, Disconnect, SendError, SetMaster,
       engVars, FrameRead, FrameAct, FrameTrigger, FrameShooting, FrameShot, FrameDouble,
       FrameFire, FrameFireNull, FrameCheck, FrameTurnEnd, FrameReturn
  <2>2. PICK q \in {eng.idx} : Leave(q) /\ q \in Authed /\ eng.counter > 0 /\ ~ack[q]
    BY <1>1, <2>1 DEF FrameSync
  <2>3. p = q
    BY <1>1, <2>2 DEF Leave, TypeInv, StateType
  <2> QED
    BY <1>1, <2>2, <2>3 DEF SilentWereAsked, TypeInv, SyncInv
<1>2. TypeInv /\ SilentWereAsked /\ [Next]_vars
        => [\A p \in Chars : pc = "SYNC" /\ pc' = "top" /\ conn[p] # "EMPTY" /\ conn'[p] = "EMPTY"
              => p \in owes]_vars
  BY <1>1
<1>3. Init => TypeInv /\ SilentWereAsked
  BY InitTyped DEF Init, SilentWereAsked
<1>4. TypeInv /\ SilentWereAsked /\ [Next]_vars => (TypeInv /\ SilentWereAsked)'
  BY StepTyped, StepAsks
<1> QED
  BY <1>2, <1>3, <1>4, PTL DEF Spec, OnlySilentAreKicked

-----------------------------------------------------------------------------
(* The table of living teams. *)

LivingOf(t) == {p \in Living : Team[p] = t}

LEMMA LivingAreFinite ==
    /\ IsFiniteSet(Living)
    /\ \A t : IsFiniteSet(LivingOf(t)) /\ Cardinality(LivingOf(t)) \in Nat
BY CharsAreFinite, FS_Subset, FS_CardinalityType DEF Living, LivingOf

LEMMA NobodyDies == ASSUME StateType PROVE TableAfter({}) = table
<1>1. \A t : Cardinality({p \in {} : Team[p] = t}) = 0
  <2> SUFFICES ASSUME NEW t PROVE Cardinality({p \in {} : Team[p] = t}) = 0
    OBVIOUS
  <2>1. {p \in {} : Team[p] = t} = {}
    OBVIOUS
  <2> QED
    BY <2>1, FS_EmptySet
<1> QED
  BY <1>1 DEF TableAfter, StateType

(* Who dies is taken off his team's count, once.                           *)
LEMMA DeathsEffect ==
    ASSUME StateType, TeamCount > 1, NEW K \in SUBSET Living, table' = TableAfter(K),
           NEW t \in Teams
    PROVE  table'[t] - Cardinality({p \in Living \ K : Team[p] = t})
             = table[t] - Cardinality(LivingOf(t))
<1> DEFINE Kt == {p \in K : Team[p] = t}
           Rest == {p \in Living \ K : Team[p] = t}
<1>1. Rest = LivingOf(t) \ Kt /\ LivingOf(t) \cap Kt = Kt
  BY DEF LivingOf
<1>2. IsFiniteSet(LivingOf(t))
  BY LivingAreFinite
<1>3. /\ Cardinality(Rest) = Cardinality(LivingOf(t)) - Cardinality(Kt)
      /\ Cardinality(LivingOf(t)) \in Nat
  <2> DEFINE L == LivingOf(t)
  <2>1. Rest = L \ Kt /\ L \cap Kt = Kt /\ IsFiniteSet(L)
    BY <1>1, <1>2
  <2> HIDE DEF L, Kt, Rest
  <2>2. Cardinality(L \ Kt) = Cardinality(L) - Cardinality(L \cap Kt)
    BY <2>1, FS_Difference
  <2>3. Cardinality(L) \in Nat
    BY <2>1, FS_CardinalityType
  <2> QED
    BY <2>1, <2>2, <2>3 DEF L
<1>4. Cardinality(Kt) \in Nat
  BY <1>1, <1>2, FS_Subset, FS_CardinalityType
<1>5. table'[t] = table[t] - Cardinality(Kt) /\ table[t] \in Int
  BY DEF TableAfter, StateType
<1> QED
  BY <1>3, <1>4, <1>5

(* In every step some of the living die and are taken off the table; who    *)
(* goes uncounted is somebody whose session was no longer authenticated.    *)
TakesOff(K) ==
    /\ table' = TableAfter(K)
    /\ Living' \subseteq Living \ K
    /\ Living \subseteq Authed => Living' = Living \ K

LEMMA LeaveTakesOff ==
    ASSUME StateType, NEW p \in Chars, Leave(p)
    PROVE  \E K \in SUBSET Living : TakesOff(K)
<1>1. Living' = Living \ {p}
  BY DEF Leave, Living, StateType
<1>2. CASE DiesNow(p)
  BY <1>1, <1>2 DEF Leave, DiesNow, Players, TakesOff
<1>3. CASE ~DiesNow(p)
  <2>1. table' = TableAfter({})
    BY <1>3, NobodyDies DEF Leave
  <2>2. Living \subseteq Authed => p \notin Living
    BY <1>3 DEF DiesNow, Players
  <2> QED
    BY <1>1, <2>1, <2>2 DEF TakesOff
<1> QED
  BY <1>2, <1>3

LEMMA StepTakesOff ==
    ASSUME TypeInv, [Next]_vars
    PROVE  \E K \in SUBSET Living : TakesOff(K)
<1>a. StateType
  BY DEF TypeInv
<1>b. UNCHANGED <<obj, table>> => TakesOff({})
  BY <1>a, NobodyDies DEF TakesOff, Living
<1>1. CASE Packets
  BY <1>1, <1>b DEF Packets, SetShotPowerStart, SetTrigger, SetShot, RcvTriggerEnd,
     SetTurnPass, TurnPass, OrderItem, SetAck, charVars, gameVars
<1>2. CASE Environment
  <2>1. PICK p \in Chars : Disconnect(p) \/ SendError(p) \/ \E q \in Chars : SetMaster(p, q)
    BY <1>2 DEF Environment
  <2>2. CASE Disconnect(p)
    BY <1>a, <2>2, LeaveTakesOff DEF Disconnect
  <2>3. CASE SendError(p) \/ \E q \in Chars : SetMaster(p, q)
    BY <1>b, <2>3 DEF SendError, SetMaster, gameVars
  <2> QED
    BY <2>1, <2>2, <2>3
<1>3. ASSUME NEW mf, NEW fires, Physics(mf, fires)
      PROVE  \E K \in SUBSET Living : TakesOff(K)
  <2>1. PICK K \in SUBSET Living :
          /\ obj' = [p \in Chars |-> IF p \in K THEN "DEAD" ELSE obj[p]]
          /\ table' = TableAfter(K)
    BY <1>3 DEF Physics
  <2>2. Living' = Living \ K
    BY <2>1 DEF Living
  <2> QED
    BY <2>1, <2>2 DEF TakesOff
<1>4. CASE \/ FrameRead \/ FrameAct \/ FrameTrigger \/ FrameShooting \/ FrameShot
           \/ FrameDouble \/ FrameFire \/ FrameFireNull \/ FrameCheck
  <2>1. UNCHANGED <<obj, table>> \/ \E mf, fires : Physics(mf, fires)
    BY <1>4 DEF FrameRead, FrameAct, FrameTrigger, FrameShooting, FrameShot, FrameDouble,
       FrameFire, FrameFireNull, FrameCheck, charVars, gameVars
  <2> QED
    BY <1>3, <1>b, <2>1
<1>5. CASE FrameTurnEnd
  <2>1. PICK K \in SUBSET Players :
          /\ table' = TableAfter(K)
          /\ obj' = [p \in Chars |-> CASE p \in K -> "DEAD" [] p \in Players \ K -> "WAIT"
                                       [] OTHER -> obj[p]]
    BY <1>5, <1>a, FrameTurnEndEffect
  <2>2. \A p \in Chars : obj'[p] = IF p \in K THEN "DEAD"
                                   ELSE IF p \in Players THEN "WAIT" ELSE obj[p]
    BY <2>1
  <2>3. Living' = Living \ K
    BY <2>2 DEF Players, Living
  <2> QED
    BY <2>1, <2>3 DEF TakesOff, Players
<1>6. CASE FrameSync
  <2>1. eng.idx \in Chars
    <3>1. eng.idx \in 0 .. N /\ eng.idx < N
      BY DEF TypeInv, EngShape, EngType
    <3> QED
      BY <3>1, CharsAssumption DEF Chars
  <2>2. UNCHANGED <<obj, table>> \/ Leave(eng.idx)
    BY <1>6 DEF FrameSync
  <2> QED
    BY <1>a, <1>b, <2>1, <2>2, LeaveTakesOff
<1>7. CASE FrameReturn
  <2>1. table' = table
    BY <1>7 DEF FrameReturn
  <2>2. Living' = Living
    BY <1>7, <1>a, FrameReturnEffect DEF Living, Players, StateType
  <2> QED
    BY <1>a, <2>1, <2>2, NobodyDies DEF TakesOff
<1>8. CASE UNCHANGED vars
  BY <1>8, <1>b DEF vars, charVars, gameVars
<1> QED
  BY <1>1, <1>2, <1>4, <1>5, <1>6, <1>7, <1>8 DEF Next, Frame, Done

(* Without dead sockets a session is authenticated as long as its character *)
(* lives: it is closed and its character is gone in the same step.         *)
LivingAreConnected == Living \subseteq Authed

LEMMA StepKeepsConnected ==
    ASSUME ~SendFails, TypeInv, LivingAreConnected, [Next]_vars
    PROVE  LivingAreConnected'
<1>1. Living' \subseteq Living
  BY StepTakesOff DEF TakesOff
<1>2. \A p \in Chars : conn'[p] = conn[p] \/ obj'[p] = "EMPTY"
  <2>1. CASE Packets \/ UNCHANGED vars
    BY <2>1 DEF Packets, SetShotPowerStart, SetTrigger, SetShot, RcvTriggerEnd,
       SetTurnPass, TurnPass, OrderItem, SetAck, vars, charVars
  <2>2. CASE Environment
    BY <2>2 DEF Environment, Disconnect, SendError, SetMaster, Leave, TypeInv, StateType
  <2>3. CASE FrameSync
    <3>1. UNCHANGED conn \/ Leave(eng.idx)
      BY <2>3 DEF FrameSync
    <3> QED
      BY <3>1 DEF Leave, TypeInv, StateType
  <2>4. CASE Frame /\ ~FrameSync
    BY <2>4 DEF Frame, FrameRead, FrameAct, FrameTrigger, FrameShooting, FrameShot,
       FrameDouble, FrameFire, FrameFireNull, FrameCheck, FrameTurnEnd, FrameReturn, charVars
  <2> QED
    BY <2>1, <2>2, <2>3, <2>4 DEF Next, Done
<1> QED
  BY <1>1, <1>2 DEF LivingAreConnected, Living, Authed

LEMMA StepKeepsTableExact ==
    ASSUME ~SendFails, TypeInv, LivingAreConnected, [Next]_vars,
           TeamCount > 1, \A t \in Teams : table[t] = Cardinality(LivingOf(t))
    PROVE  \A t \in Teams : table'[t] = Cardinality(LivingOf(t)')
<1> SUFFICES ASSUME NEW t \in Teams PROVE table'[t] = Cardinality(LivingOf(t)')
  OBVIOUS
<1>1. PICK K \in SUBSET Living : TakesOff(K)
  BY StepTakesOff
<1>2. LivingOf(t)' = {p \in Living \ K : Team[p] = t}
  BY <1>1 DEF TakesOff, LivingAreConnected, LivingOf
<1>3. table'[t] - Cardinality(LivingOf(t)') = 0
  BY <1>1, <1>2, DeathsEffect, LivingAreFinite DEF TakesOff, TypeInv
<1>4. table'[t] \in Int /\ Cardinality(LivingOf(t)') \in Nat
  <2>1. IsFiniteSet(LivingOf(t)')
    BY <1>2, LivingAreFinite, FS_Subset
  <2> QED
    BY <2>1, StepTyped, FS_CardinalityType DEF TypeInv, StateType
<1> QED
  BY <1>3, <1>4

LEMMA InitTable == Init => /\ LivingAreConnected
                           /\ TeamCount > 1 =>
                                \A t \in Teams : table[t] = Cardinality(LivingOf(t))
<1>1. Init => Living = Chars /\ Authed = Chars
  BY DEF Init, Living, Authed
<1> QED
  BY <1>1 DEF Init, LivingAreConnected, LivingOf

(* As long as no socket dies in the sender thread, each team's entry of the *)
(* table is the number of its living players, however they leave or die.    *)
THEOREM LivingTeamsAreCounted ==
    ASSUME ~SendFails
    PROVE  Spec => []TableExact
<1> DEFINE Exact == TeamCount > 1 => \A t \in Teams : table[t] = Cardinality(LivingOf(t))
           Inv == TypeInv /\ LivingAreConnected /\ Exact
<1>1. Init => Inv
  BY InitTyped, InitTable
<1>2. Inv /\ [Next]_vars => Inv'
  BY StepTyped, StepKeepsConnected, StepKeepsTableExact
<1>3. Inv => TableExact
  <2>1. ASSUME LivingAreConnected, NEW t
        PROVE  {p \in Living : conn[p] # "EMPTY" /\ Team[p] = t} = LivingOf(t)
    BY <2>1 DEF LivingAreConnected, LivingOf, Authed
  <2> QED
    BY <2>1 DEF TableExact
<1> QED
  BY <1>1, <1>2, <1>3, PTL DEF Spec

-----------------------------------------------------------------------------
(* When a game is over. *)

(* A team may be counted on although it is gone, never the other way round. *)
NobodyIsForgotten ==
    TeamCount > 1 => \A t \in Teams : table[t] >= Cardinality(LivingOf(t))

LEMMA StepForgetsNobody ==
    ASSUME TypeInv, NobodyIsForgotten, [Next]_vars
    PROVE  NobodyIsForgotten'
<1> SUFFICES ASSUME TeamCount > 1, NEW t \in Teams
             PROVE  table'[t] >= Cardinality(LivingOf(t)')
  BY DEF NobodyIsForgotten
<1>1. PICK K \in SUBSET Living : TakesOff(K)
  BY StepTakesOff
<1> DEFINE Rest == {p \in Living \ K : Team[p] = t}
<1>2. LivingOf(t)' \subseteq Rest
  BY <1>1 DEF TakesOff, LivingOf
<1>3. IsFiniteSet(Rest)
  BY LivingAreFinite, FS_Subset
<1>4. /\ Cardinality(LivingOf(t)') \in Nat /\ Cardinality(Rest) \in Nat
      /\ Cardinality(LivingOf(t)') <= Cardinality(Rest)
  BY <1>2, <1>3, FS_Subset, FS_CardinalityType
<1>5. table'[t] - Cardinality(Rest) = table[t] - Cardinality(LivingOf(t))
  BY <1>1, DeathsEffect DEF TakesOff, TypeInv
<1>6. table[t] >= Cardinality(LivingOf(t))
  BY DEF NobodyIsForgotten
<1>7. table[t] \in Int /\ table'[t] \in Int /\ Cardinality(LivingOf(t)) \in Nat
  BY StepTyped, LivingAreFinite DEF TypeInv, StateType
<1> QED
  BY <1>4, <1>5, <1>6, <1>7

(* IsGameEnd is true of a decided game only, but for the turn limit.        *)
LEMMA EndIsDecided ==
    ASSUME TypeInv', NobodyIsForgotten', IsGameEnd, TurnLimit = 0, conn' = conn
    PROVE  Cardinality(Contenders') <= 1
<1>1. CASE TeamCount > 1
  <2>1. Cardinality({t \in Teams : table'[t] > 0}) <= 1
    BY <1>1, TeamAssumption DEF IsGameEnd
  <2>2. Contenders' \subseteq {t \in Teams : table'[t] > 0}
    <3> SUFFICES ASSUME NEW p \in Players' PROVE table'[Team[p]] > 0
      BY <1>1, TeamAssumption DEF Contenders, Players, Authed
    <3>1. Team[p] \in Teams /\ p \in LivingOf(Team[p])'
      BY TeamAssumption DEF Players, Authed, LivingOf
    <3>2. IsFiniteSet(LivingOf(Team[p])')
      BY CharsAreFinite, FS_Subset DEF Living, LivingOf
    <3>3. Cardinality(LivingOf(Team[p])') \in Nat \ {0}
      BY <3>1, <3>2, FS_EmptySet, FS_CardinalityType
    <3>4. table'[Team[p]] \in Int /\ table'[Team[p]] >= Cardinality(LivingOf(Team[p])')
      BY <1>1, <3>1 DEF NobodyIsForgotten, TypeInv, StateType
    <3> QED
      BY <3>3, <3>4
  <2>3. IsFiniteSet({t \in Teams : table'[t] > 0})
    <3>1. IsFiniteSet(Teams)
      BY FS_Interval, TeamAssumption DEF Teams
    <3> QED
      BY <3>1, FS_Subset
  <2>4. /\ Cardinality(Contenders') <= Cardinality({t \in Teams : table'[t] > 0})
        /\ Cardinality(Contenders') \in Nat
    BY <2>2, <2>3, FS_Subset, FS_CardinalityType
  <2>5. Cardinality({t \in Teams : table'[t] > 0}) \in Nat
    BY <2>3, FS_CardinalityType
  <2> QED
    BY <2>1, <2>4, <2>5
<1>2. CASE ~(TeamCount > 1)
  <2>1. TeamCount <= 1
    BY <1>2, TeamAssumption
  <2>2. Contenders' = Authed \cap {p \in Chars : obj'[p] \in {"WAIT", "ACTIVE"}}
    BY <1>2 DEF Contenders, Players, Authed, Living
  <2> QED
    BY <2>1, <2>2 DEF IsGameEnd
<1> QED
  BY <1>1, <1>2

(* Without a turn limit a game is over only when at most one contender is   *)
(* left, whatever leaves, fails or dies while it is decided.               *)
THEOREM NoGameEndsEarly == Spec => []NoEarlyEnd
<1>1. Init => TypeInv /\ NobodyIsForgotten /\ NoEarlyEnd
  <2>1. Init => NobodyIsForgotten
    <3>1. \A t \in Teams : Cardinality(LivingOf(t)) \in Nat
      BY LivingAreFinite
    <3> QED
      BY <3>1, InitTable DEF NobodyIsForgotten
  <2> QED
    BY <2>1, InitTyped DEF Init, NoEarlyEnd
<1>2. ASSUME TypeInv, NobodyIsForgotten, NoEarlyEnd, [Next]_vars
      PROVE  TypeInv' /\ NobodyIsForgotten' /\ NoEarlyEnd'
  <2>1. TypeInv' /\ NobodyIsForgotten'
    BY <1>2, StepTyped, StepForgetsNobody
  <2> SUFFICES NoEarlyEnd'
    BY <2>1
  <2>2. ASSUME EndFrame, conn' = conn PROVE NoEarlyEnd'
    BY <2>1, <2>2, EndIsDecided DEF EndFrame, NoEarlyEnd
  <2>3. ASSUME pc' # "over" PROVE NoEarlyEnd'
    BY <2>3 DEF NoEarlyEnd
  <2>4. ASSUME UNCHANGED <<pc, conn, obj>> PROVE NoEarlyEnd'
    BY <1>2, <2>4 DEF NoEarlyEnd, Contenders, Players, Authed, Living
  <2>5. CASE Packets \/ UNCHANGED vars
    BY <2>4, <2>5 DEF Packets, SetShotPowerStart, SetTrigger, SetShot, RcvTriggerEnd,
       SetTurnPass, TurnPass, OrderItem, SetAck, vars, engVars, charVars
  <2>6. CASE Environment
    BY <2>3, <2>6 DEF Environment, Disconnect, SendError, SetMaster, engVars
  <2>7. CASE FrameAct
    <3>1. pc' = "top" \/ EndFrame
      BY <2>7 DEF FrameAct
    <3> QED
      BY <2>2, <2>3, <2>7, <3>1 DEF FrameAct
  <2>8. CASE FrameRead
    BY <1>2, <2>3, <2>8 DEF FrameRead, TypeInv, EngShape, EngType, Phases
  <2>9. CASE FrameTrigger \/ FrameDouble \/ FrameFire \/ FrameFireNull \/ FrameSync
    BY <2>3, <2>9 DEF FrameTrigger, FrameDouble, FrameFire, FrameFireNull, FrameSync
  <2>10. CASE FrameShooting \/ FrameShot \/ FrameCheck \/ FrameTurnEnd \/ FrameReturn
    BY <2>2, <2>10 DEF FrameShooting, FrameShot, FrameCheck, FrameTurnEnd, FrameReturn
  <2> QED
    BY <1>2, <2>1, <2>5, <2>6, <2>7, <2>8, <2>9, <2>10 DEF Next, Frame, Done
<1> QED
  BY <1>1, <1>2, PTL DEF Spec

=============================================================================

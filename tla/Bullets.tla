------------------------------ MODULE Bullets -------------------------------
(***************************************************************************)
(* The table of flying objects of CSyncMain: m_mapObjects, the list of its *)
(* keys m_vecObjectNo, and what the clients have been told of each object. *)
(*                                                                         *)
(* The engine walks the table four times: FrameObjects moves everything,   *)
(* NotifyTurnEndBullet and NotifyTurnStartBullet tell the scripts about the *)
(* turn, SetWind about the wind.  Each visit of an object calls into a Lua *)
(* script, and a script may create, remove and change any object, the one  *)
(* being visited included, while the walk is in the middle of the table.   *)
(* One thread does all this; re-entrance is the hazard, not interleaving.  *)
(*                                                                         *)
(* How an object flies (common::blt, not in the repository) is a choice.   *)
(* Positions, and the packets about them, are left out.                    *)
(***************************************************************************)
EXTENDS Integers

CONSTANTS
    MaxMade,     \* bound: objects made in one game, below the wrap of the
                 \* counter at 32767
    Types,       \* the kinds of obj_type a script may give (SOLID, GAS, ...)
    NoObject,    \* no object is being visited
    ItemIsBlt    \* OBJ_TYPE_ITEM has the bit OBJ_TYPE_BLT

Numbers == 0 .. MaxMade - 1
States  == {"ACTIVE", "WAIT"}
Walks   == {"frame", "turn_end", "turn_start", "wind"}

ASSUME BulletsAssumption ==
    /\ MaxMade \in 1 .. 32766 /\ Types # {} /\ ItemIsBlt \in BOOLEAN
    /\ NoObject \notin Numbers

VARIABLES
    objs,      \* m_mapObjects: number -> [removed, fresh: PROC_FLG_OBJ_REMOVE and
               \* _UPDATE_TYPE of proc_flg; state, type, item]
    list,      \* m_vecObjectNo, in the order of the map
    counter,   \* m_nObjectNoCounter
    walk,      \* the walk that goes on, "shooting" or "none"
    todo,      \* what is left of the walk's copy of the list
    cur,       \* the object whose script runs
    calls,     \* somebody has the turn: the scripts are told
    dirty,     \* bRemoved of NotifyTurnEndBullet
    told       \* what the clients were told: [made, gone, state, type]

bulletVars == <<objs, list, counter, walk, todo, cur, calls, dirty, told>>

First(S)   == CHOOSE n \in S : \A m \in S : n <= m
Keys       == DOMAIN objs
Removed(n) == objs[n].removed
IsBlt(n)   == ItemIsBlt \/ ~objs[n].item
Unknown    == [made |-> FALSE, gone |-> 0]

InitBullets ==
    /\ objs = << >> /\ list = {} /\ counter = 0
    /\ walk = "none" /\ todo = {} /\ cur = NoObject
    /\ calls = FALSE /\ dirty = FALSE
    /\ told = [n \in Numbers |-> Unknown]

\* The engine is inside a script: a visit, or a shooting.
InScript == walk = "shooting" \/ cur # NoObject

Erased(m, n) == [k \in DOMAIN m \ {n} |-> m[k]]

-----------------------------------------------------------------------------
(* What the code may do to the table. *)

\* AddObject and AddBullet: BULLET_SHOT goes to everybody.
Added(type, item) ==
    /\ counter < MaxMade
    /\ objs' = [n \in Keys \cup {counter} |->
                  IF n = counter THEN [removed |-> FALSE, fresh |-> FALSE,
                                       state |-> "ACTIVE", type |-> type, item |-> item]
                                 ELSE objs[n]]
    /\ list' = Keys \cup {counter}
    /\ counter' = counter + 1
    /\ told' = [told EXCEPT ![counter] = [made |-> TRUE, gone |-> 0,
                                          state |-> "ACTIVE", type |-> type]]

\* C_CreateBullet
AddObject(type) ==
    /\ InScript /\ Added(type, FALSE)
    /\ UNCHANGED <<walk, todo, cur, calls, dirty>>

Gone(n) == [told EXCEPT ![n].gone = @ + 1]

\* Mutants: the flag is not looked at; the object leaves the table at once, as
\* the lines that are commented out now did.
RemoveObjectTwice(n) ==
    /\ objs' = [objs EXCEPT ![n].removed = TRUE]
    /\ told' = Gone(n)
    /\ UNCHANGED list
RemoveObjectErases(n) ==
    /\ objs' = Erased(objs, n)
    /\ told' = Gone(n)
    /\ list' = Keys \ {n}

\* RemoveObject: flagged once, erased at the end of the turn.
RemoveObject(n) ==
    /\ ~Removed(n)
    /\ objs' = [objs EXCEPT ![n].removed = TRUE]
    /\ told' = Gone(n)
    /\ UNCHANGED list

\* C_RemoveBullet
ScriptRemoves(n) ==
    /\ InScript /\ n \in Keys
    /\ RemoveObject(n)
    /\ UNCHANGED <<counter, walk, todo, cur, calls, dirty>>

\* C_UpdateBulletState and UpdateObjectState, which tells everybody at once.
UpdateObjectState(n, s) ==
    /\ InScript /\ n \in Keys /\ ~Removed(n)
    /\ objs' = [objs EXCEPT ![n].state = s]
    /\ told' = [told EXCEPT ![n].state = s]
    /\ UNCHANGED <<list, counter, walk, todo, cur, calls, dirty>>

\* Mutant: the result of UpdateObjType is not followed by SetObjectLuaFlg.
TypeSetSilently(n, t) == [objs EXCEPT ![n].type = t]

\* UpdateObjType looks at no flag; SetObjectLuaFlg does.
TypeSet(n, t) == [objs EXCEPT ![n].type = t, ![n].fresh = @ \/ ~Removed(n)]

\* C_UpdateObjectType: the clients are told when the object is next moved.
UpdateObjType(n, t) ==
    /\ InScript /\ n \in Keys
    /\ objs' = TypeSet(n, t)
    /\ UNCHANGED <<list, counter, walk, todo, cur, calls, dirty, told>>

-----------------------------------------------------------------------------
(* A shot: CPacketProcMain::ShootingBullet. *)

\* The shot of a character or of a spell is its script's.
ShootingBegins ==
    /\ walk = "none" /\ walk' = "shooting"
    /\ UNCHANGED <<objs, list, counter, todo, cur, calls, dirty, told>>

ShootingEnds ==
    /\ walk = "shooting" /\ walk' = "none"
    /\ UNCHANGED <<objs, list, counter, todo, cur, calls, dirty, told>>

\* An item is thrown by the engine itself.
ShootItem(type) ==
    /\ walk = "none" /\ Added(type, TRUE)
    /\ UNCHANGED <<walk, todo, cur, calls, dirty>>

-----------------------------------------------------------------------------
(* FrameObjects: a copy of the list, one object after the other. *)

WalkBegins(w, S, c) ==
    /\ walk = "none" /\ walk' = w /\ todo' = S /\ calls' = c /\ dirty' = FALSE
    /\ UNCHANGED <<objs, list, counter, cur, told>>

\* The walk comes to object n; those before it are passed over.
Visit(n) == cur' = n /\ todo' = {m \in todo : m > n}

FrameBegins == list # {} /\ WalkBegins("frame", list, FALSE)

\* The next object that is still there and not removed is moved.
FrameVisits ==
    LET S == {n \in todo \cap Keys : ~Removed(n)} IN
    /\ walk = "frame" /\ cur = NoObject /\ S # {}
    /\ Visit(First(S))
    /\ UNCHANGED <<objs, list, counter, walk, calls, dirty, told>>

\* MakePacketData_MainInfoUpdateObjectType, when the object is still flying.
TypeTold(m, t) ==
    /\ objs' = [m EXCEPT ![cur].fresh = FALSE]
    /\ told' = IF m[cur].fresh THEN [t EXCEPT ![cur].type = m[cur].type] ELSE t

\* ..._RESULT_REMOVE: its script removed it.
FrameFindsRemoved ==
    /\ walk = "frame" /\ cur # NoObject /\ Removed(cur)
    /\ cur' = NoObject
    /\ UNCHANGED <<objs, list, counter, walk, todo, calls, dirty, told>>

\* ..._RESULT_DROP and _DROPOUT: it has left the stage.
FrameDrops ==
    /\ walk = "frame" /\ cur # NoObject /\ ~Removed(cur)
    /\ objs' = [objs EXCEPT ![cur].removed = TRUE, ![cur].fresh = FALSE]
    /\ told' = Gone(cur)
    /\ cur' = NoObject
    /\ UNCHANGED <<list, counter, walk, todo, calls, dirty>>

\* ..._RESULT_MOVED, _VEC_CHANGE, _NONE and those of a resting object.
FrameMoves ==
    /\ walk = "frame" /\ cur # NoObject /\ ~Removed(cur)
    /\ TypeTold(objs, told)
    /\ cur' = NoObject
    /\ UNCHANGED <<list, counter, walk, todo, calls, dirty>>

\* ..._RESULT_CHARA_HIT and _STAGE_HIT of an item: OnHitStageItemBullet removes
\* it (what the item does is in Sight and Vitals), and bRemoved stays FALSE.
FrameHits ==
    /\ walk = "frame" /\ cur # NoObject /\ ~Removed(cur) /\ objs[cur].item
    /\ TypeTold([objs EXCEPT ![cur].removed = TRUE], Gone(cur))
    /\ cur' = NoObject
    /\ UNCHANGED <<list, counter, walk, todo, calls, dirty>>

-----------------------------------------------------------------------------
(* NotifyTurnEndBullet, NotifyTurnStartBullet and SetWind. *)

\* active_sess may be NULL: then the flagged objects are only erased.
TurnEndBegins(c) == list # {} /\ WalkBegins("turn_end", list, c)

\* The next bullet: erased when it is flagged, otherwise its script is told.
Bullet(n) == n \in Keys /\ IsBlt(n)

\* Mutant: with nobody active nothing is done at all.
TurnEndTodoOfActive == {n \in todo : calls /\ Bullet(n)}

TurnEndTodo == {n \in todo : Bullet(n) /\ (calls \/ Removed(n))}

TurnEndVisits ==
    /\ walk = "turn_end" /\ cur = NoObject /\ TurnEndTodo # {}
    /\ LET n == First(TurnEndTodo) IN
         IF Removed(n)
           THEN /\ objs' = Erased(objs, n) /\ dirty' = TRUE
                /\ todo' = {m \in todo : m > n}
                /\ UNCHANGED cur
           ELSE Visit(n) /\ UNCHANGED <<objs, dirty>>
    /\ UNCHANGED <<list, counter, walk, calls, told>>

\* The script returns; it may have removed its own object.
TurnEndReturns ==
    /\ walk = "turn_end" /\ cur # NoObject
    /\ IF Removed(cur) THEN objs' = Erased(objs, cur) /\ dirty' = TRUE
                       ELSE UNCHANGED <<objs, dirty>>
    /\ cur' = NoObject
    /\ UNCHANGED <<list, counter, walk, todo, calls, told>>

\* The walk over the map itself meets the objects made on the way as well.
TurnStartBegins == list # {} /\ WalkBegins("turn_start", Numbers, TRUE)
WindChanges     == WalkBegins("wind", list, TRUE)

\* Neither of the two looks at the flag.
NotifyVisits ==
    LET S == {n \in todo : Bullet(n)} IN
    /\ walk \in {"turn_start", "wind"} /\ cur = NoObject /\ S # {}
    /\ Visit(First(S))
    /\ UNCHANGED <<objs, list, counter, walk, calls, dirty, told>>

NotifyReturns ==
    /\ walk \in {"turn_start", "wind"} /\ cur # NoObject
    /\ cur' = NoObject
    /\ UNCHANGED <<objs, list, counter, walk, todo, calls, dirty, told>>

ToVisit ==
    CASE walk = "frame"    -> {n \in todo \cap Keys : ~Removed(n)}
      [] walk = "turn_end" -> TurnEndTodo
      [] OTHER             -> {n \in todo : Bullet(n)}

\* Mutant: bRemoved is not looked at.
ListAfterStale == list

\* if (bRemoved) UpdateObjectNo();
ListAfter == IF dirty THEN Keys ELSE list

WalkEnds ==
    /\ walk \in Walks /\ cur = NoObject /\ ToVisit = {}
    /\ walk' = "none" /\ todo' = {} /\ calls' = FALSE /\ dirty' = FALSE
    /\ list' = ListAfter
    /\ UNCHANGED <<objs, counter, cur, told>>

\* CSyncMain::Clear, between two games.
Clear ==
    /\ walk = "none"
    /\ objs' = << >> /\ list' = {} /\ counter' = 0
    /\ told' = [n \in Numbers |-> Unknown]
    /\ UNCHANGED <<walk, todo, cur, calls, dirty>>

-----------------------------------------------------------------------------
Scripts ==
    \/ \E t \in Types : AddObject(t)
    \/ \E n \in Numbers : \/ ScriptRemoves(n)
                          \/ \E s \in States : UpdateObjectState(n, s)
                          \/ \E t \in Types : UpdateObjType(n, t)

Shots == ShootingBegins \/ ShootingEnds \/ \E t \in Types : ShootItem(t)

Steps ==
    \/ FrameVisits \/ FrameFindsRemoved \/ FrameDrops \/ FrameMoves \/ FrameHits
    \/ TurnEndVisits \/ TurnEndReturns \/ NotifyVisits \/ NotifyReturns \/ WalkEnds

Begins ==
    \/ FrameBegins \/ TurnStartBegins \/ WindChanges
    \/ \E c \in BOOLEAN : TurnEndBegins(c)

NextBullets == Scripts \/ Shots \/ Steps \/ Begins \/ Clear

SpecBullets == InitBullets /\ [][NextBullets]_bulletVars

\* Scripts return, walks go on, and turns end again and again.
FairBullets ==
    /\ WF_bulletVars(Steps \/ ShootingEnds)
    /\ SF_bulletVars(\E c \in BOOLEAN : TurnEndBegins(c))

-----------------------------------------------------------------------------
(* Properties. *)

TypeOKBullets ==
    /\ Keys \subseteq Numbers /\ list \subseteq Numbers /\ counter \in 0 .. MaxMade
    /\ \A n \in Keys : objs[n] \in [removed : BOOLEAN, fresh : BOOLEAN, state : States,
                                    type : Types, item : BOOLEAN]
    /\ walk \in Walks \cup {"shooting", "none"} /\ todo \subseteq Numbers
    /\ cur \in Numbers \cup {NoObject} /\ {calls, dirty} \subseteq BOOLEAN

\* The object whose script runs stays in the table: FrameObjects and
\* NotifyTurnEndBullet go on using its pointer when the script returns.
VisitedStays == cur # NoObject => cur \in Keys

\* m_vecObjectNo is the list of the table's keys, except inside the walk that
\* erases: whatever scripts do, no object is left out of the next frame.
ListExact == walk # "turn_end" => list = Keys

\* The clients see what is there: an object was announced once, is taken away
\* exactly when it is flagged or erased, and once only, and its state is known.
ClientsAgree ==
    \A n \in Numbers :
      /\ told[n].made <=> n < counter
      /\ n < counter => told[n].gone = IF n \in Keys /\ ~Removed(n) THEN 0 ELSE 1
      /\ n \in Keys /\ ~Removed(n) => told[n].state = objs[n].state

\* A type the clients do not know yet is marked to be sent.
TypeIsKnown ==
    \A n \in Keys : ~Removed(n) /\ told[n].type # objs[n].type => objs[n].fresh

\* The engine's table, its list and the clients keep the same objects, whatever
\* scripts add and remove while a walk is under way.
ObjectsAgree == VisitedStays /\ ListExact /\ ClientsAgree /\ TypeIsKnown

\* What is removed is erased from the table when turns go on ending.
Reclaimed ==
    \A n \in Numbers : n \in Keys /\ Bullet(n) /\ Removed(n) ~> n \notin Keys \/ ~Removed(n)
=============================================================================

------------------------------- MODULE Outfit -------------------------------
(***************************************************************************)
(* What one player brings into a game: his character and the items in his   *)
(* pockets, which he pays for out of a fixed budget.                        *)
(*                                                                         *)
(* In the room the server keeps the rest of the budget beside the pockets   *)
(* (cost); in a game items are found, stolen and used without touching it;  *)
(* on the way back ReEnter settles the account.                             *)
(***************************************************************************)
EXTENDS Integers, Sequences, SequencesExt

CONSTANTS
    Goods,      \* the items of the cost table
    Price,      \* c_tblCost: what each costs
    Empty,      \* an empty pocket
    PocketCount,\* GAME_ITEM_STOCK_MAX_COUNT
    MaxCost,    \* g_nMaxCost
    Charas,     \* the characters installed
    Random      \* ROOM_CHARA_RANDOM_ID

ASSUME PriceAssumption == Price \in [Goods -> Nat] /\ Empty \notin Goods
ASSUME BudgetAssumption == MaxCost \in Nat /\ PocketCount \in Nat \ {0}
ASSUME CharaAssumption == Random \notin Charas /\ Charas # {}

VARIABLES
    bag,     \* items: one entry for each pocket
    cost,    \* cost: what is left of the budget, as far as the room knows
    chara,   \* chara_type
    okay,    \* game_ready
    where    \* "room", "game", or "confirming" until the client is back

outfitVars == <<bag, cost, chara, okay, where>>

InitOutfit ==
    /\ bag = [i \in 1 .. PocketCount |-> Empty]
    /\ cost = MaxCost
    /\ chara \in Charas
    /\ okay = FALSE
    /\ where = "room"

\* What a bag is worth.
Worth(b) == FoldLeft(LAMBDA sum, x : sum + (IF x = Empty THEN 0 ELSE Price[x]), 0, b)

\* Mutant: the bag stays as it is.
AffordableAsIs(b) == b
\* Pocket after pocket, what no longer fits into the budget is taken away.
Affordable(b) ==
    FoldLeft(LAMBDA kept, x :
                Append(kept, IF Worth(Append(kept, x)) > MaxCost THEN Empty ELSE x),
             <<>>, b)

AtLeastZero(n) == IF n < 0 THEN 0 ELSE n
\* The second half of SetItem and of ReEnter: the bag is cut to the budget and
\* the rest is recomputed.
Settled(b) ==
    /\ bag' = Affordable(b)
    /\ cost' = AtLeastZero(MaxCost - Worth(Affordable(b)))

-----------------------------------------------------------------------------
(* The room. *)

\* SetCharacter, refused once ready; and SetGameReady.
SetCharacter(ch) ==
    /\ where # "game" /\ ~okay
    /\ chara' = ch
    /\ UNCHANGED <<bag, cost, okay, where>>

SetOkay(flag) ==
    /\ where # "game"
    /\ okay' = flag
    /\ UNCHANGED <<bag, cost, chara, where>>

\* SetItem compares the price with the rest, even when the pocket it replaces
\* would be worth more.
Payable(x) == Price[x] <= cost

\* PK_CMD_ROOM_ITEM_SEL with an item, and with none: ready or not.
SetItem(i, x) ==
    /\ where # "game" /\ Payable(x)
    /\ Settled([bag EXCEPT ![i] = x])
    /\ UNCHANGED <<chara, okay, where>>

ClearItem(i) ==
    /\ where # "game" /\ bag[i] # Empty
    /\ Settled([bag EXCEPT ![i] = Empty])
    /\ UNCHANGED <<chara, okay, where>>

\* PK_CMD_CONFIRM: PacketProcConfirm and ReEnter.
Confirm ==
    /\ where # "game"
    /\ where' = "room" /\ okay' = FALSE
    /\ Settled(bag)
    /\ UNCHANGED chara

-----------------------------------------------------------------------------
(* The game. *)

\* CPacketProcLoad::Init draws a character for those who left it to chance.
Load ==
    /\ where # "game" /\ okay
    /\ where' = "game"
    /\ chara' \in IF chara = Random THEN Charas ELSE {chara}
    /\ UNCHANGED <<bag, cost, okay>>

\* AddCharaItem and StealItem: the first empty pocket, if any.
Find(x) ==
    /\ where = "game"
    /\ \E i \in 1 .. PocketCount :
        /\ bag[i] = Empty /\ \A j \in 1 .. i - 1 : bag[j] # Empty
        /\ bag' = [bag EXCEPT ![i] = x]
    /\ UNCHANGED <<cost, chara, okay, where>>

\* OrderItem empties the pocket.
Use(i) ==
    /\ where = "game" /\ bag[i] # Empty
    /\ bag' = [bag EXCEPT ![i] = Empty]
    /\ UNCHANGED <<cost, chara, okay, where>>

\* CPacketProcRoom::Reset.
BackInRoom ==
    /\ where = "game"
    /\ where' = "confirming" /\ okay' = FALSE
    /\ UNCHANGED <<bag, cost, chara>>

NextOutfit ==
    \/ \E ch \in Charas \cup {Random} : SetCharacter(ch)
    \/ \E flag \in BOOLEAN : SetOkay(flag)
    \/ \E i \in 1 .. PocketCount, x \in Goods : SetItem(i, x)
    \/ \E i \in 1 .. PocketCount : ClearItem(i) \/ Use(i)
    \/ \E x \in Goods : Find(x)
    \/ Confirm \/ Load \/ BackInRoom

SpecOutfit == InitOutfit /\ [][NextOutfit]_outfitVars

-----------------------------------------------------------------------------
(* Properties. *)

TypeOKOutfit ==
    /\ bag \in Seq(Goods \cup {Empty}) /\ Len(bag) = PocketCount
    /\ cost \in 0 .. MaxCost
    /\ chara \in Charas \cup {Random}
    /\ okay \in BOOLEAN
    /\ where \in {"room", "game", "confirming"}

\* In the room the two records of the budget agree, whatever was found, used
\* and stolen in the games before: what the bag is worth and what is left are
\* together the whole budget.
BudgetIsExact == where = "room" => Worth(bag) + cost = MaxCost
=============================================================================

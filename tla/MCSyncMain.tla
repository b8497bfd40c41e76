----------------------------- MODULE MCSyncMain -----------------------------
(* Values for checking SyncMain: every phase lasts a few frames, and a       *)
(* character's own delay is small.                                           *)
EXTENDS SyncMain

MCBase  == [p \in Chars |-> (p % 2) + 1]
MCTeam  == [p \in Chars |-> IF TeamCount > 1 THEN p % TeamCount ELSE 0]
MCTime  == [ph \in Phases |-> IF ph \in {"ACT", "TRIGGER", "SYNC", "CHECK"} THEN 2 ELSE 1]
MCItems == [p \in Chars |-> IF p = 0 THEN {"DOUBLE"} ELSE {}]
MCTwo   == [p \in Chars |-> IF p = 0 THEN Doubles ELSE {}]
MCHeal  == [p \in Chars |-> IF p = 0 THEN {"HEAL"} ELSE {}]
MCNone  == [p \in Chars |-> {}]
=============================================================================

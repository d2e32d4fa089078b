----------------------------- MODULE BlockIndex -----------------------------
(***************************************************************************)
(* The block index (src/storage/BlockIndex.cpp): the blocks known by hash, *)
(* the block last added at each height, and a tip.  What Save writes is    *)
(* abstracted to the set of rows; the tip line it also writes is read back *)
(* but never survives the rows that follow it.                             *)
(***************************************************************************)
EXTENDS Ledger

CONSTANT NoBlock

ASSUME NoBlockAssumption == NoBlock \notin Block

EmptyIndex == [known |-> {}, at |-> [h \in {} |-> NoBlock], tip |-> NoBlock]

(* BlockIndex::Add *)
WithBlock(index, b) ==
    [known |-> index.known \cup {b},
     at    |-> [h \in DOMAIN index.at \cup {b.height} |->
                   IF h = b.height THEN b ELSE index.at[h]],
     tip   |-> IF index.tip = NoBlock \/ b.height >= index.tip.height
               THEN b ELSE index.tip]

(* Mutant: the comparison that keeps the best tip is turned round. *)
LoadedIndexesLowest(rows) ==
    LET heights == {b.height : b \in rows}
    IN  {i \in [known : {rows},
                at    : {f \in [heights -> rows] : \A h \in heights : f[h].height = h},
                tip   : IF rows = {} THEN {NoBlock} ELSE rows] :
            i.tip # NoBlock => /\ i.tip = i.at[i.tip.height]
                               /\ \A h \in heights : h >= i.tip.height}

(* BlockIndex::Load adds the rows in hash order.  The first of them takes  *)
(* the tip, whatever the tip line said, because the entry of that tip is   *)
(* not there yet and counts as height 0; from then on the tip is the last  *)
(* row of the greatest height, as the entry of a height is its last row.   *)
LoadedIndexes(rows) ==
    LET heights == {b.height : b \in rows}
    IN  {i \in [known : {rows},
                at    : {f \in [heights -> rows] : \A h \in heights : f[h].height = h},
                tip   : IF rows = {} THEN {NoBlock} ELSE rows] :
            i.tip # NoBlock => /\ i.tip = i.at[i.tip.height]
                               /\ \A h \in heights : h <= i.tip.height}
=============================================================================

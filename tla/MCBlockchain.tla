---------------------------- MODULE MCBlockchain ----------------------------
(***************************************************************************)
(* Instances of Blockchain for TLC: a handful of spends around the genesis *)
(* coinbase and the coinbase of the first block, and the tree of blocks    *)
(* that can be built from them.  A block is named by its path, the bodies  *)
(* from the genesis block up to its own, so that its id names its whole    *)
(* ancestry as a hash does.                                                *)
(***************************************************************************)
EXTENDS Blockchain, SequencesExt

CONSTANTS
    Inner,  \* the bodies of blocks that have children
    Leaf    \* the bodies of blocks that need not have any

(* How often each failure may happen: never; everything that can go wrong; *)
(* one StoreBlock.                                                         *)
NoFaults == [kind \in FaultKinds |-> 0]
AnyFault == [NoFaults EXCEPT !["store"] = 1, !["save"] = 1, !["crash"] = 1, !["flush"] = 1]
StoreFault == [NoFaults EXCEPT !["store"] = 1]

MCNoHash == <<>>
GenesisId == <<"genesis">>
GenesisCoinbase ==
    [id |-> <<"coinbase", "genesis">>, coinbase |-> TRUE, ins |-> <<>>,
     outs |-> <<Subsidy(0, 0)>>, sig |-> "none", size |-> 1]
MCGenesis ==
    [id |-> GenesisId, prev |-> MCNoHash, height |-> 0, time |-> 0,
     sealed |-> TRUE, txs |-> <<GenesisCoinbase>>]

(* The first output of the coinbase of the block at a path.  The output of *)
(* the genesis block is left alone: no key opens it.                       *)
CoinbaseOut(path) == <<<<"coinbase", "genesis">> \o path, 0>>
FirstOut == CoinbaseOut(<<"plain">>)
SecondOut == CoinbaseOut(<<"plain", "plain">>)

Spend(name, ins, outs, size) ==
    [id |-> <<name>>, coinbase |-> FALSE, ins |-> ins, outs |-> outs,
     sig |-> IF CryptoProvider THEN "self" ELSE "utxo", size |-> size]

F3 == Spend("f3", <<FirstOut>>, <<3>>, 1)                \* fee 1
F22 == Spend("f22", <<FirstOut>>, <<2, 2>>, 2)           \* conflicts with f3, no fee
C2 == Spend("c2", <<<<F3.id, 0>>>>, <<2>>, 1)            \* child of f3, fee 1
FS == Spend("fs", <<FirstOut, SecondOut>>, <<5>>, 2)     \* two inputs, fee 1 or more
F5 == Spend("f5", <<FirstOut>>, <<5>>, 1)                \* outputs exceed inputs
FF == Spend("ff", <<FirstOut, FirstOut>>, <<6>>, 1)      \* one input twice

(* What a body holds after its coinbase, and the fee it nominally pays. *)
BodyTxs(body) ==
    CASE body \in {"f3", "bare"} -> <<F3>>
      [] body = "f22" -> <<F22>>
      [] body = "c2" -> <<C2>>
      [] body = "fs" -> <<FS>>
      [] body = "f5" -> <<F5>>
      [] body = "ff" -> <<FF>>
      [] body = "chained" -> <<F3, C2>>
      [] body = "twice" -> <<F3, F22>>
      [] body = "extra" -> <<GenesisCoinbase>>
      [] OTHER -> <<>>
BodyFee(body) ==
    CASE body \in {"f3", "c2", "fs"} -> 1
      [] body = "chained" -> 2
      [] OTHER -> 0

(* The coinbase of a block.  "low" claims one atom, "over" one too many,   *)
(* "free" none, and "again" repeats the coinbase of the first block:       *)
(* nothing in a coinbase has to tell it from the one of another height.    *)
Coinbase(path) ==
    LET body == path[Len(path)]
        subsidy == Subsidy(Len(path), 0)
        own == IF body = "again" THEN <<"plain">> ELSE path
    IN  [id |-> CoinbaseOut(own)[1], coinbase |-> TRUE, ins |-> <<>>,
         outs |-> << CASE body = "low" -> 1
                       [] body = "over" -> subsidy + 1
                       [] body = "free" -> 0
                       [] OTHER -> subsidy + BodyFee(body) >>,
         sig |-> "none", size |-> 1]

(* "stale" repeats the timestamp of its parent, "early" the one of the     *)
(* genesis block; "high" skips a height, "unsealed" lacks its proof of     *)
(* work, "bare" has no coinbase and "extra" has two.                       *)
BlockAt(path) ==
    LET body == path[Len(path)]
        height == Len(path)
    IN  [id |-> GenesisId \o path,
         prev |-> GenesisId \o Front(path),
         height |-> IF body = "high" THEN height + 1 ELSE height,
         time |-> CASE body = "stale" -> height - 1
                    [] body = "early" -> 0
                    [] OTHER -> height,
         sealed |-> body # "unsealed",
         txs |-> (IF body = "bare" THEN <<>> ELSE <<Coinbase(path)>>) \o BodyTxs(body)]

(* Paths on which a spend comes after what it spends and only once; below  *)
(* such a path every body is offered, sensible or not.                     *)
SpendsFirst == {"f3", "f22", "fs"}
Sensible(path) ==
    \A i \in DOMAIN path :
        /\ path[i] \in SpendsFirst =>
              /\ i > Maturity /\ path[1] = "plain"
              /\ \A j \in 1 .. i - 1 : path[j] \notin SpendsFirst
        /\ path[i] = "c2" =>
              /\ \E j \in 1 .. i - 1 : path[j] = "f3"
              /\ \A j \in 1 .. i - 1 : path[j] # "c2"

InnerPaths == {path \in BoundedSeq(Inner, MaxHeight - 1) : Sensible(path)}

MCBlock ==
    {MCGenesis} \cup
    {b \in {BlockAt(Append(path, body)) : path \in InnerPaths, body \in Inner \cup Leaf} :
        b.height <= MaxHeight}

(* A transaction signed for the mempool is another transaction when there  *)
(* is a provider to tell the signatures apart.                             *)
Pooled(tx) == [tx EXCEPT !.sig = "utxo", !.id = Append(@, "pooled")]

MCTx ==
    LET spends == UNION {{b.txs[i] : i \in 2 .. Len(b.txs)} : b \in MCBlock}
    IN  {b.txs[1] : b \in MCBlock} \cup spends
            \cup {IF CryptoProvider THEN Pooled(tx) ELSE tx : tx \in spends \ {F5, FF}}
=============================================================================

---------------------------- MODULE MCWalletSpend ----------------------------
(***************************************************************************)
(* WalletSpend for TLC: the miner pays to the wallet's address "m"; the    *)
(* wallet pays itself at "a" and a stranger at "x".  A copy of the wallet  *)
(* in another program sends other spends of what the first two mined       *)
(* blocks create, and a block from elsewhere comes in as the third, with   *)
(* one of those spends in it or with none, which makes the miner's own     *)
(* third block stale.  That spend pays the wallet at "a", but asks for an  *)
(* algorithm the wallet's keys do not have.                                *)
(***************************************************************************)
EXTENDS WalletSpend

NoFaults == [kind \in FaultKinds |-> 0]
MCNoHash == <<>>
GenesisId == <<"genesis">>
MCCoinbaseId(parent, reward) == <<"coinbase">> \o parent
MCBlockId(parent, time, txs) ==
    parent \o FlattenSeq([i \in 1 .. Len(txs) - 1 |-> txs[i + 1].id]) \o <<"end">>

GenesisCoinbase ==
    [id |-> <<"coinbase">>, coinbase |-> TRUE, ins |-> <<>>,
     outs |-> <<Subsidy(0, 0)>>, sig |-> "none", size |-> 1]
MCGenesis ==
    [id |-> GenesisId, prev |-> MCNoHash, height |-> 0, time |-> 0,
     sealed |-> TRUE, txs |-> <<GenesisCoinbase>>]

FirstId == MCBlockId(GenesisId, 1, <<GenesisCoinbase>>)
SecondId == MCBlockId(FirstId, 2, <<GenesisCoinbase>>)
FirstOut == <<MCCoinbaseId(GenesisId, 4), 0>>
SecondOut == <<MCCoinbaseId(FirstId, 4), 0>>

Spend(name, outpoints, amount, size) ==
    [id |-> <<name>>, coinbase |-> FALSE, ins |-> outpoints,
     outs |-> <<amount>>, sig |-> "utxo", size |-> size]
A1 == Spend("a1", <<FirstOut>>, 1, 3)
A2 == Spend("a2", <<FirstOut>>, 2, 2)
B1 == Spend("b1", <<SecondOut>>, 1, 3)
C1 == Spend("c1", <<<<A1.id, 0>>, SecondOut>>, 1, 1)

OtherCoinbase ==
    [id |-> <<"coinbase", "other">>, coinbase |-> TRUE, ins |-> <<>>,
     outs |-> <<1>>, sig |-> "none", size |-> 1]
Third(name, txs) ==
    [id |-> Append(SecondId, name), prev |-> SecondId, height |-> 3, time |-> 3,
     sealed |-> TRUE, txs |-> <<OtherCoinbase>> \o txs]

Foreign == {Third("empty", <<>>), Third("rival", <<A2>>)}
MCBlock == {MCGenesis} \cup Foreign
MCTx == {A1, A2, B1, C1, GenesisCoinbase, OtherCoinbase}

MCPaymentId(ins, outs, to) == <<"pay", to[1], to[2], ToString(<<ins, outs>>)>>
MCOwner(out) ==
    IF out[1][1] = "pay" THEN out[1][out[2] + 2]
    ELSE IF out[1] = A2.id THEN "a"
    ELSE IF out[1] \in {tx.id : tx \in MCTx} THEN "x" ELSE "m"
MCSignable(out) == out[1] # A2.id

(* Outpoints in the order of the length of their text: like hashes, an     *)
(* order of no meaning.                                                    *)
MCKeyOrder(out) == Len(ToString(out))

MCRequest ==
    {[to |-> "x", amount |-> 3, fee |-> 1], [to |-> "a", amount |-> 2, fee |-> 0],
     [to |-> "x", amount |-> 5, fee |-> 0]}
=============================================================================

----------------------------- MODULE WalletSpend -----------------------------
(***************************************************************************)
(* An unlocked wallet that pays through a node that mines:                 *)
(* Wallet::CreateTransaction and the balances (src/wallet/Wallet.cpp) and  *)
(* commandSend (src/wallet/WalletCommands.cpp) over the chain, the mempool *)
(* and the miner.  What the wallet sees is the view of unspent outputs at  *)
(* the tip; it does not look into the mempool, so that it may choose coins *)
(* an earlier payment spends.  Lock and keys are in Wallet.                *)
(*                                                                         *)
(* The id of a transaction names the addresses of its outputs, and Owner   *)
(* reads them from it: an output of the real chain carries its address.    *)
(***************************************************************************)
EXTENDS Miner, CoinSelection, SequencesExt

CONSTANTS
    Address,             \* the addresses the wallet may have a key for
    Request,             \* payments: an address, an amount and a fee
    Owner(_),            \* the address of the output at an outpoint
    Signable(_),         \* its algorithm is the one of that address's key, or none
    PaymentId(_, _, _),  \* id by inputs, amounts and the addresses paid
    MaxKeys              \* bound: entries in the key ring

ASSUME RequestAssumption ==
    \A r \in Request : r.amount \in Nat \ {0} /\ r.fee \in Nat

VARIABLE ring            \* the addresses of keys_, in its order

spendVars == <<minerVars, ring>>

SpendInit ==
    /\ MinerInit
    /\ ring = <<>>

(* Mutant: immature coinbases are offered, too. *)
CoinsOfAnyAge(address) ==
    {[out |-> o, amount |-> utxos[o].amount, owner |-> address] :
        o \in {out \in DOMAIN utxos : Owner(out) = address}}

(* GetSpendableUTXOs of one address, in some order: selection sorts them.  *)
CoinsOf(address) ==
    LET spendable == {o \in DOMAIN utxos :
                         Owner(o) = address /\ IsSpendable(utxos[o], Height(chain))}
    IN  {[out |-> o, amount |-> utxos[o].amount, owner |-> address] : o \in spendable}

(* The candidates of CreateTransaction, key by key. *)
Candidates ==
    FlattenSeq([k \in DOMAIN ring |-> SetToSeq(CoinsOf(ring[k]))])

(* GetAvailableBalance is GetConfirmedBalance: a sum of Blockchain's       *)
(* GetBalance over the keys.                                               *)
AvailableBalance ==
    LET balance(address) == SumFunction([c \in CoinsOf(address) |-> c.amount])
    IN  SumFunction([k \in DOMAIN ring |-> balance(ring[k])])

(* Mutant: change of one atom is not worth an output. *)
PaymentNoSmallChange(r, selected) ==
    LET ins == [i \in DOMAIN selected.selected |-> selected.selected[i].out]
        left == selected.total - (r.amount + r.fee)
        outs == IF left > 1 THEN <<r.amount, left>> ELSE <<r.amount>>
    IN  [id |-> PaymentId(ins, outs, <<r.to, selected.selected[1].owner>>), coinbase |-> FALSE,
         ins |-> ins, outs |-> outs, sig |-> "utxo", size |-> Len(ins) + Len(outs)]

Payment(r, selected) ==
    LET ins == [i \in DOMAIN selected.selected |-> selected.selected[i].out]
        left == selected.total - (r.amount + r.fee)
        change == selected.selected[1].owner
        outs == IF left > 0 THEN <<r.amount, left>> ELSE <<r.amount>>
    IN  [id |-> PaymentId(ins, outs, <<r.to, change>>), coinbase |-> FALSE,
         ins |-> ins, outs |-> outs, sig |-> "utxo", size |-> Len(ins) + Len(outs)]

(* CreateTransaction: the transaction, or none when it returns an error:   *)
(* too few coins, or a selected one that asks for another signature        *)
(* algorithm than its key has.  The hash of a coin is the one of its       *)
(* address, also where the output that made it left it out: UTXOSet fills  *)
(* it in when it applies the transaction, and refuses any other.           *)
CreateTransaction(r) ==
    LET selected == BranchAndBound(Candidates, r.amount + r.fee)
    IN  IF selected.success /\ \A c \in Range(selected.selected) : Signable(c.out)
        THEN {Payment(r, selected)}
        ELSE {}

(* commandSend; the wallet keeps no record of it.                          *)
Send(r) ==
    /\ up
    /\ \E tx \in CreateTransaction(r) : AddTransactionToMempool(tx)
    /\ UNCHANGED <<candidate, now, ring>>

(* GenerateNewAddress has a new key; ImportPrivateKey does not look        *)
(* whether the key ring has the key already.                               *)
AddKey(address) ==
    /\ Len(ring) < MaxKeys
    /\ ring' = Append(ring, address)
    /\ UNCHANGED minerVars

SpendNext ==
    \/ MinerNext /\ UNCHANGED ring
    \/ \E r \in Request : Send(r)
    \/ \E address \in Address : AddKey(address)

SpendSpec == SpendInit /\ [][SpendNext]_spendVars

(* StartLoop builds, mines and submits for as long as nobody stops it, and *)
(* the clock goes on.  The engine finds a nonce unless it is stopped; SF:  *)
(* it is not stopped each time it mines.  Nobody has to send or to offer.  *)
LiveSpendSpec ==
    /\ SpendSpec
    /\ WF_spendVars(BuildCandidateBlock /\ UNCHANGED ring)
    /\ SF_spendVars(SubmitBlock /\ UNCHANGED ring)
    /\ WF_spendVars(Tick /\ UNCHANGED ring)

-----------------------------------------------------------------------------
(* Properties. *)

(* What the wallet shows as available it can send: of a payment whose      *)
(* amount and fee do not exceed the balance, a transaction is built and    *)
(* the mempool accepts it, unless one of the coins that were chosen for it *)
(* asks for another algorithm than its key has, or waits in the mempool to *)
(* be spent; nobody looks for other coins then.  Nothing else goes wrong   *)
(* while a transaction has room for all coins: wallet and mempool agree on *)
(* heights and maturity, the choice of coins never gives up, and change    *)
(* never makes a transaction invalid.  It takes a ring without duplicates: *)
(* a key that was imported twice counts twice.                             *)
BalanceIsSendable ==
    /\ up
    /\ IsInjective(ring)
    /\ Len(Candidates) <= MaxInputs
    => \A r \in Request :
          r.amount + r.fee <= AvailableBalance =>
              LET chosen == Range(BranchAndBound(Candidates, r.amount + r.fee).selected)
              IN  (\A c \in chosen : Signable(c.out) /\ c.out \notin pool.spent)
                      <=> \E tx \in CreateTransaction(r) : Accepts(pool, tx, utxos, Height(chain))

(* A payment costs exactly what was asked: its inputs are the wallet's, it *)
(* pays the fee and no more, and what is left over comes back to a key of  *)
(* the ring.  Coins the search prefers because their change is least, or   *)
(* coins without change, must not turn the rest into fees.                 *)
PaymentIsExact ==
    up /\ IsInjective(ring) =>
        \A r \in Request : \A tx \in CreateTransaction(r) :
            /\ Spends(tx) \subseteq {c.out : c \in Range(Candidates)}
            /\ InputSum(utxos, tx) - OutputSum(tx) = r.fee
            /\ tx.outs[1] = r.amount /\ Owner(<<tx.id, 0>>) = r.to
            /\ Len(tx.outs) > 1 => Owner(<<tx.id, 1>>) \in Range(ring)
=============================================================================

---------------------------- MODULE MCAlgorithms -----------------------------
(***************************************************************************)
(* The parts of the code that are functions, for TLC: each is computed for *)
(* every input of a small set, and the answer is compared with what a      *)
(* definition without a search, a fold or a loop says.                     *)
(***************************************************************************)
EXTENDS CoinSelection, Difficulty, Amounts, Startup

CONSTANTS Amount, Owner, MaxCoins, MaxTarget, MaxElapsed, MaxText, MaxArgs, Words

(* The search looks at fewer coins than a transaction may have: 20 of 128. *)
ASSUME InputAssumption ==
    /\ Amount \subseteq Nat
    /\ MaxCoins \in Nat
    /\ MaxTarget \in Nat
    /\ \A outpoint \in 1 .. MaxCoins : KeyOrder(outpoint) \in Int
    /\ SearchLimit <= MaxInputs

(* Regtest has periods of one block, of which the code says that they took *)
(* one second: that is what it asks for.  The others have ten and more.    *)
ASSUME PeriodAssumption ==
    /\ Interval # 0
    /\ Interval = 1 => Spacing = 1
    /\ MaxElapsed \in Nat

VARIABLES task, input, answer

vars == <<task, input, answer>>

-----------------------------------------------------------------------------
(* Inputs.  Coins come in the order of their amounts; ties are broken by   *)
(* KeyOrder, against that order.                                           *)

MCKeyOrder(outpoint) == IF outpoint = Blank THEN 0 ELSE -outpoint

Offers ==
    UNION {{q \in [1 .. n -> [out : {0}, amount : Amount, owner : Owner]] :
               \A i \in 1 .. n - 1 : q[i].amount <= q[i + 1].amount} : n \in 0 .. MaxCoins}
CoinInputs ==
    [kind : {"coins"}, target : 1 .. MaxTarget,
     coins : {[i \in DOMAIN q |-> [q[i] EXCEPT !.out = i]] : q \in Offers}]

MCPowLimitBits == [exponent |-> 4, mantissa |-> 31]
Limit == CompactToTarget(PowLimitBits)

(* The last block is up to Spacing earlier than the one before it.         *)
Period(n, elapsed, bits) ==
    [i \in 1 .. n |-> [height |-> i - 1, bits |-> bits,
                       timestamp |-> IF i = n THEN elapsed ELSE Spacing]]
WorkInputs ==
    [kind : {"blocks"},
     blocks : {Period(n, e, TargetToCompact(t)) :
                  n \in 0 .. 2 * Interval, e \in 0 .. MaxElapsed, t \in 1 .. Limit}]

AmountInputs ==
    [kind : {"amount"}, text : SeqOf({Point, -2} \cup Digit, MaxText)]

MCNumber == [text \in {<<"0">>, <<"9">>} |-> IF text = <<"0">> THEN 0 ELSE 9]
MCDashed == {"--bogus", "--network", "--datadir", "--unsafe-start", "--conf", "--port"}
Lines ==
    {<<"network", "=", "devnet">>, <<"network", "=", "testnet", "#", "a", "=", "b">>,
     <<"datadir", "=", "e">>, <<"safe_start", "=", "no">>, <<"port", "=", "0">>,
     <<"#", "network", "=", "regtest">>, <<"oops", "#", "=">>}
TwoLines ==
    {<<a, b>> : a \in {<<"network", "=", "devnet">>, <<"safe_start", "=", "no">>},
                b \in {<<"network", "=", "mainnet">>, <<"safe_start", "=", "yes">>, <<>>}}
Files ==
    {<<>>} \cup {[path \in {DefaultConf, "other"} |->
                     IF path = DefaultConf THEN lines ELSE << <<"network", "=", "regtest">> >>] :
                    lines \in SeqOf(Lines, 1) \cup TwoLines}
Environments == {<<>>, [network |-> <<"testnet">>], [network |-> <<"devnet">>, datadir |-> <<"f">>]}
StartInputs ==
    [kind : {"start"}, args : SeqOf(Words, MaxArgs), files : Files, env : Environments,
     provider : {Liboqs, DevOnly}]

-----------------------------------------------------------------------------
Init ==
    /\ task = "none"
    /\ answer = <<>>
    /\ \/ input \in CoinInputs
       \/ input \in WorkInputs
       \/ input \in AmountInputs
       \/ input \in StartInputs

Compute(name, kind, Answers(_)) ==
    /\ task = "none"
    /\ input.kind = kind
    /\ task' = name
    /\ answer' \in Answers(input)
    /\ UNCHANGED input

Next ==
    \/ Compute("smallest", "coins", LAMBDA in : {SmallestAbove(in.coins, in.target)})
    \/ Compute("consolidation", "coins", LAMBDA in : {Consolidation(in.coins, in.target)})
    \/ Compute("search", "coins", LAMBDA in : {BranchAndBound(in.coins, in.target)})
    \/ Compute("privacy", "coins", LAMBDA in : PrivacyAware(in.coins, in.target))
    \/ Compute("work", "blocks", LAMBDA in : {CalculateNextWorkRequired(in.blocks)})
    \/ Compute("read", "amount", LAMBDA in : {FromCoinsString(in.text)})
    \/ Compute("node", "start", LAMBDA in : {Node(in.args, in.env, in.files, in.provider)})
    \/ Compute("wallet", "start", LAMBDA in : {WalletProgram(in.args, in.env, in.files, in.provider)})
    \/ Compute("miner", "start", LAMBDA in : {MinerProgram(in.args)})

Spec == Init /\ [][Next]_vars

-----------------------------------------------------------------------------
(* Coins. *)

Total(indices) ==
    SumFunctionOnSet([i \in DOMAIN input.coins |-> input.coins[i].amount], indices)
Covering(indices) == {s \in SUBSET indices : s # {} /\ Total(s) >= input.target}
Worth == {i \in DOMAIN input.coins : input.coins[i].amount >= Dust}

(* One address has enough for the whole target.                            *)
OneOwnerSuffices ==
    \E owner \in Owner : BranchAndBound(OwnedBy(input.coins, owner), input.target).success

(* A result is a payment: coins that were offered, none twice, no more     *)
(* than a transaction may have, and their sum, which the caller takes its *)
(* change from, is right and reaches the target when success says so.  And *)
(* whoever has the money can pay: a selection is found whenever the coins  *)
(* that are not dust reach the target and are not too many for a           *)
(* transaction, also where the search was in vain since each subset leaves *)
(* change too small to be an output.  The privacy-aware method keeps this  *)
(* only while one address is enough.                                       *)
SelectionSound ==
    \/ task \notin {"smallest", "consolidation", "search", "privacy"}
    \/ task = "privacy" /\ ~OneOwnerSuffices
    \/ LET s == answer.selected
       IN  /\ Range(s) \subseteq Range(input.coins)
           /\ IsInjective(s)
           /\ Len(s) <= MaxInputs
           /\ answer.total = CoinTotal(s)
           /\ answer.success <=> answer.total >= input.target
           /\ Len(input.coins) <= MaxInputs /\ Total(Worth) >= input.target => answer.success

(* The search finds the best: among all sets of coins worth spending, none *)
(* with a change that could be an output, or none at all, leaves less.     *)
SearchIsBest ==
    task = "search" =>
        LET fit == {s \in Covering(Worth) :
                       Total(s) = input.target \/ Total(s) >= input.target + MinChange}
        IN  Cardinality(Worth) < SearchLimit /\ fit # {} =>
                answer.total = Min({Total(s) : s \in fit})

-----------------------------------------------------------------------------
(* Work. *)

(* The work follows the time a period took: it stays within a period; at   *)
(* its end a slow period never makes it harder and a fast one never        *)
(* easier, by no more than four times, never beyond the limit, never for a *)
(* chain a second slower harder, and the target is never lost: below 7 it  *)
(* may be where a quarter of a period is no number of seconds, as on       *)
(* devnet.  This is so while four times the old target fits in its bytes:  *)
(* the target a chain starts with, the limit, leaves no such room.         *)
RetargetFollowsTime ==
    task = "work" /\ input.blocks # <<>> =>
        LET blocks == input.blocks
            n == Len(blocks)
            old == CompactToTarget(blocks[n].bits)
            new == CompactToTarget(answer)
            later == [blocks EXCEPT ![n].timestamp = @ + 1]
            took == blocks[n].timestamp - Spacing
        IN  IF n % Interval # 0 THEN answer = blocks[n].bits
            ELSE old * 4 < Highest =>
                /\ took >= Spacing * Interval => new >= old
                /\ took <= Spacing * Interval => new <= old
                /\ new <= Min({old * 4, Limit})
                /\ old >= 7 => new > 0
                /\ new <= CompactToTarget(CalculateNextWorkRequired(later))

-----------------------------------------------------------------------------
(* Amounts. *)

(* What is read is exact: a text is an amount if it has digits and at most *)
(* one point, with no more digits after it than an atom has, and is worth  *)
(* no more than all coins; it is then worth what its digits say, and is    *)
(* written so that it is read as the same amount again.  A lone point is 0.*)
AmountIsExact ==
    task = "read" =>
        LET text == input.text
            points == {i \in DOMAIN text : text[i] = Point}
            places(i) == Decimals + Cardinality({j \in i + 1 .. Len(text) : text[j] # Point})
                         - (IF points = {} THEN 0 ELSE Len(text) - Max(points))
            worth == SumFunction([i \in DOMAIN text \ points |-> text[i] * Place[places(i)]])
            wellFormed ==
                /\ text # <<>> /\ Range(text) \subseteq Digit \cup {Point}
                /\ Cardinality(points) <= 1
                /\ \A p \in points : Len(text) - p <= Decimals
        IN  /\ answer = IF wellFormed THEN {worth} \cap 0 .. MaxSupply ELSE {}
            /\ \A atoms \in answer : FromCoinsString(ToCoinsString(atoms)) = {atoms}

-----------------------------------------------------------------------------
(* Starting. *)

(* Whether a word is the value of the option before it.                    *)
IsValue ==
    LET is[i \in 1 .. Len(input.args)] ==
            i > 1 /\ ~is[i - 1] /\ input.args[i - 1] \in NeedsValue
    IN  is
LastWord(W(_)) ==
    LET at == {i \in DOMAIN input.args : W(input.args[i]) /\ ~IsValue[i]}
    IN  IF at = {} THEN 0 ELSE Max(at)

Conf == IF task = "wallet" THEN DefaultConf ELSE FindConfigPath(input.args)
FileLines == IF Conf \in DOMAIN input.files THEN input.files[Conf] ELSE <<>>
Setting(field) == {i \in DOMAIN FileLines : Len(FileLines[i]) > 2 /\ FileLines[i][1] = field}

(* The values a field may have: that of the last option; without one what  *)
(* the last line of the file or the environment says; else the default.    *)
Told(field) ==
    LET option == LastWord(LAMBDA w : w = Options[field])
        said == {FileLines[i][3] : i \in {j \in Setting(field) : j = Max(Setting(field))}}
                    \cup {input.env[f][1] : f \in {field} \cap DOMAIN input.env}
    IN  IF option # 0 THEN {input.args[option + 1]}
        ELSE IF said # {} THEN said
        ELSE {Default[field][1]}
EffectiveSafe ==
    LET switch == LastWord(LAMBDA w : w \in {"--safe-start", "--unsafe-start"})
    IN  IF switch # 0 THEN input.args[switch] = "--safe-start"
        ELSE Setting("safe_start") # {} => FileLines[Max(Setting("safe_start"))][3] \in Truths

(* Node and wallet open the chain they were told to: an option of the      *)
(* command line decides over all else, and the default only where nothing  *)
(* was said; and nobody gets a production network with dev-only crypto who *)
(* did not ask for an unsafe start.  Where file and environment disagree   *)
(* the code takes the file, and CONFIG_REFERENCE.md the environment: see   *)
(* EnvironmentOverridesFile.                                               *)
OpensAsTold ==
    task \in {"node", "wallet"} =>
        \A opened \in answer :
            /\ opened.dir \in {<<dir>> : dir \in Told("datadir")}
            /\ opened.network \in Told("network")
            /\ input.provider = DevOnly /\ opened.network \in {"mainnet", "testnet"}
                   => ~EffectiveSafe

(* What the documents say of PQC_NETWORK and PQC_DATADIR: like the command *)
(* line they override the file.                                            *)
EnvironmentOverridesFile ==
    task \in {"node", "wallet"} /\ input.args = <<>> =>
        \A opened \in answer :
            /\ "network" \in DOMAIN input.env => <<opened.network>> = input.env.network
            /\ "datadir" \in DOMAIN input.env => opened.dir = input.env.datadir

(* What the documents say of a production build: with liboqs the programs  *)
(* start on mainnet with the safe defaults and nothing configured.         *)
ProductionStarts ==
    /\ task \in {"node", "wallet"}
    /\ input.provider = Liboqs
    /\ input.args = <<>> /\ input.files = <<>> /\ input.env = <<>>
    => answer # {}
=============================================================================

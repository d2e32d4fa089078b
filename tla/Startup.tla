------------------------------- MODULE Startup -------------------------------
(***************************************************************************)
(* What the programs open when they are started (src/core/Config.cpp,      *)
(* src/main_node.cpp, src/main_wallet.cpp, src/main_miner.cpp).  A text is *)
(* a sequence of tokens: "=", "#" and "," are tokens, white space and the  *)
(* case of switch values are abstracted.  A value that makes the parser    *)
(* throw gives the empty set, and so does a program that stops.            *)
(***************************************************************************)
EXTENDS Integers, SequencesExt

CONSTANTS
    Number,        \* the texts std::stoul reads, with what it reads
    Word,          \* 2^32, to which counts are cast
    MaxPort,       \* 65535
    MaxPeers,      \* 1024
    Dashed,        \* the words that begin with a dash
    DefaultConf    \* "data/postquantiquecoin.conf"

ASSUME StartupAssumption ==
    /\ Word \in Nat \ {0}
    /\ MaxPort \in Nat
    /\ MaxPeers \in Nat

Counts == {"config_version", "maxpeers", "mining_threads"}
Lists == {"connect", "addnode", "seednode"}
Switches == {"listen", "require_liboqs", "allow_dev_crypto", "allow_legacy_pow",
             "safe_start", "json", "no_color"}
Truths == {"1", "true", "yes", "on"}
LogLevels == {"trace", "debug", "info", "warn", "error", "fatal"}
Networks == {"mainnet", "testnet", "devnet", "regtest"}

Default ==
    [config_version |-> 1, network |-> <<"mainnet">>, datadir |-> <<"data">>,
     port |-> 29444, maxpeers |-> 32, listen |-> TRUE, bind |-> <<"0.0.0.0">>,
     connect |-> <<>>, addnode |-> <<>>, seednode |-> <<>>, mining_threads |-> 4,
     log_level |-> <<"info">>, wallet_dir |-> <<"data/wallets">>,
     require_liboqs |-> TRUE, allow_dev_crypto |-> FALSE, allow_legacy_pow |-> FALSE,
     safe_start |-> TRUE, json |-> FALSE, no_color |-> FALSE]

(* The field a key of the file sets: two have a second name.               *)
FieldOf ==
    [text \in {<<key>> : key \in DOMAIN Default \cup {"maxconnections", "seedpeer"}} |->
        CASE text = <<"maxconnections">> -> "maxpeers"
          [] text = <<"seedpeer">> -> "seednode"
          [] OTHER -> text[1]]

Read(field, text) ==
    CASE field \in Switches -> {on \in BOOLEAN : on <=> text \in {<<t>> : t \in Truths}}
      [] field \in Counts -> {Number[t] % Word : t \in {text} \cap DOMAIN Number}
      [] field = "port" -> {Number[t] : t \in {text} \cap DOMAIN Number} \cap 1 .. MaxPort
      [] field \in Lists -> {SelectSeq(text, LAMBDA t : t # ",")}
      [] OTHER -> {text}

(* A configuration with the fields that are set.                           *)
With(cfg, set) ==
    [field \in DOMAIN cfg |-> IF field \in DOMAIN set THEN set[field] ELSE cfg[field]]

First(text, token) == SelectInSeq(text, LAMBDA t : t = token)

ApplyLine(cfg, line) ==
    LET body == IF First(line, "#") = 0 THEN line ELSE SubSeq(line, 1, First(line, "#") - 1)
        equals == First(body, "=")
        key == SubSeq(body, 1, equals - 1)
        value == SubSeq(body, equals + 1, Len(body))
    IN  IF body = <<>> THEN {cfg}
        ELSE IF equals = 0 THEN {}
        ELSE IF key \notin DOMAIN FieldOf THEN {cfg}
        ELSE {[cfg EXCEPT ![FieldOf[key]] = v] : v \in Read(FieldOf[key], value)}

ApplyLines(cfg, lines) ==
    LET after[i \in 0 .. Len(lines)] ==
            IF i = 0 THEN {cfg} ELSE UNION {ApplyLine(c, lines[i]) : c \in after[i - 1]}
    IN  after[Len(lines)]

(* env: network and datadir, where PQC_NETWORK and PQC_DATADIR are set.    *)
Load(env, files, path) ==
    IF path \notin DOMAIN files THEN {With(Default, env)}
    ELSE ApplyLines(With(Default, env), files[path])

-----------------------------------------------------------------------------
(* The command line, a sequence of words.  An option that needs a value    *)
(* takes the next word whatever it is: it is pending until then.           *)

Options ==
    [network |-> "--network", datadir |-> "--datadir", port |-> "--port",
     maxpeers |-> "--maxconnections", bind |-> "--bind", connect |-> "--connect",
     addnode |-> "--addnode", seednode |-> "--seednode", listen |-> "--listen"]
NeedsValue == Range(Options) \cup {"--conf"}

Settings ==
    [w \in {"--json", "--no-color", "--safe-start", "--unsafe-start"} |->
        CASE w = "--json" -> [json |-> TRUE]
          [] w = "--no-color" -> [no_color |-> TRUE]
          [] w = "--safe-start" -> [safe_start |-> TRUE]
          [] w = "--unsafe-start" -> [safe_start |-> FALSE]]

Text(word) == IF word = "" THEN <<>> ELSE <<word>>

WithOption(cfg, option, word) ==
    IF option = "--conf" THEN {cfg}
    ELSE LET field == CHOOSE f \in DOMAIN Options : Options[f] = option
         IN  IF field \in Lists THEN {[cfg EXCEPT ![field] = Append(@, word)]}
             ELSE {[cfg EXCEPT ![field] = v] : v \in Read(field, Text(word))}

TakeWord(taken, word) ==
    IF taken.pending # ""
    THEN {[taken EXCEPT !.cfg = c, !.pending = ""] : c \in WithOption(taken.cfg, taken.pending, word)}
    ELSE IF word \in NeedsValue THEN {[taken EXCEPT !.pending = word]}
    ELSE IF word \in DOMAIN Settings THEN {[taken EXCEPT !.cfg = With(@, Settings[word])]}
    ELSE IF word \in Dashed \ {"--help", "--version"} THEN {}
    ELSE {taken}

(* The configuration after the words; those left over are the command.     *)
ApplyArgs(cfg, args) ==
    LET after[i \in 0 .. Len(args)] ==
            IF i = 0 THEN {[cfg |-> cfg, pending |-> ""]}
            ELSE UNION {TakeWord(t, args[i]) : t \in after[i - 1]}
    IN  {taken.cfg : taken \in {t \in after[Len(args)] : t.pending = ""}}

-----------------------------------------------------------------------------
(* Starting.  provider is what the name of the crypto provider holds of    *)
(* the words that are searched for: "OqsPqCryptoProvider ML-DSA-65 ...",   *)
(* the one built with liboqs, holds neither "liboqs" nor "OQS".            *)

Liboqs == {}
DevOnly == {"DevOnly"}

IsOn(cfg, network) == cfg.network = <<network>>
RequireLiboqs(cfg) == IsOn(cfg, "mainnet") \/ IsOn(cfg, "testnet")

WellFormed(cfg) ==
    /\ cfg.config_version = 1
    /\ cfg.datadir # <<>>
    /\ cfg.maxpeers \in 1 .. MaxPeers
    /\ cfg.log_level \in {<<level>> : level \in LogLevels}

(* Validate.  params is the network's, so their names agree, and mainnet's *)
(* params do not allow dev crypto.                                         *)
Valid(cfg, provider) ==
    /\ WellFormed(cfg)
    /\ cfg.safe_start =>
        /\ IsOn(cfg, "mainnet") => ~cfg.allow_dev_crypto /\ "DevOnly" \notin provider
        /\ RequireLiboqs(cfg) => provider \cap {"liboqs", "OQS"} # {}

(* The first --conf that is followed by a word, the value of an option too.*)
FindConfigPath(args) ==
    LET conf == {i \in 1 .. Len(args) - 1 : args[i] = "--conf"}
    IN  IF conf = {} THEN DefaultConf ELSE args[Min(conf) + 1]

(* Mutant: the environment comes after the command line. *)
ConfiguredThenEnvironment(path, args, env, files, provider) ==
    {[dir |-> cfg.datadir, network |-> cfg.network[1], safe |-> cfg.safe_start] :
        cfg \in {c \in {With(told, env) : told \in
                             UNION {ApplyArgs(start, args) : start \in Load(<<>>, files, path)}} :
                    c.network \in {<<n>> : n \in Networks} /\ Valid(c, provider)}}

(* Load, ApplyArgs and Validate, and then the network's parameters.        *)
Configured(path, args, env, files, provider) ==
    {[dir |-> cfg.datadir, network |-> cfg.network[1], safe |-> cfg.safe_start] :
        cfg \in {c \in UNION {ApplyArgs(start, args) : start \in Load(env, files, path)} :
                    c.network \in {<<n>> : n \in Networks} /\ Valid(c, provider)}}

(* The data directory, network and safety a program opens a chain with, if *)
(* it gets that far.  The chain is then in dir/network; the miner, which   *)
(* reads no configuration and takes no such option, has it in dir itself.  *)
Node(args, env, files, provider) ==
    IF {"--version", "--help", "help"} \cap Range(args) # {} THEN {}
    ELSE Configured(FindConfigPath(args), args, env, files, provider)

WalletProgram(args, env, files, provider) ==
    Configured(DefaultConf, args, env, files, provider)

MinerProgram(args) ==
    IF /\ Len(args) >= 2 /\ args[1] = "mine"
       /\ \A i \in 3 .. Len(args) - 1 : args[i] = "--threads" => Text(args[i + 1]) \in DOMAIN Number
    THEN {[dir |-> <<"data">>, network |-> "devnet", safe |-> FALSE]}
    ELSE {}
=============================================================================

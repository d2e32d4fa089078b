-------------------------- MODULE ChainRulesProofs --------------------------
(***************************************************************************)
(* What holds of the chain a node has open, for every set of blocks: its   *)
(* view and its supply are a replay of it, it passes ValidateChain, the    *)
(* index and the files agree with it, and its coins are spent once, after  *)
(* their maturity, and never more of them than were minted.  At the end    *)
(* what it means for the mempool and the miner: what they hold and build   *)
(* the chain accepts.                                                      *)
(***************************************************************************)
EXTENDS BlockchainProofs, Miner

-----------------------------------------------------------------------------
(* Failures and steps. *)

(* A failure that has not happened had not happened before. *)
LEMMA NeverEarlier ==
    ASSUME TypeInv, [Next]_vars
    PROVE  \A kind \in FaultKinds : Never(kind)' => Never(kind) /\ ~Fault(kind)
<1>1. faults \in [FaultKinds -> Nat] /\ {"store", "save", "crash", "flush"} \subseteq FaultKinds
  BY DEF TypeInv, TypeOK, FaultKinds
<1>2. \/ UNCHANGED faults
      \/ \E kind \in FaultKinds : Fault(kind)
  BY <1>1 DEF Next, vars, OpenExisting, OpenFresh, OpenFreshFails, Exit, AddAnyBlock, AddBlock,
              AddBlockStoreFails, AddBlockSaveFails, AddBlockCrashes, AddBlockTears,
              DisconnectTip, AddTransactionToMempool
<1>3. ASSUME NEW kind \in FaultKinds, faults'[kind] = 0 PROVE faults[kind] = 0 /\ ~Fault(kind)
  <2>1. ~Fault(kind)
    BY <1>1, <1>3, FaultType
  <2>2. faults[kind] = 0
    BY <1>1, <1>2, <1>3, FaultType
  <2> QED
    BY <2>1, <2>2
<1> QED
  BY <1>3 DEF Never

(* Disconnecting is not undone. *)
LEMMA ConnectedEarlier ==
    ASSUME TypeInv, [Next]_vars, disconnects' = 0
    PROVE  disconnects = 0 /\ ~DisconnectTip
<1>1. disconnects \in Nat
  BY BoundsAssumption DEF TypeInv, TypeOK
<1>2. disconnects' = disconnects \/ disconnects' = disconnects + 1
  BY DEF Next, vars, OpenExisting, OpenFresh, OpenFreshFails, Exit, AddAnyBlock, AddBlock,
         AddBlockStoreFails, AddBlockSaveFails, AddBlockCrashes, AddBlockTears,
         DisconnectTip, AddTransactionToMempool
<1>3. DisconnectTip => disconnects' = disconnects + 1
  BY DEF DisconnectTip
<1> QED
  BY <1>1, <1>2, <1>3

-----------------------------------------------------------------------------
(* The view and the supply are a replay of the chain, while a process runs *)
(* and after it has gone.                                                  *)

IsReplay == /\ RebuildUTXO(chain).ok
            /\ utxos = RebuildUTXO(chain).utxos
            /\ minted = RebuildUTXO(chain).minted

ReplayInv == TypeInv /\ (Never("store") => IsReplay)

(* Connecting a block to the state is one more step of the replay. *)
LEMMA ConnectedIsReplay ==
    ASSUME TypeInv, IsReplay, NEW b \in Block
    PROVE  RebuildUTXO(Append(chain, b)) = Connected(b)
<1>1. chain \in Seq(Block)
  BY DEF TypeInv, TypeOK
<1>2. RebuildUTXO(Append(chain, b)) = ReplayStep(RebuildUTXO(chain), b)
  BY <1>1, RebuildAppend
<1>3. ReplayStep(RebuildUTXO(chain), b) = ConnectBlock(RebuildUTXO(chain), b)
  BY DEF ReplayStep, IsReplay
<1>4. ConnectBlock(RebuildUTXO(chain), b) = Connected(b)
  BY DEF ConnectBlock, Connected, IsReplay
<1> QED
  BY <1>2, <1>3, <1>4

LEMMA ReplayInit == Init => ReplayInv
<1>1. ASSUME Init PROVE ReplayInv
  <2>1. TypeInv /\ chain = <<>> /\ utxos = NoUTXOs /\ minted = 0
    BY <1>1, TypeInit DEF Init
  <2>2. <<>> \in Seq(Block) /\ Len(<<>>) = 0
    OBVIOUS
  <2>3. RebuildUTXO(<<>>) = NothingReplayed
    BY <2>2, ReplayedNothing, ReplayedAll
  <2> QED
    BY <2>1, <2>3 DEF ReplayInv, IsReplay, NothingReplayed
<1> QED
  BY <1>1

LEMMA ReplayInvStep == ReplayInv /\ [Next]_vars => ReplayInv'
<1> SUFFICES ASSUME ReplayInv, [Next]_vars, Never("store")' PROVE IsReplay'
  BY TypeStep DEF ReplayInv
<1>0. TypeInv /\ IsReplay /\ ~Fault("store")
  BY NeverEarlier DEF ReplayInv, FaultKinds
<1>1. CASE OpenExisting
  BY <1>1 DEF OpenExisting, CanLoad, IsReplay
<1>2. CASE OpenFresh
  BY <1>2, GenesisReplays DEF OpenFresh, IsReplay
<1>3. CASE \E b \in Block : CanAdd(b) /\ Extend(b)
  <2>1. PICK b \in Block : CanAdd(b) /\ Extend(b)
    BY <1>3
  <2>2. RebuildUTXO(Append(chain, b)) = Connected(b)
    BY <1>0, ConnectedIsReplay
  <2> QED
    BY <2>1, <2>2 DEF CanAdd, Extend, IsReplay
<1>4. CASE AddAnyBlock
  <2>1. \/ \E b \in Block : CanAdd(b) /\ Extend(b)
        \/ UNCHANGED <<chain, utxos, minted>>
    BY <1>0, <1>4 DEF AddAnyBlock, AddBlock, AddBlockStoreFails, AddBlockSaveFails,
                      AddBlockCrashes, AddBlockTears, memory
  <2>2. CASE UNCHANGED <<chain, utxos, minted>>
    BY <1>0, <2>2 DEF IsReplay
  <2> QED
    BY <1>3, <2>1, <2>2
<1>5. CASE DisconnectTip
  <2>1. chain \in Seq(Block) /\ Len(chain) > 1
    BY <1>0, <1>5 DEF DisconnectTip, TypeInv, TypeOK
  <2>2. Len(chain) - 1 \in 0 .. Len(chain)
    BY <2>1
  <2>3. Replayed(chain, Len(chain) - 1).ok
    BY <1>0, <2>1, <2>2, ReplayedOk DEF IsReplay
  <2>4. chain' = SubSeq(chain, 1, Len(chain) - 1)
    BY <1>5 DEF DisconnectTip
  <2> QED
    BY <1>5, <2>3, <2>4 DEF DisconnectTip, IsReplay, Replayed
<1>6. CASE OpenFreshFails \/ Exit \/ (\E tx \in Tx : AddTransactionToMempool(tx)) \/ UNCHANGED vars
  <2>1. UNCHANGED <<chain, utxos, minted>>
    BY <1>6 DEF OpenFreshFails, Exit, AddTransactionToMempool, vars, memory
  <2> QED
    BY <1>0, <2>1 DEF IsReplay
<1> QED
  BY <1>1, <1>2, <1>4, <1>5, <1>6 DEF Next

(* As long as StoreBlock has not failed, the view and the supply are what  *)
(* RebuildUTXO makes of the chain: after every block, after DisconnectTip  *)
(* and after every restart.                                                *)
THEOREM ViewIsReplay == Spec => []StateIsReplay
<1>1. ReplayInv => StateIsReplay
  BY DEF ReplayInv, IsReplay, StateIsReplay
<1> QED
  BY <1>1, ReplayInit, ReplayInvStep, PTL DEF Spec

-----------------------------------------------------------------------------
(* What a step does to the chain and to what Load would read, as long as   *)
(* the tip has not been disconnected.                                      *)

Log == StoredBlocks(files)

(* None of the files that Load reads is torn. *)
Whole == \A i \in DOMAIN Log : Log[i] # Torn

(* Load would read nothing before there is a file. *)
LEMMA NothingStored == Init => Log = <<>>
<1>1. ASSUME Init PROVE Log = <<>>
  <2>1. files \in Files
    BY <1>1, StoreInit DEF StoreInv, TypeInv, TypeOK, Files, Entry
  <2>2. files[0] = NoFile /\ 0 \in Heights /\ 0 <= MaxHeight + 1
    BY <1>1, BoundsAssumption DEF Init, Heights
  <2>3. \A h \in Heights : h < 0 => files[h] # NoFile
    BY BoundsAssumption DEF Heights
  <2>4. StoredBlocks(files) = [i \in 1 .. 0 |-> files[i - 1]]
    BY <2>1, <2>2, <2>3, StoredShape
  <2> QED
    BY <2>4 DEF Log
<1> QED
  BY <1>1

(* The files of an open chain are as many as its blocks. *)
LEMMA OpenLog ==
    ASSUME StoreInv, up, disconnects = 0
    PROVE  /\ Log \in Seq(Entry) /\ chain \in Seq(Block)
           /\ Len(Log) = Len(chain) /\ Len(chain) \in Nat
           /\ Whole => Log = chain
<1>1. /\ files \in Files /\ chain \in Seq(Block) /\ Len(chain) \in Nat
      /\ Heights = 0 .. MaxHeight /\ MaxHeight \in Nat
  BY BoundsAssumption DEF StoreInv, TypeInv, TypeOK, Files, Entry, Heights
<1>2. \A n \in DOMAIN chain : n - 1 \in Heights /\ files[n - 1] \in {chain[n], Torn}
  BY DEF StoreInv
<1>3. Len(chain) <= MaxHeight + 1
  <2>1. CASE Len(chain) = 0
    BY <1>1, <2>1
  <2>2. CASE Len(chain) # 0
    <3>1. Len(chain) \in DOMAIN chain
      BY <1>1, <2>2
    <3> QED
      BY <1>1, <1>2, <3>1
  <2> QED
    BY <2>1, <2>2
<1>4. ASSUME NEW h \in Heights, h < Len(chain) PROVE files[h] # NoFile
  <2>1. h + 1 \in DOMAIN chain /\ (h + 1) - 1 = h
    BY <1>1, <1>4
  <2>2. files[(h + 1) - 1] \in {chain[h + 1], Torn} /\ chain[h + 1] \in Block
    BY <1>1, <1>2, <2>1
  <2> QED
    BY <2>1, <2>2, FileAssumption
<1>5. Len(chain) \in Heights => files[Len(chain)] = NoFile
  BY <1>1 DEF StoreInv
<1>6. /\ Log = [i \in 1 .. Len(chain) |-> files[i - 1]]
      /\ Log \in Seq(Entry)
      /\ Len(Log) = Len(chain)
  BY <1>1, <1>3, <1>4, <1>5, StoredShape DEF Log
<1>7. ASSUME Whole PROVE Log = chain
  <2>1. ASSUME NEW i \in 1 .. Len(chain) PROVE Log[i] = chain[i]
    <3>1. Log[i] = files[i - 1] /\ i \in DOMAIN Log /\ i \in DOMAIN chain
      BY <1>1, <1>6
    <3>2. Log[i] # Torn
      BY <1>7, <3>1 DEF Whole
    <3> QED
      BY <1>2, <3>1, <3>2
  <2> QED
    BY <1>1, <1>6, <2>1
<1> QED
  BY <1>1, <1>6, <1>7

(* A file written above an open chain ends what Load reads. *)
LEMMA WrittenLog ==
    ASSUME StoreInv, disconnects = 0, NEW b \in Block, CanAdd(b), NEW x \in {b, Torn},
           files' = [files EXCEPT ![b.height] = x]
    PROVE  Log' = Append(Log, x)
<1>1. /\ files \in Files /\ x \in Entry /\ up
      /\ b.height = Len(chain) /\ b.height \in Heights
      /\ \A h \in Heights : h < b.height => files[h] # NoFile
      /\ \A h \in Heights : h > b.height => files[h] = NoFile
  BY AddsNext DEF Entry
<1>2. Log \in Seq(Entry) /\ Len(Log) = b.height /\ Len(chain) \in Nat
  BY <1>1, OpenLog
<1>3. StoredBlocks([files EXCEPT ![b.height] = x])
          = Append(SubSeq(StoredBlocks(files), 1, b.height), x)
  BY <1>1, WrittenAt
<1>4. SubSeq(Log, 1, b.height) = Log
  BY <1>2
<1> QED
  BY <1>3, <1>4 DEF Log

(* A write that fails leaves the files as they are. *)
LEMMA LeftLog ==
    ASSUME StoreInv, disconnects = 0, NEW b \in Block, CanAdd(b),
           NEW left \in {files[b.height], NoFile},
           files' = [files EXCEPT ![b.height] = left]
    PROVE  files' = files
<1>1. files \in Files /\ up /\ b.height = Len(chain) /\ b.height \in Heights /\ Len(chain) \in Nat
  BY AddsNext
<1>2. files[b.height] = NoFile
  BY <1>1 DEF StoreInv
<1> QED
  BY <1>1, <1>2 DEF Files

(* The first file that is written is all that Load reads. *)
LEMMA FreshLog ==
    ASSUME StoreInv, files[0] = NoFile, NEW x \in {Genesis, Torn},
           files' = [files EXCEPT ![0] = x]
    PROVE  Log' = <<x>>
<1>1. files \in Files /\ MaxHeight \in Nat /\ Heights = 0 .. MaxHeight /\ x \in Entry /\ x # NoFile
  BY BoundsAssumption, GenesisAssumption, FileAssumption
  DEF StoreInv, TypeInv, TypeOK, Files, Entry, Heights
<1>2. \A h \in Heights : files[h] = NoFile
  BY DEF StoreInv
<1>3. files' \in Files /\ files'[0] = x /\ \A h \in Heights \ {0} : files'[h] = NoFile
  BY <1>1, <1>2 DEF Files
<1>4. /\ 1 \in Nat /\ 1 <= MaxHeight + 1
      /\ \A h \in Heights : h < 1 => files'[h] # NoFile
      /\ 1 \in Heights => files'[1] = NoFile
  BY <1>1, <1>3
<1>5. StoredBlocks(files') = [i \in 1 .. 1 |-> files'[i - 1]]
  BY <1>3, <1>4, StoredShape
<1> QED
  BY <1>3, <1>5 DEF Log

(* All that can happen to the chain and to what Load would read.           *)
LEMMA LogStep ==
    ASSUME StoreInv, [Next]_vars, disconnects' = 0
    PROVE  \/ OpenExisting /\ up' /\ Whole /\ chain' = Log /\ files' = files
           \/ OpenFresh /\ up' /\ chain' = <<Genesis>> /\ files[0] = NoFile
                /\ (Log' = <<Genesis>> \/ (Log' = <<Torn>> /\ Fault("flush")))
           \/ OpenFreshFails /\ ~up /\ ~up' /\ UNCHANGED memory /\ Log' = <<Genesis>>
                /\ (Fault("save") \/ Fault("crash"))
           \/ \E b \in Block : CanAdd(b) /\ Extend(b) /\ up'
                /\ (Log' = Append(Log, b) \/ (Log' = Append(Log, Torn) /\ Fault("flush")))
           \/ \E b \in Block : CanAdd(b) /\ ~up' /\ UNCHANGED memory /\ Fault("crash")
                /\ (files' = files \/ Log' = Append(Log, b))
           \/ \E b \in Block : CanAdd(b) /\ up' /\ UNCHANGED <<chain, files>> /\ Fault("store")
                /\ utxos' = Connected(b).utxos /\ minted' = Connected(b).minted
           \/ UNCHANGED <<chain, utxos, minted, files>> /\ (up' => up)
<1>0. disconnects = 0 /\ ~DisconnectTip
  BY ConnectedEarlier DEF StoreInv
<1>1. CASE OpenExisting
  BY <1>1 DEF OpenExisting, CanLoad, Whole, Log, disk
<1>2. CASE OpenFresh
  <2>1. /\ files[0] = NoFile /\ up' /\ chain' = <<Genesis>>
        /\ \/ files' = [files EXCEPT ![0] = Genesis]
           \/ Fault("flush") /\ files' = [files EXCEPT ![0] = Torn]
    BY <1>2 DEF OpenFresh
  <2>2. CASE files' = [files EXCEPT ![0] = Genesis]
    <3>1. Log' = <<Genesis>>
      BY <2>1, <2>2, FreshLog
    <3> QED
      BY <1>2, <2>1, <3>1
  <2>3. CASE Fault("flush") /\ files' = [files EXCEPT ![0] = Torn]
    <3>1. Log' = <<Torn>>
      BY <2>1, <2>3, FreshLog
    <3> QED
      BY <1>2, <2>1, <2>3, <3>1
  <2> QED
    BY <2>1, <2>2, <2>3
<1>3. CASE OpenFreshFails
  <2>1. /\ files[0] = NoFile /\ ~up /\ ~up' /\ UNCHANGED memory
        /\ Fault("save") \/ Fault("crash")
        /\ files' = [files EXCEPT ![0] = Genesis]
    BY <1>3 DEF OpenFreshFails
  <2>2. Log' = <<Genesis>>
    BY <2>1, FreshLog
  <2> QED
    BY <1>3, <2>1, <2>2
<1>4. CASE AddAnyBlock
  <2>0. PICK b \in Block : \/ AddBlock(b)
                           \/ AddBlockStoreFails(b)
                           \/ AddBlockSaveFails(b)
                           \/ AddBlockCrashes(b)
                           \/ AddBlockTears(b)
    BY <1>4 DEF AddAnyBlock
  <2>1. CASE AddBlock(b) \/ AddBlockSaveFails(b)
    <3>1. CanAdd(b) /\ Extend(b) /\ files' = [files EXCEPT ![b.height] = b] /\ up' = up
      BY <2>1 DEF AddBlock, AddBlockSaveFails
    <3>2. Log' = Append(Log, b)
      BY <1>0, <3>1, WrittenLog
    <3>3. up'
      BY <3>1 DEF CanAdd
    <3> QED
      BY <3>1, <3>2, <3>3
  <2>2. CASE AddBlockTears(b)
    <3>1. /\ CanAdd(b) /\ Extend(b) /\ files' = [files EXCEPT ![b.height] = Torn] /\ up' = up
          /\ Fault("flush")
      BY <2>2 DEF AddBlockTears
    <3>2. Log' = Append(Log, Torn)
      BY <1>0, <3>1, WrittenLog
    <3>3. up'
      BY <3>1 DEF CanAdd
    <3> QED
      BY <3>1, <3>2, <3>3
  <2>3. CASE AddBlockStoreFails(b)
    <3>1. /\ CanAdd(b) /\ chain' = chain /\ up' = up /\ Fault("store")
          /\ utxos' = Connected(b).utxos /\ minted' = Connected(b).minted
      BY <2>3 DEF AddBlockStoreFails
    <3>2. PICK left \in {files[b.height], NoFile} : files' = [files EXCEPT ![b.height] = left]
      BY <2>3 DEF AddBlockStoreFails
    <3>3. files' = files
      BY <1>0, <3>1, <3>2, LeftLog
    <3>4. up'
      BY <3>1 DEF CanAdd
    <3> QED
      BY <3>1, <3>3, <3>4
  <2>4. CASE AddBlockCrashes(b)
    <3>1. CanAdd(b) /\ ~up' /\ UNCHANGED memory /\ Fault("crash")
      BY <2>4 DEF AddBlockCrashes
    <3>2. CASE \E left \in {files[b.height], NoFile} : files' = [files EXCEPT ![b.height] = left]
      <4>1. files' = files
        BY <1>0, <3>1, <3>2, LeftLog
      <4> QED
        BY <3>1, <4>1
    <3>3. CASE files' = [files EXCEPT ![b.height] = b]
      <4>1. Log' = Append(Log, b)
        BY <1>0, <3>1, <3>3, WrittenLog
      <4> QED
        BY <3>1, <4>1
    <3> QED
      BY <2>4, <3>2, <3>3 DEF AddBlockCrashes
  <2> QED
    BY <2>0, <2>1, <2>2, <2>3, <2>4
<1>5. CASE Exit \/ (\E tx \in Tx : AddTransactionToMempool(tx)) \/ UNCHANGED vars
  BY <1>5 DEF Exit, AddTransactionToMempool, vars, memory, disk
<1> QED
  BY <1>0, <1>1, <1>2, <1>3, <1>4, <1>5 DEF Next

(* A file more is one more that may be torn. *)
LEMMA WholeAppend ==
    ASSUME Log \in Seq(Entry), NEW x \in Entry, Log' = Append(Log, x)
    PROVE  Whole' <=> Whole /\ x # Torn
<1>1. /\ DOMAIN Append(Log, x) = DOMAIN Log \cup {Len(Log) + 1}
      /\ Append(Log, x)[Len(Log) + 1] = x
      /\ \A i \in DOMAIN Log : Append(Log, x)[i] = Log[i]
  OBVIOUS
<1> QED
  BY <1>1 DEF Whole

-----------------------------------------------------------------------------
(* What a process leaves behind can be opened.                             *)

ReopenInv ==
    /\ StoreInv
    /\ ReplayInv
    /\ Never("store") /\ Never("flush") /\ disconnects = 0 =>
          /\ Whole
          /\ ~up /\ files[0] # NoFile => RebuildUTXO(Log).ok

(* While the chain is open, what Load would read is the chain. *)
LEMMA OpenReplays ==
    ASSUME StoreInv, up, disconnects = 0, Whole, RebuildUTXO(chain).ok
    PROVE  RebuildUTXO(Log).ok
<1>1. Log = chain
  BY OpenLog
<1> QED
  BY <1>1

LEMMA ReopenInit == Init => ReopenInv
<1>1. ASSUME Init PROVE Whole /\ files[0] = NoFile
  <2>1. DOMAIN Log = {}
    BY <1>1, NothingStored
  <2>2. files[0] = NoFile
    BY <1>1, BoundsAssumption DEF Init, Heights
  <2> QED
    BY <2>1, <2>2 DEF Whole
<1> QED
  BY <1>1, StoreInit, ReplayInit DEF ReopenInv

LEMMA ReopenStep == ReopenInv /\ [Next]_vars => ReopenInv'
<1> SUFFICES ASSUME ReopenInv, [Next]_vars,
                    Never("store")', Never("flush")', disconnects' = 0
             PROVE  /\ Whole'
                    /\ ~up' /\ files'[0] # NoFile => RebuildUTXO(Log').ok
  BY StoreStep, ReplayInvStep DEF ReopenInv
<1>0. /\ StoreInv /\ IsReplay /\ TypeInv /\ disconnects = 0 /\ Whole /\ ~Fault("flush")
      /\ ~up /\ files[0] # NoFile => RebuildUTXO(Log).ok
  BY NeverEarlier, ConnectedEarlier DEF ReopenInv, ReplayInv, FaultKinds
<1>g. Genesis # Torn /\ \A b \in Block : b # Torn
  BY GenesisAssumption, FileAssumption
<1>1. CASE up' /\ files' = files
  BY <1>0, <1>1 DEF Whole, Log
<1>2. CASE Log' = <<Genesis>>
  BY <1>2, <1>g, GenesisReplays DEF Whole
<1>3. CASE \E b \in Block : CanAdd(b) /\ Log' = Append(Log, b)
  <2>1. PICK b \in Block : CanAdd(b) /\ Log' = Append(Log, b)
    BY <1>3
  <2>2. up /\ Connected(b).ok
    BY <2>1 DEF CanAdd
  <2>3. Log \in Seq(Entry) /\ Log = chain
    BY <1>0, <2>2, OpenLog
  <2>4. Whole'
    BY <1>0, <1>g, <2>1, <2>3, WholeAppend DEF Entry
  <2>5. RebuildUTXO(Append(chain, b)).ok
    BY <1>0, <2>2, ConnectedIsReplay
  <2> QED
    BY <2>1, <2>3, <2>4, <2>5
<1>4. CASE chain' = chain /\ files' = files
  <2>1. Log' = Log /\ Whole'
    BY <1>0, <1>4 DEF Whole, Log
  <2>2. CASE up
    <3>1. RebuildUTXO(Log).ok
      BY <1>0, <2>2, OpenReplays DEF IsReplay
    <3> QED
      BY <2>1, <3>1
  <2>3. CASE ~up
    BY <1>0, <1>4, <2>1, <2>3
  <2> QED
    BY <2>2, <2>3
<1> QED
  BY <1>0, <1>1, <1>2, <1>3, <1>4, LogStep DEF memory

(* Whatever a process leaves behind, stopped anywhere or with Save failed, *)
(* the next one can open, unless StoreBlock failed, a flush was lost or a  *)
(* tip was disconnected.                                                   *)
THEOREM ReopensAfterCrash == Spec => []CanReopen
<1>1. ReopenInv => CanReopen
  <2> SUFFICES ASSUME ReopenInv, ~up, Never("store"), Never("flush"), disconnects = 0,
                      files[0] # NoFile
               PROVE  CanLoad(files)
    BY DEF CanReopen, Reopens
  <2> QED
    BY DEF ReopenInv, CanLoad, Whole, Log
<1> QED
  BY <1>1, ReopenInit, ReopenStep, PTL DEF Spec

-----------------------------------------------------------------------------
(* The open chain passes ValidateChain, and so does what Load would read,  *)
(* unless it would refuse a torn file.                                     *)

ValidInv ==
    /\ StoreInv
    /\ ReplayInv
    /\ Never("store") /\ disconnects = 0 =>
          /\ up => ValidateChain(chain)
          /\ ~up /\ Whole /\ Log # <<>> => ValidateChain(Log)

(* A chain stays valid when a block is added that ValidateBlock accepts    *)
(* over the replay of it.                                                  *)
LEMMA ValidAppend ==
    ASSUME StoreInv, IsReplay, ValidateChain(chain), NEW b \in Block, CanAdd(b)
    PROVE  ValidateChain(Append(chain, b))
<1> DEFINE new == Append(chain, b)
<1>1. /\ chain \in Seq(Block) /\ Len(chain) \in Nat /\ Len(chain) # 0
      /\ b.height = Len(chain)
  BY AddsNext
<1>2. /\ b.prev = chain[Len(chain)].id
      /\ ConsensusOK(b, utxos, minted)
      /\ ConnectTxs(utxos, b).ok
  <2>1. chain # <<>>
    BY <1>1
  <2>2. ValidateBlock(chain, utxos, minted, b) /\ Connected(b).ok
    BY DEF CanAdd
  <2>3. ConnectTxs(utxos, b).ok
    BY <2>2 DEF Connected, ConnectBlock
  <2> QED
    BY <2>1, <2>2, <2>3 DEF ValidateBlock, TipHash, Tip
<1>3. ASSUME NEW n \in 1 .. Len(new)
      PROVE  /\ new[n].height = n - 1
             /\ n > 1 => new[n].prev = new[n - 1].id
             /\ ConsensusOK(new[n], RebuildUTXO(SubSeq(new, 1, n - 1)).utxos,
                                    RebuildUTXO(SubSeq(new, 1, n - 1)).minted)
             /\ ConnectTxs(RebuildUTXO(SubSeq(new, 1, n - 1)).utxos, new[n]).ok
  <2>1. CASE n = Len(chain) + 1
    <3>1. new[n] = b /\ n - 1 = Len(chain) /\ new[n - 1] = chain[Len(chain)]
      BY <1>1, <2>1
    <3>2. SubSeq(new, 1, n - 1) = chain
      BY <1>1, <2>1
    <3> HIDE DEF new
    <3> QED
      BY <1>1, <1>2, <3>1, <3>2 DEF IsReplay
  <2>2. CASE n \in 1 .. Len(chain)
    <3>1. new[n] = chain[n] /\ n > 1 => new[n - 1] = chain[n - 1]
      BY <1>1, <2>2
    <3>2. SubSeq(new, 1, n - 1) = SubSeq(chain, 1, n - 1)
      BY <1>1, <2>2
    <3>3. n > 1 => new[n - 1] = chain[n - 1]
      BY <1>1, <2>2
    <3>4. new[n] = chain[n]
      BY <1>1, <2>2
    <3> HIDE DEF new
    <3> QED
      BY <2>2, <3>2, <3>3, <3>4 DEF ValidateChain
  <2> QED
    BY <1>1, <2>1, <2>2
<1> HIDE DEF new
<1>4. ValidateChain(new)
  BY <1>3 DEF ValidateChain
<1> QED
  BY <1>4 DEF new

LEMMA ValidInit == Init => ValidInv
BY StoreInit, ReplayInit, NothingStored DEF ValidInv, Init

LEMMA ValidStep == ValidInv /\ [Next]_vars => ValidInv'
<1> SUFFICES ASSUME ValidInv, [Next]_vars, Never("store")', disconnects' = 0
             PROVE  /\ up' => ValidateChain(chain')
                    /\ ~up' /\ Whole' /\ Log' # <<>> => ValidateChain(Log')
  BY StoreStep, ReplayInvStep DEF ValidInv
<1>0. /\ StoreInv /\ IsReplay /\ disconnects = 0
      /\ up => ValidateChain(chain)
      /\ ~up /\ Whole /\ Log # <<>> => ValidateChain(Log)
  BY NeverEarlier, ConnectedEarlier DEF ValidInv, ReplayInv, FaultKinds
<1>1. CASE OpenExisting /\ up' /\ Whole /\ chain' = Log
  <2>1. ~up /\ chain' # <<>>
    BY <1>0, <1>1, StoreStep DEF OpenExisting, StoreInv
  <2> QED
    BY <1>0, <1>1, <2>1
<1>2. CASE up' /\ chain' = <<Genesis>>
  BY <1>2, GenesisReplays
<1>3. CASE ~up' /\ Log' = <<Genesis>>
  BY <1>3, GenesisReplays
<1>4. CASE \E b \in Block : CanAdd(b) /\ Extend(b) /\ up'
  <2>1. PICK b \in Block : CanAdd(b) /\ Extend(b) /\ up'
    BY <1>4
  <2>2. up /\ chain' = Append(chain, b)
    BY <2>1 DEF CanAdd, Extend
  <2>3. ValidateChain(Append(chain, b))
    BY <1>0, <2>1, <2>2, ValidAppend
  <2> QED
    BY <2>1, <2>2, <2>3
<1>5. CASE ~up' /\ chain' = chain /\ \E b \in Block : CanAdd(b) /\ Log' = Append(Log, b)
  <2>1. PICK b \in Block : CanAdd(b) /\ Log' = Append(Log, b)
    BY <1>5
  <2>2. up
    BY <2>1 DEF CanAdd
  <2>3. Log \in Seq(Entry)
    BY <1>0, <2>2, OpenLog
  <2>4. Whole' => Whole
    BY <2>1, <2>3, WholeAppend DEF Entry
  <2>5. ASSUME Whole' PROVE ValidateChain(Log')
    <3>1. Log = chain
      BY <1>0, <2>2, <2>4, <2>5, OpenLog
    <3>2. ValidateChain(Append(chain, b))
      BY <1>0, <2>1, <2>2, ValidAppend
    <3> QED
      BY <2>1, <3>1, <3>2
  <2> QED
    BY <1>5, <2>5
<1>6. CASE chain' = chain /\ files' = files /\ (up' => up)
  <2>1. Log' = Log /\ Whole' = Whole
    BY <1>6 DEF Whole, Log
  <2>2. CASE up
    <3>1. Whole => Log = chain
      BY <1>0, <2>2, OpenLog
    <3> QED
      BY <1>0, <1>6, <2>1, <2>2, <3>1
  <2>3. CASE ~up
    BY <1>0, <1>6, <2>1, <2>3
  <2> QED
    BY <2>2, <2>3
<1>7. CASE \E b \in Block : CanAdd(b) /\ ~up' /\ UNCHANGED memory /\ Fault("crash")
                              /\ (files' = files \/ Log' = Append(Log, b))
  BY <1>5, <1>6, <1>7 DEF memory
<1>8. ~Fault("store")
  BY NeverEarlier DEF ValidInv, ReplayInv, FaultKinds
<1> QED
  BY <1>0, <1>1, <1>2, <1>3, <1>4, <1>6, <1>7, <1>8, LogStep

(* The open chain passes ValidateChain, also after it was read back by     *)
(* Load, which checks nothing, unless StoreBlock failed or a tip was       *)
(* disconnected.                                                           *)
THEOREM ChainAlwaysValid == Spec => []ChainIsValid
<1>1. ValidInv => ChainIsValid
  BY DEF ValidInv, ChainIsValid
<1> QED
  BY <1>1, ValidInit, ValidStep, PTL DEF Spec

-----------------------------------------------------------------------------
(* The index and the block files. *)

BehindInv == StoreInv /\ IndexBehindFiles

(* A file that is written where there was none hides no other. *)
LEMMA FilesGrow ==
    ASSUME StoreInv, disconnects = 0, NEW b \in Block, CanAdd(b),
           files' = [files EXCEPT ![b.height] = b]
    PROVE  \A s \in SUBSET Block : s \subseteq Range(files) => s \cup {b} \subseteq Range(files')
<1>1. files \in Files /\ up /\ b.height = Len(chain) /\ b.height \in Heights /\ Len(chain) \in Nat
  BY AddsNext
<1>2. files[b.height] = NoFile
  BY <1>1 DEF StoreInv
<1>3. files'[b.height] = b /\ DOMAIN files' = Heights
      /\ \A h \in Heights \ {b.height} : files'[h] = files[h]
  BY <1>1 DEF Files
<1>4. ASSUME NEW x \in Block, x \in Range(files) PROVE x \in Range(files')
  <2>1. PICK h \in Heights : x = files[h]
    BY <1>1, <1>4 DEF Range, Files
  <2>2. h # b.height
    BY <1>2, <2>1, FileAssumption
  <2> QED
    BY <1>3, <2>1, <2>2 DEF Range
<1>5. b \in Range(files')
  BY <1>1, <1>3 DEF Range
<1> QED
  BY <1>4, <1>5

LEMMA BehindInit == Init => BehindInv
BY StoreInit DEF Init, BehindInv, IndexBehindFiles

LEMMA BehindStep == BehindInv /\ [Next]_vars => BehindInv'
<1> SUFFICES ASSUME BehindInv, [Next]_vars, Never("flush")', disconnects' = 0
             PROVE  /\ rows' \subseteq Range(files')
                    /\ up' => index'.known \subseteq Range(files')
  BY StoreStep DEF BehindInv, IndexBehindFiles
<1>0. /\ StoreInv /\ TypeInv /\ disconnects = 0 /\ ~DisconnectTip /\ ~Fault("flush")
      /\ rows \subseteq Range(files) /\ rows \subseteq Block /\ index.known \subseteq Block
      /\ up => index.known \subseteq Range(files)
  BY NeverEarlier, ConnectedEarlier
  DEF BehindInv, IndexBehindFiles, StoreInv, TypeInv, TypeOK, IsIndex, FaultKinds
<1>1. CASE OpenExisting
  <2>1. index'.known = rows /\ rows' = rows /\ files' = files
    BY <1>1 DEF OpenExisting, disk, LoadedIndexes
  <2> QED
    BY <1>0, <2>1
<1>2. CASE OpenFresh \/ OpenFreshFails
  <2>1. files[0] = NoFile /\ files' = [files EXCEPT ![0] = Genesis]
    BY <1>0, <1>2 DEF OpenFresh, OpenFreshFails
  <2>2. rows = {}
    <3>1. \A h \in DOMAIN files : files[h] = NoFile
      BY <1>0, <2>1 DEF StoreInv, TypeInv, TypeOK
    <3> QED
      BY <1>0, <3>1, FileAssumption DEF Range
  <2>3. Genesis \in Range(files')
    <3>1. 0 \in DOMAIN files' /\ files'[0] = Genesis
      BY <1>0, <2>1, BoundsAssumption DEF TypeInv, TypeOK, Heights
    <3> QED
      BY <3>1 DEF Range
  <2>4. CASE OpenFresh
    <3>1. PICK loaded \in LoadedIndexes(rows) : index' = WithBlock(loaded, Genesis)
      BY <2>4 DEF OpenFresh
    <3>2. index'.known = {Genesis} /\ rows' = index'.known
      BY <2>2, <2>4, <3>1 DEF OpenFresh, LoadedIndexes, WithBlock
    <3> QED
      BY <2>3, <3>2
  <2>5. CASE OpenFreshFails
    BY <2>2, <2>3, <2>5 DEF OpenFreshFails
  <2> QED
    BY <1>2, <2>4, <2>5
<1>3. CASE AddAnyBlock
  <2>0. PICK b \in Block : \/ AddBlock(b)
                           \/ AddBlockStoreFails(b)
                           \/ AddBlockSaveFails(b)
                           \/ AddBlockCrashes(b)
                           \/ AddBlockTears(b)
    BY <1>3 DEF AddAnyBlock
  <2>1. ASSUME files' = [files EXCEPT ![b.height] = b], CanAdd(b)
        PROVE  /\ rows \subseteq Range(files')
               /\ WithBlock(index, b).known \subseteq Range(files')
    <3>1. \A s \in SUBSET Block : s \subseteq Range(files) => s \cup {b} \subseteq Range(files')
      BY <1>0, <2>1, FilesGrow
    <3>2. up
      BY <2>1 DEF CanAdd
    <3>3. WithBlock(index, b).known = index.known \cup {b}
      BY DEF WithBlock
    <3> QED
      BY <1>0, <3>1, <3>2, <3>3
  <2>2. CASE AddBlock(b)
    BY <2>1, <2>2 DEF AddBlock, Extend
  <2>3. CASE AddBlockSaveFails(b)
    BY <2>1, <2>3 DEF AddBlockSaveFails, Extend
  <2>4. CASE AddBlockStoreFails(b)
    <3>1. PICK left \in {files[b.height], NoFile} : files' = [files EXCEPT ![b.height] = left]
      BY <2>4 DEF AddBlockStoreFails
    <3>2. files' = files
      BY <1>0, <2>4, <3>1, LeftLog DEF AddBlockStoreFails
    <3> QED
      BY <1>0, <2>4, <3>2 DEF AddBlockStoreFails
  <2>5. CASE AddBlockCrashes(b)
    <3>1. CASE \E left \in {files[b.height], NoFile} : files' = [files EXCEPT ![b.height] = left]
      <4>1. files' = files
        BY <1>0, <2>5, <3>1, LeftLog DEF AddBlockCrashes
      <4>2. CASE rows' = rows
        BY <1>0, <2>5, <4>1, <4>2 DEF AddBlockCrashes
      <4>3. CASE files' = [files EXCEPT ![b.height] = b]
        BY <2>1, <2>5, <4>3 DEF AddBlockCrashes
      <4> QED
        BY <2>5, <4>2, <4>3 DEF AddBlockCrashes
    <3>2. CASE files' = [files EXCEPT ![b.height] = b]
      BY <1>0, <2>1, <2>5, <3>2 DEF AddBlockCrashes
    <3> QED
      BY <2>5, <3>1, <3>2 DEF AddBlockCrashes
  <2>6. CASE AddBlockTears(b)
    BY <1>0, <2>6 DEF AddBlockTears
  <2> QED
    BY <2>0, <2>2, <2>3, <2>4, <2>5, <2>6
<1>4. CASE Exit \/ (\E tx \in Tx : AddTransactionToMempool(tx)) \/ UNCHANGED vars
  BY <1>0, <1>4 DEF Exit, AddTransactionToMempool, vars, memory, disk
<1> QED
  BY <1>0, <1>1, <1>2, <1>3, <1>4 DEF Next

(* The index, in memory and in its file, knows no block whose file was not *)
(* written, wherever a process is stopped.                                 *)
THEOREM IndexStaysBehind == Spec => []IndexBehindFiles
<1>1. BehindInv => IndexBehindFiles
  BY DEF BehindInv
<1> QED
  BY <1>1, BehindInit, BehindStep, PTL DEF Spec

-----------------------------------------------------------------------------
(* The index is the chain.                                                 *)

IndexInv ==
    /\ StoreInv
    /\ Never("save") /\ Never("crash") /\ disconnects = 0 =>
          /\ rows = Range(chain)
          /\ Whole => Log = chain
          /\ up => /\ index.known = Range(chain)
                   /\ index.at = [h \in 0 .. Len(chain) - 1 |-> chain[h + 1]]
                   /\ index.tip = Tip(chain)

(* The rows of a chain whose blocks have the heights of their positions    *)
(* can be read back in one way only.                                       *)
LEMMA LoadedIsChain ==
    ASSUME NEW c \in Seq(Block), c # <<>>, \A n \in DOMAIN c : c[n].height = n - 1,
           NEW loaded \in LoadedIndexes(Range(c))
    PROVE  /\ loaded.known = Range(c)
           /\ loaded.at = [h \in 0 .. Len(c) - 1 |-> c[h + 1]]
           /\ loaded.tip = Tip(c)
<1> DEFINE heights == {b.height : b \in Range(c)}
<1>1. Len(c) \in Nat /\ Len(c) # 0 /\ DOMAIN c = 1 .. Len(c)
  OBVIOUS
<1>2. heights = 0 .. Len(c) - 1
  <2>1. \A h \in heights : h \in 0 .. Len(c) - 1
    BY <1>1 DEF Range
  <2>2. ASSUME NEW h \in 0 .. Len(c) - 1 PROVE h \in heights
    <3>1. h + 1 \in DOMAIN c /\ c[h + 1].height = h
      BY <1>1
    <3>2. c[h + 1] \in Range(c)
      BY <3>1 DEF Range
    <3> QED
      BY <3>1, <3>2
  <2> QED
    BY <2>1, <2>2
<1>3. Range(c) # {}
  <2>1. c[1] \in Range(c)
    BY <1>1 DEF Range
  <2> QED
    BY <2>1
<1>4. /\ loaded.known = Range(c)
      /\ loaded.at \in [heights -> Range(c)]
      /\ \A h \in heights : loaded.at[h].height = h
      /\ loaded.tip \in Range(c)
      /\ loaded.tip # NoBlock =>
            /\ loaded.tip = loaded.at[loaded.tip.height]
            /\ \A h \in heights : h <= loaded.tip.height
  BY <1>3 DEF LoadedIndexes
<1> HIDE DEF heights
<1>5. ASSUME NEW h \in 0 .. Len(c) - 1 PROVE loaded.at[h] = c[h + 1]
  <2>1. loaded.at[h] \in Range(c) /\ loaded.at[h].height = h
    BY <1>2, <1>4
  <2>2. PICK n \in DOMAIN c : loaded.at[h] = c[n]
    BY <2>1 DEF Range
  <2>3. n - 1 = h
    BY <2>1, <2>2
  <2>4. n = h + 1
    BY <1>1, <2>3
  <2> QED
    BY <2>2, <2>4
<1>6. loaded.at = [h \in 0 .. Len(c) - 1 |-> c[h + 1]]
  BY <1>2, <1>4, <1>5
<1>7. loaded.tip = c[Len(c)]
  <2>1. PICK n \in DOMAIN c : loaded.tip = c[n]
    BY <1>4 DEF Range
  <2>2. loaded.tip # NoBlock /\ loaded.tip.height = n - 1
    BY <1>1, <2>1, NoBlockAssumption
  <2>3. Len(c) - 1 \in heights
    BY <1>1, <1>2
  <2>4. Len(c) - 1 <= n - 1
    BY <1>4, <2>2, <2>3
  <2>5. n = Len(c)
    BY <1>1, <2>4
  <2> QED
    BY <2>1, <2>5
<1> QED
  BY <1>4, <1>6, <1>7 DEF Tip

(* A block on top goes into all three parts. *)
LEMMA WithBlockIsChain ==
    ASSUME NEW c \in Seq(Block), c # <<>>, c[Len(c)].height = Len(c) - 1,
           NEW i, i.known = Range(c), i.at = [h \in 0 .. Len(c) - 1 |-> c[h + 1]], i.tip = Tip(c),
           NEW b \in Block, b.height = Len(c)
    PROVE  LET new == Append(c, b)
           IN  /\ WithBlock(i, b).known = Range(new)
               /\ WithBlock(i, b).at = [h \in 0 .. Len(new) - 1 |-> new[h + 1]]
               /\ WithBlock(i, b).tip = Tip(new)
<1> DEFINE new == Append(c, b)
<1>1. /\ Len(c) \in Nat /\ Len(c) # 0 /\ DOMAIN c = 1 .. Len(c)
      /\ Len(new) = Len(c) + 1 /\ DOMAIN new = 1 .. Len(c) + 1
      /\ \A n \in 1 .. Len(c) : new[n] = c[n]
      /\ new[Len(c) + 1] = b
  OBVIOUS
<1> HIDE DEF new
<1>2. Range(new) = Range(c) \cup {b}
  BY <1>1 DEF Range
<1>3. WithBlock(i, b).at = [h \in 0 .. Len(c) |-> new[h + 1]]
  <2>1. DOMAIN i.at = 0 .. Len(c) - 1
    OBVIOUS
  <2>2. DOMAIN i.at \cup {b.height} = 0 .. Len(c)
    BY <1>1, <2>1
  <2>3. ASSUME NEW h \in 0 .. Len(c)
        PROVE  (IF h = b.height THEN b ELSE i.at[h]) = new[h + 1]
    <3>1. CASE h = Len(c)
      BY <1>1, <3>1
    <3>2. CASE h # Len(c)
      <4>1. h \in 0 .. Len(c) - 1 /\ h + 1 \in 1 .. Len(c)
        <5>1. Len(c) \in Nat /\ h \in 0 .. Len(c) /\ h # Len(c)
          BY <1>1, <3>2
        <5> HIDE DEF new
        <5> QED
          BY ONLY <5>1
      <4>2. i.at[h] = c[h + 1]
        BY <4>1
      <4> QED
        BY <1>1, <3>2, <4>1, <4>2
    <3> QED
      BY <3>1, <3>2
  <2>4. WithBlock(i, b).at = [h \in DOMAIN i.at \cup {b.height} |->
                                IF h = b.height THEN b ELSE i.at[h]]
    BY DEF WithBlock
  <2>5. WithBlock(i, b).at = [h \in 0 .. Len(c) |-> IF h = b.height THEN b ELSE i.at[h]]
    BY <2>2, <2>4
  <2> QED
    BY <2>3, <2>5
<1>4. WithBlock(i, b).tip = b
  <2>1. b.height >= i.tip.height
    BY <1>1 DEF Tip
  <2> QED
    BY <2>1 DEF WithBlock
<1>5. Len(new) - 1 = Len(c)
  BY <1>1
<1> QED
  BY <1>1, <1>2, <1>3, <1>4, <1>5 DEF WithBlock, Tip, new

LEMMA IndexInit == Init => IndexInv
<1>1. ASSUME Init PROVE chain = <<>> /\ rows = {} /\ ~up
  BY <1>1 DEF Init
<1>2. Range(<<>>) = {}
  BY DEF Range
<1> QED
  BY <1>1, <1>2, StoreInit, NothingStored DEF IndexInv

LEMMA IndexStep == IndexInv /\ [Next]_vars => IndexInv'
<1> SUFFICES ASSUME IndexInv, [Next]_vars,
                    Never("save")', Never("crash")', disconnects' = 0
             PROVE  /\ rows' = Range(chain')
                    /\ Whole' => Log' = chain'
                    /\ up' => /\ index'.known = Range(chain')
                              /\ index'.at = [h \in 0 .. Len(chain') - 1 |-> chain'[h + 1]]
                              /\ index'.tip = Tip(chain')
  BY StoreStep DEF IndexInv
<1>0. /\ StoreInv /\ TypeInv /\ chain \in Seq(Block)
      /\ disconnects = 0 /\ ~DisconnectTip /\ ~Fault("save") /\ ~Fault("crash")
      /\ rows = Range(chain)
      /\ Whole => Log = chain
      /\ up => /\ index.known = Range(chain)
               /\ index.at = [h \in 0 .. Len(chain) - 1 |-> chain[h + 1]]
               /\ index.tip = Tip(chain)
  BY NeverEarlier, ConnectedEarlier DEF IndexInv, StoreInv, TypeInv, TypeOK, FaultKinds
<1>1. CASE OpenExisting
  <2>1. /\ Whole /\ chain' = Log /\ files' = files /\ rows' = rows /\ up'
        /\ index' \in LoadedIndexes(rows)
    BY <1>1 DEF OpenExisting, CanLoad, Whole, Log, disk
  <2>2. chain' = chain /\ Log' = Log
    BY <1>0, <2>1 DEF Log
  <2>3. /\ \A n \in DOMAIN chain : chain[n].height = n - 1
        /\ chain # <<>>
    BY <1>0, <2>1, <2>2, StoreStep DEF StoreInv
  <2>4. /\ index'.known = Range(chain)
        /\ index'.at = [h \in 0 .. Len(chain) - 1 |-> chain[h + 1]]
        /\ index'.tip = Tip(chain)
    BY <1>0, <2>1, <2>3, LoadedIsChain
  <2> QED
    BY <1>0, <2>1, <2>2, <2>4
<1>2. CASE OpenFresh
  <2>1. chain = <<>>
    <3> SUFFICES ASSUME chain # <<>> PROVE FALSE
      OBVIOUS
    <3>1. 1 \in DOMAIN chain /\ chain[1] \in Block
      BY <1>0
    <3>2. files[1 - 1] \in {chain[1], Torn} /\ files[0] = NoFile
      BY <1>0, <1>2, <3>1 DEF StoreInv, OpenFresh
    <3> QED
      BY <3>1, <3>2, FileAssumption
  <2>2. rows = {}
    BY <1>0, <2>1 DEF Range
  <2>3. PICK loaded \in LoadedIndexes(rows) : index' = WithBlock(loaded, Genesis)
    BY <1>2 DEF OpenFresh
  <2>4. loaded.known = {} /\ DOMAIN loaded.at = {} /\ loaded.tip = NoBlock
    BY <2>2 DEF LoadedIndexes
  <2>5. Genesis.height = 0 /\ chain' = <<Genesis>> /\ rows' = index'.known
    BY <1>2, GenesisAssumption DEF OpenFresh
  <2>6. /\ index'.known = {Genesis}
        /\ index'.at = [h \in {0} |-> Genesis]
        /\ index'.tip = Genesis
    <3>1. DOMAIN loaded.at \cup {Genesis.height} = {0}
      BY <2>4, <2>5
    <3>2. index'.at = [h \in DOMAIN loaded.at \cup {Genesis.height} |->
                          IF h = Genesis.height THEN Genesis ELSE loaded.at[h]]
      BY <2>3 DEF WithBlock
    <3>3. index'.at = [h \in {0} |-> IF h = Genesis.height THEN Genesis ELSE loaded.at[h]]
      BY <3>1, <3>2
    <3>4. index'.at = [h \in {0} |-> Genesis]
      BY <2>5, <3>3
    <3> QED
      BY <2>3, <2>4, <3>4 DEF WithBlock
  <2>7. /\ Range(<<Genesis>>) = {Genesis} /\ Tip(<<Genesis>>) = Genesis
        /\ Len(<<Genesis>>) = 1
    BY DEF Range, Tip
  <2>8. [h \in 0 .. Len(<<Genesis>>) - 1 |-> <<Genesis>>[h + 1]] = [h \in {0} |-> Genesis]
    <3>1. 0 .. Len(<<Genesis>>) - 1 = {0}
      BY <2>7
    <3>2. [h \in {0} |-> <<Genesis>>[h + 1]] = [h \in {0} |-> Genesis]
      OBVIOUS
    <3> QED
      BY <3>1, <3>2
  <2>9. Whole' => Log' = chain'
    <3>1. Log' = <<Genesis>> \/ Log' = <<Torn>>
      <4>1. PICK x \in {Genesis, Torn} : files' = [files EXCEPT ![0] = x]
        BY <1>2 DEF OpenFresh
      <4>2. Log' = <<x>>
        BY <1>0, <1>2, <4>1, FreshLog DEF OpenFresh
      <4> QED
        BY <4>2
    <3>2. Log' = <<Torn>> => ~Whole'
      BY DEF Whole
    <3> QED
      BY <2>5, <3>1, <3>2
  <2> QED
    BY <2>5, <2>6, <2>7, <2>8, <2>9
<1>3. CASE \E b \in Block : AddBlock(b) \/ AddBlockTears(b)
  <2>1. PICK b \in Block : /\ CanAdd(b) /\ Extend(b) /\ rows' = index'.known
                           /\ \E x \in {b, Torn} : files' = [files EXCEPT ![b.height] = x]
    BY <1>3 DEF AddBlock, AddBlockTears
  <2>2. PICK x \in {b, Torn} : files' = [files EXCEPT ![b.height] = x]
    BY <2>1
  <2>3. /\ Log' = Append(Log, x) /\ up
        /\ chain' = Append(chain, b) /\ index' = WithBlock(index, b)
    BY <1>0, <2>1, <2>2, WrittenLog DEF Extend, CanAdd
  <2>4. /\ b.height = Len(chain) /\ Len(chain) \in Nat /\ Len(chain) # 0
        /\ chain # <<>>
    BY <1>0, <2>1, AddsNext
  <2>5. chain[Len(chain)].height = Len(chain) - 1
    BY <1>0, <2>4 DEF StoreInv
  <2>6. /\ index'.known = Range(chain')
        /\ index'.at = [h \in 0 .. Len(chain') - 1 |-> chain'[h + 1]]
        /\ index'.tip = Tip(chain')
    BY <1>0, <2>3, <2>4, <2>5, WithBlockIsChain
  <2>7. Whole' => Log' = chain'
    <3>1. Log \in Seq(Entry) /\ x \in Entry
      BY <1>0, <2>3, OpenLog DEF Entry
    <3>2. Whole' <=> Whole /\ x # Torn
      BY <2>3, <3>1, WholeAppend
    <3> QED
      BY <1>0, <2>3, <3>2
  <2> QED
    BY <2>1, <2>6, <2>7
<1>4. CASE \E b \in Block : AddBlockStoreFails(b)
  <2>1. PICK b \in Block : AddBlockStoreFails(b)
    BY <1>4
  <2>2. PICK left \in {files[b.height], NoFile} : files' = [files EXCEPT ![b.height] = left]
    BY <2>1 DEF AddBlockStoreFails
  <2>3. files' = files
    BY <1>0, <2>1, <2>2, LeftLog DEF AddBlockStoreFails
  <2>4. UNCHANGED <<up, chain, index, rows>>
    BY <2>1 DEF AddBlockStoreFails
  <2>5. Log' = Log /\ Whole' = Whole
    BY <2>3 DEF Log, Whole
  <2> QED
    BY <1>0, <2>4, <2>5
<1>5. CASE Exit \/ (\E tx \in Tx : AddTransactionToMempool(tx)) \/ UNCHANGED vars
  <2>1. UNCHANGED <<chain, index, files, rows>> /\ (up' => up)
    BY <1>5 DEF Exit, AddTransactionToMempool, vars, memory, disk
  <2>2. Log' = Log /\ Whole' = Whole
    BY <2>1 DEF Log, Whole
  <2> QED
    BY <1>0, <2>1, <2>2
<1>6. ~OpenFreshFails /\ \A b \in Block : ~AddBlockSaveFails(b) /\ ~AddBlockCrashes(b)
  BY <1>0 DEF OpenFreshFails, AddBlockSaveFails, AddBlockCrashes
<1> QED
  BY <1>0, <1>1, <1>2, <1>3, <1>4, <1>5, <1>6 DEF Next, AddAnyBlock

(* Unless writing the index failed, a process was stopped inside AddBlock  *)
(* or a tip was disconnected, the index is the chain: its blocks, their    *)
(* heights and its tip, also after both were read back from their files.   *)
THEOREM IndexIsChain == Spec => []IndexMatchesChain
<1>1. IndexInv => IndexMatchesChain
  BY DEF IndexInv, IndexMatchesChain
<1> QED
  BY <1>1, IndexInit, IndexStep, PTL DEF Spec

-----------------------------------------------------------------------------
(* What is spendable was minted: in memory, because every block was        *)
(* checked against the view and the supply it was added to; and in what    *)
(* Load would read, because a replay has minted no more below a block than *)
(* the process that added it had, so that the block may claim no less.     *)

WorthInv ==
    /\ StoreInv
    /\ disconnects = 0 =>
          /\ IsSound(utxos)
          /\ Worth(DOMAIN utxos) <= minted
          /\ Whole => /\ AllPaid(Log)
                      /\ up => RebuildUTXO(Log).minted <= minted

(* What Load would read is a sequence of blocks unless a file is torn. *)
LEMMA WholeLog ==
    ASSUME StoreInv, Whole
    PROVE  Log \in Seq(Block)
<1>1. files \in Files
  BY DEF StoreInv, TypeInv, TypeOK, Files, Entry
<1>2. Log \in Seq(Entry)
  BY <1>1, StoredLength DEF Log
<1>3. \A i \in 1 .. Len(Log) : Log[i] \in Block
  BY <1>2 DEF Whole, Entry
<1> QED
  BY <1>2, <1>3

(* A block that AddBlock takes is paid for, in memory and in a replay.     *)
LEMMA AddsWorth ==
    ASSUME WorthInv, disconnects = 0, NEW b \in Block, CanAdd(b)
    PROVE  /\ IsSound(Connected(b).utxos)
           /\ Worth(DOMAIN Connected(b).utxos) <= Connected(b).minted
           /\ minted <= Connected(b).minted
           /\ Whole => /\ AllPaid(Append(Log, b))
                       /\ RebuildUTXO(Append(Log, b)).minted <= Connected(b).minted
<1> DEFINE s == [utxos |-> utxos, minted |-> minted]
<1>0. /\ StoreInv /\ up
      /\ IsSound(utxos) /\ IsView(utxos) /\ Worth(DOMAIN utxos) <= minted
      /\ IsSupply(minted) /\ b.height \in Nat /\ CoinbaseSum(b) \in Nat
      /\ ValidateBlock(chain, utxos, minted, b)
  BY BlockAssumption, OutputSumType
  DEF WorthInv, StoreInv, TypeInv, TypeOK, CanAdd
<1>1. IsPaid(b, minted)
  <2>1. FeesOK(b, utxos) /\ SubsidyOK(b, minted, Fees(b, utxos))
    BY <1>0 DEF ValidateBlock, ConsensusOK
  <2>2. Fees(b, utxos) = FeesOf(b)
    BY <1>0, <2>1, FeesAreFees
  <2> QED
    BY <2>1, <2>2 DEF SubsidyOK, IsPaid
<1>2. Connected(b) = ConnectBlock(s, b) /\ Connected(b).ok
  BY DEF Connected, CanAdd
<1>3. s.utxos = utxos /\ s.minted = minted
  OBVIOUS
<1>4. /\ ConnectTxs(utxos, b).ok
      /\ Connected(b).minted = minted + AtMost(CoinbaseSum(b), Subsidy(b.height, minted))
  BY <1>2 DEF Connected, ConnectBlock
<1> HIDE DEF s
<1>5. /\ IsSound(Connected(b).utxos)
      /\ Worth(DOMAIN Connected(b).utxos) <= Connected(b).minted
      /\ minted <= Connected(b).minted
  BY <1>0, <1>1, <1>2, <1>3, ConnectWorth
<1>6. FeesOf(b) \in Nat
  BY <1>0, <1>4, BlockWorth
<1>7. ASSUME Whole
      PROVE  /\ AllPaid(Append(Log, b))
             /\ RebuildUTXO(Append(Log, b)).minted <= Connected(b).minted
  <2> DEFINE below == RebuildUTXO(Log)
             new == Append(Log, b)
  <2>1. Log \in Seq(Block) /\ AllPaid(Log) /\ below.minted <= minted
    BY <1>0, <1>7, WholeLog DEF WorthInv
  <2>2. IsLedgerState(below)
    BY <2>1, RebuildType
  <2>3. IsSupply(below.minted)
    BY <2>2 DEF IsLedgerState
  <2> DEFINE m == below.minted
  <2>4. /\ Subsidy(b.height, minted) <= Subsidy(b.height, m)
        /\ m + AtMost(CoinbaseSum(b), Subsidy(b.height, m))
              <= minted + AtMost(CoinbaseSum(b), Subsidy(b.height, minted))
    <3> HIDE DEF m, below
    <3>1. IsSupply(m) /\ m <= minted
      BY <2>1, <2>3 DEF m
    <3> QED
      BY <1>0, <3>1, SubsidyFalls
  <2>5. IsPaid(b, m)
    <3>1. Subsidy(b.height, minted) \in Nat /\ Subsidy(b.height, m) \in Nat
      <4> HIDE DEF m, below
      <4>1. IsSupply(m)
        BY <2>3 DEF m
      <4> QED
        BY <1>0, <4>1, SubsidyBound
    <3> HIDE DEF m, below
    <3> QED
      BY <1>0, <1>1, <1>6, <2>4, <3>1 DEF IsPaid
  <2>6. AllPaid(new)
    <3>1. /\ Len(new) = Len(Log) + 1 /\ new[Len(Log) + 1] = b
          /\ \A n \in 1 .. Len(Log) : new[n] = Log[n]
      BY <2>1
    <3>2. \A n \in 1 .. Len(Log) + 1 : SubSeq(new, 1, n - 1) = SubSeq(Log, 1, n - 1)
      BY <2>1
    <3>3. Replayed(Log, Len(Log)) = below
      BY <2>1, ReplayedAll
    <3>4. Len(Log) \in Nat
      BY <2>1
    <3>5. ASSUME NEW n \in 1 .. Len(new) PROVE IsPaid(new[n], Replayed(new, n - 1).minted)
      <4>1. Replayed(new, n - 1) = Replayed(Log, n - 1)
        BY <3>1, <3>2 DEF Replayed
      <4>2. CASE n \in 1 .. Len(Log)
        BY <2>1, <3>1, <4>1, <4>2 DEF AllPaid
      <4>3. CASE n = Len(Log) + 1
        <5>1. n - 1 = Len(Log)
          BY <3>4, <4>3
        <5> HIDE DEF new
        <5> QED
          BY <2>5, <3>1, <3>3, <4>1, <4>3, <5>1
      <4> QED
        BY <3>1, <3>4, <4>2, <4>3
    <3> HIDE DEF new
    <3> QED
      BY <3>5 DEF AllPaid
  <2>7. RebuildUTXO(new).minted <= Connected(b).minted
    <3>1. RebuildUTXO(new) = ReplayStep(below, b)
      BY <2>1, RebuildAppend
    <3>2. CASE below.ok /\ ConnectBlock(below, b).ok
      <4>1. RebuildUTXO(new).minted = m + AtMost(CoinbaseSum(b), Subsidy(b.height, m))
        BY <3>1, <3>2 DEF ReplayStep, ConnectBlock
      <4> QED
        BY <1>4, <2>4, <4>1
    <3>3. CASE ~(below.ok /\ ConnectBlock(below, b).ok)
      <4>1. RebuildUTXO(new).minted = below.minted
        BY <3>1, <3>3 DEF ReplayStep, ConnectBlock
      <4>2. below.minted \in Nat /\ minted \in Nat /\ Connected(b).minted \in Nat
        <5>1. AtMost(CoinbaseSum(b), Subsidy(b.height, minted)) \in Nat
          BY <1>0, SubsidyBound DEF AtMost
        <5> QED
          BY <1>0, <1>4, <2>3, <5>1 DEF IsSupply
      <4> HIDE DEF below, new
      <4> QED
        BY <1>5, <2>1, <4>1, <4>2
    <3> QED
      BY <3>2, <3>3
  <2> QED
    BY <2>6, <2>7
<1> QED
  BY <1>5, <1>7

LEMMA WorthInit == Init => WorthInv
<1>1. ASSUME Init PROVE WorthInv
  <2>1. utxos = NoUTXOs /\ minted = 0 /\ ~up
    BY <1>1 DEF Init
  <2>2. Log = <<>> /\ StoreInv
    BY <1>1, NothingStored, StoreInit
  <2>3. AllPaid(<<>>)
    BY DEF AllPaid
  <2> QED
    BY <2>1, <2>2, <2>3, NoUTXOsSound DEF WorthInv
<1> QED
  BY <1>1

LEMMA WorthStep == WorthInv /\ [Next]_vars => WorthInv'
<1> SUFFICES ASSUME WorthInv, [Next]_vars, disconnects' = 0
             PROVE  /\ IsSound(utxos')
                    /\ Worth(DOMAIN utxos') <= minted'
                    /\ Whole' => /\ AllPaid(Log')
                                 /\ up' => RebuildUTXO(Log').minted <= minted'
  BY StoreStep DEF WorthInv
<1>0. /\ StoreInv /\ disconnects = 0
      /\ IsSound(utxos) /\ Worth(DOMAIN utxos) <= minted
      /\ Whole => AllPaid(Log) /\ (up => RebuildUTXO(Log).minted <= minted)
      /\ minted \in Nat
  BY ConnectedEarlier DEF WorthInv, StoreInv, TypeInv, TypeOK
<1>g. /\ <<Genesis>> \in Seq(Block) /\ AllPaid(<<Genesis>>) /\ RebuildUTXO(<<Genesis>>).ok
      /\ IsLedgerState(RebuildUTXO(<<Genesis>>))
  <2>1. <<Genesis>> \in Seq(Block)
    BY GenesisAssumption
  <2>2. IsLedgerState(RebuildUTXO(<<Genesis>>))
    BY <2>1, RebuildType
  <2> QED
    BY <2>1, <2>2, GenesisPaid, GenesisReplays
<1>1. CASE OpenExisting /\ Whole /\ files' = files
  <2>1. /\ RebuildUTXO(Log).ok
        /\ utxos' = RebuildUTXO(Log).utxos
        /\ minted' = RebuildUTXO(Log).minted
        /\ Log' = Log /\ Whole' = Whole
    BY <1>1 DEF OpenExisting, CanLoad, Log, Whole
  <2>2. Log \in Seq(Block)
    BY <1>0, <1>1, WholeLog
  <2>3. /\ IsSound(RebuildUTXO(Log).utxos)
        /\ Worth(DOMAIN RebuildUTXO(Log).utxos) <= RebuildUTXO(Log).minted
    BY <1>0, <1>1, <2>1, <2>2, ReplayWorth
  <2>4. IsLedgerState(RebuildUTXO(Log))
    BY <2>2, RebuildType
  <2>5. RebuildUTXO(Log).minted \in Nat
    BY <2>4 DEF IsLedgerState, IsSupply
  <2> QED
    BY <1>0, <1>1, <2>1, <2>3, <2>5
<1>2. CASE OpenFresh /\ (Log' = <<Genesis>> \/ Log' = <<Torn>>)
  <2>1. /\ utxos' = RebuildUTXO(<<Genesis>>).utxos
        /\ minted' = RebuildUTXO(<<Genesis>>).minted
    BY <1>2 DEF OpenFresh
  <2>2. /\ IsSound(RebuildUTXO(<<Genesis>>).utxos)
        /\ Worth(DOMAIN RebuildUTXO(<<Genesis>>).utxos) <= RebuildUTXO(<<Genesis>>).minted
    BY <1>g, ReplayWorth
  <2>3. Log' = <<Torn>> => ~Whole'
    BY DEF Whole
  <2>4. RebuildUTXO(<<Genesis>>).minted \in Nat
    BY <1>g DEF IsLedgerState, IsSupply
  <2> QED
    BY <1>2, <1>g, <2>1, <2>2, <2>3, <2>4
<1>3. CASE ~up' /\ UNCHANGED memory /\ Log' = <<Genesis>>
  BY <1>0, <1>3, <1>g DEF memory
<1>4. ASSUME NEW b \in Block, CanAdd(b), Log' = Append(Log, b),
             (utxos' = Connected(b).utxos /\ minted' = Connected(b).minted)
                 \/ (~up' /\ UNCHANGED memory)
      PROVE  /\ IsSound(utxos')
             /\ Worth(DOMAIN utxos') <= minted'
             /\ Whole' => /\ AllPaid(Log')
                          /\ up' => RebuildUTXO(Log').minted <= minted'
  <2>1. /\ IsSound(Connected(b).utxos)
        /\ Worth(DOMAIN Connected(b).utxos) <= Connected(b).minted
        /\ Whole => /\ AllPaid(Append(Log, b))
                    /\ RebuildUTXO(Append(Log, b)).minted <= Connected(b).minted
    BY <1>0, <1>4, AddsWorth
  <2>2. up /\ Log \in Seq(Entry)
    BY <1>0, <1>4, OpenLog DEF CanAdd
  <2>3. Whole' => Whole
    BY <1>4, <2>2, WholeAppend DEF Entry
  <2> QED
    BY <1>0, <1>4, <2>1, <2>3 DEF memory
<1>5. ASSUME NEW b \in Block, CanAdd(b), Log' = Append(Log, Torn), Extend(b)
      PROVE  /\ IsSound(utxos')
             /\ Worth(DOMAIN utxos') <= minted'
             /\ ~Whole'
  <2>1. up /\ Log \in Seq(Entry)
    BY <1>0, <1>5, OpenLog DEF CanAdd
  <2>2. ~Whole'
    BY <1>5, <2>1, WholeAppend DEF Entry
  <2>3. /\ IsSound(Connected(b).utxos)
        /\ Worth(DOMAIN Connected(b).utxos) <= Connected(b).minted
    BY <1>0, <1>5, AddsWorth
  <2> QED
    BY <1>5, <2>2, <2>3 DEF Extend
<1>6. ASSUME NEW b \in Block, CanAdd(b), files' = files,
             utxos' = Connected(b).utxos, minted' = Connected(b).minted
      PROVE  /\ IsSound(utxos')
             /\ Worth(DOMAIN utxos') <= minted'
             /\ Whole' => AllPaid(Log') /\ RebuildUTXO(Log').minted <= minted'
  <2>1. Log' = Log /\ Whole' = Whole /\ up
    BY <1>6 DEF Log, Whole, CanAdd
  <2>2. /\ IsSound(Connected(b).utxos)
        /\ Worth(DOMAIN Connected(b).utxos) <= Connected(b).minted
        /\ minted <= Connected(b).minted
    BY <1>0, <1>6, AddsWorth
  <2>3. ASSUME Whole PROVE RebuildUTXO(Log).minted <= Connected(b).minted
    <3>1. Log \in Seq(Block)
      BY <1>0, <2>3, WholeLog
    <3>2. IsLedgerState(RebuildUTXO(Log)) /\ IsView(utxos) /\ IsSupply(minted)
      BY <1>0, <3>1, RebuildType DEF StoreInv, TypeInv, TypeOK
    <3>3. IsSupply(Connected(b).minted)
      BY <3>2, ConnectedType
    <3> QED
      BY <1>0, <2>1, <2>2, <2>3, <3>2, <3>3 DEF IsLedgerState, IsSupply
  <2> QED
    BY <1>0, <1>6, <2>1, <2>2, <2>3
<1>7. CASE UNCHANGED <<utxos, minted, files>> /\ (up' => up)
  <2>1. Log' = Log /\ Whole' = Whole
    BY <1>7 DEF Log, Whole
  <2> QED
    BY <1>0, <1>7, <2>1
<1>8. CASE \E b \in Block : CanAdd(b) /\ Extend(b) /\ (Log' = Append(Log, b) \/ Log' = Append(Log, Torn))
  BY <1>4, <1>5, <1>8 DEF Extend
<1>9. CASE \E b \in Block : CanAdd(b) /\ ~up' /\ UNCHANGED memory
                              /\ (files' = files \/ Log' = Append(Log, b))
  BY <1>4, <1>7, <1>9 DEF memory
<1>10. CASE \E b \in Block : CanAdd(b) /\ UNCHANGED <<chain, files>>
                               /\ utxos' = Connected(b).utxos /\ minted' = Connected(b).minted
  BY <1>6, <1>10
<1> QED
  BY <1>0, <1>1, <1>2, <1>3, <1>7, <1>8, <1>9, <1>10, LogStep

(* What is spendable never exceeds what was minted, whatever the blocks    *)
(* claim and pay in fees and whichever call fails, until a tip is          *)
(* disconnected.                                                           *)
THEOREM UnspentWasMinted == Spec => []UnspentWithinMinted
<1>1. WorthInv => UnspentWithinMinted
  <2> SUFFICES ASSUME IsSound(utxos), Worth(DOMAIN utxos) <= minted
               PROVE  UnspentSum <= minted
    BY DEF WorthInv, UnspentWithinMinted
  <2> DEFINE amounts == [o \in DOMAIN utxos |-> utxos[o].amount]
  <2>1. DOMAIN utxos \in SUBSET DOMAIN utxos
    OBVIOUS
  <2>2. IsFiniteSet(DOMAIN utxos) /\ \A o \in DOMAIN utxos : Amount[o] \in Nat
    BY <2>1, WorthType
  <2>3. \A o \in DOMAIN utxos : amounts[o] \in Int /\ amounts[o] = Amount[o]
    BY <2>2 DEF IsSound
  <2>4. UnspentSum = SumFunctionOnSet(amounts, DOMAIN utxos)
    BY DEF UnspentSum, SumFunction
  <2> HIDE DEF amounts
  <2>5. SumFunctionOnSet(amounts, DOMAIN utxos) = SumFunctionOnSet(Amount, DOMAIN utxos)
    BY <2>2, <2>3, SumSame
  <2> QED
    BY <2>4, <2>5 DEF Worth
<1> QED
  BY <1>1, WorthInit, WorthStep, PTL DEF Spec

-----------------------------------------------------------------------------
(* The whole history of the open chain: what was spent, and when.          *)

(* What the replay needs to know of the blocks, in memory and on disk,     *)
(* since Load does not look.                                               *)
BasicInv ==
    /\ StoreInv
    /\ \A n \in DOMAIN chain : BlockBasic(chain[n])
    /\ \A h \in Heights : files[h] \in Block => BlockBasic(files[h])

LEMMA BasicInit == Init => BasicInv
<1>1. ASSUME Init PROVE BasicInv
  <2>1. chain = <<>> /\ files = [h \in Heights |-> NoFile] /\ StoreInv
    BY <1>1, StoreInit DEF Init
  <2> QED
    BY <2>1, FileAssumption DEF BasicInv
<1> QED
  BY <1>1

(* Only blocks that Block::ValidateBasic accepts are written. *)
LEMMA WrittenIsBasic ==
    ASSUME BasicInv, [Next]_vars
    PROVE  \/ files' = files
           \/ \E k \in Heights, x \in Entry \cup {NoFile} :
                 /\ x \in Block => BlockBasic(x)
                 /\ files' = [files EXCEPT ![k] = x]
<1>t. TypeInv
  BY DEF BasicInv, StoreInv
<1>0. /\ files \in [Heights -> Entry \cup {NoFile}] /\ 0 \in Heights
      /\ Genesis \in Entry /\ Torn \in Entry
      /\ Torn \notin Block /\ NoFile \notin Block
  BY <1>t, BoundsAssumption, GenesisAssumption, FileAssumption
  DEF TypeInv, TypeOK, Entry, Heights
<1>g. BlockBasic(Genesis)
  BY GenesisConnects DEF ConsensusOK
<1>1. ASSUME NEW b \in Block, CanAdd(b)
      PROVE  b.height \in Heights /\ b \in Entry /\ BlockBasic(b)
  BY <1>1, AddsNext DEF BasicInv, CanAdd, ValidateBlock, ConsensusOK
<1>2. ASSUME NEW k \in Heights
      PROVE  \A x \in {files[k], NoFile, Torn} : x \in Entry \cup {NoFile} /\ (x \in Block => BlockBasic(x))
  BY <1>0 DEF BasicInv
<1>3. CASE OpenFresh \/ OpenFreshFails
  <2>1. PICK x \in {Genesis, Torn} : files' = [files EXCEPT ![0] = x]
    BY <1>3 DEF OpenFresh, OpenFreshFails
  <2> QED
    BY <1>0, <1>g, <2>1
<1>4. CASE AddAnyBlock
  <2>1. PICK b \in Block : \/ AddBlock(b)
                           \/ AddBlockStoreFails(b)
                           \/ AddBlockSaveFails(b)
                           \/ AddBlockCrashes(b)
                           \/ AddBlockTears(b)
    BY <1>4 DEF AddAnyBlock
  <2>2. CanAdd(b)
    BY <2>1 DEF AddBlock, AddBlockStoreFails, AddBlockSaveFails, AddBlockCrashes, AddBlockTears
  <2>3. \E x \in {b, files[b.height], NoFile, Torn} : files' = [files EXCEPT ![b.height] = x]
    BY <2>1 DEF AddBlock, AddBlockStoreFails, AddBlockSaveFails, AddBlockCrashes, AddBlockTears
  <2> QED
    BY <1>1, <1>2, <2>2, <2>3
<1>5. CASE OpenExisting \/ Exit \/ DisconnectTip \/ (\E tx \in Tx : AddTransactionToMempool(tx))
           \/ UNCHANGED vars
  BY <1>5 DEF OpenExisting, Exit, DisconnectTip, AddTransactionToMempool, disk, vars
<1> QED
  BY <1>3, <1>4, <1>5 DEF Next

LEMMA BasicStep == BasicInv /\ [Next]_vars => BasicInv'
<1> SUFFICES ASSUME BasicInv, [Next]_vars PROVE BasicInv'
  OBVIOUS
<1>t. TypeInv
  BY DEF BasicInv, StoreInv
<1>f. /\ files \in Files /\ files \in [Heights -> Entry \cup {NoFile}] /\ chain \in Seq(Block)
      /\ MaxHeight \in Nat /\ Heights = 0 .. MaxHeight
  BY <1>t, BoundsAssumption DEF TypeInv, TypeOK, Files, Entry, Heights
<1>0. /\ files \in Files /\ files \in [Heights -> Entry \cup {NoFile}] /\ chain \in Seq(Block)
      /\ \A n \in DOMAIN chain : BlockBasic(chain[n])
      /\ \A h \in Heights : files[h] \in Block => BlockBasic(files[h])
      /\ MaxHeight \in Nat /\ Heights = 0 .. MaxHeight
  BY <1>f DEF BasicInv
<1>g. BlockBasic(Genesis) /\ StoreInv'
  BY StoreStep, GenesisConnects DEF BasicInv, ConsensusOK
<1>1. \A h \in Heights : files'[h] \in Block => BlockBasic(files'[h])
  <2>1. CASE files' = files
    BY <1>0, <2>1
  <2>2. CASE \E k \in Heights, x \in Entry \cup {NoFile} :
                 /\ x \in Block => BlockBasic(x)
                 /\ files' = [files EXCEPT ![k] = x]
    BY <1>0, <2>2
  <2> QED
    BY <2>1, <2>2, WrittenIsBasic
<1>2. \A n \in DOMAIN chain' : BlockBasic(chain'[n])
  <2>1. CASE OpenExisting
    <3> DEFINE new == StoredBlocks(files)
    <3>1. chain' = new /\ \A i \in DOMAIN new : new[i] # Torn
      BY <2>1 DEF OpenExisting, CanLoad
    <3>2. /\ Len(new) \in Nat /\ Len(new) <= MaxHeight + 1
          /\ new = [i \in 1 .. Len(new) |-> files[i - 1]]
          /\ \A h \in Heights : h < Len(new) => files[h] # NoFile
      BY <1>0, StoredLength
    <3> HIDE DEF new
    <3>3. ASSUME NEW n \in DOMAIN new PROVE BlockBasic(new[n])
      <4>1. n \in 1 .. Len(new) /\ n - 1 \in Heights /\ n - 1 < Len(new) /\ new[n] = files[n - 1]
        BY <1>0, <3>2, <3>3
      <4>2. files[n - 1] # Torn /\ files[n - 1] # NoFile /\ files[n - 1] \in Entry \cup {NoFile}
        BY <1>0, <3>1, <3>2, <4>1
      <4> QED
        BY <1>0, <4>1, <4>2 DEF Entry
    <3> QED
      BY <3>1, <3>3
  <2>2. CASE OpenFresh
    <3>1. chain' = <<Genesis>>
      BY <2>2 DEF OpenFresh
    <3>2. \A n \in DOMAIN <<Genesis>> : <<Genesis>>[n] = Genesis
      OBVIOUS
    <3> QED
      BY <1>g, <3>1, <3>2
  <2>3. CASE AddAnyBlock
    <3>1. chain' = chain \/ \E b \in Block : CanAdd(b) /\ chain' = Append(chain, b)
      BY <2>3 DEF AddAnyBlock, AddBlock, AddBlockStoreFails, AddBlockSaveFails,
                  AddBlockCrashes, AddBlockTears, Extend, memory
    <3>2. ASSUME NEW b \in Block, CanAdd(b), chain' = Append(chain, b),
                 NEW n \in DOMAIN chain'
          PROVE  BlockBasic(chain'[n])
      <4>1. BlockBasic(b)
        BY <3>2 DEF CanAdd, ValidateBlock, ConsensusOK
      <4>2. (n \in DOMAIN chain /\ chain'[n] = chain[n]) \/ chain'[n] = b
        BY <1>0, <3>2
      <4> QED
        BY <1>0, <4>1, <4>2
    <3> QED
      BY <1>0, <3>1, <3>2
  <2>4. CASE DisconnectTip
    <3>1. chain' = SubSeq(chain, 1, Len(chain) - 1)
      BY <2>4 DEF DisconnectTip
    <3>2. \A n \in DOMAIN chain' : n \in DOMAIN chain /\ chain'[n] = chain[n]
      BY <1>0, <3>1
    <3> QED
      BY <1>0, <3>2
  <2>5. CASE OpenFreshFails \/ Exit \/ (\E tx \in Tx : AddTransactionToMempool(tx))
             \/ UNCHANGED vars
    <3>1. chain' = chain
      BY <2>5 DEF OpenFreshFails, Exit, AddTransactionToMempool, vars, memory
    <3> QED
      BY <1>0, <3>1
  <2> QED
    BY <2>1, <2>2, <2>3, <2>4, <2>5 DEF Next
<1> QED
  BY <1>g, <1>1, <1>2 DEF BasicInv

HistoryInv == BasicInv /\ ReplayInv

LEMMA HistoryInvariant == Spec => []HistoryInv
<1>1. Init => HistoryInv
  BY BasicInit, ReplayInit DEF HistoryInv
<1>2. HistoryInv /\ [Next]_vars => HistoryInv'
  BY BasicStep, ReplayInvStep DEF HistoryInv
<1> QED
  BY <1>1, <1>2, PTL DEF Spec

(* The chain replays, so the history of the replay is its own. *)
LEMMA HistoryOfChain ==
    ASSUME HistoryInv, Never("store")
    PROVE  /\ chain \in Seq(Block) /\ IsBasic(chain)
           /\ History(chain, Places(chain), utxos)
<1>1. /\ chain \in Seq(Block) /\ RebuildUTXO(chain).ok /\ utxos = RebuildUTXO(chain).utxos
      /\ IsBasic(chain)
  BY DEF HistoryInv, BasicInv, StoreInv, TypeInv, TypeOK, ReplayInv, IsReplay, IsBasic
<1> QED
  BY <1>1, HistoryOf

(* Whatever a block of the chain spends of a coinbase was at least         *)
(* Maturity blocks old: by then and ever after, over disconnected tips,    *)
(* crashes and restarts.                                                   *)
THEOREM CoinbasesWereMature == Spec => []CoinbasesMature
<1>1. ASSUME HistoryInv, Never("store"), NEW n \in DOMAIN chain, NEW i \in 2 .. Len(chain[n].txs),
             NEW m \in 1 .. n, Spends(chain[n].txs[i]) \cap Creates(chain[m].txs[1]) # {}
      PROVE  chain[n].height >= chain[m].height + Maturity
  <2>1. chain \in Seq(Block) /\ IsBasic(chain) /\ Matured(chain, Places(chain), utxos)
    BY <1>1, HistoryOfChain DEF History
  <2>2. /\ n \in 1 .. Len(chain) /\ m \in 1 .. Len(chain) /\ m \in DOMAIN chain
        /\ n \in Nat /\ m \in Nat /\ m <= n /\ i # 1
    BY <2>1
  <2>3. Len(chain[n].txs) \in Nat /\ chain[m].txs # <<>> /\ chain[m].txs \in Seq(Tx)
    BY <2>1, <2>2, BlockAssumption DEF IsBasic, BlockBasic
  <2>4. i \in 1 .. Len(chain[n].txs) /\ 1 \in 1 .. Len(chain[m].txs)
    BY <2>3
  <2> DEFINE p == <<n, i>>
             q == <<m, 1>>
  <2>5. p \in Places(chain) /\ q \in Places(chain)
    BY <2>2, <2>4 DEF Places
  <2>6. /\ p[1] = n /\ p[2] = i /\ q[1] = m /\ q[2] = 1
        /\ TxAt(chain, p) = chain[n].txs[i] /\ TxAt(chain, q) = chain[m].txs[1]
    BY DEF TxAt
  <2> HIDE DEF p, q
  <2>7. n >= m + Maturity
    BY <1>1, <2>1, <2>2, <2>5, <2>6 DEF Matured
  <2>8. chain[n].height = n - 1 /\ chain[m].height = m - 1
    BY <2>1, <2>2 DEF IsBasic
  <2> QED
    BY <2>2, <2>7, <2>8, ParamsAssumption
<1>2. HistoryInv => CoinbasesMature
  BY <1>1 DEF CoinbasesMature
<1> QED
  BY <1>2, HistoryInvariant, PTL

(* No outpoint is spent twice in the chain, over disconnected tips,        *)
(* crashes and restarts, as long as no two of its blocks have the same     *)
(* coinbase, which no rule of the code forbids and run coinbase_again      *)
(* shows.                                                                  *)
THEOREM SpentOnlyOnce == Spec => [](CoinbasesDiffer(chain) => OutpointSpentOnce)
<1>1. ASSUME HistoryInv, Never("store"), CoinbasesDiffer(chain),
             NEW p \in UNION {{n} \X (2 .. Len(chain[n].txs)) : n \in DOMAIN chain},
             NEW q \in UNION {{n} \X (2 .. Len(chain[n].txs)) : n \in DOMAIN chain},
             p # q
      PROVE  Spends(chain[p[1]].txs[p[2]]) \cap Spends(chain[q[1]].txs[q[2]]) = {}
  <2>1. chain \in Seq(Block) /\ SpentOnce(chain, Places(chain), utxos)
    BY <1>1, HistoryOfChain DEF History
  <2>2. ASSUME NEW r \in UNION {{n} \X (2 .. Len(chain[n].txs)) : n \in DOMAIN chain}
        PROVE  r \in Places(chain) /\ r[2] # 1
    <3>1. PICK n \in DOMAIN chain : r \in {n} \X (2 .. Len(chain[n].txs))
      OBVIOUS
    <3>2. Len(chain[n].txs) \in Nat
      BY <2>1, BlockAssumption
    <3>3. r \in {n} \X (1 .. Len(chain[n].txs)) /\ r[2] # 1
      BY <3>1, <3>2
    <3> QED
      BY <3>3 DEF Places
  <2>3. Spends(TxAt(chain, p)) \cap Spends(TxAt(chain, q)) = {}
    BY <1>1, <2>1, <2>2 DEF SpentOnce
  <2> QED
    BY <2>3 DEF TxAt
<1>2. HistoryInv => (CoinbasesDiffer(chain) => OutpointSpentOnce)
  BY <1>1 DEF OutpointSpentOnce
<1> QED
  BY <1>2, HistoryInvariant, PTL

-----------------------------------------------------------------------------
(* What is in the mempool: the transactions are well formed, their fees    *)
(* are those that their outpoints and outputs give in any view, and they   *)
(* could be mined now.                                                     *)

PooledInv ==
    /\ WorthInv
    /\ IsFiniteSet(Entries(pool))
    /\ \A tx \in Entries(pool) : ~tx.coinbase /\ ValidateBasic(tx)
    /\ disconnects = 0 =>
          \A tx \in Entries(pool) : pool.fee[tx] = FeeOf(tx) /\ FeeOf(tx) \in Nat
    /\ PoolIsMinable

(* What has matured stays mature. *)
LEMMA CoverLater ==
    ASSUME NEW view, IsView(view), NEW tx, NEW h \in Nat, NEW k \in Nat, h <= k,
           InputsCover(view, tx, h)
    PROVE  InputsCover(view, tx, k)
<1>1. ASSUME NEW o \in Spends(tx) PROVE IsSpendable(view[o], k)
  <2>1. view[o] \in UTXO /\ IsSpendable(view[o], h)
    BY DEF InputsCover, IsView
  <2>2. view[o].height \in Nat /\ Maturity \in Nat
    BY <2>1, ParamsAssumption DEF UTXO
  <2> QED
    BY <2>1, <2>2 DEF IsSpendable
<1> QED
  BY <1>1 DEF InputsCover

(* The height of the tip of an open chain. *)
LEMMA TipHeight ==
    ASSUME StoreInv, up
    PROVE  /\ chain \in Seq(Block) /\ Len(chain) \in Nat /\ Len(chain) # 0
           /\ Height(chain) = Len(chain) - 1
           /\ TipHash(chain) = chain[Len(chain)].id
<1>1. chain \in Seq(Block) /\ chain # <<>>
  BY DEF StoreInv, TypeInv, TypeOK
<1>2. Len(chain) \in DOMAIN chain /\ Len(chain) \in Nat /\ Len(chain) # 0
  BY <1>1
<1>3. chain[Len(chain)].height = Len(chain) - 1
  BY <1>2 DEF StoreInv
<1> QED
  BY <1>1, <1>2, <1>3 DEF Height, TipHash, Tip

(* A transaction that a block neither contains nor overtakes is covered by *)
(* the view after the block, if it was by the one before.                  *)
LEMMA CoveredAfter ==
    ASSUME NEW b \in Block, NEW view, IsView(view), ConnectTxs(view, b).ok,
           NEW tx, NEW h, InputsCover(view, tx, h),
           \A i \in 2 .. Len(b.txs) : Spends(b.txs[i]) \cap Spends(tx) = {}
    PROVE  /\ InputsCover(ConnectTxs(view, b).view, tx, h)
           /\ InputSum(ConnectTxs(view, b).view, tx) = InputSum(view, tx)
<1> DEFINE new == ConnectTxs(view, b).view
<1>1. ASSUME NEW o \in Spends(tx) PROVE o \in DOMAIN new /\ new[o] = view[o]
  <2>1. o \in DOMAIN view /\ \A i \in 2 .. Len(b.txs) : o \notin Spends(b.txs[i])
    BY DEF InputsCover
  <2> QED
    BY <2>1, UntouchedStays
<1> HIDE DEF new
<1>2. [o \in Spends(tx) |-> new[o].amount] = [o \in Spends(tx) |-> view[o].amount]
  BY <1>1
<1>3. InputSum(new, tx) = InputSum(view, tx)
  BY <1>2 DEF InputSum
<1>4. InputsCover(new, tx, h)
  BY <1>1, <1>3 DEF InputsCover
<1> QED
  BY <1>3, <1>4 DEF new

(* An entry that stays when a block is added, and is not overtaken by it,  *)
(* can still be mined.                                                     *)
LEMMA StaysMinable ==
    ASSUME StoreInv, PoolIsMinable, Never("store"), disconnects = 0,
           NEW b \in Block, CanAdd(b), Extend(b),
           NEW tx, tx \in Entries(pool), tx \in Entries(pool'), ~Overtaken(tx)'
    PROVE  /\ InputsCover(utxos', tx, Height(chain') + 1)
           /\ pool.fee[tx] = InputSum(utxos', tx) - OutputSum(tx)
<1>1. /\ chain \in Seq(Block) /\ Len(chain) \in Nat /\ Len(chain) # 0
      /\ b.height = Len(chain) /\ up /\ IsView(utxos)
      /\ Height(chain) = Len(chain) - 1
  BY AddsNext, TipHeight DEF StoreInv, TypeInv, TypeOK
<1>2. /\ chain' = Append(chain, b)
      /\ Len(chain') = Len(chain) + 1
      /\ chain'[Len(chain) + 1] = b
      /\ DOMAIN chain' = 1 .. Len(chain) + 1
      /\ \A n \in DOMAIN chain : n \in DOMAIN chain' /\ chain'[n] = chain[n]
  BY <1>1 DEF Extend
<1>3. ConnectTxs(utxos, b).ok /\ utxos' = ConnectTxs(utxos, b).view
  BY DEF CanAdd, Extend, Connected, ConnectBlock
<1>4. ~Overtaken(tx)
  <2>1. \A n \in DOMAIN chain' : \A i \in 2 .. Len(chain'[n].txs) :
            ~(chain'[n].txs[i] # tx /\ Spends(chain'[n].txs[i]) \cap Spends(tx) # {})
    BY DEF Overtaken
  <2> QED
    BY <1>2, <2>1 DEF Overtaken
<1>5. ASSUME NEW i \in 2 .. Len(b.txs) PROVE Spends(b.txs[i]) \cap Spends(tx) = {}
  <2>1. b.txs[i] # tx
    <3>1. i \in DOMAIN b.txs
      BY BlockAssumption
    <3>2. \A j \in DOMAIN b.txs : b.txs[j].id # tx.id
      BY DEF Extend, WithoutConfirmed, Entries, Restrict
    <3> QED
      BY <3>1, <3>2
  <2>2. Len(chain) + 1 \in DOMAIN chain' /\ i \in 2 .. Len(chain'[Len(chain) + 1].txs)
    BY <1>1, <1>2
  <2>3. ~(chain'[Len(chain) + 1].txs[i] # tx
             /\ Spends(chain'[Len(chain) + 1].txs[i]) \cap Spends(tx) # {})
    BY <2>2 DEF Overtaken
  <2> QED
    BY <1>2, <2>1, <2>3
<1>6. /\ InputsCover(utxos, tx, Len(chain))
      /\ pool.fee[tx] = InputSum(utxos, tx) - OutputSum(tx)
  BY <1>1, <1>4 DEF PoolIsMinable
<1>7. /\ InputsCover(utxos', tx, Len(chain))
      /\ InputSum(utxos', tx) = InputSum(utxos, tx)
  BY <1>1, <1>3, <1>5, <1>6, CoveredAfter
<1>8. IsView(utxos')
  BY ConnectedType DEF StoreInv, TypeInv, TypeOK, Extend
<1>9. Height(chain') + 1 = Len(chain) + 1
  BY <1>1, <1>2 DEF Height, Tip
<1>10. InputsCover(utxos', tx, Len(chain) + 1)
  BY <1>1, <1>7, <1>8, CoverLater
<1> QED
  BY <1>6, <1>7, <1>9, <1>10

LEMMA PooledInit == Init => PooledInv
<1>1. ASSUME Init PROVE PooledInv
  <2>1. WorthInv /\ ~up
    BY <1>1, WorthInit DEF Init
  <2>2. Entries(pool) = {}
    BY <1>1 DEF Init, EmptyPool, Entries
  <2> QED
    BY <2>1, <2>2, FS_EmptySet DEF PooledInv, PoolIsMinable
<1> QED
  BY <1>1

LEMMA PooledStep == PooledInv /\ [Next]_vars => PooledInv'
<1> SUFFICES ASSUME PooledInv, [Next]_vars PROVE PooledInv'
  OBVIOUS
<1>0. /\ WorthInv /\ WorthInv' /\ StoreInv /\ StoreInv' /\ TypeInv
      /\ IsFiniteSet(Entries(pool))
      /\ \A tx \in Entries(pool) : ~tx.coinbase /\ ValidateBasic(tx)
      /\ disconnects = 0 =>
             \A tx \in Entries(pool) : pool.fee[tx] = FeeOf(tx) /\ FeeOf(tx) \in Nat
      /\ PoolIsMinable
  BY WorthStep DEF PooledInv, WorthInv, StoreInv
<1>e. /\ disconnects' = 0 => disconnects = 0
      /\ Never("store")' => Never("store") /\ ~Fault("store")
  BY <1>0, NeverEarlier, ConnectedEarlier DEF FaultKinds
<1>1. CASE pool' = EmptyPool
  <2>1. Entries(pool') = {}
    BY <1>1 DEF EmptyPool, Entries
  <2> QED
    BY <1>0, <2>1, FS_EmptySet DEF PooledInv, PoolIsMinable, Entries
<1>2. CASE /\ pool' = pool
           /\ up' /\ Never("store")' /\ disconnects' = 0 => up /\ UNCHANGED <<chain, utxos>>
  <2>1. PoolIsMinable'
    <3> SUFFICES ASSUME up', Never("store")', disconnects' = 0 PROVE PoolIsMinable'
      BY DEF PoolIsMinable
    <3>1. up /\ Never("store") /\ disconnects = 0 /\ chain' = chain /\ utxos' = utxos
      BY <1>2, <1>e
    <3> QED
      BY <1>0, <1>2, <3>1 DEF PoolIsMinable, Overtaken
  <2> QED
    BY <1>0, <1>2, <1>e, <2>1 DEF PooledInv, Entries
<1>3. ASSUME NEW b \in Block, CanAdd(b), Extend(b) PROVE PooledInv'
  <2>1. /\ Entries(pool') \subseteq Entries(pool)
        /\ \A tx \in Entries(pool') : pool'.fee[tx] = pool.fee[tx]
    BY <1>3 DEF Extend, WithoutConfirmed, Entries, Restrict
  <2>2. IsFiniteSet(Entries(pool'))
    BY <1>0, <2>1, FS_Subset
  <2>3. ASSUME up', Never("store")', disconnects' = 0,
               NEW tx \in Entries(pool'), ~Overtaken(tx)'
        PROVE  /\ InputsCover(utxos', tx, Height(chain') + 1)
               /\ pool'.fee[tx] = InputSum(utxos', tx) - OutputSum(tx)
    <3>1. Never("store") /\ disconnects = 0 /\ tx \in Entries(pool)
      BY <1>e, <2>1, <2>3
    <3> QED
      BY <1>0, <1>3, <2>1, <2>3, <3>1, StaysMinable
  <2>4. PoolIsMinable'
    BY <2>3 DEF PoolIsMinable
  <2> QED
    BY <1>0, <1>e, <2>1, <2>2, <2>4 DEF PooledInv, Entries
<1>4. ASSUME NEW tx \in Tx, AddTransactionToMempool(tx) PROVE PooledInv'
  <2>1. /\ up /\ Accepts(pool, tx, utxos, Height(chain))
        /\ pool' = WithTransaction(pool, tx, utxos)
        /\ UNCHANGED <<up, chain, utxos, faults, disconnects>>
    BY <1>4 DEF AddTransactionToMempool
  <2>2. /\ Entries(pool') = Entries(pool) \cup {tx}
        /\ pool'.fee[tx] = InputSum(utxos, tx) - OutputSum(tx)
        /\ \A t \in Entries(pool) \ {tx} : pool'.fee[t] = pool.fee[t]
    BY <2>1 DEF WithTransaction, Entries
  <2>3. ~tx.coinbase /\ ValidateBasic(tx) /\ InputsCover(utxos, tx, Height(chain))
    BY <2>1 DEF Accepts
  <2>4. IsFiniteSet(Entries(pool'))
    BY <1>0, <2>2, FS_AddElement
  <2>5. InputsCover(utxos, tx, Height(chain) + 1)
    <3>1. Height(chain) \in Nat /\ IsView(utxos)
      BY <1>0, <2>1, TipHeight DEF StoreInv, TypeInv, TypeOK
    <3> QED
      BY <2>3, <3>1, CoverLater
  <2>6. ASSUME disconnects = 0
        PROVE  pool'.fee[tx] = FeeOf(tx) /\ FeeOf(tx) \in Nat
    <3>1. IsSound(utxos) /\ Spends(tx) \subseteq DOMAIN utxos
      BY <1>0, <2>3, <2>6 DEF WorthInv, InputsCover
    <3>2. InputSum(utxos, tx) = Worth(Spends(tx)) /\ Worth(Spends(tx)) \in Nat
      BY <3>1, InputSumWorth
    <3>3. OutputSum(tx) \in Nat /\ InputSum(utxos, tx) >= OutputSum(tx)
      BY <2>3, OutputSumType DEF InputsCover
    <3> QED
      BY <2>2, <3>2, <3>3 DEF FeeOf
  <2>7. PoolIsMinable'
    <3> SUFFICES ASSUME up', Never("store")', disconnects' = 0,
                        NEW t \in Entries(pool'), ~Overtaken(t)'
                 PROVE  /\ InputsCover(utxos', t, Height(chain') + 1)
                        /\ pool'.fee[t] = InputSum(utxos', t) - OutputSum(t)
      BY DEF PoolIsMinable
    <3>1. chain' = chain /\ utxos' = utxos /\ Never("store") /\ disconnects = 0
      BY <1>e, <2>1
    <3>2. CASE t = tx
      BY <2>2, <2>5, <3>1, <3>2
    <3>3. CASE t # tx
      <4>1. t \in Entries(pool) /\ ~Overtaken(t)
        BY <2>2, <3>1, <3>3 DEF Overtaken
      <4> QED
        BY <1>0, <2>1, <2>2, <3>1, <3>3, <4>1 DEF PoolIsMinable
    <3> QED
      BY <3>2, <3>3
  <2>8. disconnects' = 0 =>
            \A t \in Entries(pool') : pool'.fee[t] = FeeOf(t) /\ FeeOf(t) \in Nat
    BY <1>0, <1>e, <2>2, <2>6
  <2>9. \A t \in Entries(pool') : ~t.coinbase /\ ValidateBasic(t)
    BY <1>0, <2>2, <2>3
  <2> QED
    BY <1>0, <2>4, <2>7, <2>8, <2>9 DEF PooledInv
<1>5. CASE OpenExisting \/ OpenFresh
  BY <1>1, <1>5 DEF OpenExisting, OpenFresh
<1>6. CASE OpenFreshFails \/ Exit \/ UNCHANGED vars
  BY <1>2, <1>6 DEF OpenFreshFails, Exit, vars, memory
<1>7. CASE DisconnectTip
  <2>1. disconnects' # 0
    BY <1>0, <1>7, ConnectedEarlier
  <2> QED
    BY <1>2, <1>7, <2>1 DEF DisconnectTip
<1>8. CASE AddAnyBlock
  <2>1. PICK b \in Block : \/ AddBlock(b)
                           \/ AddBlockStoreFails(b)
                           \/ AddBlockSaveFails(b)
                           \/ AddBlockCrashes(b)
                           \/ AddBlockTears(b)
    BY <1>8 DEF AddAnyBlock
  <2>2. CASE AddBlock(b) \/ AddBlockSaveFails(b) \/ AddBlockTears(b)
    BY <1>3, <2>2 DEF AddBlock, AddBlockSaveFails, AddBlockTears
  <2>3. CASE AddBlockStoreFails(b)
    BY <1>2, <1>e, <2>3 DEF AddBlockStoreFails
  <2>4. CASE AddBlockCrashes(b)
    BY <1>2, <2>4 DEF AddBlockCrashes, memory
  <2> QED
    BY <2>1, <2>2, <2>3, <2>4
<1> QED
  BY <1>4, <1>5, <1>6, <1>7, <1>8 DEF Next

(* What the mempool holds could be mined now, as long as no block has      *)
(* taken an input of it.                                                   *)
THEOREM PooledCanBeMined == Spec => []PoolIsMinable
<1>1. PooledInv => PoolIsMinable
  BY DEF PooledInv
<1> QED
  BY <1>1, PooledInit, PooledStep, PTL DEF Spec

-----------------------------------------------------------------------------
(* What the miner takes from the mempool, and what it makes of it.         *)

(* A sequence that fits is taken as a whole. *)
LEMMA TakenWhole ==
    ASSUME NEW n \in Nat, n <= MaxCount, NEW q \in [1 .. n -> Tx],
           SumFunctionOnSet([j \in 1 .. n |-> q[j].size], 1 .. n) <= MaxBytes
    PROVE  TakenFrom(q, MaxCount, MaxBytes) = q
<1> DEFINE size == [j \in 1 .. n |-> q[j].size]
           Bytes(i) == SumFunctionOnSet(size, 1 .. i)
           Taken(before, i) ==
               IF Len(before.txs) < MaxCount /\ before.bytes + q[i].size <= MaxBytes
               THEN [txs |-> Append(before.txs, q[i]), bytes |-> before.bytes + q[i].size]
               ELSE before
           IsTaken(t) == t = [i \in 0 .. Len(q) |-> IF i = 0 THEN [txs |-> <<>>, bytes |-> 0]
                                                    ELSE Taken(t[i - 1], i)]
           taken == CHOOSE t : IsTaken(t)
           whole == [i \in 0 .. n |-> [txs |-> SubSeq(q, 1, i), bytes |-> Bytes(i)]]
<1>1. /\ q \in Seq(Tx) /\ Len(q) = n /\ MaxCount \in Nat /\ MaxBytes \in Nat
      /\ \A j \in 1 .. n : q[j].size \in Nat /\ size[j] = q[j].size
  <2>1. \A j \in 1 .. n : q[j] \in Tx
    OBVIOUS
  <2>2. \A j \in 1 .. n : q[j].size \in Nat
    BY <2>1, TxAssumption
  <2> QED
    BY <2>2, LimitsAssumption
<1>2. TakenFrom(q, MaxCount, MaxBytes) = taken[Len(q)].txs
  BY DEF TakenFrom
<1>n. Bytes(n) <= MaxBytes
  OBVIOUS
<1>3. ASSUME NEW i \in 0 .. n PROVE Bytes(i) \in Nat /\ Bytes(i) <= MaxBytes
  <2>1. IsFiniteSet(1 .. n) /\ (1 .. i) \in SUBSET (1 .. n) /\ \A j \in 1 .. n : size[j] \in Nat
    BY <1>1, FS_Interval
  <2> HIDE DEF size
  <2>2. Bytes(i) \in Nat /\ Bytes(n) \in Nat /\ Bytes(i) <= Bytes(n)
    BY <2>1, SumMonotone
  <2> QED
    BY <1>1, <1>n, <2>2
<1>4. ASSUME NEW i \in 1 .. n PROVE Bytes(i) = Bytes(i - 1) + q[i].size
  <2>0. i \in Int /\ 1 \in Int /\ i \in 1 .. i /\ (1 .. i) \ {i} = 1 .. i - 1
    OBVIOUS
  <2>1. IsFiniteSet(1 .. i) /\ i \in 1 .. i /\ (1 .. i) \ {i} = 1 .. i - 1
    BY <2>0, FS_Interval
  <2>2. \A j \in 1 .. i : size[j] \in Int
    BY <1>1
  <2>3. size[i] = q[i].size /\ q[i].size \in Nat
    BY <1>1
  <2>4. Bytes(i - 1) \in Nat
    BY <1>3
  <2> HIDE DEF size
  <2>5. SumFunctionOnSet(size, 1 .. i) = size[i] + SumFunctionOnSet(size, (1 .. i) \ {i})
    BY <2>1, <2>2, SumRemove
  <2>6. Bytes(i) = size[i] + Bytes(i - 1)
    BY <2>1, <2>5
  <2> HIDE DEF Bytes
  <2> QED
    BY <2>3, <2>4, <2>6
<1>5. Bytes(0) = 0
  <2>1. 1 .. 0 = {}
    OBVIOUS
  <2> HIDE DEF size
  <2> QED
    BY <2>1, SumOfNothing
<1> HIDE DEF Bytes, size
<1>6. whole[0] = [txs |-> <<>>, bytes |-> 0]
  BY <1>1, <1>5
<1>7. ASSUME NEW i \in 1 .. n PROVE whole[i] = Taken(whole[i - 1], i)
  <2>1. i \in 0 .. n /\ i - 1 \in 0 .. n /\ i - 1 \in Nat
    OBVIOUS
  <2>2. /\ whole[i - 1].txs = SubSeq(q, 1, i - 1)
        /\ whole[i - 1].bytes = Bytes(i - 1)
        /\ whole[i] = [txs |-> SubSeq(q, 1, i), bytes |-> Bytes(i)]
    BY <2>1
  <2>3. /\ Len(SubSeq(q, 1, i - 1)) = i - 1
        /\ Append(SubSeq(q, 1, i - 1), q[i]) = SubSeq(q, 1, i)
    BY <1>1, <2>1
  <2>4. i - 1 < MaxCount
    BY <1>1, <2>1
  <2>5. Bytes(i - 1) + q[i].size = Bytes(i) /\ Bytes(i) <= MaxBytes
    BY <1>3, <1>4, <2>1
  <2> HIDE DEF whole
  <2> QED
    BY <2>2, <2>3, <2>4, <2>5
<1> HIDE DEF Taken
<1>8. IsTaken(whole)
  <2>1. ASSUME NEW i \in 0 .. n
        PROVE  whole[i] = IF i = 0 THEN [txs |-> <<>>, bytes |-> 0] ELSE Taken(whole[i - 1], i)
    <3>1. i = 0 \/ i \in 1 .. n
      OBVIOUS
    <3> HIDE DEF whole
    <3> QED
      BY <1>6, <1>7, <3>1
  <2>2. whole = [i \in 0 .. n |-> whole[i]]
    OBVIOUS
  <2> HIDE DEF whole
  <2> QED
    BY <1>1, <2>1, <2>2
<1>9. IsTaken(taken)
  <2> HIDE DEF whole, IsTaken
  <2> QED
    BY <1>8
<1> HIDE DEF taken, whole
<1> DEFINE Bad == {i \in 0 .. n : taken[i] # whole[i]}
<1>10. Bad = {}
  <2> SUFFICES ASSUME Bad # {} PROVE FALSE
    OBVIOUS
  <2>1. Bad \subseteq Nat
    OBVIOUS
  <2> HIDE DEF Bad
  <2>2. PICK i \in Bad : \A j \in Bad : i <= j
    BY <2>1, LeastNat
  <2> USE DEF Bad
  <2>3. i \in 0 .. n /\ taken[0] = [txs |-> <<>>, bytes |-> 0]
    BY <1>1, <1>9, <2>2
  <2>4. i \in 1 .. n /\ i - 1 \in 0 .. n /\ ~(i <= i - 1)
    BY <1>6, <2>2, <2>3
  <2>5. taken[i - 1] = whole[i - 1]
    BY <2>2, <2>4
  <2>6. taken[i] = Taken(taken[i - 1], i)
    BY <1>1, <1>9, <2>4
  <2> QED
    BY <1>7, <2>2, <2>4, <2>5, <2>6
<1>11. taken[n] = whole[n] /\ n \in 0 .. n
  BY <1>10
<1>12. whole[n].txs = SubSeq(q, 1, n)
  BY <1>11 DEF whole
<1>13. SubSeq(q, 1, n) = q
  BY <1>1
<1> QED
  BY <1>1, <1>2, <1>11, <1>12, <1>13 DEF taken

(* A sequence of members of E without repetitions. *)
OnceEach(s, E) ==
    \E m \in Nat : s \in [1 .. m -> E] /\ \A i, j \in 1 .. m : s[i] = s[j] => i = j

(* What is taken of one is one. *)
LEMMA TakenSome ==
    ASSUME NEW E, E \subseteq Tx, NEW n \in Nat, NEW q \in [1 .. n -> E],
           \A i, j \in 1 .. n : q[i] = q[j] => i = j
    PROVE  OnceEach(TakenFrom(q, MaxCount, MaxBytes), E)
<1> DEFINE Taking == [txs : Seq(E), bytes : Nat]
           base == [txs |-> <<>>, bytes |-> 0]
           Taken(before, i) ==
               IF Len(before.txs) < MaxCount /\ before.bytes + q[i].size <= MaxBytes
               THEN [txs |-> Append(before.txs, q[i]), bytes |-> before.bytes + q[i].size]
               ELSE before
           F == [p \in Taking \X (1 .. n) |-> Taken(p[1], p[2])]
           IsTaken(t) == t = [i \in 0 .. Len(q) |-> IF i = 0 THEN [txs |-> <<>>, bytes |-> 0]
                                                    ELSE Taken(t[i - 1], i)]
           taken == CHOOSE t : IsTaken(t)
<1>1. Len(q) = n /\ \A i \in 1 .. n : q[i] \in E /\ q[i].size \in Nat
  BY TxAssumption
<1>2. TakenFrom(q, MaxCount, MaxBytes) = taken[n].txs
  BY <1>1 DEF TakenFrom
<1>3. base \in Taking
  OBVIOUS
<1>4. ASSUME NEW x \in Taking, NEW i \in 1 .. n PROVE Taken(x, i) \in Taking
  <2>1. Append(x.txs, q[i]) \in Seq(E) /\ x.bytes + q[i].size \in Nat
    BY <1>1
  <2> QED
    BY <2>1
<1>5. IsStep(F, Taking, n) /\ \A x \in Taking : \A i \in 1 .. n : F[<<x, i>>] = Taken(x, i)
  BY <1>4 DEF IsStep
<1> HIDE DEF Taken, Taking, F, base
<1>6. PICK g : Iterates(g, F, Taking, n, base)
  BY <1>3, <1>5, RecursionExists
<1>7. g \in [0 .. n -> Taking] /\ g[0] = base /\ \A i \in 1 .. n : g[i] = F[<<g[i - 1], i>>]
  BY <1>6 DEF Iterates
<1>8. ASSUME NEW i \in 0 .. n PROVE g[i] = IF i = 0 THEN base ELSE Taken(g[i - 1], i)
  <2>1. CASE i = 0
    BY <1>7, <2>1
  <2>2. CASE i # 0
    <3>1. i \in 1 .. n /\ i - 1 \in 0 .. n
      BY <2>2
    <3> QED
      BY <1>5, <1>7, <2>2, <3>1
  <2> QED
    BY <2>1, <2>2
<1>9. IsTaken(g)
  BY <1>1, <1>7, <1>8 DEF base
<1>10. IsTaken(taken)
  <2> HIDE DEF IsTaken
  <2> QED
    BY <1>9
<1> HIDE DEF taken
<1>11. taken[0] = base /\ \A i \in 1 .. n : taken[i] = Taken(taken[i - 1], i)
  <2>1. 0 \in 0 .. n /\ \A i \in 1 .. n : i \in 0 .. n /\ i # 0
    OBVIOUS
  <2> QED
    BY <1>1, <1>10, <2>1 DEF base
<1> DEFINE Good(i) == /\ taken[i] \in Taking
                      /\ \A j \in DOMAIN taken[i].txs : \E k \in 1 .. i : taken[i].txs[j] = q[k]
                      /\ \A j, k \in DOMAIN taken[i].txs :
                            taken[i].txs[j] = taken[i].txs[k] => j = k
           Bad == {i \in 0 .. n : ~Good(i)}
<1>12. Good(0)
  BY <1>3, <1>11 DEF base
<1>13. ASSUME NEW i \in 1 .. n, Good(i - 1) PROVE Good(i)
  <2> DEFINE before == taken[i - 1]
             longer == Append(before.txs, q[i])
  <2>1. /\ before \in Taking
        /\ \A j \in DOMAIN before.txs : \E k \in 1 .. i - 1 : before.txs[j] = q[k]
        /\ \A j, k \in DOMAIN before.txs : before.txs[j] = before.txs[k] => j = k
    BY <1>13
  <2>2. taken[i] = Taken(before, i) /\ taken[i] \in Taking
    BY <1>4, <1>11, <2>1
  <2> HIDE DEF before
  <2>3. taken[i].txs = before.txs \/ taken[i].txs = longer
    BY <2>2 DEF Taken
  <2>4. /\ before.txs \in Seq(E) /\ Len(before.txs) \in Nat
        /\ DOMAIN before.txs = 1 .. Len(before.txs)
        /\ DOMAIN longer = 1 .. Len(before.txs) + 1
        /\ \A j \in 1 .. Len(before.txs) : longer[j] = before.txs[j]
        /\ longer[Len(before.txs) + 1] = q[i]
    BY <1>1, <2>1 DEF Taking
  <2>5. \A k \in 1 .. i - 1 : k \in 1 .. n /\ k \in 1 .. i /\ k # i /\ q[k] # q[i]
    OBVIOUS
  <2>6. CASE taken[i].txs = before.txs
    BY <2>1, <2>2, <2>5, <2>6
  <2>7. CASE taken[i].txs = longer
    <3> HIDE DEF longer
    <3>1. \A j \in DOMAIN longer : j \in DOMAIN before.txs \/ j = Len(before.txs) + 1
      BY <2>4
    <3>2. i \in 1 .. i
      OBVIOUS
    <3>3. \A j \in DOMAIN longer : \E k \in 1 .. i : longer[j] = q[k]
      BY <2>1, <2>4, <2>5, <3>1, <3>2
    <3>4. \A j \in DOMAIN before.txs : longer[j] # q[i]
      BY <2>1, <2>4, <2>5
    <3>5. \A j, k \in DOMAIN longer : longer[j] = longer[k] => j = k
      BY <2>1, <2>4, <3>1, <3>4
    <3> QED
      BY <2>2, <2>7, <3>3, <3>5
  <2> QED
    BY <2>3, <2>6, <2>7
<1> HIDE DEF Good
<1>14. Bad = {}
  <2> SUFFICES ASSUME Bad # {} PROVE FALSE
    OBVIOUS
  <2>1. Bad \subseteq Nat
    OBVIOUS
  <2> HIDE DEF Bad
  <2>2. PICK i \in Bad : \A j \in Bad : i <= j
    BY <2>1, LeastNat
  <2> USE DEF Bad
  <2>3. i \in 1 .. n /\ i - 1 \in 0 .. n /\ ~(i <= i - 1)
    BY <1>12, <2>2
  <2>4. Good(i - 1)
    BY <2>2, <2>3
  <2> QED
    BY <1>13, <2>2, <2>3, <2>4
<1>15. Good(n)
  BY <1>14
<1>16. taken[n].txs \in Seq(E) /\ DOMAIN taken[n].txs = 1 .. Len(taken[n].txs)
       /\ Len(taken[n].txs) \in Nat
  BY <1>15 DEF Good, Taking
<1>17. \A i, j \in 1 .. Len(taken[n].txs) : taken[n].txs[i] = taken[n].txs[j] => i = j
  BY <1>15, <1>16 DEF Good
<1>18. OnceEach(taken[n].txs, E)
  BY <1>16, <1>17 DEF OnceEach
<1> QED
  BY <1>2, <1>18

(* Entries are taken once each; a mempool that fits is taken as a whole.   *)
LEMMA PoolTaken ==
    ASSUME IsFiniteSet(Entries(pool)), Entries(pool) \subseteq Tx,
           NEW selected \in GetTransactionsForBlock(pool, MaxCount, MaxBytes)
    PROVE  \E n \in Nat : /\ selected \in [1 .. n -> Entries(pool)]
                          /\ \A i, j \in 1 .. n : selected[i] = selected[j] => i = j
                          /\ PoolFits => {selected[i] : i \in 1 .. n} = Entries(pool)
<1> DEFINE n == Cardinality(Entries(pool))
           size == [tx \in Entries(pool) |-> tx.size]
<1>1. PICK q \in SortedEntries(pool) : selected = TakenFrom(q, MaxCount, MaxBytes)
  BY DEF GetTransactionsForBlock
<1>0. CASE ~PoolFits
  <2>1. n \in Nat /\ q \in [1 .. n -> Entries(pool)] /\ IsInjective(q)
    BY <1>1, FS_CardinalityType DEF SortedEntries
  <2> HIDE DEF n
  <2>2. \A i, j \in 1 .. n : q[i] = q[j] => i = j
    BY <2>1 DEF IsInjective
  <2>3. \E m \in Nat : /\ selected \in [1 .. m -> Entries(pool)]
                       /\ \A i, j \in 1 .. m : selected[i] = selected[j] => i = j
    <3>1. OnceEach(selected, Entries(pool))
      BY <1>1, <2>1, <2>2, TakenSome
    <3> QED
      BY <3>1 DEF OnceEach
  <2> QED
    BY <1>0, <2>3
<1> SUFFICES ASSUME PoolFits
             PROVE  \E k \in Nat : /\ selected \in [1 .. k -> Entries(pool)]
                                   /\ \A i, j \in 1 .. k : selected[i] = selected[j] => i = j
                                   /\ {selected[i] : i \in 1 .. k} = Entries(pool)
  BY <1>0
<1>2. /\ n \in Nat /\ n <= MaxCount
      /\ q \in [1 .. n -> Entries(pool)] /\ IsInjective(q)
  BY <1>1, FS_CardinalityType DEF SortedEntries, PoolFits
<1> HIDE DEF n
<1>3. \A i, j \in 1 .. n : q[i] = q[j] => i = j
  BY <1>2 DEF IsInjective
<1>4. {q[i] : i \in 1 .. n} = Entries(pool)
  <2>1. q \in Injection(1 .. n, Entries(pool))
    BY <1>2 DEF Injection
  <2>2. Cardinality(1 .. n) = n
    BY <1>2, FS_Interval
  <2>3. q \in Surjection(1 .. n, Entries(pool))
    BY <2>1, <2>2, FS_Injection DEF n
  <2> QED
    BY <1>2, <2>3 DEF Surjection
<1>5. SumFunctionOnSet([j \in 1 .. n |-> q[j].size], 1 .. n) <= MaxBytes
  <2> DEFINE D == 1 .. n
             f == [j \in D |-> q[j].size]
  <2>1. IsFiniteSet(D)
    BY <1>2, FS_Interval
  <2>2. \A j \in D : f[j] \in Int /\ size[q[j]] = f[j]
    BY <1>2, TxAssumption
  <2>3. SumFunctionOnSet(size, {q[j] : j \in D}) = SumFunctionOnSet(f, D)
    <3> HIDE DEF f, size
    <3>1. \A x, y \in D : q[x] = q[y] => x = y
      BY <1>3
    <3> HIDE DEF D
    <3> QED
      BY <2>1, <2>2, <3>1, SumRenamed
  <2>4. SumFunctionOnSet(size, Entries(pool)) <= MaxBytes
    <3>1. DOMAIN size = Entries(pool)
      OBVIOUS
    <3> QED
      BY <3>1 DEF PoolFits, SumFunction
  <2> HIDE DEF f, size
  <2>5. SumFunctionOnSet(f, D) <= MaxBytes
    BY <1>4, <2>3, <2>4
  <2> QED
    BY <2>5 DEF f
<1>6. q \in [1 .. n -> Tx]
  BY <1>2
<1>7. selected = q
  BY <1>1, <1>2, <1>5, <1>6, TakenWhole
<1> QED
  BY <1>2, <1>3, <1>4, <1>7

(* A candidate of the pool: its transactions are entries, each once, and   *)
(* its coinbase has one output.                                            *)
OfPool(c) ==
    /\ c.txs # <<>>
    /\ c.txs[1].coinbase
    /\ c.txs[1].outs = <<CoinbaseSum(c)>>
    /\ \A i \in 2 .. Len(c.txs) : c.txs[i] \in Entries(pool)
    /\ \A i, j \in 2 .. Len(c.txs) : c.txs[i] = c.txs[j] => i = j

(* Its coinbase claims the subsidy and what its transactions pay. *)
ClaimsItsFees(c) == CoinbaseSum(c) = Subsidy(c.height, minted) + FeesOf(c)

LEMMA BuiltOfPool ==
    ASSUME PooledInv, up, disconnects = 0,
           NEW selected \in GetTransactionsForBlock(pool, MaxCount, MaxBytes)
    PROVE  /\ OfPool(CandidateOf(selected))
           /\ PoolFits => ClaimsItsFees(CandidateOf(selected))
<1> DEFINE c == CandidateOf(selected)
           reward == Subsidy(Height(chain) + 1, minted) + TotalFees(pool)
           coinbase == MinerCoinbase(reward)
<1>1. /\ IsFiniteSet(Entries(pool)) /\ Entries(pool) \subseteq Tx
      /\ \A tx \in Entries(pool) : pool.fee[tx] = FeeOf(tx) /\ FeeOf(tx) \in Nat
      /\ Height(chain) + 1 \in Nat /\ IsSupply(minted)
  BY TipHeight DEF PooledInv, WorthInv, StoreInv, TypeInv, TypeOK, IsPool, Entries
<1>2. PICK n \in Nat : /\ selected \in [1 .. n -> Entries(pool)]
                       /\ \A i, j \in 1 .. n : selected[i] = selected[j] => i = j
                       /\ PoolFits => {selected[i] : i \in 1 .. n} = Entries(pool)
  BY <1>1, PoolTaken
<1>3. Subsidy(Height(chain) + 1, minted) \in Nat
  BY <1>1, SubsidyBound
<1>4. TotalFees(pool) \in Nat
  <2>1. SumFunctionOnSet(pool.fee, Entries(pool)) \in Nat
    BY <1>1, SumNat
  <2> QED
    BY <2>1 DEF TotalFees, SumFunction, Entries
<1>5. /\ c.txs = <<coinbase>> \o selected
      /\ c.height = Height(chain) + 1
      /\ coinbase.coinbase /\ coinbase.outs = <<reward>>
  BY DEF CandidateOf, MinerCoinbase
<1>6. reward \in Int
  BY <1>3, <1>4
<1> HIDE DEF c, coinbase
<1>7. /\ c.txs # <<>> /\ Len(c.txs) = n + 1
      /\ c.txs[1] = coinbase
      /\ \A i \in 2 .. n + 1 : i - 1 \in 1 .. n /\ c.txs[i] = selected[i - 1]
  BY <1>2, <1>5
<1>8. CoinbaseSum(c) = reward
  <2> DEFINE outs == <<reward>>
  <2>1. DOMAIN outs = {1} /\ outs[1] = reward
    OBVIOUS
  <2> HIDE DEF outs, reward
  <2>2. SumFunctionOnSet(outs, {1}) = reward
    BY <1>6, <2>1, SumOfOne
  <2>3. coinbase.outs = outs
    BY <1>5 DEF outs
  <2> QED
    BY <1>7, <2>1, <2>2, <2>3 DEF CoinbaseSum, OutputSum, SumFunction
<1>9. \A i \in 2 .. Len(c.txs) : c.txs[i] \in Entries(pool)
  BY <1>2, <1>7
<1>10. \A i, j \in 2 .. Len(c.txs) : c.txs[i] = c.txs[j] => i = j
  <2> SUFFICES ASSUME NEW i \in 2 .. n + 1, NEW j \in 2 .. n + 1, c.txs[i] = c.txs[j]
               PROVE  i = j
    BY <1>7
  <2>1. i - 1 = j - 1
    BY <1>2, <1>7
  <2> QED
    BY <2>1
<1>11. ASSUME PoolFits PROVE TotalFees(pool) = FeesOf(c)
  <2> DEFINE D == 2 .. Len(c.txs)
  <2>1. IsFiniteSet(D)
    BY <1>7, FS_Interval
  <2>2. {c.txs[i] : i \in D} = Entries(pool)
    <3>1. ASSUME NEW tx \in Entries(pool) PROVE tx \in {c.txs[i] : i \in D}
      <4>1. PICK k \in 1 .. n : selected[k] = tx
        BY <1>2, <1>11
      <4>2. k + 1 \in 2 .. n + 1 /\ (k + 1) - 1 = k
        OBVIOUS
      <4>3. c.txs[k + 1] = tx
        BY <1>7, <4>1, <4>2
      <4> QED
        BY <1>7, <4>2, <4>3
    <3> QED
      BY <1>9, <3>1
  <2>3. /\ DOMAIN FeeTable(c) = D
        /\ \A i \in D : FeeTable(c)[i] \in Int /\ pool.fee[c.txs[i]] = FeeTable(c)[i]
    BY <1>1, <1>9 DEF FeeTable
  <2>4. \A i, j \in D : c.txs[i] = c.txs[j] => i = j
    BY <1>10
  <2> HIDE DEF D
  <2> DEFINE table == FeeTable(c)
             fee == pool.fee
             name == c.txs
  <2>5. \A i \in D : table[i] \in Int /\ fee[name[i]] = table[i]
    BY <2>3
  <2>6. \A i, j \in D : name[i] = name[j] => i = j
    BY <2>4
  <2>7. {name[i] : i \in D} = Entries(pool)
    BY <2>2
  <2> HIDE DEF table, fee, name
  <2>8. SumFunctionOnSet(fee, {name[i] : i \in D}) = SumFunctionOnSet(table, D)
    BY <2>1, <2>5, <2>6, SumRenamed
  <2>9. SumFunctionOnSet(fee, Entries(pool)) = SumFunctionOnSet(table, D)
    BY <2>7, <2>8
  <2> QED
    BY <2>3, <2>9 DEF TotalFees, FeesOf, SumFunction, Entries, table, fee
<1> QED
  BY <1>5, <1>7, <1>8, <1>9, <1>10, <1>11 DEF OfPool, ClaimsItsFees, c

(* A node that only mines has no failed StoreBlock and no disconnect. *)
Undisturbed == disconnects = 0 /\ Never("store")

(* What the miner builds is one of the blocks the chain is checked for. *)
BuildsBlocks == candidate \in Block \cup {NoBlock}

(* A step of the miner is one of the chain or leaves it alone. *)
LEMMA MinerStepIsStep ==
    ASSUME BuildsBlocks, [MinerNext]_minerVars
    PROVE  [Next]_vars
<1>1. CASE SubmitBlock
  <2>1. candidate \in Block
    BY <1>1 DEF SubmitBlock, BuildsBlocks
  <2>2. AddBlock(candidate) \/ UNCHANGED vars
    BY <1>1 DEF SubmitBlock
  <2> QED
    BY <2>1, <2>2 DEF Next, AddAnyBlock
<1>2. CASE ChainStep
  <2>1. (\E b \in Offered : AddBlock(b)) => AddAnyBlock
    BY LimitsAssumption DEF AddAnyBlock
  <2> QED
    BY <1>2, <2>1 DEF ChainStep, Next
<1>3. CASE ExitMiner
  BY <1>3 DEF ExitMiner, Next
<1>4. CASE BuildCandidateBlock \/ MiningStopped \/ Tick \/ UNCHANGED minerVars
  BY <1>4 DEF BuildCandidateBlock, MiningStopped, Tick, minerVars
<1> QED
  BY <1>1, <1>2, <1>3, <1>4 DEF MinerNext

(* The candidate of a running miner is for the next height or has been     *)
(* overtaken by the chain.  One for the next height is on the tip, what it *)
(* took is still in the pool, and as long as the pool fits into a block it *)
(* claims what it may.                                                     *)
CandidateInv ==
    candidate # NoBlock =>
        /\ up
        /\ candidate.height <= Height(chain) + 1
        /\ candidate.height = Height(chain) + 1 =>
              /\ candidate.prev = TipHash(chain)
              /\ candidate.height <= MaxHeight
              /\ candidate.sealed
              /\ OfPool(candidate)
              /\ PoolFits => ClaimsItsFees(candidate)

(* Where there is a provider, the pool has checked the signatures of what  *)
(* it holds over the outputs that are spent.                               *)
PoolSigned == CryptoProvider => \A tx \in Entries(pool) : tx.sig = "utxo"

LEMMA SignedStep == PoolSigned /\ [Next]_vars => PoolSigned'
<1> SUFFICES ASSUME PoolSigned, [Next]_vars, CryptoProvider
             PROVE  \A tx \in Entries(pool') : tx.sig = "utxo"
  BY DEF PoolSigned
<1>1. CASE Entries(pool') \subseteq Entries(pool)
  BY <1>1 DEF PoolSigned
<1>2. CASE pool' = EmptyPool
  BY <1>2 DEF EmptyPool, Entries
<1>3. CASE \E tx \in Tx : AddTransactionToMempool(tx)
  <2>1. PICK tx \in Tx : AddTransactionToMempool(tx)
    BY <1>3
  <2>2. Entries(pool') = Entries(pool) \cup {tx} /\ tx.sig = "utxo"
    BY <2>1 DEF AddTransactionToMempool, Accepts, WithTransaction, Entries
  <2> QED
    BY <2>2 DEF PoolSigned
<1>4. CASE AddAnyBlock
  <2>1. UNCHANGED pool \/ \E b \in Block : Extend(b)
    BY <1>4 DEF AddAnyBlock, AddBlock, AddBlockStoreFails, AddBlockSaveFails,
                AddBlockCrashes, AddBlockTears, memory
  <2>2. (\E b \in Block : Extend(b)) => Entries(pool') \subseteq Entries(pool)
    BY DEF Extend, WithoutConfirmed, Entries, Restrict
  <2> QED
    BY <1>1, <2>1, <2>2
<1>5. CASE OpenExisting \/ OpenFresh
  BY <1>2, <1>5 DEF OpenExisting, OpenFresh
<1>6. CASE OpenFreshFails \/ Exit \/ DisconnectTip \/ UNCHANGED vars
  BY <1>1, <1>6 DEF OpenFreshFails, Exit, DisconnectTip, vars, memory
<1> QED
  BY <1>3, <1>4, <1>5, <1>6 DEF Next

MinerInv ==
    PooledInv /\ HistoryInv /\ PoolConsistent /\ PoolSigned /\ Undisturbed /\ CandidateInv

(* A pool that has grown and fits had room before. *)
LEMMA FittedBefore ==
    ASSUME IsFiniteSet(Entries(pool')), Entries(pool') \subseteq Tx,
           Entries(pool) \subseteq Entries(pool'), PoolFits'
    PROVE  PoolFits
<1> DEFINE after  == [tx \in Entries(pool') |-> tx.size]
           before == [tx \in Entries(pool) |-> tx.size]
<1>1. Entries(pool) \in SUBSET Entries(pool')
  OBVIOUS
<1>2. \A tx \in Entries(pool') : after[tx] \in Nat
  BY TxAssumption
<1>3. \A tx \in Entries(pool) : before[tx] \in Int /\ before[tx] = after[tx]
  BY <1>1, <1>2
<1>4. IsFiniteSet(Entries(pool)) /\ Cardinality(Entries(pool)) <= Cardinality(Entries(pool'))
  BY <1>1, FS_Subset
<1>5. Cardinality(Entries(pool)) \in Nat /\ Cardinality(Entries(pool')) \in Nat
  BY <1>4, FS_CardinalityType
<1>6. /\ Cardinality(Entries(pool')) <= MaxCount
      /\ SumFunctionOnSet(after, Entries(pool')) <= MaxBytes
  BY DEF PoolFits, SumFunction
<1>7. DOMAIN before = Entries(pool)
  OBVIOUS
<1> HIDE DEF after, before
<1>8. SumFunctionOnSet(before, Entries(pool)) = SumFunctionOnSet(after, Entries(pool))
  BY <1>3, <1>4, SumSame
<1>9. /\ SumFunctionOnSet(after, Entries(pool)) \in Nat
      /\ SumFunctionOnSet(after, Entries(pool')) \in Nat
      /\ SumFunctionOnSet(after, Entries(pool)) <= SumFunctionOnSet(after, Entries(pool'))
  BY <1>1, <1>2, SumMonotone
<1> DEFINE count == Cardinality(Entries(pool))
           later == Cardinality(Entries(pool'))
           bytes == SumFunctionOnSet(after, Entries(pool))
           total == SumFunctionOnSet(after, Entries(pool'))
<1>10. /\ count \in Nat /\ later \in Nat /\ count <= later /\ later <= MaxCount
       /\ bytes \in Nat /\ total \in Nat /\ bytes <= total /\ total <= MaxBytes
       /\ MaxCount \in Nat /\ MaxBytes \in Nat
  BY <1>4, <1>5, <1>6, <1>9, LimitsAssumption
<1> HIDE DEF count, later, bytes, total
<1>11. count <= MaxCount /\ bytes <= MaxBytes
  BY <1>10
<1> QED
  BY <1>7, <1>8, <1>11 DEF PoolFits, SumFunction, before, count, bytes

LEMMA CandidateStep ==
    ASSUME PooledInv, PooledInv', Undisturbed, CandidateInv, BuildsBlocks, BuildsBlocks',
           [MinerNext]_minerVars
    PROVE  CandidateInv'
<1>0. StoreInv /\ StoreInv'
  BY DEF PooledInv, WorthInv
<1>1. CASE BuildCandidateBlock
  <2>1. PICK selected \in GetTransactionsForBlock(pool, MaxCount, MaxBytes) :
            candidate' = CandidateOf(selected)
    BY <1>1 DEF BuildCandidateBlock
  <2>2. /\ up /\ Height(chain) < MaxHeight /\ UNCHANGED <<up, chain, minted, pool>>
    BY <1>1 DEF BuildCandidateBlock, vars, memory
  <2>3. /\ candidate'.height = Height(chain) + 1
        /\ candidate'.prev = TipHash(chain)
        /\ candidate'.sealed
    BY <2>1 DEF CandidateOf
  <2>4. Height(chain) \in Nat /\ MaxHeight \in Nat
    BY <1>0, <2>2, TipHeight, BoundsAssumption
  <2>5. /\ OfPool(CandidateOf(selected))
        /\ PoolFits => ClaimsItsFees(CandidateOf(selected))
    BY <2>2, BuiltOfPool DEF Undisturbed
  <2>6. OfPool(candidate)' /\ (PoolFits' => ClaimsItsFees(candidate)')
    BY <2>1, <2>2, <2>5 DEF PoolFits, OfPool, ClaimsItsFees
  <2> QED
    BY <2>2, <2>3, <2>4, <2>6 DEF CandidateInv
<1>2. CASE candidate' = NoBlock
  BY <1>2 DEF CandidateInv
<1>3. CASE UNCHANGED <<up, chain, minted, pool, candidate>>
  BY <1>3 DEF CandidateInv, PoolFits, OfPool, ClaimsItsFees
<1>4. CASE candidate # NoBlock /\ candidate' = candidate /\ \E b \in Block : AddBlock(b)
  <2>1. PICK b \in Block : CanAdd(b) /\ Extend(b) /\ up' = up
    BY <1>4 DEF AddBlock
  <2>2. /\ up /\ candidate.height <= Height(chain) + 1 /\ candidate.height \in Nat
    BY <1>4, BlockAssumption DEF CandidateInv, BuildsBlocks
  <2>3. chain \in Seq(Block) /\ Len(chain) \in Nat /\ Height(chain) = Len(chain) - 1
    BY <1>0, <2>2, TipHeight
  <2>4. chain' = Append(chain, b) /\ b.height = Len(chain)
    BY <1>0, <2>1, AddsNext DEF Extend
  <2>5. Height(chain') = Len(chain)
    BY <2>3, <2>4 DEF Height, Tip
  <2>6. up' /\ candidate.height <= Height(chain') + 1 /\ candidate.height # Height(chain') + 1
    BY <2>1, <2>2, <2>3, <2>4, <2>5
  <2> QED
    BY <1>4, <2>6 DEF CandidateInv
<1>5. CASE candidate # NoBlock /\ candidate' = candidate
              /\ \E tx \in Tx : AddTransactionToMempool(tx)
  <2>1. PICK tx \in Tx : AddTransactionToMempool(tx)
    BY <1>5
  <2>2. UNCHANGED <<up, chain, minted>> /\ Entries(pool') = Entries(pool) \cup {tx}
    BY <2>1 DEF AddTransactionToMempool, WithTransaction, Entries
  <2>3. IsFiniteSet(Entries(pool')) /\ Entries(pool') \subseteq Tx
    BY <1>0 DEF PooledInv, StoreInv, TypeInv, TypeOK, IsPool, Entries
  <2>4. PoolFits' => PoolFits
    BY <2>2, <2>3, FittedBefore
  <2>5. /\ OfPool(candidate) => OfPool(candidate)'
        /\ ClaimsItsFees(candidate) => ClaimsItsFees(candidate)'
    BY <1>5, <2>2 DEF OfPool, ClaimsItsFees
  <2> QED
    BY <1>5, <2>2, <2>4, <2>5 DEF CandidateInv
<1>6. CASE ChainStep
  <2>1. /\ candidate' = candidate
        /\ \/ OpenExisting \/ OpenFresh
           \/ \E b \in Offered : AddBlock(b)
           \/ \E tx \in Tx : AddTransactionToMempool(tx)
    BY <1>6 DEF ChainStep
  <2>2. (OpenExisting \/ OpenFresh) => candidate = NoBlock
    BY DEF OpenExisting, OpenFresh, CandidateInv
  <2>3. (\E b \in Offered : AddBlock(b)) => \E b \in Block : AddBlock(b)
    BY LimitsAssumption
  <2> QED
    BY <1>2, <1>4, <1>5, <2>1, <2>2, <2>3
<1>7. CASE SubmitBlock \/ MiningStopped \/ ExitMiner
  BY <1>2, <1>7 DEF SubmitBlock, MiningStopped, ExitMiner
<1>8. CASE Tick \/ UNCHANGED minerVars
  BY <1>3, <1>8 DEF Tick, minerVars, vars, memory
<1> QED
  BY <1>1, <1>6, <1>7, <1>8 DEF MinerNext

(* A candidate of the pool, none of which a block has overtaken. *)
CandidateStands ==
    /\ MinerInv /\ up
    /\ candidate \in Block
    /\ candidate.height = Height(chain) + 1
    /\ OfPool(candidate)
    /\ \A i \in 2 .. Len(candidate.txs) : ~Overtaken(candidate.txs[i])

(* What is known of its transactions. *)
LEMMA CandidateTxs ==
    ASSUME CandidateStands
    PROVE  /\ candidate.txs \in Seq(Tx) /\ Len(candidate.txs) \in Nat
           /\ \A i \in 1 .. Len(candidate.txs) : candidate.txs[i] \in Tx
           /\ \A i \in 2 .. Len(candidate.txs) :
                 LET tx == candidate.txs[i]
                 IN  /\ tx \in Entries(pool) /\ ~tx.coinbase /\ ValidateBasic(tx)
                     /\ InputsCover(utxos, tx, candidate.height)
                     /\ FeeOf(tx) \in Nat
           /\ IsSound(utxos) /\ Worth(DOMAIN utxos) <= minted
<1>1. candidate.txs \in Seq(Tx)
  BY BlockAssumption DEF CandidateStands
<1>2. Len(candidate.txs) \in Nat /\ \A i \in 1 .. Len(candidate.txs) : candidate.txs[i] \in Tx
  BY <1>1
<1>3. PooledInv /\ disconnects = 0 /\ Never("store") /\ up /\ candidate.height = Height(chain) + 1
  BY DEF CandidateStands, MinerInv, Undisturbed
<1>4. ASSUME NEW tx \in Entries(pool), ~Overtaken(tx)
      PROVE  /\ ~tx.coinbase /\ ValidateBasic(tx)
             /\ InputsCover(utxos, tx, candidate.height)
             /\ FeeOf(tx) \in Nat
  BY <1>3, <1>4 DEF PooledInv, PoolIsMinable
<1>5. \A i \in 2 .. Len(candidate.txs) :
          candidate.txs[i] \in Entries(pool) /\ ~Overtaken(candidate.txs[i])
  BY DEF CandidateStands, OfPool
<1>6. IsSound(utxos) /\ Worth(DOMAIN utxos) <= minted
  BY <1>3 DEF PooledInv, WorthInv
<1> QED
  BY <1>1, <1>2, <1>4, <1>5, <1>6

(* Nothing it creates is there already. *)
LEMMA CandidateIsNew ==
    ASSUME CandidateStands, CoinbasesDiffer(Append(chain, candidate)),
           NEW i \in 1 .. Len(candidate.txs)
    PROVE  Creates(candidate.txs[i]) \cap DOMAIN utxos = {}
<1> SUFFICES ASSUME NEW o \in Creates(candidate.txs[i]), o \in DOMAIN utxos PROVE FALSE
  OBVIOUS
<1> DEFINE tx == candidate.txs[i]
           grown == Append(chain, candidate)
<1>1. chain \in Seq(Block) /\ IsBasic(chain) /\ History(chain, Places(chain), utxos)
  BY HistoryOfChain DEF CandidateStands, MinerInv, Undisturbed
<1>2. /\ grown \in Seq(Block) /\ DOMAIN grown = 1 .. Len(chain) + 1 /\ Len(chain) \in Nat
      /\ grown[Len(chain) + 1] = candidate
      /\ \A n \in DOMAIN chain : n \in DOMAIN grown /\ grown[n] = chain[n]
  BY <1>1 DEF CandidateStands
<1> HIDE DEF grown
<1>3. CoinbasesDiffer(chain)
  <2>1. \A m, n \in DOMAIN chain : grown[m].txs[1].id = grown[n].txs[1].id => m = n
    BY <1>2 DEF CoinbasesDiffer, grown
  <2> QED
    BY <1>2, <2>1 DEF CoinbasesDiffer
<1>4. SpentOnce(chain, Places(chain), utxos)
  BY <1>1, <1>3 DEF History
<1>5. PICK p \in Places(chain) : o \in Creates(TxAt(chain, p))
  BY <1>4 DEF SpentOnce
<1>6. /\ TxAt(chain, p) \in Tx
      /\ TxAt(chain, p).coinbase <=> p[2] = 1
      /\ p[2] # 1 => Spends(TxAt(chain, p)) # {}
      /\ p[1] \in DOMAIN chain
  BY <1>1, TxAtType
<1>7. tx \in Tx
  BY CandidateTxs
<1>8. TxAt(chain, p) = tx
  BY <1>5, <1>6, <1>7, CreatedByOne
<1>9. CASE i = 1
  <2>1. tx.coinbase
    BY <1>9 DEF CandidateStands, OfPool
  <2>2. chain[p[1]].txs[1] = candidate.txs[1]
    BY <1>6, <1>8, <1>9, <2>1 DEF TxAt
  <2>3. grown[p[1]].txs[1].id = grown[Len(chain) + 1].txs[1].id
    BY <1>2, <1>6, <2>2
  <2>4. p[1] \in DOMAIN grown /\ Len(chain) + 1 \in DOMAIN grown
    BY <1>2, <1>6
  <2>5. p[1] = Len(chain) + 1
    BY <2>3, <2>4 DEF CoinbasesDiffer, grown
  <2> QED
    BY <1>1, <1>6, <2>5
<1>10. CASE i # 1
  <2>1. i \in 2 .. Len(candidate.txs)
    BY <1>10, CandidateTxs
  <2>2. ~tx.coinbase /\ InputsCover(utxos, tx, candidate.height)
    BY <2>1, CandidateTxs
  <2>3. p[2] # 1 /\ Spends(tx) # {} /\ Spends(tx) \subseteq DOMAIN utxos
    BY <1>6, <1>8, <2>2 DEF InputsCover
  <2>4. Spends(TxAt(chain, p)) \cap DOMAIN utxos = {}
    BY <1>4, <2>3 DEF SpentOnce
  <2> QED
    BY <1>8, <2>3, <2>4
<1> QED
  BY <1>9, <1>10

(* Its coinbase claims no more than the subsidy and what it pays in fees.  *)
ClaimsNoMore ==
    CoinbaseSum(candidate) <= Subsidy(candidate.height, minted) + FeesOf(candidate)

(* Then it pays out no more than there can be. *)
LEMMA CandidateIsPaid ==
    ASSUME CandidateStands, ClaimsNoMore
    PROVE  /\ FeesOf(candidate) \in Nat
           /\ Subsidy(candidate.height, minted) \in Nat
           /\ Subsidy(candidate.height, minted) <= MaxSupply - minted
           /\ CoinbaseSum(candidate) <= MaxSupply
<1> DEFINE D == 2 .. Len(candidate.txs)
           txs == candidate.txs
           fee == FeeTable(candidate)
<1>1. /\ txs \in Seq(Tx) /\ Len(txs) \in Nat
      /\ \A i \in D : /\ txs[i] \in Tx /\ txs[i] \in Entries(pool) /\ FeeOf(txs[i]) \in Nat
                      /\ Spends(txs[i]) \subseteq DOMAIN utxos
      /\ IsSound(utxos) /\ Worth(DOMAIN utxos) <= minted
  BY CandidateTxs DEF InputsCover
<1>2. IsFiniteSet(D)
  BY <1>1, FS_Interval
<1>3. \A i, j \in D : i # j => Spends(txs[i]) \cap Spends(txs[j]) = {}
  BY <1>1 DEF CandidateStands, OfPool, MinerInv, PoolConsistent
<1>4. DOMAIN fee = D /\ \A i \in D : fee[i] \in Nat /\ fee[i] = FeeOf(txs[i])
  BY <1>1 DEF FeeTable
<1>5. IsSupply(minted) /\ minted \in Nat /\ candidate.height \in Nat /\ MaxSupply \in Nat
  BY BlockAssumption, ParamsAssumption
  DEF CandidateStands, MinerInv, PooledInv, WorthInv, StoreInv, TypeInv, IsSupply
<1>6. /\ CoinbaseSum(candidate) <= Subsidy(candidate.height, minted) + FeesOf(candidate)
      /\ CoinbaseSum(candidate) \in Nat
  BY OutputSumType DEF CandidateStands, ClaimsNoMore
<1> HIDE DEF D, txs, fee
<1>7. SumFunctionOnSet(fee, D) <= Worth(DOMAIN utxos)
  BY <1>1, <1>2, <1>3, <1>4, FeesWithinWorth
<1>8. SumFunctionOnSet(fee, D) \in Nat
  BY <1>2, <1>4, SumNat
<1>9. FeesOf(candidate) = SumFunctionOnSet(fee, D)
  BY <1>4 DEF FeesOf, SumFunction, fee
<1>10. /\ Subsidy(candidate.height, minted) \in Nat
       /\ Subsidy(candidate.height, minted) <= MaxSupply - minted
  BY <1>5, SubsidyBound
<1>11. Worth(DOMAIN utxos) \in Nat
  <2>1. DOMAIN utxos \in SUBSET DOMAIN utxos
    OBVIOUS
  <2> QED
    BY <1>1, <2>1, WorthType
<1> DEFINE total == SumFunctionOnSet(fee, D)
           worth == Worth(DOMAIN utxos)
           subsidy == Subsidy(candidate.height, minted)
<1>12. /\ total \in Nat /\ worth \in Nat /\ subsidy \in Nat /\ minted \in Nat /\ MaxSupply \in Nat
       /\ total <= worth /\ worth <= minted /\ subsidy <= MaxSupply - minted
  BY <1>1, <1>5, <1>7, <1>8, <1>10, <1>11
<1> HIDE DEF total, worth, subsidy
<1>13. subsidy + total <= MaxSupply
  BY <1>12
<1>14. FeesOf(candidate) = total /\ Subsidy(candidate.height, minted) = subsidy
  BY <1>9 DEF total, subsidy
<1>15. CoinbaseSum(candidate) <= MaxSupply
  BY <1>6, <1>12, <1>13, <1>14
<1> QED
  BY <1>8, <1>9, <1>10, <1>15

LEMMA CandidateConnects ==
    ASSUME CandidateStands, ClaimsNoMore, CoinbaseSum(candidate) > 0,
           CoinbasesDiffer(Append(chain, candidate))
    PROVE  ConnectTxs(utxos, candidate).ok
<1> DEFINE len == Len(candidate.txs)
           txs == candidate.txs
<1>1. /\ len \in Nat /\ IsView(utxos) /\ candidate \in Block
      /\ \A i \in 1 .. len : txs[i] \in Tx
      /\ \A i \in 2 .. len : /\ txs[i] \in Entries(pool) /\ ~txs[i].coinbase
                             /\ ValidateBasic(txs[i])
                             /\ InputsCover(utxos, txs[i], candidate.height)
  BY CandidateTxs DEF CandidateStands, IsSound
<1>2. /\ txs[1].coinbase /\ txs[1].outs = <<CoinbaseSum(candidate)>>
      /\ \A i, j \in 2 .. len : txs[i] = txs[j] => i = j
  BY DEF CandidateStands, OfPool
<1>3. CoinbaseSum(candidate) \in 1 .. MaxSupply
  BY <1>1, CandidateIsPaid, OutputSumType, ParamsAssumption
<1>4. \A i \in 1 .. len : i = 1 \/ i \in 2 .. len
  BY <1>1
<1>5. ASSUME NEW i \in 1 .. len
      PROVE  /\ Creates(txs[i]) \cap DOMAIN utxos = {}
             /\ \A n \in DOMAIN txs[i].outs : txs[i].outs[n] \in 1 .. MaxSupply
  <2>1. Creates(txs[i]) \cap DOMAIN utxos = {}
    BY CandidateIsNew
  <2>2. CASE i = 1
    BY <1>2, <1>3, <2>1, <2>2
  <2>3. CASE i \in 2 .. len
    BY <1>1, <2>1, <2>3 DEF ValidateBasic
  <2> QED
    BY <1>4, <2>2, <2>3
<1>6. ASSUME NEW i \in 1 .. len, NEW j \in 1 .. len, txs[i].id = txs[j].id PROVE i = j
  <2>1. txs[i] = txs[j]
    BY <1>1, <1>6, IdAssumption
  <2>2. CASE i = 1 \/ j = 1
    BY <1>1, <1>2, <1>4, <2>1, <2>2
  <2>3. CASE i \in 2 .. len /\ j \in 2 .. len
    BY <1>2, <2>1, <2>3
  <2> QED
    BY <1>4, <2>2, <2>3
<1>7. ASSUME NEW i \in 2 .. len, NEW j \in 2 .. len, i # j
      PROVE  Spends(txs[i]) \cap Spends(txs[j]) = {}
  BY <1>1, <1>2, <1>7 DEF CandidateStands, MinerInv, PoolConsistent
<1> QED
  BY <1>1, <1>5, <1>6, <1>7, BlockConnects

LEMMA CandidateIsValid ==
    ASSUME CandidateStands, ClaimsNoMore, candidate # NoBlock,
           candidate.time > MedianTimePast(chain), CryptoProvider => 2 .. Len(candidate.txs) = {}
    PROVE  ValidateBlock(chain, utxos, minted, candidate)
<1>1. /\ candidate.prev = TipHash(chain) /\ candidate.height = Height(chain) + 1
      /\ candidate.sealed /\ chain # <<>>
  BY DEF CandidateStands, CandidateInv, MinerInv, PooledInv, WorthInv, StoreInv
<1>2. BlockBasic(candidate)
  <2>1. candidate.txs # <<>> /\ candidate.txs[1].coinbase
    BY DEF CandidateStands, OfPool
  <2>2. ASSUME NEW i \in DOMAIN candidate.txs, i # 1
        PROVE  ~candidate.txs[i].coinbase /\ ValidateBasic(candidate.txs[i])
    <3>1. i \in 2 .. Len(candidate.txs)
      BY <2>2, CandidateTxs
    <3> QED
      BY <3>1, CandidateTxs
  <2>3. \A i \in DOMAIN candidate.txs : candidate.txs[i].coinbase \in BOOLEAN
    BY CandidateTxs, TxAssumption
  <2> QED
    BY <2>1, <2>2, <2>3 DEF BlockBasic
<1>3. FeesOK(candidate, utxos)
  BY CandidateTxs DEF FeesOK
<1>4. Fees(candidate, utxos) = FeesOf(candidate)
  BY <1>3, CandidateTxs, FeesAreFees DEF CandidateStands
<1>5. SubsidyOK(candidate, minted, Fees(candidate, utxos))
  <2>1. IsSupply(minted)
    BY DEF CandidateStands, MinerInv, PooledInv, WorthInv, StoreInv, TypeInv
  <2> QED
    BY <1>4, <2>1, CandidateIsPaid DEF SubsidyOK, IsSupply, ClaimsNoMore
<1> QED
  BY <1>1, <1>2, <1>3, <1>5 DEF ValidateBlock, ConsensusOK

(* Such a candidate is accepted, *)
LEMMA CandidateAdds ==
    ASSUME CandidateStands, ClaimsNoMore, candidate # NoBlock, CoinbaseSum(candidate) > 0,
           candidate.time > MedianTimePast(chain), CryptoProvider => 2 .. Len(candidate.txs) = {},
           CoinbasesDiffer(Append(chain, candidate))
    PROVE  CanAdd(candidate)
<1>1. CandidateStands /\ up /\ candidate.height <= MaxHeight
  BY DEF CandidateStands, MinerInv, CandidateInv
<1>2. ValidateBlock(chain, utxos, minted, candidate)
  BY <1>1, CandidateIsValid
<1>3. ConnectTxs(utxos, candidate).ok
  BY <1>1, CandidateConnects
<1>4. IsSupply(minted) /\ minted \in Nat /\ MaxSupply \in Nat /\ minted <= MaxSupply
  BY <1>1, ParamsAssumption
  DEF CandidateStands, MinerInv, PooledInv, WorthInv, StoreInv, TypeInv, IsSupply
<1> DEFINE mint == AtMost(CoinbaseSum(candidate), Subsidy(candidate.height, minted))
<1>5. mint <= MaxSupply - minted
  <2>1. /\ CoinbaseSum(candidate) \in Nat
        /\ Subsidy(candidate.height, minted) \in Nat
        /\ Subsidy(candidate.height, minted) <= MaxSupply - minted
    BY <1>1, CandidateIsPaid, OutputSumType DEF CandidateStands
  <2> QED
    BY <1>4, <2>1 DEF AtMost
<1> HIDE DEF mint
<1>6. Connected(candidate).ok
  BY <1>3, <1>4, <1>5 DEF Connected, ConnectBlock, mint
<1> QED
  BY <1>1, <1>2, <1>6 DEF CanAdd

(* and no other is: what an overtaken entry spends is gone,                *)
LEMMA FeesNeedInputs ==
    ASSUME MinerInv, candidate \in Block, FeesOK(candidate, utxos),
           CoinbasesDiffer(Append(chain, candidate)), NEW i \in 2 .. Len(candidate.txs)
    PROVE  ~Overtaken(candidate.txs[i])
<1> DEFINE tx == candidate.txs[i]
           grown == Append(chain, candidate)
<1> SUFFICES ASSUME NEW n \in DOMAIN chain, NEW k \in 2 .. Len(chain[n].txs),
                    NEW o \in Spends(chain[n].txs[k]) \cap Spends(tx)
             PROVE  FALSE
  BY DEF Overtaken
<1>1. chain \in Seq(Block) /\ History(chain, Places(chain), utxos)
  BY HistoryOfChain DEF MinerInv, Undisturbed
<1>2. CoinbasesDiffer(chain)
  <2>1. \A l \in DOMAIN chain : l \in DOMAIN grown /\ grown[l] = chain[l]
    BY <1>1
  <2> HIDE DEF grown
  <2>2. \A l, m \in DOMAIN grown : grown[l].txs[1].id = grown[m].txs[1].id => l = m
    BY DEF CoinbasesDiffer, grown
  <2> QED
    BY <2>1, <2>2 DEF CoinbasesDiffer
<1>3. SpentOnce(chain, Places(chain), utxos)
  BY <1>1, <1>2 DEF History
<1>4. <<n, k>> \in Places(chain) /\ k # 1
  <2>1. Len(chain[n].txs) \in Nat
    BY <1>1, BlockAssumption
  <2>2. <<n, k>> \in {n} \X (1 .. Len(chain[n].txs)) /\ k # 1
    BY <2>1
  <2> QED
    BY <2>2 DEF Places
<1>5. Spends(chain[n].txs[k]) \cap DOMAIN utxos = {}
  <2> DEFINE p == <<n, k>>
  <2>1. p \in Places(chain) /\ p[2] # 1 /\ TxAt(chain, p) = chain[n].txs[k]
    BY <1>4 DEF TxAt
  <2> HIDE DEF p
  <2> QED
    BY <1>3, <2>1 DEF SpentOnce
<1>6. Spends(tx) \subseteq DOMAIN utxos
  BY DEF FeesOK, InputsCover
<1> QED
  BY <1>5, <1>6

(* and an output of nothing cannot be added.                               *)
LEMMA PaysSomething ==
    ASSUME TypeInv, candidate \in Block, OfPool(candidate), ConnectTxs(utxos, candidate).ok
    PROVE  CoinbaseSum(candidate) > 0
<1> DEFINE len == Len(candidate.txs)
<1>1. /\ IsView(utxos) /\ len \in Nat /\ 1 \in 1 .. len
      /\ candidate.txs[1].outs = <<CoinbaseSum(candidate)>>
  <2>1. candidate.txs \in Seq(Tx) /\ candidate.txs # <<>>
    BY BlockAssumption DEF OfPool
  <2> QED
    BY <2>1 DEF TypeInv, TypeOK, OfPool
<1>2. PICK v \in [0 .. len -> Views] :
          \A i \in 1 .. len : CanApply(v[i - 1], candidate.txs[i], i = 1, candidate.height)
  BY <1>1, ConnectTxsTrace
<1>3. CanApply(v[1 - 1], candidate.txs[1], 1 = 1, candidate.height)
  BY <1>1, <1>2
<1>4. candidate.txs[1].outs[1] \in 1 .. MaxSupply
  BY <1>1, <1>3 DEF CanApply
<1>5. CoinbaseSum(candidate) \in 1 .. MaxSupply
  BY <1>1, <1>4
<1> QED
  BY <1>5, ParamsAssumption

LEMMA FateOfCandidate ==
    ASSUME MinerInv, BuildsBlocks
    PROVE  CandidateFate
<1> SUFFICES ASSUME up, candidate # NoBlock, CoinbasesDiffer(Append(chain, candidate))
             PROVE  CandidateFate
  BY DEF CandidateFate
<1> DEFINE taken == 2 .. Len(candidate.txs)
           table == [i \in taken |-> pool.fee[candidate.txs[i]]]
           reward == Subsidy(candidate.height, minted) + SumFunction(table)
           current == candidate.height = Height(chain) + 1
           Conditions ==
               /\ current
               /\ candidate.time > MedianTimePast(chain)
               /\ CoinbaseSum(candidate) > 0
               /\ \A i \in taken : ~Overtaken(candidate.txs[i])
               /\ CoinbaseSum(candidate) <= reward
               /\ CryptoProvider => taken = {}
<1>1. /\ candidate \in Block /\ chain # <<>> /\ disconnects = 0 /\ TypeInv /\ StoreInv
      /\ Height(chain) \in Nat
  <2>1. StoreInv
    BY DEF MinerInv, PooledInv, WorthInv
  <2> QED
    BY <2>1, TipHeight DEF BuildsBlocks, MinerInv, Undisturbed, StoreInv
<1>2. ASSUME current
      PROVE  /\ OfPool(candidate)
             /\ PoolFits => ClaimsItsFees(candidate)
             /\ SumFunction(table) = FeesOf(candidate)
  <2>1. OfPool(candidate) /\ (PoolFits => ClaimsItsFees(candidate))
    BY <1>2 DEF MinerInv, CandidateInv
  <2>2. \A i \in taken : pool.fee[candidate.txs[i]] = FeeOf(candidate.txs[i])
    BY <1>1, <2>1 DEF OfPool, MinerInv, PooledInv
  <2>3. table = FeeTable(candidate)
    BY <2>2 DEF FeeTable
  <2> QED
    BY <2>1, <2>3 DEF FeesOf
<1>3. ASSUME current, \A i \in taken : ~Overtaken(candidate.txs[i])
      PROVE  CandidateStands
  BY <1>1, <1>2, <1>3 DEF CandidateStands
<1>4. ASSUME Conditions PROVE CanAdd(candidate)
  <2>1. CandidateStands /\ ClaimsNoMore
    BY <1>2, <1>3, <1>4 DEF ClaimsNoMore
  <2> QED
    BY <1>4, <2>1, CandidateAdds
<1>5. ASSUME CanAdd(candidate) PROVE Conditions
  <2>1. /\ ValidateBlock(chain, utxos, minted, candidate)
        /\ ConnectTxs(utxos, candidate).ok
    BY <1>5 DEF CanAdd, Connected, ConnectBlock
  <2>2. /\ current
        /\ candidate.height > 0 => candidate.time > MedianTimePast(chain)
        /\ FeesOK(candidate, utxos)
        /\ SubsidyOK(candidate, minted, Fees(candidate, utxos))
        /\ CryptoProvider => \A i \in taken : candidate.txs[i].sig = "self"
    BY <1>1, <2>1 DEF ValidateBlock, ConsensusOK
  <2>3. candidate.time > MedianTimePast(chain)
    BY <1>1, <2>2
  <2>4. CoinbaseSum(candidate) > 0
    BY <1>1, <1>2, <2>1, <2>2, PaysSomething
  <2>5. \A i \in taken : ~Overtaken(candidate.txs[i])
    BY <1>1, <2>2, FeesNeedInputs
  <2>6. Fees(candidate, utxos) = FeesOf(candidate)
    <3>1. IsSound(utxos)
      BY <1>1 DEF MinerInv, PooledInv, WorthInv
    <3> QED
      BY <1>1, <2>2, <3>1, FeesAreFees
  <2>7. CoinbaseSum(candidate) <= reward
    BY <1>2, <2>2, <2>6 DEF SubsidyOK
  <2>8. CryptoProvider => taken = {}
    BY <1>2, <2>2 DEF OfPool, MinerInv, PoolSigned
  <2> QED
    BY <2>2, <2>3, <2>4, <2>5, <2>7, <2>8
<1>6. current /\ PoolFits => CoinbaseSum(candidate) = reward
  BY <1>2 DEF ClaimsItsFees
<1> HIDE DEF Conditions
<1>7. (CanAdd(candidate) <=> Conditions) /\ (current /\ PoolFits => CoinbaseSum(candidate) = reward)
  BY <1>4, <1>5, <1>6
<1> QED
  BY <1>7 DEF CandidateFate, Conditions

LEMMA UndisturbedStep ==
    ASSUME TypeInv, Undisturbed, BuildsBlocks, [MinerNext]_minerVars
    PROVE  Undisturbed'
<1>1. faults \in [FaultKinds -> Nat] /\ {"store", "flush"} \subseteq FaultKinds
  BY DEF TypeInv, TypeOK, FaultKinds
<1>2. UNCHANGED disconnects /\ (UNCHANGED faults \/ Fault("flush"))
  BY DEF MinerNext, minerVars, vars, BuildCandidateBlock, SubmitBlock, MiningStopped, Tick,
         ChainStep, ExitMiner, OpenExisting, OpenFresh, Exit, AddBlock, AddTransactionToMempool
<1>3. Fault("flush") => faults'["store"] = faults["store"]
  BY <1>1 DEF Fault
<1> QED
  BY <1>2, <1>3 DEF Undisturbed, Never

(* A node that mines is a node as specified in Blockchain, as long as the  *)
(* blocks it builds are among those the chain is specified for: what is    *)
(* proved of the chain holds of it.                                        *)
THEOREM MinerKeepsTheRules == MinerSpec /\ []BuildsBlocks => Spec
<1>1. MinerInit => Init
  BY DEF MinerInit
<1>2. BuildsBlocks /\ [MinerNext]_minerVars => [Next]_vars
  BY MinerStepIsStep
<1> QED
  BY <1>1, <1>2, PTL DEF MinerSpec, Spec

(* What becomes of a candidate, with a crypto provider or without one, and *)
(* whatever came into chain and pool since it was built: exactly those are *)
(* accepted that are still for the next height, have a timestamp above the *)
(* median, something in the coinbase and no more than what they took pays, *)
(* hold no entry that a block has overtaken and, where there is a          *)
(* provider, none at all; and while the pool fits into a block a candidate *)
(* for the next height claims what it may.                                 *)
THEOREM MinedIsAccepted == MinerSpec /\ []BuildsBlocks => []CandidateFate
<1>1. MinerInit => Undisturbed /\ CandidateInv
  BY DEF MinerInit, Init, Undisturbed, Never, FaultKinds, CandidateInv
<1>2. PooledInv => TypeInv
  BY DEF PooledInv, WorthInv, StoreInv
<1>3. /\ PooledInv /\ PooledInv' /\ Undisturbed /\ CandidateInv /\ BuildsBlocks /\ BuildsBlocks'
      /\ [MinerNext]_minerVars
      => Undisturbed' /\ CandidateInv'
  BY <1>2, UndisturbedStep, CandidateStep
<1>4. Spec => []PooledInv
  BY PooledInit, PooledStep, PTL DEF Spec
<1>5. Init => PoolSigned
  BY DEF Init, PoolSigned, EmptyPool, Entries
<1>6. Spec => []PoolSigned
  BY <1>5, SignedStep, PTL DEF Spec
<1>7. MinerSpec /\ []BuildsBlocks => []PooledInv /\ []HistoryInv /\ []PoolConsistent /\ []PoolSigned
  BY <1>4, <1>6, MinerKeepsTheRules, HistoryInvariant, PoolIsConsistent, PTL
<1>8. MinerSpec /\ []BuildsBlocks => [](Undisturbed /\ CandidateInv)
  BY <1>1, <1>3, <1>7, PTL DEF MinerSpec
<1>9. MinerSpec /\ []BuildsBlocks => []MinerInv
  BY <1>7, <1>8, PTL DEF MinerInv
<1>10. MinerInv /\ BuildsBlocks => CandidateFate
  BY FateOfCandidate
<1> QED
  BY <1>9, <1>10, PTL
=============================================================================

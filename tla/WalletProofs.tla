---------------------------- MODULE WalletProofs ----------------------------
(***************************************************************************)
(* The keys of a wallet stay openable, and what the user was shown stays   *)
(* in the file, for all sets of keys, passwords and timeouts.              *)
(*                                                                         *)
(* The invariants are not inductive by themselves.  Save replaces the file *)
(* by what is in memory, so the proof needs that an unlocked wallet has    *)
(* every key of the file (Ahead); a locked one need not: Load leaves it    *)
(* empty.  From these invariants follow the deadlines, and that the wallet *)
(* implements KeyStore.  At the end stand the theorems about AtomicFile,   *)
(* which writes the wallet file and every other, for any contents and any  *)
(* number of calls.                                                        *)
(***************************************************************************)
EXTENDS Wallet, AtomicFile, TLAPS

Unlocked(w) == w # Nothing /\ w.master # Nothing

(* Every key record of a file or an unlocked wallet is sealed with its     *)
(* master key.                                                             *)
Openable(w) == Unlocked(w) => \A r \in w.keys : r[2] = w.master

(* An unlocked wallet in memory has every key of the file. *)
Ahead == Unlocked(wallet) => KeysOf(file) \subseteq KeysOf(wallet)

WalletInv ==
    /\ TypeOK
    /\ Openable(file) /\ Openable(backup) /\ Openable(wallet)
    /\ Ahead
    /\ ShownIsSaved

-----------------------------------------------------------------------------
(* The operators on wallets. *)

LEMMA MasterIsSomething == ASSUME NEW m \in Master PROVE m # Nothing
BY NothingAssumption

LEMMA FileFields ==
    ASSUME NEW f \in WalletFile
    PROVE  f # Nothing /\ f.keys \subseteq Record /\ f.master \in Master /\ Unlocked(f)
BY NothingAssumption, MasterIsSomething DEF WalletFile, Unlocked

LEMMA WalletFields ==
    ASSUME NEW w \in OpenWallet
    PROVE  /\ w # Nothing
           /\ w.keys \subseteq Record
           /\ w.master \in Master \cup {Nothing}
           /\ w.until \in Nat
           /\ w.autoLock \in Nat
BY NothingAssumption DEF OpenWallet

LEMMA LoadedType == Loaded \in OpenWallet /\ Loaded.master = Nothing /\ Loaded.keys = {}
BY WalletAssumption DEF Loaded, OpenWallet

LEMMA EnsuredType ==
    ASSUME TypeOK
    PROVE  /\ Ensured \in OpenWallet
           /\ Unlocked(Ensured) => Ensured = wallet
BY LoadedType DEF TypeOK, Ensured, Unlocked

LEMMA LockedType ==
    ASSUME NEW w \in OpenWallet
    PROVE  Locked(w) \in OpenWallet /\ ~Unlocked(Locked(w)) /\ Locked(w).keys = w.keys
BY DEF Locked, OpenWallet, Unlocked

LEMMA AutoLockedType ==
    ASSUME NEW w \in OpenWallet
    PROVE  AutoLocked(w) \in OpenWallet /\ (Unlocked(AutoLocked(w)) => AutoLocked(w) = w)
BY LockedType DEF AutoLocked

LEMMA DeadlineType ==
    ASSUME TypeOK, NEW t \in Nat
    PROVE  Deadline(t) \in Nat
BY WalletAssumption DEF Deadline, TypeOK

LEMMA GrownType ==
    ASSUME NEW w \in OpenWallet, NEW k \in Key, w.master # Nothing
    PROVE  /\ Grown(w, k) \in OpenWallet
           /\ Grown(w, k).master = w.master
           /\ Grown(w, k).keys = w.keys \cup {<<k, w.master>>}
BY WalletFields DEF Grown, OpenWallet, Record

LEMMA GrownKeys ==
    ASSUME NEW w \in OpenWallet, NEW k \in Key, w.master # Nothing
    PROVE  KeysOf(Grown(w, k)) = KeysOf(w) \cup {k}
<1>1. Grown(w, k) # Nothing /\ w # Nothing
  BY GrownType, WalletFields
<1>2. {r[1] : r \in w.keys \cup {<<k, w.master>>}} = {r[1] : r \in w.keys} \cup {k}
  <2>1. <<k, w.master>>[1] = k
    OBVIOUS
  <2> DEFINE rec == <<k, w.master>>
  <2>2. {r[1] : r \in w.keys \cup {rec}} = {r[1] : r \in w.keys} \cup {rec[1]}
    <3> HIDE DEF rec
    <3> QED  OBVIOUS
  <2>3. QED
    BY <2>1, <2>2
<1>3. QED
  BY <1>1, <1>2, GrownType DEF KeysOf

LEMMA ContentType ==
    ASSUME NEW w \in OpenWallet, w.master # Nothing
    PROVE  /\ Content(w) \in WalletFile
           /\ Openable(w) => Openable(Content(w))
           /\ KeysOf(Content(w)) = KeysOf(w)
<1>1. Content(w) \in WalletFile /\ Content(w).keys = w.keys /\ Content(w).master = w.master
  BY WalletFields DEF Content, WalletFile
<1>2. QED
  BY <1>1, FileFields, WalletFields DEF Openable, Unlocked, KeysOf

LEMMA FaultType ==
    ASSUME TypeOK, Fault
    PROVE  faults' \in 0 .. MaxFaults /\ faults' # 0
BY WalletAssumption DEF TypeOK, Fault

LEMMA ElsewhereType ==
    ASSUME TypeOK
    PROVE  [wanted EXCEPT !.here = FALSE] \in [unlocked : BOOLEAN, until : Nat, here : BOOLEAN]
BY DEF TypeOK

(* What a write leaves: the new content, or after a failure the old or     *)
(* nothing.                                                                *)
LEMMA StoredType ==
    ASSUME TypeOK, NEW new \in WalletFile, Stored(new)
    PROVE  /\ file' \in WalletFile \cup {Nothing}
           /\ faults' \in 0 .. MaxFaults
           /\ \/ file' = new /\ faults' = faults
              \/ file' \in {file, Nothing} /\ faults' # 0
<1>1. CASE file' = new /\ UNCHANGED faults
  BY <1>1 DEF TypeOK
<1>2. CASE Fault /\ file' \in {file, Nothing}
  BY <1>2, FaultType DEF TypeOK
<1>3. QED
  BY <1>1, <1>2 DEF Stored

-----------------------------------------------------------------------------
(* The initial state. *)

LEMMA WalletInit == Init => WalletInv
<1> SUFFICES ASSUME Init PROVE WalletInv
  OBVIOUS
<1>1. TypeOK
  BY WalletAssumption DEF Init, TypeOK
<1>2. QED
  BY <1>1 DEF Init, WalletInv, Openable, Unlocked, Ahead, ShownIsSaved

-----------------------------------------------------------------------------
(* The steps. *)

LEMMA CreateWalletStep ==
    ASSUME WalletInv, NEW p \in Password, NEW k \in Key, CreateWallet(p, k)
    PROVE  WalletInv'
<1> DEFINE master == <<p, salts + 1>>
           made == [keys |-> {<<k, master>>}, master |-> master]
           fresh == [Loaded EXCEPT !.keys = made.keys]
<1>1. TypeOK
  BY DEF WalletInv
<1>2. master \in Master
  BY <1>1 DEF TypeOK, Master
<1>3. made \in WalletFile /\ Openable(made) /\ fresh \in OpenWallet /\ ~Unlocked(fresh)
  <2> HIDE DEF master
  <2>1. made \in WalletFile
    BY <1>2 DEF WalletFile, Record
  <2>2. Openable(made)
    BY DEF Openable
  <2>3. fresh \in OpenWallet /\ ~Unlocked(fresh)
    BY <1>2, LoadedType DEF OpenWallet, Record, Unlocked
  <2>4. QED
    BY <2>1, <2>2, <2>3
<1>4. KeysOf(made) = {k}
  <2>1. made # Nothing
    BY <1>3, FileFields
  <2>2. {r[1] : r \in {<<k, master>>}} = {<<k, master>>[1]}
    <3> DEFINE rec == <<k, master>>
    <3> HIDE DEF rec
    <3>1. {r[1] : r \in {rec}} = {rec[1]}
      OBVIOUS
    <3>2. QED
      BY <3>1 DEF rec
  <2>3. <<k, master>>[1] = k
    OBVIOUS
  <2>4. QED
    BY <2>1, <2>2, <2>3 DEF KeysOf
<1> HIDE DEF made, fresh
<1>5. /\ file = Nothing /\ salts < MaxWallets /\ salts' = salts + 1 /\ used' = used \cup {k}
      /\ backup' = backup /\ now' = now
  BY DEF CreateWallet
<1>6. CASE /\ file' = made /\ wallet' = fresh /\ shown' = {k}
           /\ wanted' = Forget(0) /\ UNCHANGED faults
  <2>1. TypeOK'
    BY <1>1, <1>3, <1>5, <1>6, WalletAssumption DEF TypeOK, Forget
  <2>2. QED
    BY <2>1, <1>3, <1>4, <1>5, <1>6 DEF WalletInv, Ahead, ShownIsSaved, Openable, Unlocked
<1>7. CASE Fault /\ UNCHANGED <<file, wallet, shown, wanted>>
  <2>1. TypeOK'
    BY <1>1, <1>5, <1>7, FaultType, WalletAssumption DEF TypeOK
  <2>2. QED
    BY <2>1, <1>1, <1>5, <1>7, FaultType DEF WalletInv, Ahead, ShownIsSaved, Openable, Unlocked
<1>8. CASE /\ Fault /\ file' \in {Nothing, made} /\ wallet' = Nothing
           /\ wanted' = [wanted EXCEPT !.here = FALSE] /\ UNCHANGED shown
  <2>1. TypeOK'
    BY <1>1, <1>3, <1>5, <1>8, FaultType, ElsewhereType, WalletAssumption DEF TypeOK
  <2>2. QED
    BY <2>1, <1>1, <1>3, <1>5, <1>8, FaultType DEF WalletInv, Ahead, ShownIsSaved, Openable, Unlocked
<1>9. QED
  BY <1>6, <1>7, <1>8 DEF CreateWallet, made, fresh, master

(* What the calls that leave the file alone have to keep. *)
LEMMA MemoryStep ==
    ASSUME WalletInv, TypeOK',
           UNCHANGED <<file, shown, faults>>,
           backup' = backup \/ backup' = file \/ backup' = Nothing,
           Unlocked(wallet') => Openable(wallet') /\ KeysOf(file) \subseteq KeysOf(wallet')
    PROVE  WalletInv'
BY DEF WalletInv, Ahead, ShownIsSaved, Openable, Unlocked

LEMMA UnlockStep ==
    ASSUME WalletInv, NEW p \in Password, NEW t \in Timeout \cup {Ensured.autoLock}, Unlock(p, t)
    PROVE  WalletInv'
<1>1. TypeOK /\ Openable(file) /\ file \in WalletFile
  BY DEF WalletInv, TypeOK, Unlock
<1>2. Ensured \in OpenWallet /\ t \in Nat
  BY <1>1, EnsuredType, WalletFields, WalletAssumption
<1>3. Deadline(t) \in Nat /\ now + t \in Nat
  BY <1>1, <1>2, DeadlineType DEF TypeOK
<1>4. /\ wallet' \in OpenWallet /\ wallet'.keys = file.keys /\ wallet'.master = file.master
  BY <1>1, <1>2, <1>3, FileFields, WalletFields DEF Unlock, OpenWallet
<1>5. TypeOK'
  BY <1>1, <1>3, <1>4 DEF Unlock, TypeOK
<1>6. Openable(wallet') /\ KeysOf(wallet') = KeysOf(file)
  BY <1>1, <1>4, FileFields, WalletFields DEF Openable, Unlocked, KeysOf
<1>7. QED
  BY <1>5, <1>6, MemoryStep DEF Unlock

(* A wallet that is as it was, or locked. *)
LEMMA SameOrLocked ==
    ASSUME WalletInv, TypeOK', UNCHANGED <<file, shown, faults>>,
           backup' = backup \/ backup' = file \/ backup' = Nothing,
           Unlocked(wallet') => wallet' = wallet
    PROVE  WalletInv'
BY MemoryStep DEF WalletInv, Ahead

LEMMA OpenOnlyStep == ASSUME WalletInv, OpenOnly PROVE WalletInv'
<1>1. TypeOK
  BY DEF WalletInv
<1>2. TypeOK'
  BY <1>1, EnsuredType DEF OpenOnly, TypeOK
<1>3. QED
  BY <1>1, <1>2, EnsuredType, SameOrLocked DEF OpenOnly

LEMMA LockWalletStep == ASSUME WalletInv, LockWallet PROVE WalletInv'
<1>1. TypeOK
  BY DEF WalletInv
<1>2. wallet' \in OpenWallet /\ ~Unlocked(wallet')
  BY <1>1, EnsuredType, LockedType DEF LockWallet
<1>3. TypeOK'
  BY <1>1, <1>2 DEF LockWallet, TypeOK, Forget
<1>4. QED
  BY <1>2, <1>3, SameOrLocked DEF LockWallet

LEMMA SetAutoLockTimeoutStep ==
    ASSUME WalletInv, NEW t \in Timeout, SetAutoLockTimeout(t)
    PROVE  WalletInv'
<1>1. TypeOK /\ wallet \in OpenWallet /\ t \in Nat
  BY WalletAssumption DEF WalletInv, TypeOK, SetAutoLockTimeout
<1>2. Deadline(t) \in Nat /\ now + t \in Nat
  BY <1>1, DeadlineType DEF TypeOK
<1>3. wallet' \in OpenWallet /\ wallet'.keys = wallet.keys /\ wallet'.master = wallet.master
  BY <1>1, <1>2, WalletFields DEF SetAutoLockTimeout, OpenWallet
<1>4. wanted' \in [unlocked : BOOLEAN, until : Nat, here : BOOLEAN]
  BY <1>1, <1>2 DEF SetAutoLockTimeout, TypeOK
<1>5. TypeOK'
  BY <1>1, <1>3, <1>4 DEF SetAutoLockTimeout, TypeOK
<1>6. Unlocked(wallet') => Openable(wallet') /\ KeysOf(file) \subseteq KeysOf(wallet')
  BY <1>1, <1>3, WalletFields DEF WalletInv, Ahead, Openable, Unlocked, KeysOf
<1>7. QED
  BY <1>5, <1>6, MemoryStep DEF SetAutoLockTimeout

LEMMA SendOrSignStep == ASSUME WalletInv, SendOrSign PROVE WalletInv'
<1>1. TypeOK
  BY DEF WalletInv
<1>2. AutoLocked(Ensured) \in OpenWallet /\ (Unlocked(AutoLocked(Ensured)) => AutoLocked(Ensured) = wallet)
  BY <1>1, EnsuredType, AutoLockedType
<1>3. TypeOK'
  BY <1>1, <1>2 DEF SendOrSign, TypeOK
<1>4. QED
  BY <1>2, <1>3, SameOrLocked DEF SendOrSign

(* What GenerateNewAddress and ImportPrivateKey make of an unlocked wallet.*)
LEMMA AnotherKey ==
    ASSUME WalletInv, NEW k \in Key, NEW w \in OpenWallet,
           w.master # Nothing, Unlocked(w) => w = wallet
    PROVE  /\ Grown(w, k) \in OpenWallet
           /\ Grown(w, k).master # Nothing
           /\ Openable(Grown(w, k))
           /\ KeysOf(Grown(w, k)) = KeysOf(w) \cup {k}
           /\ KeysOf(file) \subseteq KeysOf(w)
<1>1. w = wallet /\ Unlocked(w)
  BY WalletFields DEF Unlocked
<1>2. Grown(w, k) \in OpenWallet /\ KeysOf(Grown(w, k)) = KeysOf(w) \cup {k}
  BY GrownType, GrownKeys
<1>3. Openable(Grown(w, k))
  <2>1. \A r \in w.keys \cup {<<k, w.master>>} : r[2] = w.master
    <3>1. \A r \in w.keys : r[2] = w.master
      BY <1>1 DEF WalletInv, Openable
    <3>2. QED
      BY <3>1
  <2>2. QED
    BY <2>1, GrownType DEF Openable
<1>4. QED
  BY <1>1, <1>2, <1>3, GrownType DEF WalletInv, Ahead

(* What a write of an unlocked wallet with all the keys shown leaves.      *)
LEMMA WriteStep ==
    ASSUME WalletInv, TypeOK', NEW w \in OpenWallet, w.master # Nothing, Openable(w),
           Stored(Content(w)), wallet' = w, UNCHANGED backup,
           KeysOf(file) \subseteq KeysOf(w),
           shown' \subseteq shown \cup KeysOf(w)
    PROVE  WalletInv'
<1>1. TypeOK /\ Content(w) \in WalletFile /\ Openable(Content(w)) /\ KeysOf(Content(w)) = KeysOf(w)
  BY ContentType DEF WalletInv
<1>2. \/ file' = Content(w) /\ faults' = faults
      \/ file' \in {file, Nothing} /\ faults' # 0
  BY <1>1, StoredType
<1>3. KeysOf(Nothing) = {}
  BY DEF KeysOf
<1>4. CASE file' = Content(w) /\ faults' = faults
  <2>1. ShownIsSaved'
    BY <1>1, <1>4 DEF WalletInv, ShownIsSaved
  <2>2. Ahead'
    BY <1>1, <1>4 DEF Ahead
  <2>3. QED
    BY <1>1, <1>4, <2>1, <2>2 DEF WalletInv, Openable, Unlocked
<1>5. CASE file' \in {file, Nothing} /\ faults' # 0
  <2>1. Ahead'
    BY <1>3, <1>5 DEF Ahead
  <2>2. QED
    BY <1>5, <2>1 DEF WalletInv, Openable, Unlocked, ShownIsSaved
<1>6. QED
  BY <1>2, <1>4, <1>5

LEMMA NewAddressStep == ASSUME WalletInv, NEW k \in Key, NewAddress(k) PROVE WalletInv'
<1> DEFINE w == AutoLocked(Ensured)
<1>1. TypeOK
  BY DEF WalletInv
<1>2. w \in OpenWallet /\ (Unlocked(w) => w = wallet)
  BY <1>1, EnsuredType, AutoLockedType
<1>3. /\ w.master # Nothing /\ wallet' = Grown(w, k) /\ used' = used \cup {k}
      /\ Stored(Content(Grown(w, k))) /\ shown' = shown \cup {k}
      /\ UNCHANGED <<backup, now, salts, wanted>>
  BY DEF NewAddress
<1> HIDE DEF w
<1>4. /\ Grown(w, k) \in OpenWallet /\ Grown(w, k).master # Nothing /\ Openable(Grown(w, k))
      /\ KeysOf(Grown(w, k)) = KeysOf(w) \cup {k} /\ KeysOf(file) \subseteq KeysOf(w)
  BY <1>2, <1>3, AnotherKey
<1>5. file' \in WalletFile \cup {Nothing} /\ faults' \in 0 .. MaxFaults
  BY <1>1, <1>3, <1>4, ContentType, StoredType
<1>6. TypeOK'
  BY <1>1, <1>3, <1>4, <1>5 DEF TypeOK
<1>7. QED
  BY <1>3, <1>4, <1>6, WriteStep

LEMMA NewAddressCrashesStep ==
    ASSUME WalletInv, NEW k \in Key, NewAddressCrashes(k)
    PROVE  WalletInv'
<1> DEFINE w == AutoLocked(Ensured)
<1>1. TypeOK
  BY DEF WalletInv
<1>2. w \in OpenWallet /\ (Unlocked(w) => w = wallet)
  BY <1>1, EnsuredType, AutoLockedType
<1>3. /\ w.master # Nothing /\ wallet' = Nothing /\ used' = used \cup {k}
      /\ Fault /\ file' \in {file, Nothing, Content(Grown(w, k))}
      /\ wanted' = [wanted EXCEPT !.here = FALSE]
      /\ UNCHANGED <<backup, now, salts, shown>>
  BY DEF NewAddressCrashes
<1> HIDE DEF w
<1>4. Content(Grown(w, k)) \in WalletFile /\ Openable(Content(Grown(w, k)))
  BY <1>2, <1>3, AnotherKey, ContentType
<1>5. TypeOK'
  BY <1>1, <1>3, <1>4, FaultType, ElsewhereType DEF TypeOK
<1>6. QED
  BY <1>1, <1>3, <1>4, <1>5, FaultType DEF WalletInv, Openable, Unlocked, Ahead, ShownIsSaved

LEMMA ImportPrivateKeyStep ==
    ASSUME WalletInv, NEW k \in Key, ImportPrivateKey(k)
    PROVE  WalletInv'
<1> DEFINE w == AutoLocked(wallet)
<1>1. TypeOK /\ wallet \in OpenWallet
  BY DEF WalletInv, TypeOK, ImportPrivateKey
<1>2. w \in OpenWallet /\ (Unlocked(w) => w = wallet)
  BY <1>1, AutoLockedType
<1>3. /\ w.master # Nothing /\ wallet' = Grown(w, k) /\ used' = used \cup {k}
      /\ UNCHANGED <<file, backup, now, salts, shown, wanted, faults>>
  BY DEF ImportPrivateKey
<1> HIDE DEF w
<1>4. /\ Grown(w, k) \in OpenWallet /\ Openable(Grown(w, k))
      /\ KeysOf(file) \subseteq KeysOf(Grown(w, k))
  BY <1>2, <1>3, AnotherKey
<1>5. TypeOK'
  BY <1>1, <1>3, <1>4 DEF TypeOK
<1>6. QED
  BY <1>3, <1>4, <1>5, MemoryStep

LEMMA SaveStep == ASSUME WalletInv, Save PROVE WalletInv'
<1>1. /\ TypeOK /\ wallet \in OpenWallet /\ wallet.master # Nothing /\ Unlocked(wallet)
      /\ Stored(Content(wallet)) /\ UNCHANGED <<backup, wallet, now, used, shown, salts, wanted>>
  BY DEF WalletInv, TypeOK, Save, Unlocked
<1>2. file' \in WalletFile \cup {Nothing} /\ faults' \in 0 .. MaxFaults
  BY <1>1, ContentType, StoredType
<1>3. TypeOK'
  BY <1>1, <1>2 DEF TypeOK
<1>4. Openable(wallet) /\ KeysOf(file) \subseteq KeysOf(wallet)
  BY <1>1 DEF WalletInv, Ahead
<1>5. QED
  BY <1>1, <1>3, <1>4, WriteStep

LEMMA BackupStep == ASSUME WalletInv, Backup PROVE WalletInv'
<1>1. TypeOK /\ Ensured \in OpenWallet /\ (Unlocked(Ensured) => Ensured = wallet)
  BY EnsuredType DEF WalletInv
<1>2. CASE backup' = file /\ UNCHANGED faults
  <2>1. TypeOK'
    BY <1>1, <1>2 DEF Backup, TypeOK
  <2>2. QED
    BY <1>1, <1>2, <2>1, SameOrLocked DEF Backup
<1>3. CASE Fault /\ backup' \in {backup, Nothing}
  <2>1. TypeOK'
    BY <1>1, <1>3, FaultType DEF Backup, TypeOK
  <2>2. QED
    BY <1>1, <1>3, <2>1, FaultType
       DEF Backup, WalletInv, Openable, Unlocked, Ahead, ShownIsSaved
<1>4. QED
  BY <1>2, <1>3 DEF Backup

LEMMA CloseStep ==
    ASSUME WalletInv, CloseWallet \/ DeleteWallet \/ Exit
    PROVE  WalletInv'
<1>1. TypeOK
  BY DEF WalletInv
<1>2. CASE CloseWallet
  <2>1. TypeOK'
    BY <1>1, <1>2 DEF CloseWallet, TypeOK, Forget
  <2>2. QED
    BY <1>2, <2>1, SameOrLocked DEF CloseWallet, Unlocked
<1>3. CASE DeleteWallet
  <2>1. TypeOK'
    BY <1>1, <1>3 DEF DeleteWallet, TypeOK, Forget
  <2>2. QED
    BY <1>3, <2>1 DEF DeleteWallet, WalletInv, Openable, Unlocked, Ahead, ShownIsSaved
<1>4. CASE Exit
  <2>1. TypeOK'
    BY <1>1, <1>4, ElsewhereType DEF Exit, TypeOK
  <2>2. QED
    BY <1>4, <2>1, SameOrLocked DEF Exit, Unlocked
<1>5. QED
  BY <1>2, <1>3, <1>4

LEMMA TickStep == ASSUME WalletInv, Tick PROVE WalletInv'
<1>1. TypeOK'
  BY WalletAssumption DEF WalletInv, TypeOK, Tick
<1>2. QED
  BY <1>1, SameOrLocked DEF Tick

LEMMA WalletStep == ASSUME WalletInv, [Next]_vars PROVE WalletInv'
<1>1. CASE Next
  <2>1. CASE \E k \in Key : NewAddress(k) \/ NewAddressCrashes(k) \/ ImportPrivateKey(k)
    BY <2>1, NewAddressStep, NewAddressCrashesStep, ImportPrivateKeyStep
  <2>2. QED
    BY <1>1, <2>1, CreateWalletStep, UnlockStep, OpenOnlyStep, LockWalletStep,
       SetAutoLockTimeoutStep, SendOrSignStep, SaveStep, BackupStep, CloseStep, TickStep
       DEF Next
<1>2. CASE UNCHANGED vars
  BY <1>2 DEF vars, WalletInv, TypeOK, Openable, Unlocked, Ahead, ShownIsSaved
<1>3. QED
  BY <1>1, <1>2

LEMMA WalletInvariant == Spec => []WalletInv
<1>1. Init => WalletInv
  BY WalletInit
<1>2. WalletInv /\ [Next]_vars => WalletInv'
  BY WalletStep
<1>3. QED
  BY <1>1, <1>2, PTL DEF Spec

-----------------------------------------------------------------------------
(* Every variable keeps its type, for all keys, passwords and timeouts.    *)
THEOREM WalletTypeCorrect == Spec => []TypeOK
<1>1. WalletInv => TypeOK
  BY DEF WalletInv
<1>2. QED
  BY <1>1, WalletInvariant, PTL

(* Whoever unlocks the wallet or its backup can use every key in it.       *)
THEOREM EveryKeyOpens == Spec => []KeysOpenable
<1>1. WalletInv => KeysOpenable
  <2> SUFFICES ASSUME WalletInv PROVE KeysOpenable
    OBVIOUS
  <2>1. /\ file # Nothing => Unlocked(file)
        /\ backup # Nothing => Unlocked(backup)
    BY FileFields DEF WalletInv, TypeOK
  <2>2. QED
    BY <2>1 DEF WalletInv, Openable, Unlocked, KeysOpenable
<1>2. QED
  BY <1>1, WalletInvariant, PTL

(* The key of every address the user was given is in the file, unless a    *)
(* write failed.                                                           *)
THEOREM ShownStaysSaved == Spec => []ShownIsSaved
<1>1. WalletInv => ShownIsSaved
  BY DEF WalletInv
<1>2. QED
  BY <1>1, WalletInvariant, PTL

(* No write of the wallet file drops a key, also after failures.           *)
THEOREM NoKeyIsDropped == Spec => KeysKept
<1> DEFINE Kept == file # Nothing /\ file' # Nothing => KeysOf(file) \subseteq KeysOf(file')
<1>1. WalletInv /\ [Next]_vars => Kept \/ UNCHANGED vars
  <2> SUFFICES ASSUME WalletInv, Next, file # Nothing, file' # Nothing
               PROVE  KeysOf(file) \subseteq KeysOf(file')
    OBVIOUS
  <2>1. TypeOK /\ file \in WalletFile
    BY DEF WalletInv, TypeOK
  <2>2. CASE \E k \in Key : NewAddress(k) \/ NewAddressCrashes(k)
    <3>1. PICK k \in Key : NewAddress(k) \/ NewAddressCrashes(k)
      BY <2>2
    <3> DEFINE w == AutoLocked(Ensured)
    <3>2. w \in OpenWallet /\ (Unlocked(w) => w = wallet)
      BY <2>1, EnsuredType, AutoLockedType
    <3>3. /\ w.master # Nothing
          /\ \/ Stored(Content(Grown(w, k)))
             \/ file' \in {file, Nothing, Content(Grown(w, k))}
      BY <3>1 DEF NewAddress, NewAddressCrashes
    <3> HIDE DEF w
    <3>4. file' \in {file, Nothing, Content(Grown(w, k))}
      BY <3>3 DEF Stored
    <3>5. KeysOf(file) \subseteq KeysOf(Content(Grown(w, k)))
      BY <3>2, <3>3, AnotherKey, ContentType
    <3>6. QED
      BY <3>4, <3>5
  <2>3. CASE Save
    <3>1. wallet \in OpenWallet /\ wallet.master # Nothing /\ Unlocked(wallet)
      BY <2>1, <2>3 DEF Save, TypeOK, Unlocked
    <3>2. file' \in {file, Nothing, Content(wallet)}
      BY <2>3 DEF Save, Stored
    <3>3. QED
      BY <3>1, <3>2, ContentType DEF WalletInv, Ahead
  <2>4. CASE UNCHANGED file
    BY <2>4
  <2>5. CASE \E p \in Password, k \in Key : CreateWallet(p, k)
    BY <2>5 DEF CreateWallet
  <2>6. CASE DeleteWallet
    BY <2>6 DEF DeleteWallet
  <2>7. QED
    BY <2>2, <2>3, <2>4, <2>5, <2>6
       DEF Next, Unlock, OpenOnly, LockWallet, SetAutoLockTimeout, SendOrSign,
           ImportPrivateKey, Backup, CloseWallet, Exit, Tick
<1>2. WalletInv /\ [Next]_vars => [Kept]_vars
  BY <1>1
<1>3. QED
  BY <1>2, WalletInvariant, PTL DEF Spec, KeysKept

-----------------------------------------------------------------------------
(* Deadlines. *)

(* How a step can change whether the wallet is unlocked, and for how long. *)
Keeps ==
    /\ wanted' = wanted /\ now' \in Nat /\ now' >= now
    /\ Unlocked(wallet') <=> Unlocked(wallet)
    /\ Unlocked(wallet) => wallet'.until = wallet.until
Locks == ~Unlocked(wallet') /\ ~(wanted'.unlocked /\ wanted'.here)
Unlocks ==
    /\ Unlocked(wallet')
    /\ wallet'.until = wanted'.until % TimeSpace
    /\ wanted'.until # 0
Expires ==
    /\ wanted' = wanted /\ now' = now
    /\ Unlocked(wallet) /\ wallet.until # 0 /\ now >= wallet.until
    /\ ~Unlocked(wallet')

LEMMA StepOfTime ==
    ASSUME WalletInv, [Next]_vars
    PROVE  Keeps \/ Locks \/ Unlocks \/ Expires
<1>0. /\ TypeOK /\ now \in Nat /\ now # 0 /\ now >= now
      /\ Ensured \in OpenWallet
      /\ Unlocked(Ensured) => Ensured = wallet
      /\ Unlocked(wallet) => Ensured = wallet
      /\ wallet # Nothing => Ensured = wallet
  <2>1. TypeOK
    BY DEF WalletInv
  <2>2. now \in Nat /\ now # 0 /\ now >= now
    BY <2>1, WalletAssumption DEF TypeOK
  <2> QED
    BY <2>1, <2>2, EnsuredType DEF Ensured, Unlocked
<1>1. ASSUME NEW w \in OpenWallet, w.master # Nothing, NEW k \in Key
      PROVE  Unlocked(Grown(w, k)) /\ Grown(w, k).until = w.until
  <2>1. Grown(w, k).until = w.until
    BY DEF Grown, OpenWallet
  <2> QED
    BY <1>1, <2>1, GrownType, WalletFields DEF Unlocked
<1>2. ASSUME NEW w \in OpenWallet, Unlocked(AutoLocked(w)) PROVE AutoLocked(w) = w
  BY <1>2, AutoLockedType
<1>3. ASSUME NEW p \in Password, NEW k \in Key, CreateWallet(p, k) PROVE Keeps \/ Locks
  <2>1. CASE wallet' = wallet /\ wanted' = wanted
    BY <1>0, <1>3, <2>1 DEF CreateWallet, Keeps
  <2>2. CASE wallet' = Nothing /\ wanted' = [wanted EXCEPT !.here = FALSE]
    BY <1>0, <2>2 DEF Locks, Unlocked, TypeOK
  <2>3. CASE wanted' = Forget(0) /\ \E ks : wallet' = [Loaded EXCEPT !.keys = ks]
    BY <2>3, LoadedType DEF Locks, Unlocked, Forget, Loaded
  <2> QED
    BY <1>3, <2>1, <2>2, <2>3 DEF CreateWallet
<1>4. ASSUME NEW p \in Password, NEW t \in Timeout \cup {Ensured.autoLock}, Unlock(p, t)
      PROVE  Unlocks
  <2>1. file \in WalletFile /\ t \in Nat
    BY <1>0, <1>4, WalletFields, WalletAssumption DEF TypeOK, Unlock
  <2>2. file.master \in Master /\ file.master # Nothing /\ file.keys \subseteq Record
    BY <2>1, FileFields, MasterIsSomething
  <2>3. /\ wallet' = [Ensured EXCEPT !.keys = file.keys, !.master = file.master,
                                     !.until = Deadline(t)]
        /\ wanted' = [unlocked |-> TRUE, until |-> now + t, here |-> TRUE]
    BY <1>4 DEF Unlock
  <2>4. wallet'.master = file.master /\ wallet'.until = Deadline(t) /\ wanted'.until = now + t
    BY <1>0, <2>3 DEF OpenWallet
  <2>5. wallet' \in OpenWallet
    BY <1>0, <2>1, <2>2, <2>3, DeadlineType DEF OpenWallet
  <2>6. wanted'.until # 0
    BY <1>0, <2>1, <2>4
  <2> QED
    BY <2>2, <2>4, <2>5, <2>6, WalletFields DEF Unlocks, Unlocked, Deadline
<1>5. CASE OpenOnly \/ Save \/ Backup
  BY <1>0, <1>5 DEF Keeps, OpenOnly, Save, Backup
<1>6. CASE LockWallet
  <2>1. ~Unlocked(wallet') /\ wanted' = Forget(0)
    BY <1>0, <1>6, LockedType DEF LockWallet
  <2> QED
    BY <2>1 DEF Locks, Forget
<1>7. ASSUME NEW t \in Timeout, SetAutoLockTimeout(t) PROVE Keeps \/ Unlocks
  <2>1. wallet \in OpenWallet /\ wallet # Nothing /\ t \in Nat
    BY <1>0, <1>7, WalletAssumption DEF TypeOK, SetAutoLockTimeout
  <2>2. wallet'.master = wallet.master /\ wallet' # Nothing
    <3>1. wallet'.master = wallet.master
      BY <1>7, <2>1 DEF SetAutoLockTimeout, OpenWallet
    <3>2. WalletInv'
      BY <1>7, SetAutoLockTimeoutStep
    <3>3. wallet' = [wallet EXCEPT !.autoLock = t,
                        !.until = IF wallet.master = Nothing THEN @ ELSE Deadline(t)]
      BY <1>7 DEF SetAutoLockTimeout
    <3>4. wallet' \in OpenWallet
      BY <1>0, <2>1, <3>3, DeadlineType DEF OpenWallet
    <3> QED
      BY <3>1, <3>4, WalletFields
  <2>3. CASE wallet.master = Nothing
    <3>1. wanted' = wanted /\ now' = now
      BY <1>0, <1>7, <2>3 DEF SetAutoLockTimeout, TypeOK
    <3> QED
      BY <1>0, <2>2, <2>3, <3>1 DEF Keeps, Unlocked
  <2>4. CASE wallet.master # Nothing
    <3>1. wallet'.until = Deadline(t) /\ wanted'.until = now + t
      BY <1>0, <1>7, <2>1, <2>4 DEF SetAutoLockTimeout, OpenWallet, TypeOK
    <3>2. now + t # 0
      BY <1>0, <2>1
    <3> QED
      BY <2>2, <2>4, <3>1, <3>2 DEF Unlocks, Unlocked, Deadline
  <2> QED
    BY <2>3, <2>4
<1>8. CASE SendOrSign
  <2>1. wallet' = AutoLocked(Ensured) /\ wanted' = wanted /\ now' = now
    BY <1>8 DEF SendOrSign
  <2>2. CASE AutoLocked(Ensured) = Ensured
    BY <1>0, <2>1, <2>2 DEF Keeps
  <2>3. CASE AutoLocked(Ensured) # Ensured
    <3>1. /\ Ensured.master # Nothing /\ Ensured.until # 0 /\ now >= Ensured.until
          /\ AutoLocked(Ensured) = Locked(Ensured)
      BY <2>3 DEF AutoLocked
    <3>2. Unlocked(Ensured) /\ ~Unlocked(Locked(Ensured))
      BY <1>0, <3>1, LockedType, WalletFields DEF Unlocked
    <3> QED
      BY <1>0, <2>1, <3>1, <3>2 DEF Expires
  <2> QED
    BY <2>2, <2>3
<1>9. ASSUME NEW k \in Key, NewAddress(k) PROVE Keeps
  <2> DEFINE w == AutoLocked(Ensured)
  <2>1. w \in OpenWallet
    BY <1>0, AutoLockedType
  <2>2. w.master # Nothing /\ wallet' = Grown(w, k) /\ wanted' = wanted /\ now' = now
    BY <1>9 DEF NewAddress
  <2>3. w = wallet /\ Unlocked(wallet)
    <3>1. Unlocked(w)
      BY <2>1, <2>2, WalletFields DEF Unlocked
    <3> QED
      BY <1>0, <1>2, <3>1
  <2> HIDE DEF w
  <2>4. Unlocked(Grown(w, k)) /\ Grown(w, k).until = w.until
    BY <1>1, <2>1, <2>2
  <2> QED
    BY <1>0, <2>2, <2>3, <2>4 DEF Keeps
<1>10. ASSUME NEW k \in Key, ImportPrivateKey(k) PROVE Keeps
  <2> DEFINE w == AutoLocked(wallet)
  <2>1. /\ w.master # Nothing /\ wallet' = Grown(w, k) /\ wanted' = wanted /\ now' = now
        /\ wallet # Nothing /\ wallet \in OpenWallet
    BY <1>0, <1>10 DEF ImportPrivateKey, TypeOK
  <2>2. w \in OpenWallet
    BY <2>1, AutoLockedType
  <2>3. w = wallet /\ Unlocked(wallet)
    <3>1. Unlocked(w)
      BY <2>1, <2>2, WalletFields DEF Unlocked
    <3> QED
      BY <1>2, <2>1, <3>1
  <2> HIDE DEF w
  <2>4. Unlocked(Grown(w, k)) /\ Grown(w, k).until = w.until
    BY <1>1, <2>1, <2>2
  <2> QED
    BY <1>0, <2>1, <2>3, <2>4 DEF Keeps
<1>11. CASE Exit \/ \E k \in Key : NewAddressCrashes(k)
  BY <1>0, <1>11 DEF Exit, NewAddressCrashes, Locks, Unlocked, TypeOK
<1>12. CASE CloseWallet \/ DeleteWallet
  BY <1>12 DEF CloseWallet, DeleteWallet, Locks, Unlocked, Forget
<1>13. CASE Tick
  BY <1>0, <1>13 DEF Tick, Keeps
<1>14. CASE UNCHANGED vars
  BY <1>0, <1>14 DEF vars, Keeps
<1> QED
  BY <1>3, <1>4, <1>5, <1>6, <1>7, <1>8, <1>9, <1>10, <1>11, <1>12, <1>13, <1>14 DEF Next

(* A wallet that is unlocked is so until the time that was last asked for, *)
(* as far as 64 bits can say it.                                           *)
HoldInv ==
    /\ WalletInv
    /\ Unlocked(wallet) => wallet.until = wanted.until % TimeSpace /\ wanted.until # 0
    /\ UnlockHolds

LEMMA SmallTime ==
    ASSUME NEW t \in Nat, t < TimeSpace
    PROVE  t % TimeSpace = t
BY WalletAssumption

LEMMA HoldStep == HoldInv /\ [Next]_vars => HoldInv'
<1> SUFFICES ASSUME HoldInv, [Next]_vars PROVE HoldInv'
  OBVIOUS
<1>0. WalletInv /\ WalletInv' /\ now \in Nat /\ wanted.until \in Nat
  BY WalletStep, WalletAssumption DEF HoldInv, WalletInv, TypeOK
<1>1. CASE Keeps
  <2>1. Unlocked(wallet') => wallet'.until = wanted'.until % TimeSpace /\ wanted'.until # 0
    BY <1>1 DEF HoldInv, Keeps
  <2>2. ASSUME wanted.unlocked, wanted.here, now' < wanted.until, wanted.until < TimeSpace
        PROVE  Unlocked(wallet')
    <3>1. now < wanted.until
      BY <1>0, <1>1, <2>2 DEF Keeps
    <3>2. Unlocked(wallet)
      BY <2>2, <3>1 DEF HoldInv, UnlockHolds, Unlocked
    <3> QED
      BY <1>1, <3>2 DEF Keeps
  <2>3. UnlockHolds'
    BY <1>1, <2>2 DEF Keeps, UnlockHolds, Unlocked
  <2> QED
    BY <1>0, <2>1, <2>3 DEF HoldInv
<1>2. CASE Locks
  BY <1>0, <1>2 DEF HoldInv, Locks, UnlockHolds
<1>3. CASE Unlocks
  BY <1>0, <1>3 DEF HoldInv, Unlocks, UnlockHolds, Unlocked
<1>4. CASE Expires
  <2>1. ~(now < wanted.until /\ wanted.until < TimeSpace)
    <3> SUFFICES ASSUME now < wanted.until, wanted.until < TimeSpace PROVE FALSE
      OBVIOUS
    <3>1. wallet.until = wanted.until
      BY <1>0, <1>4, SmallTime DEF HoldInv, Expires
    <3>2. now >= wanted.until
      BY <1>4, <3>1 DEF Expires
    <3> QED
      BY <1>0, <3>2
  <2> QED
    BY <1>0, <1>4, <2>1 DEF HoldInv, Expires, UnlockHolds
<1> QED
  BY <1>0, <1>1, <1>2, <1>3, <1>4, StepOfTime

LEMMA HoldInvariant == Spec => []HoldInv
<1>1. Init => HoldInv
  BY WalletInit DEF HoldInv, Init, Unlocked, UnlockHolds
<1> QED
  BY <1>1, HoldStep, PTL DEF Spec

(* While a process runs, an unlock holds for as long as it was asked for:  *)
(* every call that can lock the wallet by itself has its deadline right.   *)
THEOREM UnlockIsHeld == Spec => []UnlockHolds
<1>1. HoldInv => UnlockHolds
  BY DEF HoldInv
<1> QED
  BY <1>1, HoldInvariant, PTL

(* No address is made once the deadline has passed. *)
THEOREM NoLateKey == Spec => NoKeyAfterDeadline
<1> DEFINE Early == file # Nothing /\ shown' # shown /\ shown' # {} /\ wanted.until < TimeSpace
                        => now < wanted.until
<1>1. HoldInv /\ [Next]_vars => Early \/ UNCHANGED vars
  <2> SUFFICES ASSUME HoldInv, [Next]_vars, file # Nothing, shown' # shown, shown' # {},
                      wanted.until < TimeSpace
               PROVE  now < wanted.until
    OBVIOUS
  <2>0. TypeOK /\ now \in Nat /\ wanted.until \in Nat /\ Ensured \in OpenWallet
        /\ (Unlocked(Ensured) => Ensured = wallet)
    BY EnsuredType, WalletAssumption DEF HoldInv, WalletInv, TypeOK
  <2>1. PICK k \in Key : NewAddress(k)
    <3>1. ~\E p \in Password, k \in Key : CreateWallet(p, k)
      BY DEF CreateWallet
    <3>2. ASSUME NEW t \in Timeout PROVE ~SetAutoLockTimeout(t)
      BY DEF SetAutoLockTimeout
    <3>3. ASSUME NEW p \in Password, NEW t PROVE ~Unlock(p, t)
      BY DEF Unlock
    <3>4. ~(OpenOnly \/ LockWallet \/ SendOrSign \/ Save \/ Backup \/ CloseWallet
              \/ DeleteWallet \/ Exit \/ Tick \/ UNCHANGED vars)
      BY DEF vars, OpenOnly, LockWallet, SendOrSign, Save, Backup, CloseWallet, DeleteWallet,
             Exit, Tick
    <3>5. ASSUME NEW k \in Key PROVE ~NewAddressCrashes(k) /\ ~ImportPrivateKey(k)
      BY DEF NewAddressCrashes, ImportPrivateKey
    <3> QED
      BY <3>1, <3>2, <3>3, <3>4, <3>5 DEF Next
  <2>2. AutoLocked(Ensured).master # Nothing
    BY <2>1 DEF NewAddress
  <2>3. Unlocked(AutoLocked(Ensured)) /\ AutoLocked(Ensured) \in OpenWallet
    BY <2>0, <2>2, AutoLockedType, WalletFields DEF Unlocked
  <2>4. AutoLocked(Ensured) = Ensured /\ Ensured = wallet /\ Unlocked(wallet)
    BY <2>0, <2>3, AutoLockedType
  <2>5. wallet.until = wanted.until /\ wanted.until # 0
    BY <2>0, <2>4, SmallTime DEF HoldInv
  <2>6. ~(wallet.master # Nothing /\ wallet.until # 0 /\ now >= wallet.until)
    <3> SUFFICES ASSUME wallet.master # Nothing, wallet.until # 0, now >= wallet.until PROVE FALSE
      OBVIOUS
    <3>1. AutoLocked(wallet) = Locked(wallet)
      BY DEF AutoLocked
    <3>2. wallet \in OpenWallet
      BY <2>0, <2>4
    <3>3. AutoLocked(Ensured) = Locked(wallet)
      BY <2>4, <3>1 DEF Ensured
    <3>4. Unlocked(Locked(wallet))
      BY <2>3, <3>3 DEF Unlocked
    <3> QED
      BY <3>2, <3>4, LockedType
  <2>7. ~(now >= wanted.until)
    BY <2>4, <2>5, <2>6 DEF Unlocked
  <2> QED
    BY <2>0, <2>7
<1> QED
  BY <1>1, HoldInvariant, PTL DEF Spec, NoKeyAfterDeadline
-----------------------------------------------------------------------------
(* The wallet implements KeyStore.                                         *)

(* Where every record is sealed with the master key, all keys are usable.  *)
LEMMA UsableIsAll ==
    ASSUME NEW w, Unlocked(w), Openable(w), w.keys \subseteq Record
    PROVE  Usable(w) = KeysOf(w) /\ Usable(w) \subseteq Key /\ Usable(w) # Nothing
<1>1. {q \in w.keys : q[2] = w.master} = w.keys
  BY DEF Openable
<1>2. Usable(w) = {r[1] : r \in w.keys} /\ Usable(w) = KeysOf(w)
  BY <1>1 DEF Usable, Unlocked, KeysOf
<1>3. \A r \in w.keys : r[1] \in Key
  BY DEF Record
<1>4. Usable(w) \subseteq Key
  BY <1>2, <1>3
<1> QED
  BY <1>2, <1>4, NothingAssumption

LEMMA UsableIsNothing ==
    ASSUME NEW w, ~Unlocked(w)
    PROVE  Usable(w) = Nothing
BY DEF Usable, Unlocked

LEMMA UsableFile ==
    ASSUME NEW f \in WalletFile, Openable(f)
    PROVE  Usable(f) = KeysOf(f) /\ Usable(f) # Nothing
BY FileFields, UsableIsAll

(* What the three places are to the abstract store. *)
LEMMA UsablePlaces ==
    ASSUME WalletInv
    PROVE  /\ file = Nothing => Usable(file) = Nothing
           /\ file # Nothing => Usable(file) # Nothing /\ Usable(file) = KeysOf(file)
           /\ Unlocked(wallet) => Usable(wallet) = KeysOf(wallet) /\ Usable(wallet) # Nothing
           /\ ~Unlocked(wallet) => Usable(wallet) = Nothing
           /\ Usable(Ensured) = Usable(wallet)
<1>1. TypeOK /\ Openable(file) /\ Openable(wallet)
  BY DEF WalletInv
<1>2. file = Nothing => Usable(file) = Nothing
  BY UsableIsNothing DEF Unlocked
<1>3. file # Nothing => Usable(file) # Nothing /\ Usable(file) = KeysOf(file)
  BY <1>1, UsableFile DEF TypeOK
<1>4. Unlocked(wallet) => Usable(wallet) = KeysOf(wallet) /\ Usable(wallet) # Nothing
  <2>1. Unlocked(wallet) => wallet.keys \subseteq Record
    BY <1>1, WalletFields DEF TypeOK, Unlocked
  <2> QED
    BY <1>1, <2>1, UsableIsAll
<1>5. ~Unlocked(wallet) => Usable(wallet) = Nothing
  BY UsableIsNothing
<1>6. Usable(Ensured) = Usable(wallet)
  <2>1. ~Unlocked(Nothing) /\ ~Unlocked(Loaded)
    BY LoadedType DEF Unlocked
  <2> QED
    BY <2>1, UsableIsNothing DEF Ensured
<1> QED
  BY <1>2, <1>3, <1>4, <1>5, <1>6

(* Whether a write has failed. *)
LEMMA FailedAfter ==
    ASSUME TypeOK
    PROVE  /\ UNCHANGED faults => (faults > 0)' = (faults > 0)
           /\ Fault => (faults > 0)' = TRUE
<1>1. faults \in Nat
  BY WalletAssumption DEF TypeOK
<1>2. ASSUME Fault PROVE faults' > 0
  BY <1>1, <1>2 DEF Fault
<1> QED
  BY <1>2

(* A step that leaves the files alone and the wallet as it was, or locks   *)
(* it.                                                                     *)
LEMMA SameOrLock ==
    ASSUME TypeOK, UNCHANGED <<file, backup, shown, faults>>,
           Usable(wallet') \in {Usable(wallet), Nothing}
    PROVE  Keys!Lock \/ UNCHANGED Keys!vars
<1>1. UNCHANGED <<Usable(file), Usable(backup), shown, faults > 0>>
  BY FailedAfter DEF Usable
<1>2. CASE Usable(wallet') = Nothing
  BY <1>1, <1>2 DEF Keys!Lock, Usable
<1>3. CASE Usable(wallet') = Usable(wallet)
  BY <1>1, <1>3 DEF Keys!vars, Usable
<1> QED
  BY <1>2, <1>3

LEMMA CreateIsCreate ==
    ASSUME WalletInv, WalletInv', NEW p \in Password, NEW k \in Key, CreateWallet(p, k)
    PROVE  Keys!Create(k) \/ Keys!CreateFails(k)
<1> DEFINE master == <<p, salts + 1>>
           made == [keys |-> {<<k, master>>}, master |-> master]
<1>1. TypeOK /\ file = Nothing /\ Usable(file) = Nothing /\ UNCHANGED backup
  BY UsablePlaces DEF WalletInv, CreateWallet
<1>2. master # Nothing /\ master \in Master
  <2>1. master \in Master
    BY <1>1 DEF TypeOK, Master
  <2> HIDE DEF master
  <2> QED
    BY <2>1, MasterIsSomething
<1>3. Usable(made) = {k}
  <2> DEFINE rec == <<k, master>>
  <2>1. rec[1] = k /\ rec[2] = master
    OBVIOUS
  <2>2. made.keys = {rec} /\ made.master = master /\ made # Nothing
    <3>1. made \in WalletFile
      BY <1>2 DEF WalletFile, Record
    <3> QED
      BY <3>1, FileFields
  <2> HIDE DEF rec, master, made
  <2>3. {q \in made.keys : q[2] = made.master} = {rec}
    BY <2>1, <2>2
  <2>4. {r[1] : r \in {rec}} = {rec[1]}
    OBVIOUS
  <2>5. Usable(made) = {r[1] : r \in {rec}}
    BY <1>2, <2>2, <2>3 DEF Usable
  <2> QED
    BY <2>1, <2>4, <2>5
<1>4. ~Unlocked(Nothing) /\ Usable(Nothing) = Nothing
  BY UsableIsNothing DEF Unlocked
<1> HIDE DEF made
<1>5. CASE /\ file' = made /\ wallet' = [Loaded EXCEPT !.keys = made.keys] /\ shown' = {k}
           /\ UNCHANGED faults
  <2>1. wallet'.master = Nothing
    BY <1>5 DEF Loaded
  <2>2. Usable(wallet') = Nothing
    BY <2>1, UsableIsNothing DEF Unlocked
  <2>3. Usable(file') = {k} /\ shown' = {k}
    BY <1>3, <1>5
  <2>4. UNCHANGED <<Usable(backup), faults > 0>>
    BY <1>1, <1>5, FailedAfter DEF Usable
  <2> QED
    BY <1>1, <2>2, <2>3, <2>4 DEF Keys!Create, Usable
<1>6. CASE Fault /\ UNCHANGED <<file, wallet, shown>>
  <2>1. UNCHANGED <<Usable(file), Usable(wallet), Usable(backup), shown>>
    BY <1>1, <1>6 DEF Usable
  <2>2. (faults > 0)' = TRUE
    BY <1>1, <1>6, FailedAfter
  <2> QED
    BY <1>1, <2>1, <2>2 DEF Keys!CreateFails
<1>7. CASE Fault /\ file' \in {Nothing, made} /\ wallet' = Nothing /\ UNCHANGED shown
  <2>1. Usable(file') \in {Nothing, {k}} /\ Usable(wallet') = Nothing
    BY <1>3, <1>4, <1>7
  <2>2. UNCHANGED <<Usable(backup), shown>>
    BY <1>1, <1>7 DEF Usable
  <2>3. (faults > 0)' = TRUE
    BY <1>1, <1>7, FailedAfter
  <2> QED
    BY <1>1, <2>1, <2>2, <2>3 DEF Keys!CreateFails, Usable
<1> QED
  BY <1>5, <1>6, <1>7 DEF CreateWallet, made, master

LEMMA UnlockIsUnlock ==
    ASSUME WalletInv, WalletInv', NEW p \in Password, NEW t \in Timeout \cup {Ensured.autoLock},
           Unlock(p, t)
    PROVE  Keys!Unlock
<1>1. TypeOK /\ file # Nothing /\ file \in WalletFile /\ UNCHANGED <<file, backup, shown, faults>>
  BY DEF WalletInv, TypeOK, Unlock
<1>2. Ensured \in OpenWallet
  BY <1>1, EnsuredType
<1>3. wallet'.keys = file.keys /\ wallet'.master = file.master
  BY <1>1, <1>2 DEF Unlock, OpenWallet
<1>4. wallet' # Nothing
  <2>1. wallet' = [Ensured EXCEPT !.keys = file.keys, !.master = file.master,
                                  !.until = Deadline(t)]
    BY DEF Unlock
  <2>2. t \in Nat
    BY <1>1, <1>2, WalletFields, WalletAssumption
  <2>3. wallet' \in OpenWallet
    BY <1>1, <1>2, <2>1, <2>2, FileFields, DeadlineType DEF OpenWallet
  <2> QED
    BY <2>3, WalletFields
<1>5. Usable(wallet') = Usable(file)
  BY <1>1, <1>3, <1>4 DEF Usable
<1>6. UNCHANGED <<Usable(file), Usable(backup), shown, faults > 0>>
  BY <1>1, FailedAfter DEF Usable
<1> QED
  BY <1>1, <1>5, <1>6, UsablePlaces DEF Keys!Unlock, Usable

(* What an unlocked wallet with one more key is to the abstract store.     *)
LEMMA UsableGrown ==
    ASSUME WalletInv, NEW k \in Key, NEW w \in OpenWallet, w.master # Nothing,
           Unlocked(w) => w = wallet
    PROVE  /\ Usable(wallet) # Nothing
           /\ Usable(Grown(w, k)) = Usable(wallet) \cup {k}
           /\ Usable(Content(Grown(w, k))) = Usable(wallet) \cup {k}
<1>1. w = wallet /\ Unlocked(w)
  BY WalletFields DEF Unlocked
<1>2. /\ Grown(w, k) \in OpenWallet /\ Grown(w, k).master # Nothing /\ Openable(Grown(w, k))
      /\ KeysOf(Grown(w, k)) = KeysOf(w) \cup {k}
  BY AnotherKey
<1>3. Usable(Grown(w, k)) = KeysOf(Grown(w, k))
  BY <1>2, UsableIsAll, WalletFields DEF Unlocked
<1>4. Usable(Content(Grown(w, k))) = KeysOf(Grown(w, k))
  BY <1>2, ContentType, UsableFile
<1> QED
  BY <1>1, <1>2, <1>3, <1>4, UsablePlaces

LEMMA NewIsNew ==
    ASSUME WalletInv, NEW k \in Key, NewAddress(k)
    PROVE  Keys!New(k)
<1> DEFINE w == AutoLocked(Ensured)
<1>1. TypeOK
  BY DEF WalletInv
<1>2. w \in OpenWallet /\ (Unlocked(w) => w = wallet)
  BY <1>1, EnsuredType, AutoLockedType
<1>3. /\ w.master # Nothing /\ wallet' = Grown(w, k)
      /\ Stored(Content(Grown(w, k))) /\ shown' = shown \cup {k} /\ UNCHANGED backup
  BY DEF NewAddress
<1> HIDE DEF w
<1>4. /\ Usable(wallet) # Nothing
      /\ Usable(wallet') = Usable(wallet) \cup {k}
      /\ Usable(Content(Grown(w, k))) = Usable(wallet) \cup {k}
  BY <1>2, <1>3, UsableGrown
<1>5. Usable(Nothing) = Nothing
  BY UsableIsNothing DEF Unlocked
<1>6. \/ Usable(file') = Usable(wallet) \cup {k} /\ UNCHANGED (faults > 0)
      \/ Usable(file') \in {Usable(file), Nothing} /\ (faults > 0)' = TRUE
  BY <1>1, <1>3, <1>4, <1>5, FailedAfter DEF Stored
<1> QED
  BY <1>3, <1>4, <1>6 DEF Keys!New, Keys!Writes, Usable

LEMMA NewCrashIsInterrupted ==
    ASSUME WalletInv, NEW k \in Key, NewAddressCrashes(k)
    PROVE  Keys!NewInterrupted(k)
<1> DEFINE w == AutoLocked(Ensured)
<1>1. TypeOK
  BY DEF WalletInv
<1>2. w \in OpenWallet /\ (Unlocked(w) => w = wallet)
  BY <1>1, EnsuredType, AutoLockedType
<1>3. /\ w.master # Nothing /\ wallet' = Nothing /\ Fault
      /\ file' \in {file, Nothing, Content(Grown(w, k))} /\ UNCHANGED <<backup, shown>>
  BY DEF NewAddressCrashes
<1> HIDE DEF w
<1>4. Usable(wallet) # Nothing /\ Usable(Content(Grown(w, k))) = Usable(wallet) \cup {k}
  BY <1>2, <1>3, UsableGrown
<1>5. Usable(Nothing) = Nothing
  BY UsableIsNothing DEF Unlocked
<1>6. /\ Usable(file') \in {Usable(file), Nothing, Usable(wallet) \cup {k}}
      /\ Usable(wallet') = Nothing /\ (faults > 0)' = TRUE
  BY <1>1, <1>3, <1>4, <1>5, FailedAfter
<1> QED
  BY <1>3, <1>4, <1>6 DEF Keys!NewInterrupted, Usable

LEMMA ImportIsImport ==
    ASSUME WalletInv, NEW k \in Key, ImportPrivateKey(k)
    PROVE  Keys!Import(k)
<1> DEFINE w == AutoLocked(wallet)
<1>1. TypeOK /\ wallet \in OpenWallet
  BY DEF WalletInv, TypeOK, ImportPrivateKey
<1>2. w \in OpenWallet /\ (Unlocked(w) => w = wallet)
  BY <1>1, AutoLockedType
<1>3. w.master # Nothing /\ wallet' = Grown(w, k) /\ UNCHANGED <<file, backup, shown, faults>>
  BY DEF ImportPrivateKey
<1> HIDE DEF w
<1>4. Usable(wallet) # Nothing /\ Usable(wallet') = Usable(wallet) \cup {k}
  BY <1>2, <1>3, UsableGrown
<1>5. UNCHANGED <<Usable(file), Usable(backup), shown, faults > 0>>
  BY <1>1, <1>3, FailedAfter DEF Usable
<1> QED
  BY <1>4, <1>5 DEF Keys!Import, Usable

LEMMA SaveIsSave ==
    ASSUME WalletInv, Save
    PROVE  Keys!Save
<1>1. /\ TypeOK /\ wallet \in OpenWallet /\ wallet.master # Nothing /\ Unlocked(wallet)
      /\ Openable(wallet) /\ Stored(Content(wallet)) /\ UNCHANGED <<backup, wallet, shown>>
  BY DEF WalletInv, TypeOK, Save, Unlocked
<1>2. Usable(Content(wallet)) = Usable(wallet) /\ Usable(wallet) # Nothing
  BY <1>1, ContentType, UsableFile, UsablePlaces
<1>3. Usable(Nothing) = Nothing
  BY UsableIsNothing DEF Unlocked
<1>4. \/ Usable(file') = Usable(wallet) /\ UNCHANGED (faults > 0)
      \/ Usable(file') \in {Usable(file), Nothing} /\ (faults > 0)' = TRUE
  BY <1>1, <1>2, <1>3, FailedAfter DEF Stored
<1> QED
  BY <1>1, <1>2, <1>4 DEF Keys!Save, Keys!Writes, Usable

LEMMA BackupIsBackup ==
    ASSUME WalletInv, Backup
    PROVE  Keys!Backup
<1>1. /\ TypeOK /\ file # Nothing /\ wallet' = Ensured /\ UNCHANGED <<file, shown>>
      /\ \/ backup' = file /\ UNCHANGED faults
         \/ Fault /\ backup' \in {backup, Nothing}
  BY DEF WalletInv, Backup
<1>2. Usable(wallet') = Usable(wallet) /\ Usable(file) # Nothing
  BY <1>1, UsablePlaces
<1>3. Usable(Nothing) = Nothing
  BY UsableIsNothing DEF Unlocked
<1>4. \/ Usable(backup') = Usable(file) /\ UNCHANGED (faults > 0)
      \/ Usable(backup') \in {Usable(backup), Nothing} /\ (faults > 0)' = TRUE
  BY <1>1, <1>3, FailedAfter
<1> QED
  BY <1>1, <1>2, <1>4 DEF Keys!Backup, Usable

LEMMA DeleteIsDelete ==
    ASSUME WalletInv, DeleteWallet
    PROVE  Keys!Delete
<1>1. /\ TypeOK /\ file # Nothing /\ file' = Nothing /\ wallet' = Nothing /\ shown' = {}
      /\ UNCHANGED <<backup, faults>>
  BY DEF WalletInv, DeleteWallet
<1>2. Usable(Nothing) = Nothing
  BY UsableIsNothing DEF Unlocked
<1>3. Usable(file) # Nothing /\ Usable(file') = Nothing /\ Usable(wallet') = Nothing
  BY <1>1, <1>2, UsablePlaces
<1>4. UNCHANGED <<Usable(backup), faults > 0>>
  BY <1>1, FailedAfter DEF Usable
<1> QED
  BY <1>1, <1>3, <1>4 DEF Keys!Delete, Usable

(* The calls that at most lock the wallet. *)
LEMMA OtherIsLock ==
    ASSUME WalletInv,
           \/ OpenOnly \/ LockWallet \/ SendOrSign \/ CloseWallet \/ Exit \/ Tick
           \/ UNCHANGED vars \/ \E t \in Timeout : SetAutoLockTimeout(t)
    PROVE  Keys!Lock \/ UNCHANGED Keys!vars
<1>1. TypeOK /\ Ensured \in OpenWallet /\ Usable(Ensured) = Usable(wallet)
  BY UsablePlaces, EnsuredType DEF WalletInv
<1>2. Usable(Nothing) = Nothing
  BY UsableIsNothing DEF Unlocked
<1>3. UNCHANGED <<file, backup, shown, faults>>
  BY DEF vars, OpenOnly, LockWallet, SendOrSign, CloseWallet, Exit, Tick, SetAutoLockTimeout
<1>4. CASE OpenOnly \/ Tick \/ UNCHANGED vars
  <2>1. wallet' \in {wallet, Ensured}
    BY <1>4 DEF OpenOnly, Tick, vars
  <2> QED
    BY <1>1, <1>3, <2>1, SameOrLock
<1>5. CASE LockWallet
  <2>1. ~Unlocked(wallet')
    BY <1>1, <1>5, LockedType DEF LockWallet
  <2> QED
    BY <1>1, <1>3, <2>1, UsableIsNothing, SameOrLock
<1>6. CASE SendOrSign
  <2>1. wallet' = AutoLocked(Ensured)
    BY <1>6 DEF SendOrSign
  <2>2. CASE AutoLocked(Ensured) = Ensured
    BY <1>1, <1>3, <2>1, <2>2, SameOrLock
  <2>3. CASE AutoLocked(Ensured) = Locked(Ensured)
    BY <1>1, <1>3, <2>1, <2>3, LockedType, UsableIsNothing, SameOrLock
  <2> QED
    BY <2>2, <2>3 DEF AutoLocked
<1>7. CASE CloseWallet \/ Exit
  <2>1. wallet' = Nothing
    BY <1>7 DEF CloseWallet, Exit
  <2> QED
    BY <1>1, <1>2, <1>3, <2>1, SameOrLock
<1>8. CASE \E t \in Timeout : SetAutoLockTimeout(t)
  <2>1. PICK t \in Timeout : SetAutoLockTimeout(t)
    BY <1>8
  <2>2. wallet \in OpenWallet /\ wallet # Nothing
    BY <1>1, <2>1 DEF TypeOK, SetAutoLockTimeout
  <2>3. wallet'.keys = wallet.keys /\ wallet'.master = wallet.master
    BY <2>1, <2>2 DEF SetAutoLockTimeout, OpenWallet
  <2>4. wallet' # Nothing
    <3>1. WalletInv'
      BY <2>1, SetAutoLockTimeoutStep
    <3>2. wallet' = [wallet EXCEPT !.autoLock = t,
                        !.until = IF wallet.master = Nothing THEN @ ELSE Deadline(t)]
      BY <2>1 DEF SetAutoLockTimeout
    <3>3. wallet' \in OpenWallet
      BY <1>1, <2>2, <3>2, DeadlineType, WalletAssumption DEF OpenWallet
    <3> QED
      BY <3>3, WalletFields
  <2>5. Usable(wallet') = Usable(wallet)
    BY <2>2, <2>3, <2>4 DEF Usable
  <2> QED
    BY <1>1, <1>3, <2>5, SameOrLock
<1> QED
  BY <1>4, <1>5, <1>6, <1>7, <1>8

LEMMA KeyStoreStep ==
    ASSUME WalletInv, WalletInv', [Next]_vars
    PROVE  [Keys!Next]_(Keys!vars)
<1>1. CASE \E p \in Password, k \in Key : CreateWallet(p, k)
  BY <1>1, CreateIsCreate DEF Keys!Next
<1>2. CASE \E p \in Password, t \in Timeout \cup {Ensured.autoLock} : Unlock(p, t)
  BY <1>2, UnlockIsUnlock DEF Keys!Next
<1>3. CASE \E k \in Key : NewAddress(k) \/ NewAddressCrashes(k) \/ ImportPrivateKey(k)
  BY <1>3, NewIsNew, NewCrashIsInterrupted, ImportIsImport DEF Keys!Next
<1>4. CASE Save \/ Backup \/ DeleteWallet
  BY <1>4, SaveIsSave, BackupIsBackup, DeleteIsDelete DEF Keys!Next
<1>5. CASE \/ OpenOnly \/ LockWallet \/ SendOrSign \/ CloseWallet \/ Exit \/ Tick
           \/ UNCHANGED vars \/ \E t \in Timeout : SetAutoLockTimeout(t)
  BY <1>5, OtherIsLock DEF Keys!Next
<1> QED
  BY <1>1, <1>2, <1>3, <1>4, <1>5 DEF Next

(* Passwords, salts, locks and deadlines, failing writes and restarts: no  *)
(* step does to the keys that can be used what KeyStore does not allow.    *)
THEOREM ImplementsKeyStore == Spec => RefinesKeyStore
<1>1. Init => Keys!Init
  <2>1. Usable(Nothing) = Nothing
    BY UsableIsNothing DEF Unlocked
  <2> QED
    BY <2>1 DEF Init, Keys!Init
<1>2. WalletInv /\ WalletInv' /\ [Next]_vars => [Keys!Next]_(Keys!vars)
  BY KeyStoreStep
<1> QED
  BY <1>1, <1>2, WalletInvariant, PTL DEF Spec, RefinesKeyStore, Keys!Spec

(* What is given out is saved, and an unlocked wallet has what was saved,  *)
(* so that a write cannot drop it.                                         *)
KeyStoreInv ==
    /\ {Usable(file), Usable(wallet)} \subseteq (SUBSET Key) \cup {Nothing}
    /\ Keys!GivenIsSaved
    /\ Usable(wallet) # Nothing /\ Usable(file) # Nothing => Usable(file) \subseteq Usable(wallet)

LEMMA KeyStoreInvStep == KeyStoreInv /\ [Keys!Next]_(Keys!vars) => KeyStoreInv'
<1> DEFINE saved == Usable(file)
           held  == Usable(wallet)
           bad   == faults > 0
<1> SUFFICES ASSUME KeyStoreInv, [Keys!Next]_(Keys!vars) PROVE KeyStoreInv'
  OBVIOUS
<1>1. /\ ~bad => shown \subseteq (IF saved = Nothing THEN {} ELSE saved)
      /\ held # Nothing /\ saved # Nothing => saved \subseteq held
      /\ saved \in (SUBSET Key) \cup {Nothing} /\ held \in (SUBSET Key) \cup {Nothing}
  BY DEF KeyStoreInv, Keys!GivenIsSaved
<1>2. ASSUME saved' \in (SUBSET Key) \cup {Nothing}, held' \in (SUBSET Key) \cup {Nothing},
             ~bad' => shown' \subseteq (IF saved' = Nothing THEN {} ELSE saved'),
             held' # Nothing /\ saved' # Nothing => saved' \subseteq held'
      PROVE  KeyStoreInv'
  BY <1>2 DEF KeyStoreInv, Keys!GivenIsSaved
<1>3. CASE Keys!Unlock \/ Keys!Lock \/ Keys!Backup \/ Keys!Delete \/ UNCHANGED Keys!vars
  <2>1. \/ held' \in {held, saved} /\ saved' = saved /\ shown' = shown
        \/ held' = Nothing /\ saved' = saved /\ shown' = shown
        \/ held' = Nothing /\ saved' = Nothing /\ shown' = {}
    BY <1>3 DEF Keys!Unlock, Keys!Lock, Keys!Backup, Keys!Delete, Keys!vars
  <2>2. ~bad' => ~bad
    BY <1>3 DEF Keys!Unlock, Keys!Lock, Keys!Backup, Keys!Delete, Keys!vars
  <2> HIDE DEF saved, held, bad
  <2> QED
    BY <1>1, <1>2, <2>1, <2>2
<1>4. CASE Keys!Save
  <2>1. /\ held # Nothing /\ held' = held /\ shown' = shown
        /\ \/ saved' = held /\ bad' = bad
           \/ saved' \in {saved, Nothing} /\ bad' = TRUE
    BY <1>4 DEF Keys!Save, Keys!Writes
  <2> HIDE DEF saved, held, bad
  <2> QED
    BY <1>1, <1>2, <2>1
<1>5. ASSUME NEW k \in Key, Keys!Create(k) \/ Keys!CreateFails(k) PROVE KeyStoreInv'
  <2>1. \/ saved' = {k} /\ held' = Nothing /\ shown' = {k}
        \/ saved = Nothing /\ saved' = saved /\ held' = held /\ bad' = TRUE
        \/ saved' \in {Nothing, {k}} /\ held' = Nothing /\ bad' = TRUE
    BY <1>5 DEF Keys!Create, Keys!CreateFails
  <2>2. {k} # Nothing
    BY NothingAssumption
  <2> HIDE DEF saved, held, bad
  <2> QED
    BY <1>1, <1>2, <2>1, <2>2
<1>6. ASSUME NEW k \in Key, Keys!Import(k) \/ Keys!New(k) \/ Keys!NewInterrupted(k)
      PROVE  KeyStoreInv'
  <2>1. /\ held # Nothing
        /\ \/ held' = held \cup {k} /\ saved' = saved /\ shown' = shown /\ bad' = bad
           \/ held' = held \cup {k} /\ saved' = held \cup {k} /\ shown' = shown \cup {k} /\ bad' = bad
           \/ held' = held \cup {k} /\ saved' \in {saved, Nothing} /\ bad' = TRUE
           \/ held' = Nothing /\ saved' \in {saved, Nothing, held \cup {k}} /\ bad' = TRUE
    BY <1>6 DEF Keys!Import, Keys!New, Keys!NewInterrupted, Keys!Writes
  <2> HIDE DEF saved, held, bad
  <2>2. held \cup {k} \subseteq Key /\ held \cup {k} # Nothing
    BY <1>1, <2>1, NothingAssumption
  <2> QED
    BY <1>1, <1>2, <2>1, <2>2
<1> QED
  BY <1>3, <1>4, <1>5, <1>6 DEF Keys!Next

(* The abstract store keeps its promises: what is given out is saved       *)
(* unless a write failed, and no write drops a key.                        *)
THEOREM KeyStoreKeeps == Keys!Spec => []Keys!GivenIsSaved /\ Keys!OnlyGrows
<1>1. Keys!Init => KeyStoreInv
  BY DEF Keys!Init, KeyStoreInv, Keys!GivenIsSaved
<1>2. KeyStoreInv => Keys!GivenIsSaved
  BY DEF KeyStoreInv
<1> DEFINE Grows == Usable(file) # Nothing /\ Usable(file)' # Nothing
                        => Usable(file) \subseteq Usable(file)'
<1>3. KeyStoreInv /\ [Keys!Next]_(Keys!vars) => [Grows]_(Keys!vars)
  <2> SUFFICES ASSUME KeyStoreInv, Keys!Next, Usable(file) # Nothing, Usable(file)' # Nothing
               PROVE  Usable(file) \subseteq Usable(file)'
    OBVIOUS
  <2> DEFINE saved == Usable(file)
             held  == Usable(wallet)
  <2>1. held # Nothing => saved \subseteq held
    BY DEF KeyStoreInv
  <2>2. \/ saved' = saved
        \/ held # Nothing /\ saved' = held
        \/ \E k \in Key : held # Nothing /\ saved' = held \cup {k}
    BY DEF Keys!Next, Keys!Unlock, Keys!Lock, Keys!Save, Keys!Backup, Keys!Delete, Keys!Create,
           Keys!CreateFails, Keys!Import, Keys!New, Keys!NewInterrupted, Keys!Writes
  <2> HIDE DEF saved, held
  <2>3. saved \subseteq saved'
    BY <2>1, <2>2
  <2> QED
    BY <2>3 DEF saved
<1> QED
  BY <1>1, <1>2, <1>3, KeyStoreInvStep, PTL DEF Keys!Spec, Keys!OnlyGrows

(* Hence the wallet keeps them.                                            *)
THEOREM WalletKeeps == Spec => []Keys!GivenIsSaved /\ Keys!OnlyGrows
BY ImplementsKeyStore, KeyStoreKeeps DEF RefinesKeyStore

-----------------------------------------------------------------------------
(* AtomicWrite. *)

(* What makes NeverTorn and ReturnMeans inductive: which file holds what   *)
(* at each step of a call.  In particular path.tmp is only renamed once it *)
(* is whole, or cut without notice.                                        *)
StepInv ==
    /\ FileTypeOK
    /\ at \in Steps => content \in Bytes
    /\ at \in {"remove", "rename"} => tmp = content \/ (silent > 0 /\ tmp = Cut)
    /\ at \in {"open", "write", "close", "remove"} => path = before
    /\ at = "rename" => path = Absent
    /\ silent = 0 => path # Cut /\ before # Cut
    /\ ReturnMeans

LEMMA StepInit == FileInit => StepInv
<1>1. ASSUME FileInit PROVE StepInv
  <2>1. at = "idle" /\ returned = "none" /\ path = Absent /\ before = Absent /\ tmp = Absent
        /\ calls = 0 /\ silent = 0 /\ content = Cut
    BY <1>1 DEF FileInit
  <2>2. FileTypeOK
    BY <2>1, CallsAssumption DEF FileTypeOK, Steps
  <2> QED
    BY <2>1, <2>2, ContentAssumption DEF StepInv, ReturnMeans, Steps
<1> QED
  BY <1>1

LEMMA StepNext == StepInv /\ [FileNext]_fileVars => StepInv'
<1> SUFFICES ASSUME StepInv, [FileNext]_fileVars PROVE StepInv'
  OBVIOUS
<1> USE ContentAssumption, CallsAssumption DEF StepInv, FileTypeOK, Steps, ReturnMeans
<1>1. ASSUME NEW c \in Bytes, Call(c) PROVE StepInv'
  BY <1>1 DEF Call
<1>2. CASE Open
  BY <1>2 DEF Open, Continue
<1>3. CASE Write
  BY <1>3 DEF Write, Continue
<1>4. CASE Close
  BY <1>4 DEF Close, Continue
<1>5. CASE CloseFails
  BY <1>5 DEF CloseFails, Continue
<1>6. CASE Remove
  BY <1>6 DEF Remove, Continue
<1>7. CASE Rename
  BY <1>7 DEF Rename, Return
<1>8. CASE Fails
  BY <1>8 DEF Fails, Return
<1>9. CASE Crash
  BY <1>9 DEF Crash, Return
<1>10. CASE UNCHANGED fileVars
  BY <1>10 DEF fileVars
<1> QED
  BY <1>1, <1>2, <1>3, <1>4, <1>5, <1>6, <1>7, <1>8, <1>9, <1>10 DEF FileNext

(* Half a file is never read at the path, unless a close failed unnoticed. *)
THEOREM FileNeverTorn == FileSpec => []NeverTorn
<1>1. StepInv => NeverTorn
  BY DEF StepInv, NeverTorn
<1> QED
  BY <1>1, StepInit, StepNext, PTL DEF FileSpec

(* What Blockchain assumes of a write: old, nothing or new, and new if Ok. *)
THEOREM ReturnsAreMeant == FileSpec => []ReturnMeans
<1>1. StepInv => ReturnMeans
  BY DEF StepInv
<1> QED
  BY <1>1, StepInit, StepNext, PTL DEF FileSpec
=============================================================================

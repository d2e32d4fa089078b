-------------------------------- MODULE Wallet --------------------------------
(***************************************************************************)
(* The keys of one wallet (src/wallet/Wallet.cpp, WalletManager.cpp and    *)
(* WalletCommands.cpp): in the file, in the Wallet object of the process   *)
(* that has it open, and in a backup.  Calls come one after the other from *)
(* a process that may end between two of them; a write may fail, and the   *)
(* process may end in it.  What then is on disk is AtomicFile's ReturnMeans*)
(* without silently failing closes.                                        *)
(*                                                                         *)
(* A master key stands for the password and the salt it is derived from.   *)
(* A key record is a key and the master key its private part is sealed     *)
(* with.  A wallet in memory is locked when it has no master key: Lock and *)
(* Load clear locked_, masterKey_ and unlockPassword_ together.            *)
(***************************************************************************)
EXTENDS Naturals, FiniteSets

CONSTANTS
    Key,         \* the signing keys a provider may make or a user may import
    Password,    \* what a user may type
    Nothing,     \* no file, no open wallet, no master key
    AutoLock,    \* autoLockSeconds of a new Wallet object, 300
    Timeout,     \* the timeouts callers give
    TimeSpace,   \* 2^64
    MaxTime,     \* bound: the clock
    MaxWallets,  \* bound: calls of CreateWallet
    MaxFaults    \* bound: failed and interrupted writes

ASSUME WalletAssumption ==
    /\ AutoLock \in Nat
    /\ Timeout \subseteq Nat
    /\ TimeSpace \in Nat \ {0}
    /\ MaxTime \in Nat \ {0}
    /\ MaxWallets \in Nat
    /\ MaxFaults \in Nat

Master == Password \X Nat
Record == Key \X Master
WalletFile == [keys : SUBSET Record, master : Master]
OpenWallet == [keys : SUBSET Record, master : Master \cup {Nothing},
               until : Nat, autoLock : Nat]

ASSUME NothingAssumption ==
    /\ Nothing \notin Master \cup WalletFile \cup OpenWallet
    /\ \A keys \in SUBSET Key : keys # Nothing

VARIABLES
    file,    \* <name>.wallet
    backup,  \* the file at the path last given to Backup
    wallet,  \* open_[name]
    now,     \* Now(), in seconds
    used,    \* keys made or imported so far
    salts,   \* salts drawn so far
    shown,   \* keys whose address the user has been given
    wanted,  \* what the user last asked for: see Init
    faults   \* failures so far

vars == <<file, backup, wallet, now, used, salts, shown, wanted, faults>>

(* wanted: the last request was to unlock, to hold until a time, and was   *)
(* made in the process that runs now.                                      *)
Init ==
    /\ file = Nothing /\ backup = Nothing /\ wallet = Nothing
    /\ now = 1
    /\ used = {} /\ salts = 0 /\ shown = {}
    /\ wanted = [unlocked |-> FALSE, until |-> 0, here |-> TRUE]
    /\ faults = 0

KeysOf(w) == IF w = Nothing THEN {} ELSE {r[1] : r \in w.keys}

Fault ==
    /\ faults < MaxFaults
    /\ faults' = faults + 1

(* WalletStorage::SaveEncryptedWallet, Ok or not. *)
Stored(content) ==
    \/ file' = content /\ UNCHANGED faults
    \/ Fault /\ file' \in {file, Nothing}

Forget(until) == [unlocked |-> FALSE, until |-> until, here |-> TRUE]

-----------------------------------------------------------------------------
(* The Wallet object. *)

(* Wallet::Lock; the keys stay in memory. *)
Locked(w) == [w EXCEPT !.master = Nothing, !.until = 0]

(* Wallet::MaybeAutoLock *)
AutoLocked(w) ==
    IF w.master # Nothing /\ w.until # 0 /\ now >= w.until THEN Locked(w) ELSE w

(* Wallet::Load, into a new object. *)
Loaded == [keys |-> {}, master |-> Nothing, until |-> 0, autoLock |-> AutoLock]

(* Ensure: every command opens the wallet if it is not open. *)
CanEnsure == wallet # Nothing \/ file # Nothing
Ensured == IF wallet = Nothing THEN Loaded ELSE wallet

(* WalletEncryption::DecryptPayload is Ok: it authenticates what it opens. *)
Opens(p, f) == p = f.master[1]

Deadline(timeout) == (now + timeout) % TimeSpace

-----------------------------------------------------------------------------
(* Commands and calls. *)

(* CreateWallet: one key under a fresh salt, stored, then locked; or       *)
(* nothing, if it cannot be stored; or the process ends in between.        *)
CreateWallet(p, k) ==
    LET master == <<p, salts + 1>>
        made == [keys |-> {<<k, master>>}, master |-> master]
    IN  /\ file = Nothing
        /\ salts < MaxWallets
        /\ salts' = salts + 1
        /\ k \notin used
        /\ used' = used \cup {k}
        /\ \/ /\ file' = made
              /\ wallet' = [Loaded EXCEPT !.keys = made.keys]
              /\ shown' = {k}
              /\ wanted' = Forget(0)
              /\ UNCHANGED faults
           \/ /\ Fault
              /\ UNCHANGED <<file, wallet, shown, wanted>>
           \/ /\ Fault
              /\ file' \in {Nothing, made}
              /\ wallet' = Nothing
              /\ wanted' = [wanted EXCEPT !.here = FALSE]
              /\ UNCHANGED shown
        /\ UNCHANGED <<backup, now>>

(* Unlock reads the file again and replaces the keys in memory by its.     *)
Unlock(p, timeout) ==
    /\ file # Nothing
    /\ Opens(p, file)
    /\ wallet' = [Ensured EXCEPT !.keys = file.keys, !.master = file.master,
                                 !.until = Deadline(timeout)]
    /\ wanted' = [unlocked |-> TRUE, until |-> now + timeout, here |-> TRUE]
    /\ UNCHANGED <<file, backup, now, used, salts, shown, faults>>

(* A command that only opens the wallet: listaddresses, balance, rescan,   *)
(* unlock with a wrong password.                                           *)
OpenOnly ==
    /\ CanEnsure
    /\ wallet' = Ensured
    /\ UNCHANGED <<file, backup, now, used, salts, shown, wanted, faults>>

LockWallet ==
    /\ CanEnsure
    /\ wallet' = Locked(Ensured)
    /\ wanted' = Forget(0)
    /\ UNCHANGED <<file, backup, now, used, salts, shown, faults>>

(* Mutant: until is set to the timeout itself. *)
SetAutoLockTimeoutFromZero(timeout) ==
    /\ wallet # Nothing
    /\ wallet' = [wallet EXCEPT !.autoLock = timeout,
                    !.until = IF wallet.master = Nothing THEN @ ELSE timeout]
    /\ wanted' = [wanted EXCEPT !.until = IF wallet.master = Nothing THEN @ ELSE now + timeout]
    /\ UNCHANGED <<file, backup, now, used, salts, shown, faults>>

SetAutoLockTimeout(timeout) ==
    /\ wallet # Nothing
    /\ wallet' = [wallet EXCEPT !.autoLock = timeout,
                    !.until = IF wallet.master = Nothing THEN @ ELSE Deadline(timeout)]
    /\ wanted' = [wanted EXCEPT !.until = IF wallet.master = Nothing THEN @ ELSE now + timeout]
    /\ UNCHANGED <<file, backup, now, used, salts, shown, faults>>

(* send and sign, as far as keys go: the wallet locks itself if it is time.*)
SendOrSign ==
    /\ CanEnsure
    /\ wallet' = AutoLocked(Ensured)
    /\ UNCHANGED <<file, backup, now, used, salts, shown, wanted, faults>>

(* A wallet with one more key, sealed with its master key. *)
Grown(w, k) == [w EXCEPT !.keys = @ \cup {<<k, w.master>>}]
Content(w) == [keys |-> w.keys, master |-> w.master]

(* Mutants: the address is given out without a Save; or the wallet does    *)
(* not lock itself first.                                                  *)
NewAddressUnsaved(k) ==
    LET w == AutoLocked(Ensured)
    IN  /\ CanEnsure
        /\ k \notin used
        /\ w.master # Nothing
        /\ wallet' = Grown(w, k)
        /\ used' = used \cup {k}
        /\ shown' = shown \cup {k}
        /\ UNCHANGED <<file, backup, now, salts, wanted, faults>>
NewAddressLate(k) ==
    LET w == Ensured
    IN  /\ CanEnsure
        /\ k \notin used
        /\ w.master # Nothing
        /\ wallet' = Grown(w, k)
        /\ used' = used \cup {k}
        /\ Stored(Content(Grown(w, k)))
        /\ shown' = shown \cup {k}
        /\ UNCHANGED <<backup, now, salts, wanted>>

(* commandNewAddress: GenerateNewAddress, then Save, whose result nobody   *)
(* looks at, then the address is printed.                                  *)
NewAddress(k) ==
    LET w == AutoLocked(Ensured)
    IN  /\ CanEnsure
        /\ k \notin used
        /\ w.master # Nothing
        /\ wallet' = Grown(w, k)
        /\ used' = used \cup {k}
        /\ Stored(Content(Grown(w, k)))
        /\ shown' = shown \cup {k}
        /\ UNCHANGED <<backup, now, salts, wanted>>

(* The process ends while the wallet is being written. *)
NewAddressCrashes(k) ==
    LET w == AutoLocked(Ensured)
    IN  /\ Fault
        /\ CanEnsure
        /\ k \notin used
        /\ w.master # Nothing
        /\ wallet' = Nothing
        /\ used' = used \cup {k}
        /\ file' \in {file, Nothing, Content(Grown(w, k))}
        /\ wanted' = [wanted EXCEPT !.here = FALSE]
        /\ UNCHANGED <<backup, now, salts, shown>>

(* ImportPrivateKey: into memory only, and whether the key is there or not.*)
ImportPrivateKey(k) ==
    LET w == AutoLocked(wallet)
    IN  /\ wallet # Nothing
        /\ w.master # Nothing
        /\ wallet' = Grown(w, k)
        /\ used' = used \cup {k}
        /\ UNCHANGED <<file, backup, now, salts, shown, wanted, faults>>

(* Mutants: a fresh salt on every Save; Save on a locked wallet.           *)
SaveResalted ==
    /\ wallet # Nothing
    /\ wallet.master # Nothing
    /\ Stored([Content(wallet) EXCEPT !.master = <<@[1], salts + 1>>])
    /\ salts' = salts + 1
    /\ UNCHANGED <<backup, wallet, now, used, shown, wanted>>
SaveLocked ==
    /\ wallet # Nothing
    /\ file # Nothing
    /\ Stored([Content(wallet) EXCEPT !.master = file.master])
    /\ UNCHANGED <<backup, wallet, now, used, salts, shown, wanted>>

(* Save: of an unlocked wallet, whether it is time to lock it or not; the  *)
(* salt is kept, as the key records are sealed under it.                   *)
Save ==
    /\ wallet # Nothing
    /\ wallet.master # Nothing
    /\ Stored(Content(wallet))
    /\ UNCHANGED <<backup, wallet, now, used, salts, shown, wanted>>

(* commandBackup copies the file, not what is in memory. *)
Backup ==
    /\ file # Nothing
    /\ wallet' = Ensured
    /\ \/ backup' = file /\ UNCHANGED faults
       \/ Fault /\ backup' \in {backup, Nothing}
    /\ UNCHANGED <<file, now, used, salts, shown, wanted>>

CloseWallet ==
    /\ wallet # Nothing
    /\ wallet' = Nothing
    /\ wanted' = Forget(0)
    /\ UNCHANGED <<file, backup, now, used, salts, shown, faults>>

(* DeleteWallet, with the flag that allows it. *)
DeleteWallet ==
    /\ file # Nothing
    /\ wallet' = Nothing
    /\ file' = Nothing
    /\ shown' = {}
    /\ wanted' = Forget(0)
    /\ UNCHANGED <<backup, now, used, salts, faults>>

-----------------------------------------------------------------------------
(* Around the calls. *)

(* pqc_wallet ends after every command; a program that keeps a             *)
(* WalletManager ends when it likes.  A wallet is not locked on the way.   *)
Exit ==
    /\ wallet # Nothing
    /\ wallet' = Nothing
    /\ wanted' = [wanted EXCEPT !.here = FALSE]
    /\ UNCHANGED <<file, backup, now, used, salts, shown, faults>>

Tick ==
    /\ now < MaxTime
    /\ now' = now + 1
    /\ UNCHANGED <<file, backup, wallet, used, salts, shown, wanted, faults>>

Next ==
    \/ \E p \in Password, k \in Key : CreateWallet(p, k)
    \/ \E p \in Password, t \in Timeout \cup {Ensured.autoLock} : Unlock(p, t)
    \/ OpenOnly
    \/ LockWallet
    \/ \E t \in Timeout : SetAutoLockTimeout(t)
    \/ SendOrSign
    \/ \E k \in Key : NewAddress(k) \/ NewAddressCrashes(k) \/ ImportPrivateKey(k)
    \/ Save
    \/ Backup
    \/ CloseWallet
    \/ DeleteWallet
    \/ Exit
    \/ Tick

Spec == Init /\ [][Next]_vars

-----------------------------------------------------------------------------
(* Properties. *)

TypeOK ==
    /\ file \in WalletFile \cup {Nothing}
    /\ backup \in WalletFile \cup {Nothing}
    /\ wallet \in OpenWallet \cup {Nothing}
    /\ now \in 1 .. MaxTime
    /\ used \subseteq Key /\ shown \subseteq Key
    /\ salts \in 0 .. MaxWallets
    /\ wanted \in [unlocked : BOOLEAN, until : Nat, here : BOOLEAN]
    /\ faults \in 0 .. MaxFaults

(* Who unlocks the wallet, or a backup, can use every key in it: each key  *)
(* record is sealed with the master key that the password and the salt of  *)
(* the file give.  Unlock takes the master key from the file, Save writes  *)
(* the file from memory, so neither may change password or salt alone.     *)
KeysOpenable ==
    /\ file # Nothing => \A r \in file.keys : r[2] = file.master
    /\ backup # Nothing => \A r \in backup.keys : r[2] = backup.master
    /\ wallet # Nothing /\ wallet.master # Nothing =>
            \A r \in wallet.keys : r[2] = wallet.master

(* An address the user was given belongs to a key in the wallet file, from *)
(* the moment it is printed and through every unlock, lock and restart,    *)
(* unless a write failed: what is paid to it can be spent.                 *)
ShownIsSaved == faults = 0 => shown \subseteq KeysOf(file)

(* No write of the wallet file drops a key it held, also after failures:   *)
(* what Save writes was read from the file and only added to.              *)
KeysKept ==
    [][file # Nothing /\ file' # Nothing => KeysOf(file) \subseteq KeysOf(file')]_vars

(* The keys whose private part the master key of w opens. *)
Usable(w) ==
    IF w = Nothing \/ w.master = Nothing THEN Nothing
    ELSE {r[1] : r \in {q \in w.keys : q[2] = w.master}}

Keys == INSTANCE KeyStore WITH
    None <- Nothing, saved <- Usable(file), held <- Usable(wallet), spare <- Usable(backup),
    given <- shown, failed <- faults > 0

(* Under its passwords, salts, locks and deadlines a wallet is a KeyStore: *)
(* unlocking brings back every key that was saved, no call and no restart  *)
(* loses one or leaves one that cannot be opened, and what is written is   *)
(* what is held, never less.                                               *)
RefinesKeyStore == Keys!Spec

(* While a process runs, an unlock holds for as long as it was asked for:  *)
(* only the user's own calls and the deadline lock the wallet.  A deadline *)
(* beyond 64 bits is not kept.                                             *)
UnlockHolds ==
    /\ wanted.unlocked /\ wanted.here
    /\ now < wanted.until /\ wanted.until < TimeSpace
    => wallet # Nothing /\ wallet.master # Nothing

(* No address is made once the deadline has passed, whatever set it last.  *)
NoKeyAfterDeadline ==
    [][file # Nothing /\ shown' # shown /\ shown' # {} /\ wanted.until < TimeSpace
            => now < wanted.until]_vars
=============================================================================

------------------------------ MODULE KeyStore ------------------------------
(***************************************************************************)
(* What a wallet promises about its keys, without passwords, salts, locks  *)
(* and clocks: the keys that the password of the file opens, those that an *)
(* unlocked wallet can sign with, and those of a backup.  Unlocking brings *)
(* back all that was saved; keys are only added, and what is saved is what *)
(* is held; a write that fails or is interrupted leaves the old keys, or   *)
(* none, and only then may a key be given out that is not saved.           *)
(*                                                                         *)
(* Wallet implements this specification (RefinesKeyStore).                 *)
(***************************************************************************)
CONSTANTS Key, None

VARIABLES
    saved,  \* the keys in the file, None if there is no file
    held,   \* the keys of an unlocked wallet, None if there is none
    spare,  \* the keys in the backup, None if there is none
    given,  \* the keys whose address the user has
    failed  \* a write has failed or was interrupted

vars == <<saved, held, spare, given, failed>>

Init == saved = None /\ held = None /\ spare = None /\ given = {} /\ failed = FALSE

(* A write of keys, or one that fails. *)
Writes(keys) ==
    \/ saved' = keys /\ UNCHANGED failed
    \/ saved' \in {saved, None} /\ failed' = TRUE

Create(k) ==
    /\ saved = None
    /\ saved' = {k}
    /\ held' = None
    /\ given' = {k}
    /\ UNCHANGED <<spare, failed>>

CreateFails(k) ==
    /\ saved = None
    /\ \/ UNCHANGED <<saved, held>>
       \/ saved' \in {None, {k}} /\ held' = None
    /\ failed' = TRUE
    /\ UNCHANGED <<spare, given>>

Unlock ==
    /\ saved # None
    /\ held' = saved
    /\ UNCHANGED <<saved, spare, given, failed>>

(* By the user, by the clock, or because the process ends. *)
Lock ==
    /\ held' = None
    /\ UNCHANGED <<saved, spare, given, failed>>

(* An imported key is held, and saved with the next write. *)
Import(k) ==
    /\ held # None
    /\ held' = held \cup {k}
    /\ UNCHANGED <<saved, spare, given, failed>>

New(k) ==
    /\ held # None
    /\ held' = held \cup {k}
    /\ Writes(held \cup {k})
    /\ given' = given \cup {k}
    /\ UNCHANGED spare

NewInterrupted(k) ==
    /\ held # None
    /\ held' = None
    /\ saved' \in {saved, None, held \cup {k}}
    /\ failed' = TRUE
    /\ UNCHANGED <<spare, given>>

Save ==
    /\ held # None
    /\ Writes(held)
    /\ UNCHANGED <<held, spare, given>>

Backup ==
    /\ saved # None
    /\ \/ spare' = saved /\ UNCHANGED failed
       \/ spare' \in {spare, None} /\ failed' = TRUE
    /\ UNCHANGED <<saved, held, given>>

Delete ==
    /\ saved # None
    /\ saved' = None
    /\ held' = None
    /\ given' = {}
    /\ UNCHANGED <<spare, failed>>

Next ==
    \/ Unlock \/ Lock \/ Save \/ Backup \/ Delete
    \/ \E k \in Key : Create(k) \/ CreateFails(k) \/ Import(k) \/ New(k) \/ NewInterrupted(k)

Spec == Init /\ [][Next]_vars

-----------------------------------------------------------------------------
(* What every implementation inherits. *)

(* The keys given out are saved unless a write failed. *)
GivenIsSaved == ~failed => given \subseteq (IF saved = None THEN {} ELSE saved)

(* No write drops a key, whether one failed before or not. *)
OnlyGrows == [][saved # None /\ saved' # None => saved \subseteq saved']_vars
=============================================================================

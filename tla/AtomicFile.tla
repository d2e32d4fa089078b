----------------------------- MODULE AtomicFile -----------------------------
(***************************************************************************)
(* FileStorage::AtomicWrite (src/storage/FileStorage.cpp), which every     *)
(* file of the node and of the wallet goes through: write path.tmp, remove *)
(* path, rename path.tmp to path.  One process calls it on one path, again *)
(* and again; any step can throw, and the process can end between any two  *)
(* steps and be started again.                                             *)
(*                                                                         *)
(* A file holds one of the contents it was given, or it is Cut: empty or   *)
(* truncated, whatever was to be in it.  Blockchain takes what a call may  *)
(* leave behind from here.                                                 *)
(***************************************************************************)
EXTENDS Naturals

CONSTANTS
    Bytes,      \* what callers write
    Absent,     \* there is no such file
    Cut,        \* a file that is not what anybody wanted to write
    MaxCalls,   \* bound: how many calls are started
    MaxSilent   \* bound: how many closes fail without being noticed

ASSUME ContentAssumption ==
    /\ Absent \notin Bytes
    /\ Cut \notin Bytes
    /\ Absent # Cut

ASSUME CallsAssumption == MaxCalls \in Nat /\ MaxSilent \in Nat

VARIABLES
    at,       \* where AtomicWrite stands, "idle" outside of it
    content,  \* its argument
    before,   \* what path held when it was called
    returned,   \* "ok", "err", or "none" while it has not returned
    tmp,      \* path.tmp
    path,     \* the file itself
    calls,    \* calls so far
    silent    \* closes that failed so far

fileVars == <<at, content, before, returned, tmp, path, calls, silent>>

Steps == {"open", "write", "close", "remove", "rename"}

FileInit ==
    /\ at = "idle"
    /\ content = Cut
    /\ before = Absent
    /\ returned = "none"
    /\ tmp = Absent
    /\ path = Absent
    /\ calls = 0
    /\ silent = 0

Call(c) ==
    /\ at = "idle"
    /\ calls < MaxCalls
    /\ calls' = calls + 1
    /\ at' = "open"
    /\ content' = c
    /\ before' = path
    /\ returned' = "none"
    /\ UNCHANGED <<tmp, path, silent>>

Return(r) ==
    /\ at' = "idle"
    /\ returned' = r
    /\ UNCHANGED <<content, before, calls>>

Continue(step) ==
    /\ at' = step
    /\ UNCHANGED <<content, before, returned, calls>>

(* The stream truncates a path.tmp that an earlier call left. *)
Open ==
    /\ at = "open"
    /\ tmp' = Cut
    /\ Continue("write")
    /\ UNCHANGED <<path, silent>>

(* Mutant: the stream is still open when path.tmp is renamed. *)
WriteUnclosed ==
    /\ at = "write"
    /\ tmp' \in {Cut, content}
    /\ Continue("remove")
    /\ UNCHANGED <<path, silent>>

(* What is written may stay in the stream's buffer. *)
Write ==
    /\ at = "write"
    /\ tmp' \in {Cut, content}
    /\ Continue("close")
    /\ UNCHANGED <<path, silent>>

(* The destructor of the stream writes the rest.  If that fails nobody is  *)
(* told.                                                                   *)
Close ==
    /\ at = "close"
    /\ tmp' = content
    /\ Continue("remove")
    /\ UNCHANGED <<path, silent>>

CloseFails ==
    /\ at = "close"
    /\ tmp = Cut
    /\ silent < MaxSilent
    /\ silent' = silent + 1
    /\ Continue("remove")
    /\ UNCHANGED <<tmp, path>>

Remove ==
    /\ at = "remove"
    /\ path' = Absent
    /\ Continue("rename")
    /\ UNCHANGED <<tmp, silent>>

(* Mutant: the error of the rename is ignored. *)
RenameUnchecked ==
    /\ at = "rename"
    /\ path' \in {tmp, path}
    /\ tmp' = Absent
    /\ Return("ok")
    /\ UNCHANGED silent

Rename ==
    /\ at = "rename"
    /\ path' = tmp
    /\ tmp' = Absent
    /\ Return("ok")
    /\ UNCHANGED silent

(* A call of the file system fails: AtomicWrite returns an error and       *)
(* leaves both files as they are, path.tmp possibly cut in mid-write.      *)
Fails ==
    /\ at \in Steps \ {"close"}
    /\ Return("err")
    /\ UNCHANGED <<tmp, path, silent>>

(* The process ends; the next one finds the files as they are. *)
Crash ==
    /\ at \in Steps
    /\ Return("none")
    /\ UNCHANGED <<tmp, path, silent>>

FileNext ==
    \/ \E c \in Bytes : Call(c)
    \/ Open
    \/ Write
    \/ Close
    \/ CloseFails
    \/ Remove
    \/ Rename
    \/ Fails
    \/ Crash

FileSpec == FileInit /\ [][FileNext]_fileVars

-----------------------------------------------------------------------------
(* Properties. *)

FileTypeOK ==
    /\ at \in Steps \cup {"idle"}
    /\ content \in Bytes \cup {Cut}
    /\ before \in Bytes \cup {Absent, Cut}
    /\ returned \in {"ok", "err", "none"}
    /\ tmp \in Bytes \cup {Absent, Cut}
    /\ path \in Bytes \cup {Absent, Cut}
    /\ calls \in 0 .. MaxCalls
    /\ silent \in 0 .. MaxSilent

(* Unless the implicit close failed, nobody ever reads half a file at the  *)
(* path, whatever call failed or was interrupted before, and whatever it   *)
(* left in path.tmp.                                                       *)
NeverTorn == silent = 0 => path # Cut

(* What callers may conclude from a return: after Ok the path holds the    *)
(* new content (or a cut one, unnoticed), after an error, and after a      *)
(* restart in the middle, the old content or nothing.                      *)
ReturnMeans ==
    at = "idle" =>
        CASE returned = "ok"  -> path = content \/ (silent > 0 /\ path = Cut)
          [] OTHER          -> path \in {before, Absent}

=============================================================================

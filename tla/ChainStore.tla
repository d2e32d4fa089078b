----------------------------- MODULE ChainStore -----------------------------
(***************************************************************************)
(* What the files of a node promise to the process that uses them: a log   *)
(* of blocks and the view that an open process has of it.  A block enters  *)
(* the view only together with the log; a crash or a failed call may leave *)
(* the log longer than the view, by the block that was being added, never  *)
(* shorter; opening takes the whole log for the view, or is refused when   *)
(* an entry is torn.  Reverting shortens the view alone: from then on the  *)
(* log may hold more above the view than what the process has added.       *)
(*                                                                         *)
(* Blockchain implements this specification (RefinesStore).                *)
(***************************************************************************)
EXTENDS Integers, Sequences

CONSTANTS Block, Genesis, Torn

VARIABLES
    log,      \* the blocks a process that opens the files would read
    view,     \* the blocks the open process has, or the last one had
    open,     \* a process is open
    reverted  \* the view has been shortened since the files were created

vars == <<log, view, open, reverted>>

Init == log = <<>> /\ view = <<>> /\ open = FALSE /\ reverted = FALSE

Kept == SubSeq(log, 1, Len(view))

IsPrefixOf(s, t) == Len(s) <= Len(t) /\ s = SubSeq(t, 1, Len(s))

(* The log becomes the view's part of it and entry, and holds nothing else *)
(* unless the view has been shortened before.                              *)
Writes(entry) ==
    /\ log' \in Seq(Block \cup {Torn})
    /\ IsPrefixOf(Append(Kept, entry), log')
    /\ reverted \/ log' = Append(Kept, entry)

Open ==
    /\ ~open
    /\ log # <<>>
    /\ \A i \in DOMAIN log : log[i] # Torn
    /\ open' = TRUE
    /\ view' = log
    /\ UNCHANGED <<log, reverted>>

Create ==
    /\ ~open
    /\ log = <<>>
    /\ open' = TRUE
    /\ view' = <<Genesis>>
    /\ log' \in {<<Genesis>>, <<Torn>>}
    /\ UNCHANGED reverted

CreateFails ==
    /\ ~open
    /\ log = <<>>
    /\ log' = <<Genesis>>
    /\ UNCHANGED <<view, open, reverted>>

Close ==
    /\ open
    /\ open' = FALSE
    /\ UNCHANGED <<log, view, reverted>>

Add(b) ==
    /\ open
    /\ view' = Append(view, b)
    /\ Writes(b) \/ Writes(Torn)
    /\ UNCHANGED <<open, reverted>>

(* The block is not added; what was above the view may be gone. *)
AddFails ==
    /\ open
    /\ log' \in {log, Kept}
    /\ UNCHANGED <<view, open, reverted>>

Crash(b) ==
    /\ open
    /\ open' = FALSE
    /\ log' \in {log, Kept} \/ Writes(b)
    /\ UNCHANGED <<view, reverted>>

Revert ==
    /\ open
    /\ Len(view) > 1
    /\ view' = SubSeq(view, 1, Len(view) - 1)
    /\ reverted' = TRUE
    /\ UNCHANGED <<log, open>>

Next ==
    \/ Open \/ Create \/ CreateFails \/ Close \/ AddFails \/ Revert
    \/ \E b \in Block : Add(b) \/ Crash(b)

Spec == Init /\ [][Next]_vars

-----------------------------------------------------------------------------
(* What every implementation inherits: as long as no entry is torn, the    *)
(* view is the beginning of the log, while the process is open and after   *)
(* it has gone, so that the next one loses nothing of it.                  *)
Durable == (\A i \in DOMAIN log : log[i] # Torn) => IsPrefixOf(view, log)
=============================================================================

---------------------------- MODULE MCEngineFile ----------------------------
(***************************************************************************)
(* Two parts without a common state for TLC: in a behaviour either the     *)
(* threads of the miner move (PowEngine) or one file is written again and  *)
(* again (AtomicFile); "scene" says which.                                 *)
(*                                                                         *)
(* There are two candidates.  Of the first, both of two workers have a     *)
(* nonce that solves it, at different distances from where they start; of  *)
(* the second only the first worker has one.                               *)
(***************************************************************************)
EXTENDS PowEngine, AtomicFile

VARIABLE scene

Candidates == {"both", "one"}

Distance(c, w, n) ==
    IF c = "both" THEN (n + 2 * w + 2) % NonceSpace
    ELSE IF w = 0 THEN (n + 2) % NonceSpace
    ELSE n + 2

MCInit ==
    /\ scene \in {"engine", "file"}
    /\ EngineInit
    /\ FileInit

InEngine(A) == scene = "engine" /\ A /\ UNCHANGED <<fileVars, scene>>
InFile(A) == scene = "file" /\ A /\ UNCHANGED <<engineVars, scene>>
MCNext == InEngine(EngineNext) \/ InFile(FileNext)

mcVars == <<engineVars, fileVars, scene>>

(* The operating system runs every thread; nobody has to start or stop the *)
(* loop, or to write a file.                                               *)
MCSpec ==
    /\ MCInit /\ [][MCNext]_mcVars
    /\ WF_mcVars(InEngine(LoopStep))
    /\ WF_mcVars(InEngine(StopEngine))
    /\ \A w \in Worker : WF_mcVars(InEngine(WorkerStep(w)))
=============================================================================

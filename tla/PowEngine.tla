------------------------------ MODULE PowEngine ------------------------------
(***************************************************************************)
(* The search for a nonce (src/mining/CpuPowEngine.cpp) by several threads,*)
(* the loop that starts it (Miner::StartLoop) and the thread that stops    *)
(* both (Miner::Stop).  The flags, the counters and found are atomics,     *)
(* the best hash is under a mutex, and result is a plain object that only  *)
(* the thread that wins found.exchange may write.                          *)
(*                                                                         *)
(* Every Mine gets a new candidate, and every thread hashes its own variant*)
(* of it (extra nonce), from nonce idx in steps of the number of threads.  *)
(* Nonces and hash counts wrap around as they do in 64 bits.  Nothing sets *)
(* job.cancelled.                                                          *)
(***************************************************************************)
EXTENDS Integers

CONSTANTS
    Threads,     \* how many workers; they are 0 .. Threads - 1
    NonceSpace,  \* 2^64 in the code
    CountSpace,  \* 2^64 in the code
    Candidate,   \* the blocks that may be mined
    Hash(_, _, _), \* of a candidate in a worker's variant with a nonce, a number
    Target,      \* hashes up to the target solve the block
    NoNonce,     \* nothing tried or found yet
    MaxStarts,   \* bound: calls of StartLoop
    MaxStops     \* bound: calls of Stop

Worker == 0 .. Threads - 1
Nonce == 0 .. NonceSpace - 1
Try == Worker \X Nonce

ASSUME SearchAssumption ==
    /\ Threads \in Nat \ {0}
    /\ NonceSpace \in Nat /\ NonceSpace >= Threads
    /\ CountSpace \in Nat \ {0}
    /\ Candidate # {}
    /\ \A c \in Candidate, w \in Worker, n \in Nonce : Hash(c, w, n) \in Nat
    /\ NoNonce \notin Try
    /\ MaxStarts \in Nat
    /\ MaxStops \in Nat

VARIABLES
    loop,     \* where the thread in StartLoop stands
    starts,   \* calls of StartLoop
    mined,    \* how the last Mine ended
    stop,     \* Miner::stop_
    job,      \* the candidate of the last Mine
    stopped,  \* CpuPowEngine::stopped_
    stopper,  \* where the thread in Stop stands
    stops,    \* calls of Stop
    work,     \* where each worker stands
    nonce,    \* its n
    seen,     \* the count it has loaded and not stored
    found, result, hashes,  \* what the workers of one Mine share
    current,  \* currentHashes_
    best      \* whose hash is bestHash_, and its bestNonce_

loopVars == <<loop, starts, mined, stop, job>>
stopVars == <<stopper, stops>>
jobVars == <<found, result, hashes, current, best>>
workVars == <<work, nonce, seen>>
engineVars == <<loopVars, stopVars, stopped, jobVars, workVars>>

HashOf(c, try) == Hash(c, try[1], try[2])
Solves(c, try) == HashOf(c, try) <= Target

EngineInit ==
    /\ loop = "ended" /\ starts = 0 /\ mined = "never"
    /\ stop = FALSE /\ stopped = FALSE
    /\ job \in Candidate
    /\ stopper = "idle" /\ stops = 0
    /\ work = [w \in Worker |-> "done"]
    /\ nonce = [w \in Worker |-> w]
    /\ seen = [w \in Worker |-> 0]
    /\ found = FALSE /\ result = NoNonce
    /\ hashes = 0 /\ current = 0 /\ best = NoNonce

-----------------------------------------------------------------------------
(* The thread that mines. *)

StartLoop ==
    /\ loop = "ended"
    /\ starts < MaxStarts
    /\ starts' = starts + 1
    /\ loop' = "begin"
    /\ UNCHANGED <<mined, stop, job, stopVars, stopped, jobVars, workVars>>

(* stop_ = false *)
Begin ==
    /\ loop = "begin"
    /\ stop' = FALSE
    /\ loop' = "check"
    /\ UNCHANGED <<starts, mined, job, stopVars, stopped, jobVars, workVars>>

(* Mutant: the loop does not look at stop_. *)
CheckNothing ==
    /\ loop = "check"
    /\ loop' = "mine"
    /\ UNCHANGED <<starts, mined, stop, job, stopVars, stopped, jobVars, workVars>>

(* while (!stop_) *)
CheckStop ==
    /\ loop = "check"
    /\ loop' = IF stop THEN "ended" ELSE "mine"
    /\ UNCHANGED <<starts, mined, stop, job, stopVars, stopped, jobVars, workVars>>

(* Mine up to the threads' start: stopped_ = false comes first. *)
StartWorkers ==
    /\ loop = "mine"
    /\ loop' = "join"
    /\ job' \in Candidate
    /\ stopped' = FALSE
    /\ found' = FALSE /\ result' = NoNonce
    /\ hashes' = 0 /\ current' = 0 /\ best' = NoNonce
    /\ work' = [w \in Worker |-> "check"]
    /\ nonce' = [w \in Worker |-> w]
    /\ UNCHANGED <<starts, mined, stop, stopVars, seen>>

(* Mine from the joins on, and the submission of what it returns. *)
JoinWorkers ==
    /\ loop = "join"
    /\ \A w \in Worker : work[w] = "done"
    /\ loop' = "check"
    /\ mined' = IF found THEN "ok" ELSE "stopped"
    /\ current' = hashes
    /\ UNCHANGED <<starts, stop, job, stopVars, stopped, found, result, hashes, best, workVars>>

-----------------------------------------------------------------------------
(* The thread that stops: Miner::Stop sets its own flag, then the engine's.*)

CallStop ==
    /\ stopper = "idle"
    /\ stops < MaxStops
    /\ stops' = stops + 1
    /\ stopper' = "engine"
    /\ stop' = TRUE
    /\ UNCHANGED <<loop, starts, mined, job, stopped, jobVars, workVars>>

StopEngine ==
    /\ stopper = "engine"
    /\ stopper' = "idle"
    /\ stopped' = TRUE
    /\ UNCHANGED <<stops, loopVars, jobVars, workVars>>

-----------------------------------------------------------------------------
(* WorkerLoop. *)

Go(w, from, to) ==
    /\ work[w] = from
    /\ work' = [work EXCEPT ![w] = to]
    /\ UNCHANGED <<loopVars, stopVars, stopped>>

(* Mutant: the workers do not look at found. *)
CheckStopped(w) ==
    /\ Go(w, "check", IF stopped THEN "done" ELSE "count")
    /\ UNCHANGED <<nonce, seen, jobVars>>

CheckFlags(w) ==
    /\ Go(w, "check", IF stopped \/ found THEN "done" ELSE "count")
    /\ UNCHANGED <<nonce, seen, jobVars>>

(* ++hashes *)
CountHash(w) ==
    /\ Go(w, "count", "load")
    /\ hashes' = (hashes + 1) % CountSpace
    /\ UNCHANGED <<nonce, seen, found, result, current, best>>

(* currentHashes_ = hashes.load() is a load and a store. *)
LoadCount(w) ==
    /\ Go(w, "load", "store")
    /\ seen' = [seen EXCEPT ![w] = hashes]
    /\ UNCHANGED <<nonce, jobVars>>

StoreCount(w) ==
    /\ Go(w, "store", "record")
    /\ current' = seen[w]
    /\ UNCHANGED <<nonce, seen, found, result, hashes, best>>

RecordBestHash(w) ==
    LET try == <<w, nonce[w]>>
    IN  /\ Go(w, "record", "test")
        /\ best' = IF best = NoNonce \/ HashOf(job, try) < HashOf(job, best) THEN try ELSE best
        /\ UNCHANGED <<nonce, seen, found, result, hashes, current>>

NextNonce(w) ==
    /\ ~Solves(job, <<w, nonce[w]>>)
    /\ Go(w, "test", "check")
    /\ nonce' = [nonce EXCEPT ![w] = (@ + Threads) % NonceSpace]
    /\ UNCHANGED <<seen, jobVars>>

(* Mutant: found is set, but what it was before is not looked at. *)
ClaimAlways(w) ==
    /\ Solves(job, <<w, nonce[w]>>)
    /\ Go(w, "test", "publish")
    /\ found' = TRUE
    /\ UNCHANGED <<nonce, seen, result, hashes, current, best>>

(* found.exchange(true): the first to find a solution publishes it. *)
Claim(w) ==
    /\ Solves(job, <<w, nonce[w]>>)
    /\ Go(w, "test", IF found THEN "done" ELSE "publish")
    /\ found' = TRUE
    /\ UNCHANGED <<nonce, seen, result, hashes, current, best>>

(* Mutant: the nonce has moved on when the block is copied. *)
PublishLate(w) ==
    /\ Go(w, "publish", "done")
    /\ result' = <<w, (nonce[w] + Threads) % NonceSpace>>
    /\ UNCHANGED <<nonce, seen, found, hashes, current, best>>

Publish(w) ==
    /\ Go(w, "publish", "done")
    /\ result' = <<w, nonce[w]>>
    /\ UNCHANGED <<nonce, seen, found, hashes, current, best>>

WorkerStep(w) ==
    \/ CheckFlags(w)
    \/ CountHash(w)
    \/ LoadCount(w)
    \/ StoreCount(w)
    \/ RecordBestHash(w)
    \/ NextNonce(w)
    \/ Claim(w)
    \/ Publish(w)

LoopStep == Begin \/ CheckStop \/ StartWorkers \/ JoinWorkers

EngineNext ==
    \/ StartLoop
    \/ LoopStep
    \/ CallStop
    \/ StopEngine
    \/ \E w \in Worker : WorkerStep(w)

EngineSpec == EngineInit /\ [][EngineNext]_engineVars

-----------------------------------------------------------------------------
(* Properties. *)

TypeOK ==
    /\ loop \in {"ended", "begin", "check", "mine", "join"}
    /\ starts \in 0 .. MaxStarts
    /\ mined \in {"never", "ok", "stopped"}
    /\ stop \in BOOLEAN /\ stopped \in BOOLEAN
    /\ job \in Candidate
    /\ stopper \in {"idle", "engine"}
    /\ stops \in 0 .. MaxStops
    /\ work \in [Worker -> {"check", "count", "load", "store", "record",
                            "test", "publish", "done"}]
    /\ nonce \in [Worker -> Nonce]
    /\ seen \in [Worker -> 0 .. CountSpace - 1]
    /\ found \in BOOLEAN /\ result \in Try \cup {NoNonce}
    /\ hashes \in 0 .. CountSpace - 1 /\ current \in 0 .. CountSpace - 1
    /\ best \in Try \cup {NoNonce}

(* No two threads write result, and none writes it once it is written: the *)
(* one that finds found already set leaves its own solution.               *)
ResultHasOneWriter ==
    \A w \in Worker : work[w] = "publish" =>
        /\ found
        /\ result = NoNonce
        /\ \A v \in Worker \ {w} : work[v] # "publish"

(* What Mine returns as found is a solution, complete when it is read, and *)
(* the best hash of the statistics is at least as good.                    *)
MinedIsSolution ==
    found /\ (\A w \in Worker : work[w] = "done") =>
        /\ result \in Try
        /\ Solves(job, result)
        /\ best \in Try /\ HashOf(job, best) <= HashOf(job, result)

(* Once one thread has found a nonce, all the others stop and Mine returns.*)
FoundEndsSearch == found /\ loop = "join" ~> loop # "join"

(* A stop that reaches the engine while the workers run ends the loop, and *)
(* is not undone by the flags' resets at the start of StartLoop and Mine.  *)
StopEndsLoop == loop = "join" /\ stop /\ stopped ~> loop = "ended"
=============================================================================

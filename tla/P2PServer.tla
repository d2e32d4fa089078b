----------------------------- MODULE P2PServer -----------------------------
(***************************************************************************)
(* The listening side of the network (src/p2p/P2PServer.cpp) over the      *)
(* peer manager: the thread that owns the server and calls Start, Stop and *)
(* the manager's operations, the accept thread, and a detached thread per  *)
(* connection, which lives on after Stop.                                  *)
(*                                                                         *)
(* The other side of a connection is free: it connects from any endpoint   *)
(* of Inbound, sends what it likes, or nothing at all.  accept returns at  *)
(* once when a connection waits; Stop closes the socket under it.  Whether *)
(* that wakes an accept that waits differs between the systems the code is *)
(* built for; wakes chooses.  The statistics are left out.                 *)
(***************************************************************************)
EXTENDS PeerManager

CONSTANTS
    Client,      \* connections at a time
    Inbound,     \* the endpoints they come from
    MaxConnects  \* bound: connections in all

ASSUME ServerAssumption == Inbound \subseteq Endpoint /\ MaxConnects \in Nat

VARIABLES
    owner,    \* where the owner's thread stands
    running,  \* running_
    open,     \* listenSocket_ >= 0
    acceptor, \* where the accept thread stands
    conn,     \* of each client: its state, endpoint and message
    connects, \* connections so far
    wakes     \* the system: closing the socket ends an accept that waits

serverVars == <<owner, running, open, acceptor, conn, connects, wakes>>
vars == <<managerVars, serverVars>>

(* What comes of a connection: a message that cannot be read, that the     *)
(* handler refuses, or none (invalid); a handshake; or a message the       *)
(* handler takes.                                                          *)
Outcome == {"invalid", "version", "fine"}

NoConnection == [at |-> "closed"]
Connection(at, e) == [at |-> at, end |-> e]

Init ==
    /\ ManagerInit
    /\ owner = "idle"
    /\ running = FALSE /\ open = FALSE
    /\ acceptor = "none"
    /\ conn = [c \in Client |-> NoConnection]
    /\ connects = 0
    /\ wakes \in BOOLEAN

Waiting == {c \in Client : conn[c].at = "waiting"}

-----------------------------------------------------------------------------
(* The owner. *)

(* A Start that cannot bind changes nothing. *)
Start ==
    /\ owner = "idle" /\ ~running
    /\ running' = TRUE /\ open' = TRUE
    /\ acceptor' = "check"
    /\ UNCHANGED <<managerVars, owner, conn, connects, wakes>>

(* Stop: running_ = false; *)
BeginStop ==
    /\ owner = "idle"
    /\ owner' = "close"
    /\ running' = FALSE
    /\ UNCHANGED <<managerVars, open, acceptor, conn, connects, wakes>>

(* Waiting connections are reset, unless a thread in accept keeps the      *)
(* socket alive.                                                           *)
CloseListener ==
    /\ owner = "close"
    /\ owner' = "join"
    /\ open' = FALSE
    /\ acceptor' = IF acceptor = "blocked" /\ wakes THEN "check" ELSE acceptor
    /\ conn' = [c \in Client |-> IF c \in Waiting THEN NoConnection ELSE conn[c]]
    /\ UNCHANGED <<managerVars, running, connects, wakes>>

(* Mutant: Stop does not wait for the accept thread. *)
JoinNobody ==
    /\ owner = "join"
    /\ owner' = "idle"
    /\ UNCHANGED <<managerVars, running, open, acceptor, conn, connects, wakes>>

JoinAcceptor ==
    /\ owner = "join"
    /\ acceptor = "none"
    /\ owner' = "idle"
    /\ UNCHANGED <<managerVars, running, open, acceptor, conn, connects, wakes>>

UseManager ==
    /\ owner = "idle"
    /\ \/ Load
       \/ Save
       \/ \E e \in Outbound : AddOrUpdate(e)
       \/ \E e \in Outbound \cup Inbound :
              \/ \E s \in BanSeconds : Ban(e, s)
              \/ Unban(e)
    /\ UNCHANGED serverVars

-----------------------------------------------------------------------------
(* AcceptLoop. *)

(* Mutant: for (;;) *)
CheckNothing ==
    /\ acceptor = "check"
    /\ acceptor' = "accept"
    /\ UNCHANGED <<managerVars, owner, running, open, conn, connects, wakes>>

(* while (running_) *)
CheckRunning ==
    /\ acceptor = "check"
    /\ acceptor' = IF running THEN "accept" ELSE "none"
    /\ UNCHANGED <<managerVars, owner, running, open, conn, connects, wakes>>

(* accept fails at once on a socket that is closed by then. *)
AcceptFails ==
    /\ acceptor = "accept" /\ ~open
    /\ acceptor' = "check"
    /\ UNCHANGED <<managerVars, owner, running, open, conn, connects, wakes>>

AcceptWaits ==
    /\ acceptor = "accept" /\ open
    /\ Waiting = {}
    /\ acceptor' = "blocked"
    /\ UNCHANGED <<managerVars, owner, running, open, conn, connects, wakes>>

(* accept returns a connection; AddOrUpdate, and a thread that handles it. *)
Accept(c) ==
    /\ (acceptor = "accept" /\ open) \/ acceptor = "blocked"
    /\ c \in Waiting
    /\ acceptor' = "check"
    /\ AddOrUpdate(conn[c].end)
    /\ conn' = [conn EXCEPT ![c].at = "reading"]
    /\ UNCHANGED <<owner, running, open, connects, wakes>>

-----------------------------------------------------------------------------
(* The other side. *)

Connect(c, e) ==
    /\ conn[c].at = "closed"
    /\ connects < MaxConnects
    /\ open \/ acceptor = "blocked"
    /\ conn' = [conn EXCEPT ![c] = Connection("waiting", e)]
    /\ connects' = connects + 1
    /\ UNCHANGED <<managerVars, owner, running, open, acceptor, wakes>>

(* It sends a message, or hangs up. *)
Send(c, m) ==
    /\ conn[c].at = "reading"
    /\ conn' = [conn EXCEPT ![c].at = m]
    /\ UNCHANGED <<managerVars, owner, running, open, acceptor, connects, wakes>>

-----------------------------------------------------------------------------
(* HandleClient, once ReadMessage has returned: report, close. *)
HandleClient(c) ==
    LET e == conn[c].end
    IN  /\ \/ conn[c].at = "invalid" /\ ReportInvalid(e)
           \/ conn[c].at = "fine" /\ ReportGood(e)
           \/ conn[c].at = "version" /\ UNCHANGED managerVars
        /\ conn' = [conn EXCEPT ![c] = NoConnection]
        /\ UNCHANGED <<owner, running, open, acceptor, connects, wakes>>

-----------------------------------------------------------------------------
StopStep == CloseListener \/ JoinAcceptor
AcceptStep == CheckRunning \/ AcceptFails \/ AcceptWaits \/ \E c \in Client : Accept(c)

Next ==
    \/ Start
    \/ BeginStop
    \/ StopStep
    \/ UseManager
    \/ AcceptStep
    \/ \E c \in Client :
           \/ \E e \in Inbound : Connect(c, e)
           \/ \E m \in Outcome : Send(c, m)
           \/ HandleClient(c)
    \/ Tick /\ UNCHANGED serverVars

Spec == Init /\ [][Next]_vars

-----------------------------------------------------------------------------
(* Properties. *)

TypeOK ==
    /\ ManagerTypeOK
    /\ owner \in {"idle", "close", "join"}
    /\ running \in BOOLEAN /\ open \in BOOLEAN /\ wakes \in BOOLEAN
    /\ acceptor \in {"none", "check", "accept", "blocked"}
    /\ \A c \in Client :
           conn[c] = NoConnection \/
           conn[c] \in [at : {"waiting", "reading"} \cup Outcome, end : Endpoint]
    /\ connects \in 0 .. MaxConnects

(* Between the return of a Stop and the next Start no connection is        *)
(* accepted: the accept thread has ended, whatever it was doing when the   *)
(* socket was closed.                                                      *)
NoAcceptAfterStop ==
    [][(\E c \in Client : conn[c].at = "waiting" /\ conn'[c].at = "reading")
           => running \/ owner # "idle"]_vars

(* Stop returns, if closing the socket wakes the accept thread or somebody *)
(* else connects: no order of its flag, its close and the steps of the     *)
(* accept thread leaves that thread running.                               *)
StopReturns == owner = "join" /\ (wakes \/ Waiting # {}) ~> owner = "idle"
=============================================================================

---------------------------- MODULE PeerManager ----------------------------
(***************************************************************************)
(* The peers a node knows (src/p2p/PeerManager.cpp, Peer.cpp): reputation, *)
(* strikes, bans, and the file they are written to.  Every operation holds *)
(* mutex_ from beginning to end and is one step.                           *)
(*                                                                         *)
(* A line of the file is modelled by the endpoint that FromString makes of *)
(* it; comments and lines without host or port are left out.  The list may *)
(* hold an endpoint twice, because Load does not look for doubles and two  *)
(* different lines may mean the same endpoint; the operations then find    *)
(* the first.                                                              *)
(***************************************************************************)
EXTENDS Integers, SequencesExt

CONSTANTS
    Host,           \* addresses
    V6Host,         \* those that are written with colons
    Port,
    DefaultPort,
    Malformed,      \* a line on which std::stoul throws
    SeenReward,     \* 1 in the code
    GoodReward,     \* 5
    Penalty,        \* 25
    BanBelow,       \* -100
    MaxInvalid,     \* 10
    MinReputation,  \* -1000
    MaxReputation,  \* 1000
    BanTime,        \* 24 hours
    BanSeconds,     \* what Ban is called with
    Outbound,       \* the endpoints the node adds by itself
    FirstFile,      \* the lines a user may have written
    MaxTime,        \* bound: the clock
    MaxLoads        \* bound: calls of Load, and of Save before the last

Endpoint == [host : Host, tail : Seq(Port), port : Port]

ASSUME PeerAssumption ==
    /\ V6Host \subseteq Host
    /\ DefaultPort \in Port
    /\ Malformed \notin Endpoint
    /\ {SeenReward, GoodReward, Penalty, MaxInvalid, BanTime} \subseteq Nat \ {0}
    /\ MinReputation \in Int /\ BanBelow \in Int /\ MaxReputation \in Nat
    /\ MinReputation < BanBelow /\ BanBelow < 0
    /\ BanSeconds \subseteq Nat
    /\ Outbound \subseteq Endpoint
    /\ FirstFile \subseteq Seq(Endpoint \cup {Malformed})
    /\ MaxTime \in Nat /\ MaxLoads \in Nat

VARIABLES
    peers,    \* peers_
    file,     \* peers.dat
    clock,
    loads,    \* calls of Load
    strikes,  \* history: the reports against a peer since it is known
    promised  \* history: until when a peer is to be kept out

managerVars == <<peers, file, clock, loads, strikes, promised>>

Peer == [end : Endpoint, reputation : Int, invalid : Nat, banned : BOOLEAN, until : Nat]

NewPeer(e) == [end |-> e, reputation |-> 0, invalid |-> 0, banned |-> FALSE, until |-> 0]

(* ToString and FromString after one another: without brackets the port of *)
(* a host that has colons is taken for a part of the host.                 *)
Reparsed(e) ==
    IF e.host \in V6Host
    THEN [e EXCEPT !.tail = Append(@, e.port), !.port = DefaultPort]
    ELSE e

IsBanned(p) == p.banned /\ clock < p.until

Places(e) == {i \in DOMAIN peers : peers[i].end = e}
Known(e) == Places(e) # {}
PeerOf(e) == peers[Min(Places(e))]
WithPeer(e, p) == [peers EXCEPT ![Min(Places(e))] = p]

(* Mutant: no upper limit. *)
RewardedFreely(p, delta) == [p EXCEPT !.reputation = @ + delta]

Rewarded(p, delta) == [p EXCEPT !.reputation = Min({MaxReputation, @ + delta})]
Penalized(p) ==
    [p EXCEPT !.reputation = Max({MinReputation, @ - Penalty}), !.invalid = @ + 1]
BannedFor(p, seconds) == [p EXCEPT !.banned = TRUE, !.until = clock + seconds]

(* Mutant: a reputation of exactly the limit is enough. *)
DeservesBanEarly(p) == p.reputation <= BanBelow \/ p.invalid >= MaxInvalid

DeservesBan(p) == p.reputation < BanBelow \/ p.invalid >= MaxInvalid

(* out[n] is what the loop has taken after n peers. *)
SelectConnectable(maxCount) ==
    LET out[n \in 0 .. Len(peers)] ==
            IF n = 0 THEN <<>>
            ELSE IF Len(out[n - 1]) >= maxCount \/ IsBanned(peers[n])
                 THEN out[n - 1]
                 ELSE Append(out[n - 1], peers[n])
    IN  out[Len(peers)]

ConnectableIn(list) == {list[i].end : i \in DOMAIN list}
Connectable == ConnectableIn(SelectConnectable(Len(peers)))

-----------------------------------------------------------------------------
ManagerInit ==
    /\ peers = <<>>
    /\ file \in FirstFile
    /\ clock = 0
    /\ loads = 0
    /\ strikes = <<>>
    /\ promised = <<>>

(* What is remembered of a peer, zero if nothing. *)
Of(history, e) == IF e \in DOMAIN history THEN history[e] ELSE 0
Noted(history, e, n) ==
    [x \in DOMAIN history \cup {e} |-> IF x = e THEN n ELSE history[x]]

(* A malformed line ends Load with an exception, after the lines before it. *)
Readable(lines) ==
    {n \in 0 .. Len(lines) : \A i \in 1 .. n : lines[i] # Malformed}

Load ==
    /\ loads < MaxLoads
    /\ loads' = loads + 1
    /\ peers' = [i \in 1 .. Max(Readable(file)) |-> NewPeer(file[i])]
    /\ strikes' = <<>>
    /\ promised' = <<>>
    /\ UNCHANGED <<file, clock>>

(* Save goes through the peers as SelectConnectable does, without a limit. *)
Save ==
    /\ loads < MaxLoads
    /\ LET free == SelectConnectable(Len(peers))
       IN  file' = [i \in DOMAIN free |-> Reparsed(free[i].end)]
    /\ UNCHANGED <<peers, clock, loads, strikes, promised>>

(* Mutant: a peer that is seen again is entered afresh. *)
WithAddedAfresh(e) ==
    IF Known(e) THEN WithPeer(e, NewPeer(e)) ELSE Append(peers, NewPeer(e))

(* The list after AddOrUpdate(e). *)
WithAdded(e) ==
    IF Known(e) THEN WithPeer(e, Rewarded(PeerOf(e), SeenReward))
                ELSE Append(peers, NewPeer(e))

AddOrUpdate(e) ==
    /\ peers' = WithAdded(e)
    /\ UNCHANGED <<file, clock, loads, strikes, promised>>

ReportGood(e) ==
    /\ peers' = IF Known(e) THEN WithPeer(e, Rewarded(PeerOf(e), GoodReward)) ELSE peers
    /\ UNCHANGED <<file, clock, loads, strikes, promised>>

(* The fewest reports that can ban a peer, when nothing was earned before. *)
FewestReports == Min({MaxInvalid, (-BanBelow) \div Penalty + 1})

(* What n reports of e leave of a promise: from MaxInvalid on they ban; a  *)
(* report that may ban sets the time anew, also over a longer Ban.         *)
PromisedAfter(n, e) ==
    IF n >= MaxInvalid THEN clock + BanTime
    ELSE IF n >= FewestReports THEN Min({Of(promised, e), clock + BanTime})
    ELSE Of(promised, e)

ReportInvalid(e) ==
    /\ IF Known(e)
       THEN LET p == Penalized(PeerOf(e))
            IN  /\ peers' = WithPeer(e, IF DeservesBan(p) THEN BannedFor(p, BanTime) ELSE p)
                /\ strikes' = Noted(strikes, e, Of(strikes, e) + 1)
                /\ promised' = Noted(promised, e, PromisedAfter(Of(strikes', e), e))
       ELSE UNCHANGED <<peers, strikes, promised>>
    /\ UNCHANGED <<file, clock, loads>>

(* An unknown peer is an error that changes nothing. *)
Ban(e, seconds) ==
    /\ Known(e)
    /\ peers' = WithPeer(e, BannedFor(PeerOf(e), seconds))
    /\ promised' = Noted(promised, e, clock + seconds)
    /\ UNCHANGED <<file, clock, loads, strikes>>

(* SetState(Disconnected): reputation and strikes stay. *)
Unban(e) ==
    /\ Known(e)
    /\ peers' = WithPeer(e, [PeerOf(e) EXCEPT !.banned = FALSE])
    /\ promised' = Noted(promised, e, 0)
    /\ UNCHANGED <<file, clock, loads, strikes>>

Tick ==
    /\ clock < MaxTime
    /\ clock' = clock + 1
    /\ UNCHANGED <<peers, file, loads, strikes, promised>>

-----------------------------------------------------------------------------
(* Properties. *)

ManagerTypeOK ==
    /\ peers \in Seq(Peer)
    /\ \A i \in DOMAIN peers : peers[i].reputation \in MinReputation .. MaxReputation
    /\ file \in Seq(Endpoint \cup {Malformed})
    /\ clock \in 0 .. MaxTime
    /\ loads \in 0 .. MaxLoads
    /\ DOMAIN strikes \subseteq Endpoint /\ DOMAIN promised \subseteq Endpoint

(* A peer that Ban has banned, or that has been reported MaxInvalid times, *)
(* is not offered for a connection before its time is over, however it is *)
(* rewarded or seen again meanwhile; only Unban, Load, a shorter Ban and a *)
(* report that may ban anew end it earlier.  (An endpoint that the file    *)
(* lists twice has a second entry that no report reaches.)                 *)
BanHolds ==
    \A e \in DOMAIN promised :
        clock < promised[e] /\ Cardinality(Places(e)) = 1 => e \notin Connectable

(* A peer is kept out because Ban says so, or because it has been reported *)
(* MaxInvalid times or often enough to fall below the limit, whatever was  *)
(* reported of other peers on other threads.                               *)
BanIsEarned ==
    \A i \in DOMAIN peers :
        LET e == peers[i].end
        IN  IsBanned(peers[i]) =>
                clock < Of(promised, e) \/ Of(strikes, e) >= FewestReports
=============================================================================

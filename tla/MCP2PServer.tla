---------------------------- MODULE MCP2PServer ----------------------------
(***************************************************************************)
(* The network for TLC: in a behaviour either the server with its threads  *)
(* moves (P2PServer), or one of its connections piece by piece             *)
(* (Handshake); "scene" says which.                                        *)
(*                                                                         *)
(* The server has an address of each kind, limits that are reached after   *)
(* few messages, and a file with a double and a line that cannot be read.  *)
(* Two messages that are invalid are enough to fall below the limit when   *)
(* nothing was earned before, three are enough in any case.                *)
(***************************************************************************)
EXTENDS P2PServer, Handshake

VARIABLE scene

At(h, p) == [host |-> h, tail |-> <<>>, port |-> p]

MCInbound == {At("four", 2)}
MCOutbound == {At("four", 2)}
MCFirstFile == {<<At("six", 1), At("four", 2), At("four", 2), Malformed>>}
MCBanBelow == -2
MCMinReputation == -4

MCInit ==
    /\ scene \in {"server", "handshake"}
    /\ Init
    /\ HandshakeInit
    /\ scene = "server" => net = [s \in Side |-> 0]
    /\ scene = "handshake" => wakes

InServer(A) == scene = "server" /\ A /\ UNCHANGED <<handshakeVars, scene>>
InHandshake(A) == scene = "handshake" /\ A /\ UNCHANGED <<vars, scene>>
MCNext == InServer(Next) \/ InHandshake(HandshakeNext)

mcVars == <<vars, handshakeVars, scene>>

(* The system runs the threads of the server and of the client; nobody has *)
(* to connect, to send or to call, or to end.                              *)
MCSpec ==
    /\ MCInit /\ [][MCNext]_mcVars
    /\ WF_mcVars(InServer(StopStep))
    /\ WF_mcVars(InServer(AcceptStep))
    /\ WF_mcVars(InHandshake(ServerStep))
    /\ WF_mcVars(InHandshake(ClientStep))
    /\ \A s \in Side : WF_mcVars(InHandshake(Recv(s)))
=============================================================================

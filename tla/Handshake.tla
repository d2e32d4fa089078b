------------------------------ MODULE Handshake ------------------------------
(***************************************************************************)
(* One connection: a client that shakes hands (src/p2p/P2PClient.cpp), the *)
(* thread of the server that handles it (HandleClient in                   *)
(* src/p2p/P2PServer.cpp) and the two streams between them, over the       *)
(* messages of src/p2p/P2PMessage.cpp.  A message is a header and as many  *)
(* pieces of payload as the header says; both sides take them from their   *)
(* stream piece by piece.  Magic and checksum are right between programs   *)
(* of this code.  Neither side has a timeout: the parameters are ignored.  *)
(***************************************************************************)
EXTENDS Integers, Sequences, FiniteSets

CONSTANTS
    Network,      \* network ids, 0 accepts any
    MaxPayload    \* MaxPayloadBytes, in pieces

ASSUME HandshakeAssumption == Network \subseteq Nat /\ MaxPayload \in Nat \ {0}

VARIABLES
    net,      \* networkId of each side
    at,       \* where each side stands
    stream,   \* what is on its way to a side
    frame,    \* what a side has received of a message
    shut,     \* the sides whose socket is closed
    verdict   \* what the server made of the first message

handshakeVars == <<net, at, stream, frame, shut, verdict>>

Side == {"client", "server"}
Other(s) == CHOOSE t \in Side : t # s

(* Three of KnownCommands are too long to be sent.                         *)
Long == {"pq_client_hello", "pq_server_hello", "pq_session_confirm"}
KnownCommands == {"version", "verack", "ping"} \cup Long

Message(network, command, size) == [network |-> network, command |-> command, size |-> size]

Serialize(m) ==
    IF m.command \in Long \/ m.size > MaxPayload THEN <<>>
    ELSE <<m>> \o [i \in 1 .. m.size |-> "payload"]

(* Mutant: messages of every network are taken. *)
DeserializeAny(data, expected) ==
    {m \in {Head(data)} : m.command \in KnownCommands /\ m.size <= MaxPayload /\ Len(data) = 1 + m.size}

Deserialize(data, expected) ==
    {m \in {Head(data)} :
        /\ expected = 0 \/ m.network = expected
        /\ m.command \in KnownCommands
        /\ m.size <= MaxPayload
        /\ Len(data) = 1 + m.size}

HandshakeInit ==
    /\ net \in [Side -> Network]
    /\ at = [s \in Side |-> IF s = "client" THEN "connected" ELSE "reading"]
    /\ stream = [s \in Side |-> <<>>]
    /\ frame = [s \in Side |-> <<>>]
    /\ shut = {}
    /\ verdict = "none"

-----------------------------------------------------------------------------
(* RecvAll, twice. *)

Receives(s) == at[s] \in {"reading", "version", "verack"}

(* Mutant: one recv, which brings the header. *)
FinishedEarly(s) == frame[s] # <<>>

Finished(s) ==
    /\ frame[s] # <<>>
    /\ \/ Head(frame[s]).size > MaxPayload
       \/ Len(frame[s]) = 1 + Head(frame[s]).size

Recv(s) ==
    /\ Receives(s) /\ ~Finished(s)
    /\ stream[s] # <<>>
    /\ frame' = [frame EXCEPT ![s] = Append(@, Head(stream[s]))]
    /\ stream' = [stream EXCEPT ![s] = Tail(@)]
    /\ UNCHANGED <<net, at, shut, verdict>>

(* ReadMessage, Receive: they return a message, or none after an error.    *)
Returns(s) ==
    /\ Receives(s)
    /\ Finished(s) \/ (stream[s] = <<>> /\ Other(s) \in shut)
Received(s) == IF Finished(s) THEN Deserialize(frame[s], net[s]) ELSE {}

Sent(s, command, size) ==
    [stream EXCEPT ![Other(s)] = @ \o Serialize(Message(net[s], command, size))]

-----------------------------------------------------------------------------
(* P2PClient. *)

(* Another message before the handshake.                                   *)
SendOther(command, size) ==
    /\ at["client"] = "connected" /\ at["server"] = "reading"
    /\ stream["server"] = <<>> /\ frame["server"] = <<>>
    /\ stream' = Sent("client", command, size)
    /\ UNCHANGED <<net, at, frame, shut, verdict>>

(* Handshake sends its version, whose payload is never empty, ...          *)
SendVersion ==
    /\ at["client"] = "connected"
    /\ at' = [at EXCEPT !["client"] = "version"]
    /\ stream' = Sent("client", "version", MaxPayload)
    /\ UNCHANGED <<net, frame, shut, verdict>>

(* ... receives theirs, sends verack, and receives theirs: it stands at    *)
(* the command it expects.                                                 *)
ClientStep ==
    /\ Returns("client")
    /\ frame' = [frame EXCEPT !["client"] = <<>>]
    /\ IF \E m \in Received("client") : m.command = at["client"]
       THEN IF at["client"] = "version"
            THEN /\ at' = [at EXCEPT !["client"] = "verack"]
                 /\ stream' = Sent("client", "verack", 0)
            ELSE at' = [at EXCEPT !["client"] = "done"] /\ UNCHANGED stream
       ELSE at' = [at EXCEPT !["client"] = "failed"] /\ UNCHANGED stream
    /\ UNCHANGED <<net, shut, verdict>>

-----------------------------------------------------------------------------
(* HandleClient. *)

ReadFirst ==
    /\ Returns("server")
    /\ LET command == {m.command : m \in Received("server")}
       IN  /\ at' = [at EXCEPT !["server"] = IF command = {"version"} THEN "answer"
                                          ELSE IF command = {} THEN "close" ELSE "handle"]
           /\ verdict' = IF command = {"version"} THEN "version"
                         ELSE IF command = {} THEN "invalid" ELSE "other"
    /\ UNCHANGED <<net, stream, frame, shut>>

(* Mutant: it waits for the client's verack before it answers. *)
AnswerLate ==
    /\ at["server"] = "answer" /\ stream["server"] # <<>>
    /\ at' = [at EXCEPT !["server"] = "acknowledge"]
    /\ stream' = Sent("server", "version", 0)
    /\ UNCHANGED <<net, frame, shut, verdict>>

Answer ==
    /\ at["server"] = "answer"
    /\ at' = [at EXCEPT !["server"] = "acknowledge"]
    /\ stream' = Sent("server", "version", 0)
    /\ UNCHANGED <<net, frame, shut, verdict>>

Acknowledge ==
    /\ at["server"] = "acknowledge"
    /\ at' = [at EXCEPT !["server"] = "close"]
    /\ stream' = Sent("server", "verack", 0)
    /\ UNCHANGED <<net, frame, shut, verdict>>

(* The handler takes the message or refuses it.                            *)
Handle ==
    /\ at["server"] = "handle"
    /\ at' = [at EXCEPT !["server"] = "close"]
    /\ verdict' \in {"fine", "refused"}
    /\ UNCHANGED <<net, stream, frame, shut>>

CloseConnection ==
    /\ at["server"] = "close"
    /\ at' = [at EXCEPT !["server"] = "closed"]
    /\ shut' = shut \cup {"server"}
    /\ UNCHANGED <<net, stream, frame, verdict>>

-----------------------------------------------------------------------------
(* A socket that is closed with something unread, or written to when it is *)
(* closed, resets the connection: what the other side has not read yet is  *)
(* lost on some systems.                                                   *)
Reset(s) ==
    /\ s \in shut /\ stream[s] # <<>>
    /\ stream[Other(s)] # <<>>
    /\ stream' = [stream EXCEPT ![Other(s)] = <<>>]
    /\ UNCHANGED <<net, at, frame, shut, verdict>>

(* The process of a side ends, or the client closes.                       *)
HangUp(s) ==
    /\ s \notin shut
    /\ at' = [at EXCEPT ![s] = "gone"]
    /\ shut' = shut \cup {s}
    /\ UNCHANGED <<net, stream, frame, verdict>>

ServerStep == ReadFirst \/ Answer \/ Acknowledge \/ Handle \/ CloseConnection

HandshakeNext ==
    \/ \E command \in {"ping", "pq_client_hello"}, size \in {0, MaxPayload + 1} :
           SendOther(command, size)
    \/ SendVersion
    \/ ClientStep
    \/ ServerStep
    \/ \E s \in Side : Recv(s) \/ Reset(s) \/ HangUp(s)

HandshakeSpec == HandshakeInit /\ [][HandshakeNext]_handshakeVars

-----------------------------------------------------------------------------
(* Properties. *)

(* A handshake that succeeds is one both sides know of: the server has     *)
(* read this client's version, is on its network and has answered all it   *)
(* will, and the client's next message begins at the start of its stream.  *)
HandshakeAgrees ==
    at["client"] = "done" =>
        /\ net["client"] = net["server"]
        /\ verdict = "version" /\ at["server"] \in {"close", "closed", "gone"}
        /\ stream["client"] = <<>> /\ frame["client"] = <<>>

(* The server reports nobody to the peer manager for the way a message     *)
(* came in pieces: only a client of another network, or one that was gone  *)
(* before its message was complete.                                        *)
ReportIsDeserved ==
    verdict = "invalid" =>
        \/ net["server"] \notin {0, net["client"]}
        \/ "client" \in shut

(* Handshake returns though nothing in it has a timeout: the two sides     *)
(* never wait for each other, and a server that ends closes its socket.    *)
HandshakeReturns ==
    at["client"] \in {"version", "verack"} ~> at["client"] \in {"done", "failed", "gone"}
=============================================================================

--------------------------- MODULE NetworkProofs ----------------------------
(***************************************************************************)
(* Proofs about the two machines of the network: that a server accepts     *)
(* nobody between Stop and Start (P2PServer), and that a handshake that    *)
(* succeeds is agreed on and reports nobody for nothing (Handshake).       *)
(***************************************************************************)
EXTENDS P2PServer, Handshake, Recursion, FiniteSetTheorems, TLAPS

-----------------------------------------------------------------------------
(* The accept thread lives only while the server runs or is being stopped. *)
ThreadBounded == acceptor # "none" => running \/ owner # "idle"

(* The accept thread is gone whenever the owner is idle with a stopped     *)
(* server, whatever order flag, close and join took with its own steps.    *)
THEOREM ThreadEnds == Spec => []ThreadBounded
<1>1. Init => ThreadBounded
  BY DEF Init, ThreadBounded
<1>2. ThreadBounded /\ [Next]_vars => ThreadBounded'
  <2> SUFFICES ASSUME acceptor # "none" => running \/ owner # "idle", [Next]_vars
               PROVE  acceptor' # "none" => running' \/ owner' # "idle"
    BY DEF ThreadBounded
  <2>1. CASE UNCHANGED <<owner, running, acceptor>>
    BY <2>1
  <2>2. CASE Start \/ BeginStop \/ StopStep
    BY <2>2 DEF Start, BeginStop, StopStep, CloseListener, JoinAcceptor
  <2>3. CASE AcceptStep
    BY <2>3 DEF AcceptStep, CheckRunning, AcceptFails, AcceptWaits, Accept
  <2> QED
    BY <2>1, <2>2, <2>3 DEF Next, UseManager, Connect, Send, HandleClient, vars, serverVars
<1> QED BY <1>1, <1>2, PTL DEF Spec

(* conn has a connection for each client. *)
Connections == conn = [c \in Client |-> conn[c]]

LEMMA ConnectionsKept == Spec => []Connections
<1>1. Init => Connections
  BY DEF Init, Connections
<1>2. Connections /\ [Next]_vars => Connections'
  <2> SUFFICES ASSUME Connections, [Next]_vars
               PROVE  Connections'
    OBVIOUS
  <2> USE DEF Connections
  <2>1. CASE UNCHANGED conn
    BY <2>1
  <2>2. CASE CloseListener
    BY <2>2 DEF CloseListener
  <2>3. ASSUME NEW c \in Client,
               Accept(c) \/ (\E e \in Inbound : Connect(c, e)) \/ (\E m \in Outcome : Send(c, m)) \/ HandleClient(c)
        PROVE  Connections'
    BY <2>3 DEF Accept, Connect, Send, HandleClient
  <2> QED
    BY <2>1, <2>2, <2>3 DEF Next, Start, BeginStop, StopStep, JoinAcceptor, UseManager, serverVars,
       AcceptStep, CheckRunning, AcceptFails, AcceptWaits, vars
<1> QED BY <1>1, <1>2, PTL DEF Spec

(* For any number of connections and endpoints, no connection is accepted  *)
(* between the return of a Stop and the next Start.                        *)
THEOREM NobodyAfterStop == Spec => NoAcceptAfterStop
<1>1. ThreadBounded /\ Connections /\ [Next]_vars =>
          [(\E c \in Client : conn[c].at = "waiting" /\ conn'[c].at = "reading")
              => running \/ owner # "idle"]_vars
  <2> SUFFICES ASSUME ThreadBounded, Connections, Next,
                      NEW c \in Client, conn[c].at = "waiting", conn'[c].at = "reading"
               PROVE  running \/ owner # "idle"
    OBVIOUS
  <2>1. CASE UNCHANGED conn
    BY <2>1
  <2>2. CASE CloseListener
    BY <2>2 DEF CloseListener
  <2>3. ASSUME NEW d \in Client, Accept(d)
        PROVE  running \/ owner # "idle"
    BY <2>3 DEF Accept, ThreadBounded
  <2>4. ASSUME NEW d \in Client,
               (\E e \in Inbound : Connect(d, e)) \/ (\E m \in Outcome : Send(d, m)) \/ HandleClient(d)
        PROVE  FALSE
    BY <2>4 DEF Connect, Connection, Send, HandleClient, NoConnection, Connections
  <2> QED
    BY <2>1, <2>2, <2>3, <2>4 DEF Next, Start, BeginStop, StopStep, JoinAcceptor, UseManager,
       serverVars, AcceptStep, CheckRunning, AcceptFails, AcceptWaits
<1> QED BY <1>1, ThreadEnds, ConnectionsKept, PTL DEF Spec, NoAcceptAfterStop

-----------------------------------------------------------------------------
(* The handshake. *)

Header == [network : Nat, command : KnownCommands, size : Nat]
Item == Header \cup {"payload"}

HandshakeTypes ==
    /\ net \in [Side -> Nat]
    /\ at = [s \in Side |-> at[s]]
    /\ stream \in [Side -> Seq(Item)]
    /\ frame \in [Side -> Seq(Item)]
    /\ shut \subseteq Side

LEMMA Others == Other("client") = "server" /\ Other("server") = "client"
BY DEF Other, Side

LEMMA Appended ==
    ASSUME NEW S, NEW s \in Seq(S), NEW x \in S
    PROVE  Append(s, x) # <<>> /\ Head(Append(s, x)) = IF s = <<>> THEN x ELSE Head(s)
<1>1. Len(Append(s, x)) = Len(s) + 1 /\ Len(s) \in Nat /\ Len(<<>>) = 0
  OBVIOUS
<1>2. Append(s, x) # <<>>
  BY <1>1
<1>3. Head(Append(s, x)) = IF s = <<>> THEN x ELSE Head(s)
  OBVIOUS
<1> QED BY <1>2, <1>3

LEMMA Messages ==
    ASSUME NEW n \in Nat, NEW command \in KnownCommands, NEW size \in Nat
    PROVE  Message(n, command, size) \in Header
BY DEF Message, Header

(* A message that is sent at all is its header and payload behind it.      *)
LEMMA Serialized ==
    ASSUME NEW m \in Header
    PROVE  /\ Serialize(m) \in Seq(Item)
           /\ Serialize(m) = <<>> \/ (Head(Serialize(m)) = m /\ m.size <= MaxPayload)
<1> DEFINE payload == [i \in 1 .. m.size |-> "payload"]
<1>1. m \in Item /\ m.size \in Nat
  BY DEF Item, Header
<1>2. payload \in Seq(Item)
  BY <1>1 DEF Item
<1>3. <<m>> \o payload \in Seq(Item) /\ Head(<<m>> \o payload) = m
  <2> HIDE DEF payload
  <2> QED BY <1>1, <1>2
<1> QED BY <1>1, <1>3, HandshakeAssumption DEF Serialize

(* The server's two messages are their headers. *)
LEMMA Short ==
    ASSUME NEW n \in Nat, NEW command \in {"version", "verack"}
    PROVE  Serialize(Message(n, command, 0)) = <<Message(n, command, 0)>>
<1> DEFINE m == Message(n, command, 0)
<1>1. m.size = 0 /\ m.command = command
  BY DEF Message
<1> HIDE DEF m
<1>2. m.command \notin Long /\ ~(m.size > MaxPayload)
  BY <1>1, HandshakeAssumption DEF Long
<1>3. [i \in 1 .. m.size |-> "payload"] = <<>>
  BY <1>1
<1>4. <<m>> \o <<>> = <<m>>
  OBVIOUS
<1>5. Serialize(m) = <<m>>
  BY <1>2, <1>3, <1>4 DEF Serialize
<1> QED BY <1>5 DEF m

(* Whatever a side sends, only the other side's stream changes. *)
LEMMA Sending ==
    ASSUME HandshakeTypes, NEW s \in Side,
           NEW command \in KnownCommands, NEW size \in Nat
    PROVE  /\ Sent(s, command, size) \in [Side -> Seq(Item)]
           /\ Sent(s, command, size)[s] = stream[s]
           /\ Sent(s, command, size)[Other(s)]
                  = stream[Other(s)] \o Serialize(Message(net[s], command, size))
<1>1. Other(s) \in Side /\ Other(s) # s
  BY Others DEF Side
<1>2. Serialize(Message(net[s], command, size)) \in Seq(Item)
  BY Messages, Serialized DEF HandshakeTypes
<1>3. stream[Other(s)] \o Serialize(Message(net[s], command, size)) \in Seq(Item)
  BY <1>1, <1>2 DEF HandshakeTypes
<1> QED BY <1>1, <1>3 DEF Sent, HandshakeTypes

LEMMA HandshakeTypesKept == HandshakeTypes /\ [HandshakeNext]_handshakeVars => HandshakeTypes'
<1> SUFFICES ASSUME HandshakeTypes, [HandshakeNext]_handshakeVars
             PROVE  HandshakeTypes'
  OBVIOUS
<1> USE DEF HandshakeTypes
<1>1. ASSUME NEW command \in KnownCommands, NEW size \in Nat,
             stream' = Sent("client", command, size) \/ stream' = Sent("server", command, size)
      PROVE  stream' \in [Side -> Seq(Item)]
  BY <1>1, Sending DEF Side
<1>2. ASSUME NEW command \in {"ping", "pq_client_hello"}, NEW size \in {0, MaxPayload + 1},
             SendOther(command, size)
      PROVE  HandshakeTypes'
  <2>1. command \in KnownCommands /\ size \in Nat
    BY HandshakeAssumption DEF KnownCommands, Long
  <2> QED BY <1>1, <1>2, <2>1 DEF SendOther
<1>3. CASE SendVersion
  BY <1>1, <1>3, HandshakeAssumption DEF SendVersion, KnownCommands
<1>4. CASE ClientStep
  <2>1. /\ frame' = [frame EXCEPT !["client"] = <<>>]
        /\ UNCHANGED <<net, shut>>
    BY <1>4 DEF ClientStep
  <2>2. stream' = Sent("client", "verack", 0) \/ UNCHANGED stream
    BY <1>4 DEF ClientStep
  <2>3. at' = [s \in Side |-> at'[s]]
    BY <1>4 DEF ClientStep
  <2>4. <<>> \in Seq(Item)
    OBVIOUS
  <2>5. frame' \in [Side -> Seq(Item)]
    BY <2>1, <2>4
  <2> QED BY <1>1, <2>1, <2>2, <2>3, <2>5 DEF KnownCommands
<1>5. CASE ServerStep
  BY <1>1, <1>5 DEF ServerStep, ReadFirst, Answer, Acknowledge, Handle, CloseConnection,
     KnownCommands, Side
<1>6. ASSUME NEW s \in Side, Recv(s)
      PROVE  HandshakeTypes'
  <2>1. Head(stream[s]) \in Item /\ Tail(stream[s]) \in Seq(Item)
    BY <1>6 DEF Recv
  <2>2. Append(frame[s], Head(stream[s])) \in Seq(Item)
    BY <2>1
  <2> QED BY <1>6, <2>1, <2>2 DEF Recv
<1>7. ASSUME NEW s \in Side, Reset(s) \/ HangUp(s)
      PROVE  HandshakeTypes'
  <2>1. <<>> \in Seq(Item)
    OBVIOUS
  <2> QED BY <1>7, <2>1 DEF Reset, HangUp
<1>8. CASE UNCHANGED handshakeVars
  <2>1. UNCHANGED <<net, at, stream, frame, shut>>
    BY <1>8 DEF handshakeVars
  <2> QED BY <2>1
<1> QED BY <1>2, <1>3, <1>4, <1>5, <1>6, <1>7, <1>8 DEF HandshakeNext

LEMMA HandshakeTypesHold == HandshakeSpec => []HandshakeTypes
<1>1. HandshakeInit => HandshakeTypes
  <2> SUFFICES ASSUME HandshakeInit
               PROVE  HandshakeTypes
    OBVIOUS
  <2>1. net \in [Side -> Nat]
    BY HandshakeAssumption DEF HandshakeInit
  <2>2. <<>> \in Seq(Item)
    OBVIOUS
  <2>3. stream \in [Side -> Seq(Item)] /\ frame \in [Side -> Seq(Item)]
    BY <2>2 DEF HandshakeInit
  <2>4. at = [s \in Side |-> at[s]] /\ shut \subseteq Side
    BY DEF HandshakeInit
  <2> QED BY <2>1, <2>3, <2>4 DEF HandshakeTypes
<1> QED BY <1>1, HandshakeTypesKept, PTL DEF HandshakeSpec

-----------------------------------------------------------------------------
(* What the server makes of the first message. *)

(* The server's stream, from the first piece it takes, begins with a       *)
(* header of this client, as the code sends it.                            *)
Whole(m) == m \in Header /\ m.network = net["client"] /\ m.size <= MaxPayload
FirstIsWhole ==
    /\ frame["server"] # <<>> => Whole(Head(frame["server"]))
    /\ frame["server"] = <<>> /\ stream["server"] # <<>> => Whole(Head(stream["server"]))

VersionIsAccepted ==
    /\ at["server"] \in {"answer", "acknowledge"} => verdict = "version"
    /\ verdict = "version" => net["server"] \in {0, net["client"]}

ServerInv == FirstIsWhole /\ VersionIsAccepted /\ ReportIsDeserved

LEMMA SentToServer ==
    ASSUME HandshakeTypes, FirstIsWhole, net' = net, frame'["server"] = frame["server"],
           NEW command \in KnownCommands, NEW size \in Nat,
           stream' = Sent("client", command, size)
    PROVE  FirstIsWhole'
<1> DEFINE m == Message(net["client"], command, size)
           data == Serialize(m)
<1>1. m \in Header /\ m.network = net["client"]
  BY Messages DEF HandshakeTypes, Side, Message
<1>2. data \in Seq(Item) /\ (data = <<>> \/ (Head(data) = m /\ m.size <= MaxPayload))
  BY <1>1, Serialized
<1>3. stream'["server"] = stream["server"] \o data /\ stream["server"] \in Seq(Item)
  <2>1. "client" \in Side /\ "server" \in Side
    BY DEF Side
  <2>2. Sent("client", command, size)["server"] = stream["server"] \o data
    BY <2>1, Sending, Others
  <2> QED BY <2>1, <2>2 DEF HandshakeTypes
<1> HIDE DEF m, data
<1>4. CASE stream["server"] = <<>>
  <2>1. stream'["server"] = data
    BY <1>2, <1>3, <1>4
  <2> QED BY <1>1, <1>2, <2>1 DEF FirstIsWhole, Whole
<1>5. CASE stream["server"] # <<>>
  <2>1. Head(stream'["server"]) = Head(stream["server"])
    BY <1>2, <1>3, <1>5
  <2> QED BY <1>5, <2>1 DEF FirstIsWhole, Whole
<1> QED BY <1>4, <1>5

LEMMA FirstIsWholeKept ==
    HandshakeTypes /\ FirstIsWhole /\ [HandshakeNext]_handshakeVars => FirstIsWhole'
<1> SUFFICES ASSUME HandshakeTypes, FirstIsWhole, [HandshakeNext]_handshakeVars
             PROVE  FirstIsWhole'
  OBVIOUS
<1>1. CASE UNCHANGED <<net, frame, stream>>
  BY <1>1 DEF FirstIsWhole, Whole
<1>2. ASSUME NEW command \in {"ping", "pq_client_hello"}, NEW size \in {0, MaxPayload + 1},
             SendOther(command, size)
      PROVE  FirstIsWhole'
  <2>1. command \in KnownCommands /\ size \in Nat
    BY HandshakeAssumption DEF KnownCommands, Long
  <2> QED BY <1>2, <2>1, SentToServer DEF SendOther
<1>3. CASE SendVersion
  BY <1>3, SentToServer, HandshakeAssumption DEF SendVersion, KnownCommands
<1>4. CASE ClientStep
  <2>1. /\ frame' = [frame EXCEPT !["client"] = <<>>]
        /\ net' = net
    BY <1>4 DEF ClientStep
  <2>2. stream' = Sent("client", "verack", 0) \/ UNCHANGED stream
    BY <1>4 DEF ClientStep
  <2>3. frame'["server"] = frame["server"]
    BY <2>1 DEF Side, HandshakeTypes
  <2>4. CASE UNCHANGED stream
    BY <2>1, <2>3, <2>4 DEF FirstIsWhole, Whole
  <2>5. CASE stream' = Sent("client", "verack", 0)
    BY <2>1, <2>3, <2>5, SentToServer DEF KnownCommands
  <2> QED BY <2>2, <2>4, <2>5
<1>5. CASE Answer \/ Acknowledge
  <2>1. /\ stream' = Sent("server", "version", 0) \/ stream' = Sent("server", "verack", 0)
        /\ UNCHANGED <<net, frame>>
    BY <1>5 DEF Answer, Acknowledge
  <2>2. "server" \in Side /\ {"version", "verack"} \subseteq KnownCommands
    BY DEF Side, KnownCommands
  <2>3. stream'["server"] = stream["server"]
    <3>1. \A command \in KnownCommands, size \in Nat :
              Sent("server", command, size)["server"] = stream["server"]
      BY <2>2, Sending
    <3> QED BY <2>1, <2>2, <3>1
  <2> QED BY <2>1, <2>3 DEF FirstIsWhole, Whole
<1>6. ASSUME NEW s \in Side, Recv(s)
      PROVE  FirstIsWhole'
  <2>1. CASE s = "client"
    <3>1. /\ stream'["server"] = stream["server"] /\ frame'["server"] = frame["server"]
          /\ net' = net
      BY <1>6, <2>1 DEF Recv, Side, HandshakeTypes
    <3> QED BY <3>1 DEF FirstIsWhole, Whole
  <2>2. CASE s = "server"
    <3> DEFINE h == Head(stream["server"])
    <3>1. h \in Item /\ frame["server"] \in Seq(Item)
      BY <1>6, <2>2 DEF Recv, Side, HandshakeTypes
    <3>2. frame'["server"] = Append(frame["server"], h) /\ net' = net /\ stream["server"] # <<>>
      BY <1>6, <2>2 DEF Recv, Side, HandshakeTypes
    <3>3. FirstIsWhole => frame["server"] # <<>> \/ Whole(h)
      BY <3>2 DEF FirstIsWhole
    <3> HIDE DEF h
    <3>4. /\ frame'["server"] # <<>>
          /\ Head(frame'["server"]) = IF frame["server"] = <<>> THEN h ELSE Head(frame["server"])
      <4>1. /\ Append(frame["server"], h) # <<>>
            /\ Head(Append(frame["server"], h)) = IF frame["server"] = <<>> THEN h ELSE Head(frame["server"])
        BY <3>1, Appended
      <4> QED BY <3>2, <4>1
    <3> QED BY <3>2, <3>3, <3>4 DEF FirstIsWhole, Whole
  <2> QED BY <2>1, <2>2 DEF Side
<1>7. ASSUME NEW s \in Side, Reset(s)
      PROVE  FirstIsWhole'
  <2>1. stream'["server"] \in {<<>>, stream["server"]} /\ UNCHANGED <<net, frame>>
    BY <1>7, Others DEF Reset, Side, HandshakeTypes
  <2> QED BY <2>1 DEF FirstIsWhole, Whole
<1> QED
  BY <1>1, <1>2, <1>3, <1>4, <1>5, <1>6, <1>7 DEF HandshakeNext, ServerStep, ReadFirst, Handle,
     CloseConnection, HangUp, handshakeVars

(* A first message that is taken, or that is whole and is not.             *)
LEMMA FirstMessage ==
    ASSUME HandshakeTypes, FirstIsWhole, Returns("server")
    PROVE  /\ Received("server") # {} => net["server"] \in {0, net["client"]}
           /\ Received("server") = {} => net["server"] \notin {0, net["client"]} \/ "client" \in shut
<1> DEFINE m == Head(frame["server"])
<1>1. CASE Finished("server")
  <2>1. Whole(m)
    BY <1>1 DEF Finished, FirstIsWhole
  <2>2. m.command \in KnownCommands /\ m.size \in Nat
    BY <2>1 DEF Whole, Header
  <2>3. Received("server") = Deserialize(frame["server"], net["server"])
    BY <1>1 DEF Received
  <2>4. Len(frame["server"]) = 1 + m.size
    BY <1>1, <2>1, <2>2, HandshakeAssumption DEF Finished, Whole
  <2> HIDE DEF m
  <2>5. Received("server") = IF net["server"] = 0 \/ m.network = net["server"] THEN {m} ELSE {}
    BY <2>1, <2>2, <2>3, <2>4 DEF Deserialize, Whole, m
  <2> QED BY <2>1, <2>5 DEF Whole
<1>2. CASE ~Finished("server")
  BY <1>2, Others DEF Received, Returns
<1> QED BY <1>1, <1>2

LEMMA ServerInvKept ==
    HandshakeTypes /\ ServerInv /\ [HandshakeNext]_handshakeVars => ServerInv'
<1> SUFFICES ASSUME HandshakeTypes, ServerInv, [HandshakeNext]_handshakeVars
             PROVE  VersionIsAccepted' /\ ReportIsDeserved'
  BY FirstIsWholeKept DEF ServerInv
<1>1. at = [s \in Side |-> at[s]] /\ {"client", "server"} \subseteq Side
  BY DEF HandshakeTypes, Side
<1>2. CASE /\ net' = net /\ verdict' = verdict /\ shut \subseteq shut'
           /\ at'["server"] \in {at["server"], "close", "closed", "gone"}
  BY <1>2 DEF ServerInv, VersionIsAccepted, ReportIsDeserved
<1>3. CASE ReadFirst
  <2>1. net' = net /\ shut' = shut
    BY <1>3 DEF ReadFirst
  <2>2. /\ at'["server"] \in {"answer", "acknowledge"} => verdict' = "version"
        /\ verdict' = "version" => Received("server") # {}
        /\ verdict' = "invalid" => Received("server") = {}
    <3> DEFINE command == {m.command : m \in Received("server")}
    <3>1. command = {} <=> Received("server") = {}
      OBVIOUS
    <3>2. /\ at' = [at EXCEPT !["server"] = IF command = {"version"} THEN "answer"
                                          ELSE IF command = {} THEN "close" ELSE "handle"]
          /\ verdict' = IF command = {"version"} THEN "version"
                        ELSE IF command = {} THEN "invalid" ELSE "other"
      BY <1>3 DEF ReadFirst
    <3> HIDE DEF command
    <3> QED BY <1>1, <3>1, <3>2
  <2>3. Returns("server")
    BY <1>3 DEF ReadFirst
  <2> QED BY <2>1, <2>2, <2>3, FirstMessage DEF ServerInv, VersionIsAccepted, ReportIsDeserved
<1>4. CASE Answer
  BY <1>1, <1>4 DEF Answer, ServerInv, VersionIsAccepted, ReportIsDeserved
<1>5. CASE Handle
  BY <1>1, <1>5 DEF Handle, ServerInv, VersionIsAccepted, ReportIsDeserved
<1>6. CASE ClientStep
  <2>1. net' = net /\ shut' = shut /\ verdict' = verdict
    BY <1>6 DEF ClientStep
  <2>2. at'["server"] = at["server"]
    BY <1>1, <1>6 DEF ClientStep
  <2> QED BY <1>2, <2>1, <2>2
<1>7. ASSUME NEW s \in Side, Recv(s) \/ Reset(s) \/ HangUp(s)
      PROVE  VersionIsAccepted' /\ ReportIsDeserved'
  <2>1. net' = net /\ verdict' = verdict /\ shut \subseteq shut'
    BY <1>7 DEF Recv, Reset, HangUp
  <2>2. at'["server"] \in {at["server"], "gone"}
    BY <1>1, <1>7 DEF Recv, Reset, HangUp
  <2> QED BY <1>2, <2>1, <2>2
<1>8. CASE (\E command \in {"ping", "pq_client_hello"}, size \in {0, MaxPayload + 1} :
                SendOther(command, size)) \/ SendVersion
  <2>1. net' = net /\ verdict' = verdict /\ shut \subseteq shut'
    BY <1>8 DEF SendOther, SendVersion
  <2>2. at'["server"] = at["server"]
    BY <1>1, <1>8 DEF SendOther, SendVersion
  <2> QED BY <1>2, <2>1, <2>2
<1>9. CASE Acknowledge \/ CloseConnection
  <2>1. net' = net /\ verdict' = verdict /\ shut \subseteq shut'
    BY <1>9 DEF Acknowledge, CloseConnection
  <2>2. at'["server"] \in {"close", "closed"}
    BY <1>1, <1>9 DEF Acknowledge, CloseConnection
  <2> QED BY <1>2, <2>1, <2>2
<1>10. CASE UNCHANGED handshakeVars
  BY <1>2, <1>10 DEF handshakeVars
<1> QED
  BY <1>3, <1>4, <1>5, <1>6, <1>7, <1>8, <1>9, <1>10 DEF HandshakeNext, ServerStep

LEMMA ServerInvHolds == HandshakeSpec => []ServerInv
<1>1. HandshakeInit => ServerInv
  BY DEF HandshakeInit, ServerInv, FirstIsWhole, VersionIsAccepted, ReportIsDeserved, Side
<1> QED BY <1>1, HandshakeTypesHold, ServerInvKept, PTL DEF HandshakeSpec

(* For every set of networks and every payload size, the server reports    *)
(* nobody for the way a message came in pieces.                            *)
THEOREM ReportsAreDeserved == HandshakeSpec => []ReportIsDeserved
BY ServerInvHolds, PTL DEF ServerInv

-----------------------------------------------------------------------------
(* What the client reads. *)

Theirs == Message(net["server"], "version", 0)
Verack == Message(net["server"], "verack", 0)

Answering == verdict = "version" /\ at["server"] \in {"acknowledge", "close", "closed", "gone"}
Answered == verdict = "version" /\ at["server"] \in {"close", "closed", "gone"}

(* The server's version and verack, each once and in this order, whatever  *)
(* part of them is still on its way.                                       *)
ClientInv ==
    /\ stream["client"] \in {<<>>, <<Theirs>>, <<Verack>>, <<Theirs, Verack>>}
    /\ frame["client"] \in {<<>>, <<Theirs>>, <<Verack>>}
    /\ stream["client"] # <<>> \/ frame["client"] # <<>> => Answering
    /\ stream["client"] \in {<<Verack>>, <<Theirs, Verack>>} => Answered
    /\ frame["client"] = <<Verack>> => Answered /\ stream["client"] = <<>>
    /\ at["client"] = "done" =>
           /\ stream["client"] = <<>> /\ frame["client"] = <<>>
           /\ Answered
           /\ net["client"] \in {0, net["server"]}

(* Sequences of the two messages. *)
LEMMA Two ==
    ASSUME NEW S, NEW a \in S, NEW b \in S, a # b
    PROVE  /\ <<a>> # <<>> /\ <<b>> # <<>> /\ <<a, b>> # <<>>
           /\ <<a>> # <<b>> /\ <<a, b>> # <<a>> /\ <<a, b>> # <<b>>
           /\ Head(<<a>>) = a /\ Tail(<<a>>) = <<>>
           /\ Head(<<b>>) = b /\ Tail(<<b>>) = <<>>
           /\ Head(<<a, b>>) = a /\ Tail(<<a, b>>) = <<b>>
           /\ <<>> \o <<a>> = <<a>> /\ <<>> \o <<b>> = <<b>> /\ <<a>> \o <<b>> = <<a, b>>
           /\ Append(<<>>, a) = <<a>> /\ Append(<<>>, b) = <<b>>
           /\ Len(<<a>>) = 1 /\ Len(<<b>>) = 1
<1>1. <<a>> # <<>> /\ <<b>> # <<>> /\ <<a, b>> # <<>>
  OBVIOUS
<1>2. <<a>> # <<b>> /\ <<a, b>> # <<a>> /\ <<a, b>> # <<b>>
  OBVIOUS
<1>3. Head(<<a>>) = a /\ Tail(<<a>>) = <<>> /\ Head(<<b>>) = b /\ Tail(<<b>>) = <<>>
  OBVIOUS
<1>4. Head(<<a, b>>) = a /\ Tail(<<a, b>>) = <<b>>
  OBVIOUS
<1>5. <<>> \o <<a>> = <<a>>
  OBVIOUS
<1>6. <<>> \o <<b>> = <<b>>
  OBVIOUS
<1>7. <<a>> \o <<b>> = <<a, b>>
  <2> DEFINE s == <<a>> \o <<b>>
  <2>1. s \in Seq(S) /\ Len(s) = 2 /\ s[1] = a /\ s[2] = b
    OBVIOUS
  <2> HIDE DEF s
  <2>2. \A t \in Seq(S) : Len(t) = 2 /\ t[1] = a /\ t[2] = b => t = <<a, b>>
    OBVIOUS
  <2> QED BY <2>1, <2>2 DEF s
<1>8. Append(<<>>, a) = <<a>> /\ Append(<<>>, b) = <<b>>
  OBVIOUS
<1>9. Len(<<a>>) = 1 /\ Len(<<b>>) = 1
  OBVIOUS
<1> QED BY <1>1, <1>2, <1>3, <1>4, <1>5, <1>6, <1>7, <1>8, <1>9

LEMMA Verbs ==
    ASSUME HandshakeTypes
    PROVE  /\ Theirs \in Header /\ Verack \in Header /\ Theirs # Verack
           /\ Theirs.command = "version" /\ Theirs.size = 0 /\ Theirs.network = net["server"]
           /\ Verack.command = "verack" /\ Verack.size = 0 /\ Verack.network = net["server"]
<1>1. net["server"] \in Nat /\ {"version", "verack"} \subseteq KnownCommands
  BY DEF HandshakeTypes, Side, KnownCommands
<1>2. Theirs \in Header /\ Verack \in Header
  BY <1>1, Messages DEF Theirs, Verack
<1>3. /\ Theirs.command = "version" /\ Theirs.size = 0 /\ Theirs.network = net["server"]
      /\ Verack.command = "verack" /\ Verack.size = 0 /\ Verack.network = net["server"]
  BY DEF Theirs, Verack, Message
<1> QED BY <1>2, <1>3

LEMMA ClientInvKept ==
    HandshakeTypes /\ ServerInv /\ ClientInv /\ [HandshakeNext]_handshakeVars => ClientInv'
<1> SUFFICES ASSUME HandshakeTypes, ServerInv, ClientInv, [HandshakeNext]_handshakeVars
             PROVE  ClientInv'
  OBVIOUS
<1>1. /\ at = [s \in Side |-> at[s]] /\ stream = [s \in Side |-> stream[s]]
      /\ frame = [s \in Side |-> frame[s]]
      /\ "client" \in Side /\ "server" \in Side
  BY DEF HandshakeTypes, Side
<1>2. /\ Theirs \in Header /\ Verack \in Header /\ Theirs # Verack
      /\ Theirs.command = "version" /\ Theirs.size = 0 /\ Theirs.network = net["server"]
      /\ Verack.command = "verack" /\ Verack.size = 0 /\ Verack.network = net["server"]
  BY Verbs
<1>3. net' = net
  BY DEF HandshakeNext, SendOther, SendVersion, ClientStep, ServerStep, ReadFirst, Answer,
     Acknowledge, Handle, CloseConnection, Recv, Reset, HangUp, handshakeVars
<1>4. Theirs' = Theirs /\ Verack' = Verack
  BY <1>3 DEF Theirs, Verack
<1>5. CASE /\ stream'["client"] = stream["client"] /\ frame'["client"] = frame["client"]
           /\ at'["client"] = "done" => at["client"] = "done"
           /\ Answering => Answering'
           /\ Answered => Answered'
  BY <1>3, <1>4, <1>5 DEF ClientInv
<1>6. CASE Recv("client")
  <2>1. frame["client"] = <<>>
    <3>1. ASSUME NEW m \in Header, m.size = 0, frame["client"] = <<m>>
          PROVE  Finished("client")
      <4>1. Len(frame["client"]) = 1 /\ Head(frame["client"]) = m /\ frame["client"] # <<>>
        BY <3>1
      <4> QED BY <3>1, <4>1 DEF Finished
    <3> QED BY <1>2, <1>6, <3>1 DEF Recv, ClientInv
  <2>2. /\ frame'["client"] = Append(<<>>, Head(stream["client"]))
        /\ stream'["client"] = Tail(stream["client"])
        /\ stream["client"] # <<>>
        /\ UNCHANGED <<at, verdict>>
    BY <1>1, <1>6, <2>1 DEF Recv
  <2>3. at["client"] # "done"
    BY <1>6 DEF Recv, Receives
  <2>4. /\ stream["client"] = <<Theirs>> => frame'["client"] = <<Theirs>> /\ stream'["client"] = <<>>
        /\ stream["client"] = <<Verack>> => frame'["client"] = <<Verack>> /\ stream'["client"] = <<>>
        /\ stream["client"] = <<Theirs, Verack>> =>
               frame'["client"] = <<Theirs>> /\ stream'["client"] = <<Verack>>
    <3>1. /\ Head(<<Theirs>>) = Theirs /\ Tail(<<Theirs>>) = <<>>
          /\ Head(<<Verack>>) = Verack /\ Tail(<<Verack>>) = <<>>
          /\ Head(<<Theirs, Verack>>) = Theirs /\ Tail(<<Theirs, Verack>>) = <<Verack>>
          /\ Append(<<>>, Theirs) = <<Theirs>> /\ Append(<<>>, Verack) = <<Verack>>
      BY <1>2, Two
    <3>2. CASE stream["client"] = <<Theirs>>
      BY <1>2, <2>2, <3>1, <3>2, Two
    <3>3. CASE stream["client"] = <<Verack>>
      BY <1>2, <2>2, <3>1, <3>3, Two
    <3>4. CASE stream["client"] = <<Theirs, Verack>>
      BY <1>2, <2>2, <3>1, <3>4, Two
    <3> QED BY <3>2, <3>3, <3>4
  <2>5. /\ <<Theirs>> # <<Verack>> /\ <<Theirs>> # <<>> /\ <<Verack>> # <<>>
        /\ <<Theirs, Verack>> # <<>>
    BY <1>2, Two
  <2>6. (Answering' <=> Answering) /\ (Answered' <=> Answered)
    BY <2>2 DEF Answering, Answered
  <2> QED BY <1>4, <2>2, <2>3, <2>4, <2>5, <2>6 DEF ClientInv
<1>7. ASSUME NEW command \in KnownCommands, NEW size \in Nat
      PROVE  /\ Sent("client", command, size)["client"] = stream["client"]
             /\ Sent("server", command, size)["client"]
                    = stream["client"] \o Serialize(Message(net["server"], command, size))
  BY <1>1, Sending, Others
<1>8. {"version", "verack", "ping", "pq_client_hello"} \subseteq KnownCommands
      /\ {0, MaxPayload, MaxPayload + 1} \subseteq Nat
  BY HandshakeAssumption DEF KnownCommands, Long
<1>9. CASE (\E command \in {"ping", "pq_client_hello"}, size \in {0, MaxPayload + 1} :
                SendOther(command, size)) \/ SendVersion
  <2>1. /\ frame' = frame /\ verdict' = verdict
        /\ at'["server"] = at["server"] /\ at'["client"] \in {"connected", "version"}
    BY <1>1, <1>9 DEF SendOther, SendVersion
  <2>2. PICK command \in KnownCommands, size \in Nat : stream' = Sent("client", command, size)
    BY <1>8, <1>9 DEF SendOther, SendVersion
  <2>3. stream'["client"] = stream["client"]
    BY <1>7, <2>2
  <2> QED BY <1>5, <2>1, <2>3 DEF Answering, Answered
<1>10. CASE ClientStep
  <2>1. /\ frame'["client"] = <<>> /\ verdict' = verdict
        /\ at'["server"] = at["server"]
    BY <1>1, <1>10 DEF ClientStep
  <2>2. stream'["client"] = stream["client"]
    <3>1. stream' = stream \/ stream' = Sent("client", "verack", 0)
      BY <1>10 DEF ClientStep
    <3>2. Sent("client", "verack", 0)["client"] = stream["client"]
      BY <1>7, <1>8
    <3> QED BY <3>1, <3>2
  <2>3. (Answering' <=> Answering) /\ (Answered' <=> Answered)
    BY <2>1 DEF Answering, Answered
  <2>4. <<>> \notin {<<Theirs>>, <<Verack>>}
    BY <1>2, Two
  <2>5. CASE at'["client"] # "done"
    BY <1>4, <2>1, <2>2, <2>3, <2>4, <2>5 DEF ClientInv
  <2>6. CASE at'["client"] = "done"
    <3>1. /\ Returns("client") /\ at["client"] # "version"
          /\ \E m \in Received("client") : m.command = at["client"]
      BY <1>1, <1>10, <2>6 DEF ClientStep
    <3>2. PICK m \in Received("client") : m.command = at["client"]
      BY <3>1
    <3>3. m.command \in {"reading", "verack"}
      BY <3>1, <3>2 DEF Returns, Receives
    <3>4. /\ frame["client"] # <<>> /\ m = Head(frame["client"])
          /\ net["client"] = 0 \/ m.network = net["client"]
      BY DEF Received, Finished, Deserialize
    <3>5. Head(<<Theirs>>) = Theirs /\ Head(<<Verack>>) = Verack
      BY <1>2, Two
    <3>6. frame["client"] = <<Verack>> /\ m = Verack
      BY <1>2, <3>3, <3>4, <3>5 DEF ClientInv
    <3>7. Answered /\ stream["client"] = <<>> /\ net["client"] \in {0, net["server"]}
      BY <1>2, <3>4, <3>6 DEF ClientInv
    <3> QED BY <1>3, <1>4, <2>1, <2>2, <2>3, <2>4, <3>7 DEF ClientInv
  <2> QED BY <2>5, <2>6
<1>11. CASE ReadFirst \/ Handle
  <2>1. /\ at["server"] \in {"reading", "version", "verack", "handle"}
        /\ UNCHANGED <<stream, frame>> /\ at'["client"] = at["client"]
    BY <1>1, <1>11 DEF ReadFirst, Handle, Returns, Receives
  <2>2. ~Answering /\ ~Answered
    BY <2>1 DEF Answering, Answered
  <2>3. <<Theirs>> # <<>> /\ <<Verack>> # <<>> /\ <<Theirs, Verack>> # <<>>
    BY <1>2, Two
  <2> QED BY <1>4, <2>1, <2>2, <2>3 DEF ClientInv
<1>12. CASE Answer
  <2>1. /\ at["server"] = "answer" /\ verdict' = verdict /\ frame' = frame
        /\ at'["client"] = at["client"] /\ at'["server"] = "acknowledge"
        /\ stream' = Sent("server", "version", 0)
    BY <1>1, <1>12 DEF Answer
  <2>2. ~Answering /\ ~Answered /\ verdict = "version"
    BY <2>1 DEF Answering, Answered, ServerInv, VersionIsAccepted
  <2>3. stream["client"] = <<>> /\ frame["client"] = <<>> /\ at["client"] # "done"
    BY <2>2 DEF ClientInv
  <2>4. stream'["client"] = stream["client"] \o Serialize(Theirs)
    <3>1. Sent("server", "version", 0)["client"]
              = stream["client"] \o Serialize(Message(net["server"], "version", 0))
      BY <1>7, <1>8
    <3> QED BY <2>1, <3>1 DEF Theirs
  <2>5. Serialize(Theirs) = <<Theirs>>
    BY Short DEF Theirs, HandshakeTypes, Side
  <2>6. stream'["client"] = <<Theirs>>
    BY <1>2, <2>3, <2>4, <2>5, Two
  <2>7. <<Theirs>> # <<Verack>> /\ <<Theirs, Verack>> # <<Theirs>> /\ <<Verack>> # <<>>
    BY <1>2, Two
  <2>8. Answering'
    BY <2>1, <2>2 DEF Answering
  <2> QED BY <1>4, <2>1, <2>3, <2>6, <2>7, <2>8 DEF ClientInv
<1>13. CASE Acknowledge
  <2>1. /\ at["server"] = "acknowledge" /\ verdict' = verdict /\ frame' = frame
        /\ at'["client"] = at["client"] /\ at'["server"] = "close"
        /\ stream' = Sent("server", "verack", 0)
    BY <1>1, <1>13 DEF Acknowledge
  <2>2. ~Answered /\ verdict = "version"
    BY <2>1 DEF Answered, ServerInv, VersionIsAccepted
  <2>3. stream["client"] \in {<<>>, <<Theirs>>} /\ frame["client"] # <<Verack>> /\ at["client"] # "done"
    BY <2>2 DEF ClientInv
  <2>4. stream'["client"] = stream["client"] \o Serialize(Verack)
    <3>1. Sent("server", "verack", 0)["client"]
              = stream["client"] \o Serialize(Message(net["server"], "verack", 0))
      BY <1>7, <1>8
    <3> QED BY <2>1, <3>1 DEF Verack
  <2>5. Serialize(Verack) = <<Verack>>
    BY Short DEF Verack, HandshakeTypes, Side
  <2>6. stream'["client"] \in {<<Verack>>, <<Theirs, Verack>>}
    <3>1. <<>> \o <<Verack>> = <<Verack>> /\ <<Theirs>> \o <<Verack>> = <<Theirs, Verack>>
      BY <1>2, Two
    <3> QED BY <2>3, <2>4, <2>5, <3>1
  <2>7. Answering' /\ Answered'
    BY <2>1, <2>2 DEF Answering, Answered
  <2> QED BY <1>4, <2>1, <2>3, <2>6, <2>7 DEF ClientInv
<1>14. CASE CloseConnection
  <2>1. /\ at["server"] = "close" /\ verdict' = verdict /\ UNCHANGED <<frame, stream>>
        /\ at'["client"] = at["client"] /\ at'["server"] = "closed"
    BY <1>1, <1>14 DEF CloseConnection
  <2> QED BY <1>5, <2>1 DEF Answering, Answered
<1>15. CASE Recv("server")
  <2>1. /\ stream'["client"] = stream["client"] /\ frame'["client"] = frame["client"]
        /\ UNCHANGED <<at, verdict>>
    BY <1>1, <1>15 DEF Recv
  <2> QED BY <1>5, <2>1 DEF Answering, Answered
<1>16. ASSUME NEW s \in Side, Reset(s)
       PROVE  ClientInv'
  <2>1. stream'["client"] \in {<<>>, stream["client"]} /\ UNCHANGED <<frame, at, verdict>>
    BY <1>1, <1>16, Others DEF Reset, Side
  <2>2. (Answering' <=> Answering) /\ (Answered' <=> Answered)
    BY <2>1 DEF Answering, Answered
  <2>3. <<>> \notin {<<Verack>>, <<Theirs, Verack>>}
    BY <1>2, Two
  <2> QED BY <1>3, <1>4, <2>1, <2>2, <2>3 DEF ClientInv
<1>17. ASSUME NEW s \in Side, HangUp(s)
       PROVE  ClientInv'
  <2>1. /\ verdict' = verdict /\ UNCHANGED <<frame, stream>>
        /\ at'["client"] \in {at["client"], "gone"}
        /\ at'["server"] \in {at["server"], "gone"}
    BY <1>1, <1>17 DEF HangUp
  <2> QED BY <1>5, <2>1 DEF Answering, Answered
<1>18. CASE UNCHANGED handshakeVars
  BY <1>5, <1>18 DEF handshakeVars, Answering, Answered
<1> QED
  BY <1>6, <1>9, <1>10, <1>11, <1>12, <1>13, <1>14, <1>15, <1>16, <1>17, <1>18
  DEF HandshakeNext, ServerStep, Side

(* For every set of networks and every payload size, a handshake that      *)
(* succeeds is one both sides know of, with nothing left to read.          *)
THEOREM HandshakesAgree == HandshakeSpec => []HandshakeAgrees
<1>1. HandshakeInit => ClientInv
  BY DEF HandshakeInit, ClientInv, Side
<1>2. ServerInv /\ ClientInv => HandshakeAgrees
  BY DEF ServerInv, VersionIsAccepted, ClientInv, Answered, HandshakeAgrees
<1> QED
  BY <1>1, <1>2, HandshakeTypesHold, ServerInvHolds, ClientInvKept, PTL DEF HandshakeSpec

-----------------------------------------------------------------------------
(* The peers: what the operators on numbers and on the list return. *)

LEMMA SmallerOf ==
    ASSUME NEW a \in Int, NEW b \in Int
    PROVE  Min({a, b}) = IF a <= b THEN a ELSE b
<1>1. \E x \in {a, b} : \A y \in {a, b} : x <= y
  OBVIOUS
<1>2. Min({a, b}) \in {a, b} /\ \A y \in {a, b} : Min({a, b}) <= y
  BY <1>1 DEF Min
<1> QED
  BY <1>2

LEMMA LargerOf ==
    ASSUME NEW a \in Int, NEW b \in Int
    PROVE  Max({a, b}) = IF a <= b THEN b ELSE a
<1>1. \E x \in {a, b} : \A y \in {a, b} : x >= y
  OBVIOUS
<1>2. Max({a, b}) \in {a, b} /\ \A y \in {a, b} : Max({a, b}) >= y
  BY <1>1 DEF Max
<1> QED
  BY <1>2

(* Load reads some number of lines, none of which is malformed. *)
LEMMA ReadableLines ==
    ASSUME NEW lines \in Seq(Endpoint \cup {Malformed})
    PROVE  /\ Max(Readable(lines)) \in 0 .. Len(lines)
           /\ \A i \in 1 .. Max(Readable(lines)) : lines[i] \in Endpoint
<1> DEFINE R == Readable(lines)
           n == Len(lines)
           Gaps == {k \in Nat : n - k \in R}
<1>1. R \subseteq 0 .. n /\ 0 \in R /\ n \in Nat
  BY DEF Readable
<1> HIDE DEF R, n
<1>2. Gaps \subseteq Nat /\ n \in Gaps
  BY <1>1
<1> HIDE DEF Gaps
<1>3. PICK k \in Gaps : \A j \in Gaps : k <= j
  BY <1>2, LeastNat
<1> USE DEF Gaps
<1>4. n - k \in R /\ k \in Nat
  BY <1>3
<1>5. ASSUME NEW y \in R PROVE n - k >= y
  <2>1. y \in 0 .. n /\ n - y \in Nat /\ n - (n - y) = y
    BY <1>1
  <2>2. n - y \in Gaps
    BY <2>1
  <2>3. k <= n - y
    BY <1>3, <2>2
  <2> QED
    BY ONLY <1>1, <1>4, <2>1, <2>3
<1>6. Max(R) \in R
  BY <1>4, <1>5 DEF Max
<1>7. Max(R) \in 0 .. Len(lines)
  BY <1>1, <1>6 DEF n
<1>8. ASSUME NEW i \in 1 .. Max(R) PROVE lines[i] \in Endpoint
  <2>1. lines[i] # Malformed
    BY <1>6 DEF R, Readable
  <2>2. i \in 1 .. Len(lines)
    BY <1>7
  <2> QED
    BY <2>1, <2>2
<1> QED
  BY <1>7, <1>8 DEF R

(* The first place of a known endpoint. *)
LEMMA FirstPlace ==
    ASSUME peers \in Seq(Peer), NEW e, Known(e)
    PROVE  /\ Min(Places(e)) \in Places(e)
           /\ \A i \in Places(e) : Min(Places(e)) <= i
           /\ Min(Places(e)) \in DOMAIN peers
           /\ PeerOf(e) \in Peer /\ PeerOf(e).end = e
<1>1. Places(e) \subseteq DOMAIN peers /\ DOMAIN peers \subseteq Nat /\ Places(e) # {}
  BY DEF Places, Known
<1>2. Places(e) \subseteq Nat
  BY <1>1
<1>3. \E x \in Places(e) : \A y \in Places(e) : x <= y
  BY <1>1, <1>2, LeastNat
<1>4. /\ Min(Places(e)) \in Places(e)
      /\ \A i \in Places(e) : Min(Places(e)) <= i
  BY <1>3 DEF Min
<1>5. peers[Min(Places(e))].end = e
  BY <1>4 DEF Places
<1> QED
  BY <1>1, <1>4, <1>5 DEF PeerOf

(* The entry that the operations find under an endpoint; one that has none *)
(* is as good as new.                                                      *)
Standing(e) == IF Known(e) THEN PeerOf(e) ELSE NewPeer(e)

(* An operation on a known peer changes what is found under its endpoint,  *)
(* and nothing else.                                                       *)
LEMMA StandingReplaced ==
    ASSUME peers \in Seq(Peer), NEW e, Known(e), NEW p \in Peer, p.end = e,
           peers' = WithPeer(e, p)
    PROVE  /\ peers' \in Seq(Peer)
           /\ DOMAIN peers' = DOMAIN peers
           /\ peers'[Min(Places(e))] = p
           /\ \A i \in DOMAIN peers : i # Min(Places(e)) => peers'[i] = peers[i]
           /\ \A f : Places(f)' = Places(f)
           /\ Standing(e)' = p
           /\ \A f : f # e => Standing(f)' = Standing(f)
<1> DEFINE k == Min(Places(e))
<1>1. k \in DOMAIN peers /\ k \in Places(e) /\ peers[k].end = e
  BY FirstPlace DEF Places
<1> HIDE DEF k
<1>2. peers' = [peers EXCEPT ![k] = p]
  BY DEF WithPeer, k
<1>3. peers' \in Seq(Peer) /\ DOMAIN peers' = DOMAIN peers
  BY <1>1, <1>2
<1>4. peers'[k] = p /\ \A i \in DOMAIN peers : i # k => peers'[i] = peers[i]
  BY <1>1, <1>2
<1>5. ASSUME NEW f PROVE Places(f)' = Places(f)
  BY <1>1, <1>3, <1>4 DEF Places
<1>6. ASSUME NEW f PROVE Known(f)' = Known(f)
  BY <1>5 DEF Known
<1>7. Standing(e)' = p
  BY <1>4, <1>5, <1>6 DEF Standing, PeerOf, k
<1>8. ASSUME NEW f, f # e PROVE Standing(f)' = Standing(f)
  <2>1. CASE Known(f)
    <3>1. Min(Places(f)) \in DOMAIN peers /\ peers[Min(Places(f))].end = f
      BY <2>1, FirstPlace DEF Places
    <3>2. Min(Places(f)) # k
      BY <1>1, <1>8, <3>1
    <3>3. peers'[Min(Places(f))] = peers[Min(Places(f))]
      BY <1>4, <3>1, <3>2
    <3> QED
      BY <1>5, <1>6, <2>1, <3>3 DEF Standing, PeerOf
  <2>2. CASE ~Known(f)
    BY <1>6, <2>2 DEF Standing, NewPeer
  <2> QED
    BY <2>1, <2>2
<1> QED
  BY <1>3, <1>4, <1>5, <1>7, <1>8 DEF k

(* An endpoint that is seen for the first time has an entry then, and what *)
(* is found under it is what was said of it before.                        *)
LEMMA StandingAdded ==
    ASSUME peers \in Seq(Peer), NEW e \in Endpoint, ~Known(e), NewPeer(e) \in Peer,
           peers' = Append(peers, NewPeer(e))
    PROVE  /\ peers' \in Seq(Peer)
           /\ DOMAIN peers' = DOMAIN peers \cup {Len(peers) + 1}
           /\ peers'[Len(peers) + 1] = NewPeer(e)
           /\ \A i \in DOMAIN peers : peers'[i] = peers[i]
           /\ \A f : f # e => Places(f)' = Places(f)
           /\ Places(e)' = {Len(peers) + 1}
           /\ \A f : Standing(f)' = Standing(f)
<1> DEFINE k == Len(peers) + 1
<1>1. k \in Nat /\ DOMAIN peers = 1 .. k - 1 /\ k \notin DOMAIN peers
  OBVIOUS
<1>2. /\ peers' \in Seq(Peer) /\ DOMAIN peers' = DOMAIN peers \cup {k}
      /\ peers'[k] = NewPeer(e)
      /\ \A i \in DOMAIN peers : peers'[i] = peers[i]
  OBVIOUS
<1> HIDE DEF k
<1>3. NewPeer(e).end = e
  BY DEF NewPeer
<1>4. \A i \in DOMAIN peers : peers[i].end # e
  BY DEF Known, Places
<1>5. \A f : f # e => Places(f)' = Places(f)
  BY <1>1, <1>2, <1>3 DEF Places
<1>6. Places(e)' = {k}
  BY <1>1, <1>2, <1>3, <1>4 DEF Places
<1>7. Min(Places(e)') = k
  BY <1>1, <1>6 DEF Min
<1>8. Standing(e)' = Standing(e)
  BY <1>2, <1>6, <1>7 DEF Standing, Known, PeerOf, NewPeer
<1>9. ASSUME NEW f, f # e PROVE Standing(f)' = Standing(f)
  <2>1. Known(f)' = Known(f)
    BY <1>5, <1>9 DEF Known
  <2>2. CASE Known(f)
    <3>1. Min(Places(f)) \in DOMAIN peers
      BY <2>2, FirstPlace
    <3>2. peers'[Min(Places(f))] = peers[Min(Places(f))]
      BY <1>2, <3>1
    <3> QED
      BY <1>5, <1>9, <2>1, <2>2, <3>2 DEF Standing, PeerOf
  <2>3. CASE ~Known(f)
    BY <2>1, <2>3 DEF Standing, NewPeer
  <2> QED
    BY <2>2, <2>3
<1> QED
  BY <1>2, <1>5, <1>6, <1>8, <1>9 DEF k

-----------------------------------------------------------------------------
(* What is offered for a connection. *)

FreePeers == {p \in Peer : ~IsBanned(p) /\ \E i \in DOMAIN peers : p = peers[i]}

(* SelectConnectable takes peers of the list that are not banned. *)
LEMMA SelectedAreFree ==
    ASSUME peers \in Seq(Peer), NEW m \in Nat
    PROVE  SelectConnectable(m) \in Seq(FreePeers)
<1> DEFINE n == Len(peers)
           S == Seq(FreePeers)
           Took(s, i) == IF Len(s) >= m \/ IsBanned(peers[i]) THEN s ELSE Append(s, peers[i])
           F == [x \in S \X (1 .. n) |-> Took(x[1], x[2])]
           out == CHOOSE h : h = [i \in 0 .. n |-> IF i = 0 THEN <<>> ELSE Took(h[i - 1], i)]
<1>1. n \in Nat /\ \A i \in 1 .. n : i \in DOMAIN peers /\ peers[i] \in Peer
  OBVIOUS
<1>2. SelectConnectable(m) = out[n]
  BY DEF SelectConnectable
<1>3. \A s \in S : \A i \in 1 .. n : Took(s, i) \in S
  <2> TAKE s \in S
  <2> TAKE i \in 1 .. n
  <2>1. ~IsBanned(peers[i]) => peers[i] \in FreePeers
    BY <1>1 DEF FreePeers
  <2>2. \A p \in FreePeers : Append(s, p) \in S
    OBVIOUS
  <2> QED
    BY <2>1, <2>2
<1>4. IsStep(F, S, n)
  BY <1>3 DEF IsStep
<1>5. \A s \in S : \A i \in 1 .. n : F[<<s, i>>] = Took(s, i)
  OBVIOUS
<1>6. <<>> \in S
  OBVIOUS
<1> HIDE DEF S, n, F, Took
<1>7. PICK g : Iterates(g, F, S, n, <<>>)
  BY <1>1, <1>4, <1>6, RecursionExists
<1>8. g \in [0 .. n -> S] /\ g[0] = <<>> /\ \A i \in 1 .. n : g[i] = F[<<g[i - 1], i>>]
  BY <1>7 DEF Iterates
<1>9. ASSUME NEW i \in 0 .. n, i # 0 PROVE g[i] = Took(g[i - 1], i)
  <2>1. i \in 1 .. n /\ i - 1 \in 0 .. n
    BY <1>1, <1>9
  <2> QED
    BY <1>5, <1>8, <2>1
<1>10. g = [i \in 0 .. n |-> IF i = 0 THEN <<>> ELSE Took(g[i - 1], i)]
  BY <1>8, <1>9
<1>11. out = [i \in 0 .. n |-> IF i = 0 THEN <<>> ELSE Took(out[i - 1], i)]
  BY <1>10
<1> HIDE DEF out
<1> DEFINE Bad == {k \in 0 .. n : out[k] \notin S}
<1>12. ASSUME Bad # {} PROVE FALSE
  <2>1. Bad \subseteq Nat
    BY <1>1
  <2> HIDE DEF Bad
  <2>2. PICK k \in Bad : \A j \in Bad : k <= j
    BY <1>12, <2>1, LeastNat
  <2> USE DEF Bad
  <2>3. k \in 0 .. n /\ k # 0
    BY <1>6, <1>11, <2>2
  <2>4. k - 1 \in 0 .. n /\ ~(k <= k - 1) /\ k \in 1 .. n
    BY <1>1, <2>3
  <2>5. out[k - 1] \in S
    BY <2>2, <2>4
  <2>6. out[k] = Took(out[k - 1], k)
    BY <1>11, <2>3
  <2> QED
    BY <1>3, <2>2, <2>4, <2>5, <2>6
<1>13. out[n] \in S
  <2>1. n \in 0 .. n
    BY <1>1
  <2> QED
    BY <1>12, <2>1
<1> QED
  BY <1>2, <1>13 DEF S

-----------------------------------------------------------------------------
(* What reports make of an entry. *)

(* A reputation below the limit takes FewestReports reports. *)
LEMMA FewestBan ==
    /\ FewestReports \in Nat /\ FewestReports <= MaxInvalid
    /\ \A r \in Int : \A n \in Nat :
          r + Penalty * n >= 0 /\ r < BanBelow => FewestReports <= n
<1> DEFINE limit == -BanBelow
           q == limit \div Penalty
<1>1. Penalty \in Nat \ {0} /\ MaxInvalid \in Nat /\ limit \in Nat /\ BanBelow \in Int
  BY PeerAssumption
<1>2. q \in Nat /\ Penalty * q <= limit
  BY <1>1
<1>3. FewestReports = IF MaxInvalid <= q + 1 THEN MaxInvalid ELSE q + 1
  <2>1. MaxInvalid \in Int /\ q + 1 \in Int
    BY <1>1, <1>2
  <2> QED
    BY <2>1, SmallerOf DEF FewestReports
<1>4. ASSUME NEW r \in Int, NEW n \in Nat, r + Penalty * n >= 0, r < BanBelow
      PROVE  q + 1 <= n
  <2>1. Penalty * n > limit
    BY <1>1, <1>4
  <2> HIDE DEF q, limit
  <2>2. ASSUME n <= q PROVE Penalty * n <= Penalty * q
    BY <1>1, <1>2, <2>2
  <2>3. Penalty * n \in Int /\ Penalty * q \in Int
    BY <1>1, <1>2
  <2> QED
    BY <1>1, <1>2, <2>1, <2>2, <2>3
<1> HIDE DEF q
<1> QED
  BY <1>1, <1>2, <1>3, <1>4

InRange(p) == p.reputation \in MinReputation .. MaxReputation

(* How an entry stands after n reports, when it was promised to be kept    *)
(* out until t: it is banned until then, and if it is banned for longer it *)
(* has been reported often enough.                                         *)
Settled(p, n, t) ==
    /\ p.invalid = n
    /\ p.reputation + Penalty * n >= 0
    /\ p.banned => p.until <= t \/ FewestReports <= n
    /\ clock < t => p.banned /\ t <= p.until

LEMMA NewSettled ==
    ASSUME NEW e \in Endpoint, clock \in Nat
    PROVE  /\ NewPeer(e) \in Peer /\ NewPeer(e).end = e
           /\ InRange(NewPeer(e))
           /\ Settled(NewPeer(e), 0, 0)
<1>1. Penalty \in Nat /\ MinReputation \in Int /\ MaxReputation \in Nat /\ MinReputation < 0
  BY PeerAssumption
<1>2. Penalty * 0 = 0
  BY <1>1
<1> QED
  BY <1>1, <1>2 DEF NewPeer, Peer, InRange, Settled

LEMMA RewardSettled ==
    ASSUME NEW p \in Peer, InRange(p), NEW n \in Nat, NEW t \in Nat, Settled(p, n, t),
           NEW d \in Nat
    PROVE  /\ Rewarded(p, d) \in Peer /\ Rewarded(p, d).end = p.end
           /\ InRange(Rewarded(p, d))
           /\ Settled(Rewarded(p, d), n, t)
           /\ Rewarded(p, d).banned = p.banned
<1> DEFINE r == p.reputation
           s == Min({MaxReputation, r + d})
<1>1. /\ MinReputation \in Int /\ MaxReputation \in Int /\ Penalty * n \in Int
      /\ r \in MinReputation .. MaxReputation
  BY PeerAssumption DEF InRange
<1>2. s \in Int /\ r <= s /\ s <= MaxReputation
  BY <1>1, SmallerOf
<1>3. r + Penalty * n >= 0
  BY DEF Settled
<1> DEFINE new == Rewarded(p, d)
<1>4. new = [p EXCEPT !.reputation = s]
  BY DEF Rewarded
<1> HIDE DEF s, new
<1>5. /\ new \in Peer /\ new.reputation = s /\ new.end = p.end
      /\ new.invalid = p.invalid /\ new.banned = p.banned /\ new.until = p.until
  BY <1>2, <1>4 DEF Peer
<1>6. s \in MinReputation .. MaxReputation /\ s + Penalty * n >= 0
  BY <1>1, <1>2, <1>3
<1> QED
  BY <1>5, <1>6 DEF InRange, Settled, new

(* A ban that is asked for is a promise; lifting it leaves none. *)
LEMMA BanSettled ==
    ASSUME NEW p \in Peer, InRange(p), NEW n \in Nat, NEW t \in Nat, Settled(p, n, t),
           NEW s \in Nat, clock \in Nat
    PROVE  /\ BannedFor(p, s) \in Peer /\ BannedFor(p, s).end = p.end
           /\ InRange(BannedFor(p, s))
           /\ Settled(BannedFor(p, s), n, clock + s)
<1> DEFINE new == BannedFor(p, s)
<1>1. /\ new \in Peer /\ new.end = p.end /\ new.reputation = p.reputation
      /\ new.invalid = p.invalid /\ new.banned /\ new.until = clock + s
  <2>1. clock + s \in Nat
    OBVIOUS
  <2> DEFINE x == [p EXCEPT !.banned = TRUE]
  <2>2. /\ x \in Peer /\ x.end = p.end /\ x.reputation = p.reputation
        /\ x.invalid = p.invalid /\ x.banned
    BY DEF Peer
  <2>3. new = [x EXCEPT !.until = clock + s]
    BY DEF BannedFor
  <2> HIDE DEF new, x
  <2> QED
    BY <2>1, <2>2, <2>3 DEF Peer
<1> HIDE DEF new
<1> QED
  BY <1>1 DEF InRange, Settled, new

LEMMA UnbanSettled ==
    ASSUME NEW p \in Peer, InRange(p), NEW n \in Nat, NEW t \in Nat, Settled(p, n, t),
           clock \in Nat
    PROVE  LET new == [p EXCEPT !.banned = FALSE]
           IN  new \in Peer /\ new.end = p.end /\ InRange(new) /\ Settled(new, n, 0)
<1> DEFINE new == [p EXCEPT !.banned = FALSE]
<1>1. /\ new \in Peer /\ new.end = p.end /\ new.reputation = p.reputation
      /\ new.invalid = p.invalid /\ new.banned = FALSE
  BY DEF Peer
<1> HIDE DEF new
<1>2. InRange(new) /\ Settled(new, n, 0)
  BY <1>1 DEF InRange, Settled
<1> QED
  BY <1>1, <1>2 DEF new

(* What ReportInvalid does to an entry. *)
Reported(p) ==
    LET q == Penalized(p)
    IN  IF DeservesBan(q) THEN BannedFor(q, BanTime) ELSE q

LEMMA ReportSettled ==
    ASSUME NEW e, NEW p \in Peer, InRange(p), NEW n \in Nat, Of(promised, e) \in Nat,
           Settled(p, n, Of(promised, e)), clock \in Nat
    PROVE  /\ Reported(p) \in Peer /\ Reported(p).end = p.end
           /\ InRange(Reported(p))
           /\ PromisedAfter(n + 1, e) \in Nat
           /\ Settled(Reported(p), n + 1, PromisedAfter(n + 1, e))
<1> DEFINE r == p.reputation
           s == Max({MinReputation, r - Penalty})
           q == Penalized(p)
           t == Of(promised, e)
           u == PromisedAfter(n + 1, e)
           new == Reported(p)
<1>1. /\ MinReputation \in Int /\ MaxReputation \in Int /\ Penalty \in Nat
      /\ MaxInvalid \in Nat /\ BanTime \in Nat /\ BanBelow \in Int
      /\ r \in MinReputation .. MaxReputation /\ n \in Nat
      /\ Penalty * n \in Int /\ Penalty * (n + 1) = Penalty * n + Penalty
  <2>1. /\ MinReputation \in Int /\ MaxReputation \in Int /\ Penalty \in Nat
        /\ MaxInvalid \in Nat /\ BanTime \in Nat /\ BanBelow \in Int
        /\ r \in MinReputation .. MaxReputation
    BY PeerAssumption DEF InRange
  <2>2. Penalty * n \in Int /\ Penalty * (n + 1) = Penalty * n + Penalty
    BY <2>1
  <2> QED
    BY <2>1, <2>2
<1>2. p.invalid = n /\ r + Penalty * n >= 0
  BY DEF Settled
<1>3. s \in MinReputation .. MaxReputation /\ s >= r - Penalty
  BY <1>1, LargerOf
<1> DEFINE x == [p EXCEPT !.reputation = s]
<1>4. q = [x EXCEPT !.invalid = n + 1]
  BY <1>2 DEF Penalized, Peer
<1> HIDE DEF q, x, s
<1>5. /\ q \in Peer /\ q.end = p.end /\ q.reputation = s /\ q.invalid = n + 1
      /\ q.banned = p.banned /\ q.until = p.until
  <2>1. s \in Int /\ n + 1 \in Nat
    BY <1>1, <1>3
  <2>2. /\ x \in Peer /\ x.end = p.end /\ x.reputation = s
        /\ x.banned = p.banned /\ x.until = p.until
    BY <2>1 DEF Peer, x
  <2> QED
    BY <1>4, <2>1, <2>2 DEF Peer
<1>6. s + Penalty * (n + 1) >= 0
  BY <1>1, <1>2, <1>3
<1>7. s < BanBelow => FewestReports <= n + 1
  <2>1. s \in Int /\ n + 1 \in Nat
    BY <1>1, <1>3
  <2> QED
    BY <1>6, <2>1, FewestBan
<1>8. /\ u \in Nat /\ FewestReports \in Nat /\ t \in Nat
      /\ n + 1 >= MaxInvalid => FewestReports <= n + 1
      /\ n + 1 < FewestReports => u = t
      /\ n + 1 >= MaxInvalid => u = clock + BanTime
      /\ n + 1 < MaxInvalid => u <= t
      /\ n + 1 >= FewestReports => u <= clock + BanTime
  <2>1. Min({t, clock + BanTime}) = IF t <= clock + BanTime THEN t ELSE clock + BanTime
    <3>1. t \in Int /\ clock + BanTime \in Int
      BY <1>1
    <3> QED
      BY <3>1, SmallerOf
  <2>2. FewestReports \in Nat /\ FewestReports <= MaxInvalid
    BY FewestBan
  <2>3. u = IF n + 1 >= MaxInvalid THEN clock + BanTime
            ELSE IF n + 1 >= FewestReports THEN Min({t, clock + BanTime})
            ELSE t
    BY DEF PromisedAfter
  <2> HIDE DEF u, t
  <2>4. t \in Nat
    BY DEF t
  <2> QED
    BY <1>1, <2>1, <2>2, <2>3, <2>4
<1>9. CASE DeservesBan(q)
  <2> DEFINE y == [q EXCEPT !.banned = TRUE]
  <2>1. new = [y EXCEPT !.until = clock + BanTime]
    BY <1>9 DEF Reported, BannedFor, q
  <2> HIDE DEF new, y
  <2>2. /\ new \in Peer /\ new.end = p.end /\ new.reputation = s /\ new.invalid = n + 1
        /\ new.banned /\ new.until = clock + BanTime
    <3>1. clock + BanTime \in Nat
      BY <1>1
    <3>2. /\ y \in Peer /\ y.end = q.end /\ y.reputation = s
          /\ y.invalid = n + 1 /\ y.banned
      BY <1>5 DEF Peer, y
    <3> QED
      BY <1>5, <2>1, <3>1, <3>2 DEF Peer
  <2>3. FewestReports <= n + 1
    BY <1>1, <1>5, <1>7, <1>8, <1>9 DEF DeservesBan
  <2>4. u <= clock + BanTime
    BY <1>1, <1>8, <2>3
  <2> HIDE DEF u
  <2>5. Settled(new, n + 1, u)
    BY <1>6, <2>2, <2>3, <2>4 DEF Settled
  <2> QED
    BY <1>3, <1>8, <2>2, <2>5 DEF InRange, new, u
<1>10. CASE ~DeservesBan(q)
  <2>1. new = q
    BY <1>10 DEF Reported, q
  <2> HIDE DEF new
  <2>2. n + 1 < MaxInvalid
    BY <1>1, <1>5, <1>10 DEF DeservesBan
  <2>3. u <= t
    BY <1>8, <2>2
  <2>4. /\ p.banned => p.until <= t \/ FewestReports <= n
        /\ clock < t => p.banned /\ t <= p.until
        /\ p.until \in Nat
    BY DEF Settled, Peer
  <2> HIDE DEF u, t
  <2>5. n + 1 >= FewestReports \/ u = t
    BY <1>1, <1>8
  <2>6. p.banned => p.until <= u \/ FewestReports <= n + 1
    BY <1>1, <1>8, <2>4, <2>5
  <2>7. clock < u => p.banned /\ u <= p.until
    BY <1>8, <2>3, <2>4
  <2>8. Settled(new, n + 1, u)
    BY <1>5, <1>6, <2>1, <2>6, <2>7 DEF Settled
  <2> QED
    BY <1>3, <1>5, <1>8, <2>1, <2>8 DEF InRange, new, u
<1> QED
  BY <1>9, <1>10

-----------------------------------------------------------------------------
(* The invariant of the manager: what is found under each endpoint stands  *)
(* as its reports and promises say, and no other entry is banned.          *)
ManagerInv ==
    /\ ManagerTypeOK
    /\ \A e \in DOMAIN strikes : strikes[e] \in Nat
    /\ \A e \in DOMAIN promised : promised[e] \in Nat
    /\ \A e \in Endpoint : Settled(Standing(e), Of(strikes, e), Of(promised, e))
    /\ \A i, j \in DOMAIN peers : peers[i].banned /\ peers[j].end = peers[i].end => i <= j

(* The history after it says of e at most something new. *)
NewsOf(e, history, after) ==
    /\ DOMAIN after \subseteq Endpoint
    /\ \A f \in DOMAIN after : after[f] \in Nat
    /\ \A f \in Endpoint : f # e => Of(after, f) = Of(history, f)

LEMMA NotedIsNews ==
    ASSUME NEW e \in Endpoint, NEW history, DOMAIN history \subseteq Endpoint,
           \A f \in DOMAIN history : history[f] \in Nat, NEW n \in Nat
    PROVE  /\ Of(Noted(history, e, n), e) = n
           /\ NewsOf(e, history, Noted(history, e, n))
           /\ NewsOf(e, history, history)
BY DEF Of, Noted, NewsOf

LEMMA HistoryType ==
    ASSUME ManagerInv, NEW e
    PROVE  Of(strikes, e) \in Nat /\ Of(promised, e) \in Nat
BY DEF ManagerInv, Of

LEMMA ManagerTypes ==
    ASSUME ManagerInv
    PROVE  /\ peers \in Seq(Peer) /\ \A i \in DOMAIN peers : InRange(peers[i])
           /\ file \in Seq(Endpoint \cup {Malformed})
           /\ clock \in Nat /\ clock \in 0 .. MaxTime
           /\ loads \in 0 .. MaxLoads
           /\ DOMAIN strikes \subseteq Endpoint /\ DOMAIN promised \subseteq Endpoint
<1>1. MaxTime \in Nat
  BY PeerAssumption
<1> QED
  BY <1>1 DEF ManagerInv, ManagerTypeOK, InRange

(* An operation on a known peer that leaves its entry settled.             *)
LEMMA InvReplaced ==
    ASSUME ManagerInv, NEW e \in Endpoint, Known(e), NEW p \in Peer, p.end = e, InRange(p),
           peers' = WithPeer(e, p), UNCHANGED <<file, clock, loads>>,
           NewsOf(e, strikes, strikes'), NewsOf(e, promised, promised'),
           Settled(p, Of(strikes', e), Of(promised', e))
    PROVE  ManagerInv'
<1>1. /\ peers \in Seq(Peer) /\ \A i \in DOMAIN peers : InRange(peers[i])
      /\ file \in Seq(Endpoint \cup {Malformed})
      /\ clock \in 0 .. MaxTime /\ loads \in 0 .. MaxLoads
  BY ManagerTypes
<1>2. /\ peers' \in Seq(Peer)
      /\ DOMAIN peers' = DOMAIN peers
      /\ peers'[Min(Places(e))] = p
      /\ \A i \in DOMAIN peers : i # Min(Places(e)) => peers'[i] = peers[i]
      /\ \A f : Places(f)' = Places(f)
      /\ Standing(e)' = p
      /\ \A f : f # e => Standing(f)' = Standing(f)
  BY <1>1, StandingReplaced
<1>3. ManagerTypeOK'
  <2>1. \A i \in DOMAIN peers' : peers'[i].reputation \in MinReputation .. MaxReputation
    BY <1>1, <1>2 DEF InRange
  <2> QED
    BY <1>1, <1>2, <2>1 DEF ManagerTypeOK, NewsOf
<1>4. ASSUME NEW f \in Endpoint
      PROVE  Settled(Standing(f), Of(strikes, f), Of(promised, f))'
  <2>1. CASE f = e
    BY <1>2, <2>1 DEF Settled
  <2>2. CASE f # e
    <3>1. Settled(Standing(f), Of(strikes, f), Of(promised, f))
      BY DEF ManagerInv
    <3>2. Of(strikes, f)' = Of(strikes, f) /\ Of(promised, f)' = Of(promised, f)
      BY <2>2 DEF NewsOf, Of
    <3>3. Standing(f)' = Standing(f)
      BY <1>2, <2>2
    <3> QED
      BY <3>1, <3>2, <3>3 DEF Settled
  <2> QED
    BY <2>1, <2>2
<1>5. ASSUME NEW i \in DOMAIN peers', NEW j \in DOMAIN peers',
             peers'[i].banned, peers'[j].end = peers'[i].end
      PROVE  i <= j
  <2>1. /\ Min(Places(e)) \in DOMAIN peers /\ peers[Min(Places(e))].end = e
        /\ \A k \in Places(e) : Min(Places(e)) <= k
    BY <1>1, FirstPlace DEF Places
  <2>2. i \in DOMAIN peers /\ j \in DOMAIN peers
        /\ \A k \in DOMAIN peers : peers'[k].end = peers[k].end
    BY <1>2, <2>1
  <2>3. CASE i = Min(Places(e))
    <3>1. j \in Places(e)
      BY <1>5, <2>1, <2>2, <2>3 DEF Places
    <3> QED
      BY <2>1, <2>3, <3>1
  <2>4. CASE i # Min(Places(e))
    <3>1. peers[i].banned /\ peers[j].end = peers[i].end
      BY <1>2, <1>5, <2>2, <2>4
    <3> QED
      BY <2>2, <3>1 DEF ManagerInv
  <2> QED
    BY <2>3, <2>4
<1>6. \A i, j \in DOMAIN peers' :
          peers'[i].banned /\ peers'[j].end = peers'[i].end => i <= j
  BY <1>5
<1> QED
  BY <1>3, <1>4, <1>6 DEF ManagerInv, NewsOf

(* What is found under an endpoint is an entry in range. *)
LEMMA StandingType ==
    ASSUME ManagerInv, NEW e \in Endpoint
    PROVE  /\ Standing(e) \in Peer /\ Standing(e).end = e /\ InRange(Standing(e))
           /\ Settled(Standing(e), Of(strikes, e), Of(promised, e))
           /\ Known(e) => Standing(e) = PeerOf(e)
<1>1. clock \in Nat /\ peers \in Seq(Peer) /\ \A i \in DOMAIN peers : InRange(peers[i])
  BY ManagerTypes
<1>2. Settled(Standing(e), Of(strikes, e), Of(promised, e))
  BY DEF ManagerInv
<1>3. CASE Known(e)
  <2>1. PeerOf(e) \in Peer /\ PeerOf(e).end = e /\ Min(Places(e)) \in DOMAIN peers
    BY <1>1, <1>3, FirstPlace
  <2>2. InRange(PeerOf(e))
    BY <1>1, <2>1 DEF PeerOf
  <2> QED
    BY <1>2, <1>3, <2>1, <2>2 DEF Standing
<1>4. CASE ~Known(e)
  BY <1>1, <1>2, <1>4, NewSettled DEF Standing
<1> QED
  BY <1>3, <1>4

(* AddOrUpdate and ReportGood. *)
LEMMA InvRewarded ==
    ASSUME ManagerInv, NEW e \in Endpoint, Known(e), NEW d \in Nat,
           peers' = WithPeer(e, Rewarded(PeerOf(e), d)),
           UNCHANGED <<file, clock, loads, strikes, promised>>
    PROVE  ManagerInv'
<1> DEFINE p == Standing(e)
           n == Of(strikes, e)
           t == Of(promised, e)
           new == Rewarded(p, d)
<1>1. /\ p \in Peer /\ p.end = e /\ InRange(p) /\ Settled(p, n, t) /\ p = PeerOf(e)
      /\ n \in Nat /\ t \in Nat
  BY StandingType, HistoryType
<1>2. new \in Peer /\ new.end = p.end /\ InRange(new) /\ Settled(new, n, t)
  <2> HIDE DEF p, n, t
  <2> QED
    BY <1>1, RewardSettled
<1>3. NewsOf(e, strikes, strikes') /\ NewsOf(e, promised, promised')
  BY ManagerTypes DEF NewsOf, ManagerInv, Of
<1>4. Of(strikes', e) = n /\ Of(promised', e) = t
  BY DEF Of
<1>5. peers' = WithPeer(e, new)
  BY <1>1
<1> HIDE DEF p, n, t, new
<1>6. Settled(new, Of(strikes', e), Of(promised', e))
  BY <1>2, <1>4
<1>7. new.end = e
  BY <1>1, <1>2
<1> QED
  BY <1>2, <1>3, <1>5, <1>6, <1>7, InvReplaced

(* A peer that is seen for the first time. *)
LEMMA InvAdded ==
    ASSUME ManagerInv, NEW e \in Endpoint, ~Known(e),
           peers' = Append(peers, NewPeer(e)),
           UNCHANGED <<file, clock, loads, strikes, promised>>
    PROVE  ManagerInv'
<1>1. /\ peers \in Seq(Peer) /\ \A i \in DOMAIN peers : InRange(peers[i])
      /\ file \in Seq(Endpoint \cup {Malformed})
      /\ clock \in Nat /\ clock \in 0 .. MaxTime /\ loads \in 0 .. MaxLoads
      /\ DOMAIN strikes \subseteq Endpoint /\ DOMAIN promised \subseteq Endpoint
  BY ManagerTypes
<1>2. /\ NewPeer(e) \in Peer /\ NewPeer(e).end = e /\ InRange(NewPeer(e))
      /\ ~NewPeer(e).banned
  BY <1>1, NewSettled DEF NewPeer
<1>3. /\ peers' \in Seq(Peer)
      /\ DOMAIN peers' = DOMAIN peers \cup {Len(peers) + 1}
      /\ peers'[Len(peers) + 1] = NewPeer(e)
      /\ \A i \in DOMAIN peers : peers'[i] = peers[i]
      /\ \A f : Standing(f)' = Standing(f)
  BY <1>1, <1>2, StandingAdded
<1>4. \A i \in DOMAIN peers' : InRange(peers'[i])
  BY <1>1, <1>2, <1>3
<1>5. ManagerTypeOK'
  BY <1>1, <1>3, <1>4 DEF ManagerTypeOK, InRange
<1>6. ASSUME NEW f \in Endpoint
      PROVE  Settled(Standing(f), Of(strikes, f), Of(promised, f))'
  <2>1. Settled(Standing(f), Of(strikes, f), Of(promised, f))
    BY DEF ManagerInv
  <2>2. Of(strikes, f)' = Of(strikes, f) /\ Of(promised, f)' = Of(promised, f)
    BY DEF Of
  <2> QED
    BY <1>3, <2>1, <2>2 DEF Settled
<1>7. ASSUME NEW i \in DOMAIN peers', NEW j \in DOMAIN peers',
             peers'[i].banned, peers'[j].end = peers'[i].end
      PROVE  i <= j
  <2>1. i \in DOMAIN peers
    BY <1>2, <1>3, <1>7
  <2>2. CASE j \in DOMAIN peers
    BY <1>3, <1>7, <2>1, <2>2 DEF ManagerInv
  <2>3. CASE j = Len(peers) + 1
    BY <1>1, <2>1, <2>3
  <2> QED
    BY <1>3, <2>2, <2>3
<1>8. \A i, j \in DOMAIN peers' :
          peers'[i].banned /\ peers'[j].end = peers'[i].end => i <= j
  BY <1>7
<1> QED
  BY <1>5, <1>6, <1>8 DEF ManagerInv

LEMMA InvAddOrUpdate ==
    ASSUME ManagerInv, NEW e \in Endpoint, AddOrUpdate(e)
    PROVE  ManagerInv'
<1>1. CASE Known(e)
  <2>1. SeenReward \in Nat
    BY PeerAssumption
  <2> QED
    BY <1>1, <2>1, InvRewarded DEF AddOrUpdate, WithAdded
<1>2. CASE ~Known(e)
  BY <1>2, InvAdded DEF AddOrUpdate, WithAdded
<1> QED
  BY <1>1, <1>2

(* Nothing but the file and the clock changes. *)
LEMMA InvSame ==
    ASSUME ManagerInv, UNCHANGED <<peers, strikes, promised>>,
           file' \in Seq(Endpoint \cup {Malformed}),
           clock' \in 0 .. MaxTime, clock <= clock', loads' \in 0 .. MaxLoads
    PROVE  ManagerInv'
<1>1. clock \in Nat /\ clock' \in Nat
  BY ManagerTypes, PeerAssumption
<1>2. ASSUME NEW e \in Endpoint
      PROVE  Settled(Standing(e), Of(strikes, e), Of(promised, e))'
  <2>1. Settled(Standing(e), Of(strikes, e), Of(promised, e))
    BY DEF ManagerInv
  <2>2. /\ Standing(e)' = Standing(e)
        /\ Of(strikes, e)' = Of(strikes, e) /\ Of(promised, e)' = Of(promised, e)
    BY DEF Standing, Known, PeerOf, Places, NewPeer, Of
  <2>3. Of(promised, e) \in Nat
    BY HistoryType
  <2> QED
    BY <1>1, <2>1, <2>2, <2>3 DEF Settled
<1> QED
  BY <1>2 DEF ManagerInv, ManagerTypeOK

(* Save writes endpoints. *)
LEMMA InvSave ==
    ASSUME ManagerInv, Save
    PROVE  ManagerInv'
<1>1. peers \in Seq(Peer) /\ clock \in Nat /\ clock \in 0 .. MaxTime /\ loads \in 0 .. MaxLoads
  BY ManagerTypes
<1>2. PICK free \in Seq(FreePeers) : file' = [i \in DOMAIN free |-> Reparsed(free[i].end)]
  <2>1. Len(peers) \in Nat
    BY <1>1
  <2>2. SelectConnectable(Len(peers)) \in Seq(FreePeers)
    BY <1>1, <2>1, SelectedAreFree
  <2> QED
    BY <2>2 DEF Save
<1>3. ASSUME NEW e \in Endpoint PROVE Reparsed(e) \in Endpoint
  <2>1. e.host \in Host /\ e.tail \in Seq(Port) /\ e.port \in Port /\ DefaultPort \in Port
    BY PeerAssumption DEF Endpoint
  <2>2. Append(e.tail, e.port) \in Seq(Port)
    BY <2>1
  <2> DEFINE x == [e EXCEPT !.tail = Append(e.tail, e.port)]
  <2>3. x \in Endpoint
    BY <2>2 DEF Endpoint
  <2>4. [x EXCEPT !.port = DefaultPort] \in Endpoint
    <3> HIDE DEF x
    <3> QED
      BY <2>1, <2>3 DEF Endpoint
  <2>5. Reparsed(e) = IF e.host \in V6Host THEN [x EXCEPT !.port = DefaultPort] ELSE e
    BY DEF Reparsed
  <2> QED
    BY <2>4, <2>5
<1>4. \A i \in DOMAIN free : free[i].end \in Endpoint
  BY <1>2 DEF FreePeers, Peer
<1>5. file' \in Seq(Endpoint)
  <2>1. DOMAIN free = 1 .. Len(free) /\ Len(free) \in Nat
    BY <1>2
  <2>2. \A i \in 1 .. Len(free) : Reparsed(free[i].end) \in Endpoint
    BY <1>3, <1>4, <2>1
  <2> QED
    BY <1>2, <2>1, <2>2
<1>6. file' \in Seq(Endpoint \cup {Malformed})
  BY <1>5
<1>7. clock <= clock' /\ UNCHANGED <<peers, clock, loads, strikes, promised>>
  BY <1>1 DEF Save
<1> QED
  BY <1>1, <1>6, <1>7, InvSame

LEMMA InvTick ==
    ASSUME ManagerInv, Tick
    PROVE  ManagerInv'
<1>1. /\ clock \in Nat /\ clock \in 0 .. MaxTime /\ loads \in 0 .. MaxLoads
      /\ file \in Seq(Endpoint \cup {Malformed}) /\ MaxTime \in Nat
  BY ManagerTypes, PeerAssumption
<1>2. clock' \in 0 .. MaxTime /\ clock <= clock'
  BY <1>1 DEF Tick
<1> QED
  BY <1>1, <1>2, InvSame DEF Tick

(* Nothing is remembered of any peer, as after Load. *)
Fresh ==
    /\ peers \in Seq(Peer) /\ \A i \in DOMAIN peers : \E e \in Endpoint : peers[i] = NewPeer(e)
    /\ clock \in 0 .. MaxTime /\ loads \in 0 .. MaxLoads
    /\ file \in Seq(Endpoint \cup {Malformed})
    /\ strikes = <<>> /\ promised = <<>>

LEMMA InvFresh == Fresh => ManagerInv
<1> SUFFICES ASSUME Fresh PROVE ManagerInv
  OBVIOUS
<1> USE DEF Fresh
<1>1. clock \in Nat
  BY PeerAssumption
<1>2. \A i \in DOMAIN peers : InRange(peers[i]) /\ ~peers[i].banned
  BY <1>1, NewSettled DEF NewPeer
<1>3. DOMAIN strikes = {} /\ DOMAIN promised = {}
  OBVIOUS
<1>4. ManagerTypeOK
  BY <1>2, <1>3 DEF ManagerTypeOK, InRange
<1>5. ASSUME NEW e \in Endpoint
      PROVE  Settled(Standing(e), Of(strikes, e), Of(promised, e))
  <2>1. Of(strikes, e) = 0 /\ Of(promised, e) = 0
    BY <1>3 DEF Of
  <2>2. Standing(e) = NewPeer(e)
    <3>1. CASE Known(e)
      <4>1. PeerOf(e).end = e /\ Min(Places(e)) \in DOMAIN peers
        BY <3>1, FirstPlace
      <4>2. PICK f \in Endpoint : PeerOf(e) = NewPeer(f)
        BY <4>1 DEF PeerOf
      <4>3. NewPeer(f).end = f
        BY DEF NewPeer
      <4> QED
        BY <3>1, <4>1, <4>2, <4>3 DEF Standing
    <3> QED
      BY <3>1 DEF Standing
  <2> QED
    BY <1>1, <2>1, <2>2, NewSettled
<1> QED
  BY <1>2, <1>3, <1>4, <1>5 DEF ManagerInv

LEMMA InvLoad ==
    ASSUME ManagerInv, Load
    PROVE  ManagerInv'
<1> DEFINE n == Max(Readable(file))
<1>1. /\ file \in Seq(Endpoint \cup {Malformed}) /\ clock \in Nat /\ clock \in 0 .. MaxTime
      /\ loads \in 0 .. MaxLoads /\ MaxLoads \in Nat
  BY ManagerTypes, PeerAssumption
<1>2. n \in Nat /\ \A i \in 1 .. n : file[i] \in Endpoint
  BY <1>1, ReadableLines
<1>3. peers' = [i \in 1 .. n |-> NewPeer(file[i])]
  BY DEF Load
<1> HIDE DEF n
<1>4. \A i \in 1 .. n : NewPeer(file[i]) \in Peer
  BY <1>1, <1>2, NewSettled
<1>5. peers' \in Seq(Peer) /\ \A i \in DOMAIN peers' : \E e \in Endpoint : peers'[i] = NewPeer(e)
  BY <1>2, <1>3, <1>4
<1>6. Fresh'
  <2>1. /\ clock' = clock /\ file' = file /\ loads' = loads + 1 /\ loads < MaxLoads
        /\ strikes' = <<>> /\ promised' = <<>>
    BY DEF Load
  <2>2. loads' \in 0 .. MaxLoads
    BY <1>1, <2>1
  <2>3. \A i \in DOMAIN peers' : \E e \in Endpoint : peers'[i] = NewPeer(e)'
    BY <1>5 DEF NewPeer
  <2> QED
    BY <1>1, <1>5, <2>1, <2>2, <2>3 DEF Fresh
<1>7. Fresh' => ManagerInv'
  BY InvFresh, PTL
<1> QED
  BY <1>6, <1>7

LEMMA InvReported ==
    ASSUME ManagerInv, NEW e \in Endpoint, ReportInvalid(e)
    PROVE  ManagerInv'
<1>1. /\ clock \in Nat /\ clock \in 0 .. MaxTime /\ loads \in 0 .. MaxLoads
      /\ file \in Seq(Endpoint \cup {Malformed})
      /\ DOMAIN strikes \subseteq Endpoint /\ DOMAIN promised \subseteq Endpoint
      /\ \A f \in DOMAIN strikes : strikes[f] \in Nat
      /\ \A f \in DOMAIN promised : promised[f] \in Nat
  BY ManagerTypes DEF ManagerInv
<1>2. CASE ~Known(e)
  BY <1>1, <1>2, InvSame DEF ReportInvalid
<1>3. CASE Known(e)
  <2> DEFINE p == Standing(e)
             n == Of(strikes, e)
             u == PromisedAfter(n + 1, e)
             new == Reported(p)
  <2>1. /\ p \in Peer /\ p.end = e /\ InRange(p) /\ Settled(p, n, Of(promised, e))
        /\ p = PeerOf(e) /\ n \in Nat /\ Of(promised, e) \in Nat
    BY <1>3, StandingType, HistoryType
  <2>2. /\ new \in Peer /\ new.end = p.end /\ InRange(new)
        /\ u \in Nat /\ Settled(new, n + 1, u)
    <3> HIDE DEF p, n
    <3> QED
      BY <1>1, <2>1, ReportSettled
  <2>3. peers' = WithPeer(e, new) /\ strikes' = Noted(strikes, e, n + 1)
    BY <1>3, <2>1 DEF ReportInvalid, Reported
  <2>4. Of(Noted(strikes, e, n + 1), e) = n + 1 /\ NewsOf(e, strikes, Noted(strikes, e, n + 1))
    <3>1. n + 1 \in Nat
      BY <2>1
    <3> QED
      BY <1>1, <3>1, NotedIsNews
  <2>5. promised' = Noted(promised, e, u)
    <3>1. promised' = Noted(promised, e, PromisedAfter(Of(strikes', e), e))
      BY <1>3 DEF ReportInvalid
    <3>2. Of(strikes', e) = n + 1
      BY <2>3, <2>4
    <3> QED
      BY <3>1, <3>2
  <2>6. Of(Noted(promised, e, u), e) = u /\ NewsOf(e, promised, Noted(promised, e, u))
    <3> HIDE DEF u
    <3> QED
      BY <1>1, <2>2, NotedIsNews
  <2>7. UNCHANGED <<file, clock, loads>>
    BY DEF ReportInvalid
  <2> HIDE DEF p, n, u, new
  <2>8. Settled(new, Of(strikes', e), Of(promised', e))
    BY <2>2, <2>3, <2>4, <2>5, <2>6
  <2>9. new.end = e /\ NewsOf(e, strikes, strikes') /\ NewsOf(e, promised, promised')
    BY <2>1, <2>2, <2>3, <2>4, <2>5, <2>6
  <2> QED
    BY <1>3, <2>2, <2>3, <2>7, <2>8, <2>9, InvReplaced
<1> QED
  BY <1>2, <1>3

(* Ban and Unban. *)
LEMMA InvPromised ==
    ASSUME ManagerInv, NEW e \in Endpoint, Known(e), NEW p \in Peer, p.end = e, InRange(p),
           NEW t \in Nat, Settled(p, Of(strikes, e), t),
           peers' = WithPeer(e, p), promised' = Noted(promised, e, t),
           UNCHANGED <<file, clock, loads, strikes>>
    PROVE  ManagerInv'
<1>1. /\ DOMAIN strikes \subseteq Endpoint /\ DOMAIN promised \subseteq Endpoint
      /\ \A f \in DOMAIN strikes : strikes[f] \in Nat
      /\ \A f \in DOMAIN promised : promised[f] \in Nat
  BY ManagerTypes DEF ManagerInv
<1>2. Of(promised', e) = t /\ NewsOf(e, promised, promised')
  BY <1>1, NotedIsNews
<1>3. Of(strikes', e) = Of(strikes, e) /\ NewsOf(e, strikes, strikes')
  BY <1>1 DEF NewsOf, Of
<1> QED
  BY <1>2, <1>3, InvReplaced

LEMMA InvBan ==
    ASSUME ManagerInv, NEW e \in Endpoint, NEW s \in Nat, Ban(e, s)
    PROVE  ManagerInv'
<1> DEFINE p == Standing(e)
           n == Of(strikes, e)
           new == BannedFor(p, s)
<1>1. /\ p \in Peer /\ p.end = e /\ InRange(p) /\ Settled(p, n, Of(promised, e))
      /\ p = PeerOf(e) /\ n \in Nat /\ Of(promised, e) \in Nat /\ Known(e)
      /\ clock \in Nat /\ clock + s \in Nat
  BY StandingType, HistoryType, ManagerTypes DEF Ban
<1>2. new \in Peer /\ new.end = p.end /\ InRange(new) /\ Settled(new, n, clock + s)
  <2> HIDE DEF p, n
  <2> QED
    BY <1>1, BanSettled
<1>3. peers' = WithPeer(e, new) /\ promised' = Noted(promised, e, clock + s)
  BY <1>1 DEF Ban
<1>4. UNCHANGED <<file, clock, loads, strikes>>
  BY DEF Ban
<1>5. Settled(new, Of(strikes, e), clock + s) /\ new.end = e
  BY <1>1, <1>2
<1> HIDE DEF p, n, new
<1> QED
  BY <1>1, <1>2, <1>3, <1>4, <1>5, InvPromised

LEMMA InvUnban ==
    ASSUME ManagerInv, NEW e \in Endpoint, Unban(e)
    PROVE  ManagerInv'
<1> DEFINE p == Standing(e)
           n == Of(strikes, e)
           new == [p EXCEPT !.banned = FALSE]
<1>1. /\ p \in Peer /\ p.end = e /\ InRange(p) /\ Settled(p, n, Of(promised, e))
      /\ p = PeerOf(e) /\ n \in Nat /\ Of(promised, e) \in Nat /\ Known(e) /\ clock \in Nat
  BY StandingType, HistoryType, ManagerTypes DEF Unban
<1>2. new \in Peer /\ new.end = p.end /\ InRange(new) /\ Settled(new, n, 0)
  <2> HIDE DEF p, n
  <2> QED
    BY <1>1, UnbanSettled
<1>3. peers' = WithPeer(e, new) /\ promised' = Noted(promised, e, 0)
  BY <1>1 DEF Unban
<1>4. UNCHANGED <<file, clock, loads, strikes>>
  BY DEF Unban
<1>5. Settled(new, Of(strikes, e), 0) /\ new.end = e
  BY <1>1, <1>2
<1> HIDE DEF p, n, new
<1> QED
  BY <1>1, <1>2, <1>3, <1>4, <1>5, InvPromised

LEMMA InvReportGood ==
    ASSUME ManagerInv, NEW e \in Endpoint, ReportGood(e)
    PROVE  ManagerInv'
<1>1. CASE Known(e)
  <2>1. GoodReward \in Nat
    BY PeerAssumption
  <2> QED
    BY <1>1, <2>1, InvRewarded DEF ReportGood
<1>2. CASE ~Known(e)
  <2>1. /\ file \in Seq(Endpoint \cup {Malformed})
        /\ clock \in Nat /\ clock \in 0 .. MaxTime /\ loads \in 0 .. MaxLoads
    BY ManagerTypes
  <2> QED
    BY <1>2, <2>1, InvSame DEF ReportGood
<1> QED
  BY <1>1, <1>2

-----------------------------------------------------------------------------
(* The server with its peers. *)

BanInv == TypeOK /\ Connections /\ ManagerInv

LEMMA ConnectionType ==
    ASSUME TypeOK, NEW c \in Client
    PROVE  conn[c].at # "closed" => conn[c].end \in Endpoint
BY DEF TypeOK, NoConnection

(* Every step of the server is one of the manager, or leaves it alone. *)
LEMMA ManagerInvKept == BanInv /\ [Next]_vars => ManagerInv'
<1> SUFFICES ASSUME BanInv, [Next]_vars PROVE ManagerInv'
  OBVIOUS
<1>1. ManagerInv /\ TypeOK
  BY DEF BanInv
<1>2. CASE UNCHANGED managerVars
  <2>1. /\ file \in Seq(Endpoint \cup {Malformed})
        /\ clock \in Nat /\ clock \in 0 .. MaxTime /\ loads \in 0 .. MaxLoads
    BY <1>1, ManagerTypes
  <2> QED
    BY <1>1, <1>2, <2>1, InvSame DEF managerVars
<1>3. CASE UseManager
  <2>1. Outbound \subseteq Endpoint /\ Inbound \subseteq Endpoint /\ BanSeconds \subseteq Nat
    BY PeerAssumption, ServerAssumption
  <2>2. CASE Load
    BY <1>1, <2>2, InvLoad
  <2>3. CASE Save
    BY <1>1, <2>3, InvSave
  <2>4. ASSUME NEW e \in Outbound, AddOrUpdate(e) PROVE ManagerInv'
    BY <1>1, <2>1, <2>4, InvAddOrUpdate
  <2>5. ASSUME NEW e \in Outbound \cup Inbound, NEW s \in BanSeconds, Ban(e, s) PROVE ManagerInv'
    BY <1>1, <2>1, <2>5, InvBan
  <2>6. ASSUME NEW e \in Outbound \cup Inbound, Unban(e) PROVE ManagerInv'
    BY <1>1, <2>1, <2>6, InvUnban
  <2> QED
    BY <1>3, <2>2, <2>3, <2>4, <2>5, <2>6 DEF UseManager
<1>4. ASSUME NEW c \in Client, Accept(c) PROVE ManagerInv'
  <2>1. conn[c].at = "waiting"
    BY <1>4 DEF Accept, Waiting
  <2>2. conn[c].end \in Endpoint
    BY <1>1, <2>1, ConnectionType
  <2> QED
    BY <1>1, <1>4, <2>2, InvAddOrUpdate DEF Accept
<1>5. ASSUME NEW c \in Client, HandleClient(c) PROVE ManagerInv'
  <2>1. conn[c].at \in {"invalid", "fine", "version"}
    BY <1>5 DEF HandleClient
  <2>2. conn[c].end \in Endpoint
    BY <1>1, <2>1, ConnectionType
  <2>3. CASE ReportInvalid(conn[c].end)
    BY <1>1, <2>2, <2>3, InvReported
  <2>4. CASE ReportGood(conn[c].end)
    BY <1>1, <2>2, <2>4, InvReportGood
  <2> QED
    BY <1>2, <1>5, <2>3, <2>4 DEF HandleClient
<1>6. CASE Tick
  BY <1>1, <1>6, InvTick
<1>7. CASE Next
  BY <1>2, <1>3, <1>4, <1>5, <1>6, <1>7
     DEF Next, Start, BeginStop, StopStep, CloseListener, JoinAcceptor, AcceptStep, CheckRunning,
         AcceptFails, AcceptWaits, Connect, Send
<1> QED
  BY <1>2, <1>7 DEF vars

LEMMA ServerTypeKept ==
    BanInv /\ ManagerInv' /\ [Next]_vars => (TypeOK /\ Connections)'
<1> SUFFICES ASSUME BanInv, ManagerInv', [Next]_vars PROVE (TypeOK /\ Connections)'
  OBVIOUS
<1> DEFINE Conn(x) == x = NoConnection \/
                      x \in [at : {"waiting", "reading"} \cup Outcome, end : Endpoint]
<1>1. /\ ManagerTypeOK' /\ Connections
      /\ owner \in {"idle", "close", "join"}
      /\ running \in BOOLEAN /\ open \in BOOLEAN /\ wakes \in BOOLEAN
      /\ acceptor \in {"none", "check", "accept", "blocked"}
      /\ \A c \in Client : Conn(conn[c])
      /\ connects \in 0 .. MaxConnects
  BY DEF BanInv, TypeOK, ManagerInv
<1>2. /\ owner' \in {"idle", "close", "join"}
      /\ running' \in BOOLEAN /\ open' \in BOOLEAN /\ wakes' \in BOOLEAN
      /\ acceptor' \in {"none", "check", "accept", "blocked"}
  <2> HIDE DEF Conn
  <2> QED
    BY <1>1 DEF Next, vars, serverVars, Start, BeginStop, StopStep, CloseListener, JoinAcceptor,
       UseManager, AcceptStep, CheckRunning, AcceptFails, AcceptWaits, Accept, Connect, Send,
       HandleClient
<1>3. connects' \in 0 .. MaxConnects
  <2>1. connects' = connects \/ (connects < MaxConnects /\ connects' = connects + 1)
    <3>1. CASE \E c \in Client : \E e \in Inbound : Connect(c, e)
      BY <3>1 DEF Connect
    <3>2. CASE UNCHANGED connects
      BY <3>2
    <3> QED
      BY <3>1, <3>2 DEF Next, vars, serverVars, Start, BeginStop, StopStep, CloseListener,
         JoinAcceptor, UseManager, AcceptStep, CheckRunning, AcceptFails, AcceptWaits, Accept,
         Send, HandleClient
  <2>2. MaxConnects \in Nat
    BY ServerAssumption
  <2> QED
    BY <1>1, <2>1, <2>2
<1>4. (\A c \in Client : Conn(conn'[c])) /\ Connections'
  <2>1. CASE UNCHANGED conn
    BY <1>1, <2>1 DEF Connections
  <2>2. CASE CloseListener
    BY <1>1, <2>2 DEF CloseListener, Connections
  <2>3. ASSUME NEW c \in Client, NEW x, conn' = [conn EXCEPT ![c] = x], Conn(x)
        PROVE  (\A d \in Client : Conn(conn'[d])) /\ Connections'
    <3>1. conn' = [d \in Client |-> IF d = c THEN x ELSE conn[d]]
      BY <1>1, <2>3 DEF Connections
    <3>2. \A d \in Client : conn'[d] = IF d = c THEN x ELSE conn[d]
      BY <3>1
    <3> HIDE DEF Conn
    <3> QED
      BY <1>1, <2>3, <3>1, <3>2 DEF Connections
  <2>4. ASSUME NEW c \in Client, Accept(c) PROVE (\A d \in Client : Conn(conn'[d])) /\ Connections'
    <3>1. conn[c].at = "waiting" /\ Conn(conn[c])
      BY <1>1, <2>4 DEF Accept, Waiting
    <3> DEFINE x == [conn[c] EXCEPT !.at = "reading"]
    <3>2. conn[c] \in [at : {"waiting", "reading"} \cup Outcome, end : Endpoint]
      BY <3>1 DEF NoConnection
    <3>3. Conn(x)
      BY <3>2
    <3>4. conn' = [conn EXCEPT ![c] = x]
      BY <1>1, <2>4 DEF Accept, Connections
    <3> HIDE DEF x, Conn
    <3> QED
      BY <2>3, <3>3, <3>4
  <2>5. ASSUME NEW c \in Client, NEW e \in Inbound, Connect(c, e)
        PROVE  (\A d \in Client : Conn(conn'[d])) /\ Connections'
    <3>1. Conn(Connection("waiting", e))
      BY ServerAssumption DEF Connection
    <3> HIDE DEF Conn
    <3> QED
      BY <2>3, <2>5, <3>1 DEF Connect
  <2>6. ASSUME NEW c \in Client, NEW m \in Outcome, Send(c, m)
        PROVE  (\A d \in Client : Conn(conn'[d])) /\ Connections'
    <3>1. conn[c].at = "reading" /\ Conn(conn[c])
      BY <1>1, <2>6 DEF Send
    <3> DEFINE x == [conn[c] EXCEPT !.at = m]
    <3>2. conn[c] \in [at : {"waiting", "reading"} \cup Outcome, end : Endpoint]
      BY <3>1 DEF NoConnection
    <3>3. Conn(x)
      BY <3>2
    <3>4. conn' = [conn EXCEPT ![c] = x]
      BY <1>1, <2>6 DEF Send, Connections
    <3> HIDE DEF x, Conn
    <3> QED
      BY <2>3, <3>3, <3>4
  <2>7. ASSUME NEW c \in Client, HandleClient(c)
        PROVE  (\A d \in Client : Conn(conn'[d])) /\ Connections'
    <3>1. Conn(NoConnection)
      OBVIOUS
    <3> HIDE DEF Conn
    <3> QED
      BY <2>3, <2>7, <3>1 DEF HandleClient
  <2> HIDE DEF Conn
  <2> QED
    BY <2>1, <2>2, <2>4, <2>5, <2>6, <2>7
       DEF Next, vars, serverVars, Start, BeginStop, StopStep, JoinAcceptor, UseManager,
           AcceptStep, CheckRunning, AcceptFails, AcceptWaits
<1> QED
  BY <1>1, <1>2, <1>3, <1>4 DEF TypeOK

LEMMA BanInvHolds == Spec => []BanInv
<1>1. Init => BanInv
  <2> SUFFICES ASSUME Init PROVE BanInv
    OBVIOUS
  <2>1. MaxTime \in Nat /\ MaxLoads \in Nat /\ MaxConnects \in Nat
        /\ FirstFile \subseteq Seq(Endpoint \cup {Malformed})
    BY PeerAssumption, ServerAssumption
  <2>2. Fresh
    BY <2>1 DEF Init, ManagerInit, Fresh
  <2>3. ManagerInv
    BY <2>2, InvFresh
  <2>4. Connections
    BY DEF Init, Connections
  <2>5. TypeOK
    <3>1. \A c \in Client : conn[c] = NoConnection
      BY DEF Init
    <3>2. connects \in 0 .. MaxConnects
      BY <2>1 DEF Init
    <3>3. ManagerTypeOK
      BY <2>3 DEF ManagerInv
    <3>4. owner = "idle" /\ running = FALSE /\ open = FALSE /\ acceptor = "none" /\ wakes \in BOOLEAN
      BY DEF Init
    <3> QED
      BY <3>1, <3>2, <3>3, <3>4 DEF TypeOK
  <2> QED
    BY <2>3, <2>4, <2>5 DEF BanInv
<1>2. BanInv /\ [Next]_vars => BanInv'
  BY ManagerInvKept, ServerTypeKept DEF BanInv
<1> QED
  BY <1>1, <1>2, PTL DEF Spec

(* The variables of peer manager and server keep their types, for every    *)
(* list of peers, every file and any number of connections.                *)
THEOREM ServerTypeCorrect == Spec => []TypeOK
<1>1. BanInv => TypeOK
  BY DEF BanInv
<1> QED
  BY <1>1, BanInvHolds, PTL

(* Whoever is banned, or was reported too often, is not offered for a      *)
(* connection before its time is over, whatever the threads of the server  *)
(* report meanwhile.                                                       *)
THEOREM BansHold == Spec => []BanHolds
<1>1. ASSUME BanInv, NEW e \in DOMAIN promised, clock < promised[e], Cardinality(Places(e)) = 1
      PROVE  e \notin Connectable
  <2>1. /\ peers \in Seq(Peer) /\ e \in Endpoint /\ Of(promised, e) = promised[e]
        /\ ManagerInv
    BY <1>1, ManagerTypes DEF BanInv, Of
  <2>2. PICK k : Places(e) = {k}
    <3>1. Places(e) \subseteq 1 .. Len(peers) /\ Len(peers) \in Nat
      BY <2>1 DEF Places
    <3>2. IsFiniteSet(1 .. Len(peers))
      BY <3>1, FS_Interval
    <3>3. IsFiniteSet(Places(e))
      BY <3>1, <3>2, FS_Subset
    <3> QED
      BY <1>1, <3>3, FS_Singleton
  <2>3. Known(e) /\ Min(Places(e)) = k /\ PeerOf(e) = peers[k]
    <3>1. Known(e)
      BY <2>2 DEF Known
    <3> QED
      BY <2>1, <2>2, <3>1, FirstPlace DEF PeerOf
  <2>4. Settled(peers[k], Of(strikes, e), promised[e])
    BY <2>1, <2>3, StandingType
  <2>5. IsBanned(peers[k])
    <3>1. peers[k].banned /\ promised[e] <= peers[k].until
      BY <1>1, <2>4 DEF Settled
    <3>2. peers[k] \in Peer /\ promised[e] \in Nat /\ clock \in Nat
      BY <2>1, <2>3, FirstPlace, ManagerTypes DEF ManagerInv
    <3>3. peers[k].until \in Nat
      BY <3>2 DEF Peer
    <3> QED
      BY <1>1, <3>1, <3>2, <3>3 DEF IsBanned
  <2>6. ASSUME e \in Connectable PROVE FALSE
    <3>1. Len(peers) \in Nat
      BY <2>1
    <3>2. SelectConnectable(Len(peers)) \in Seq(FreePeers)
      BY <2>1, <3>1, SelectedAreFree
    <3> DEFINE list == SelectConnectable(Len(peers))
    <3>3. PICK i \in DOMAIN list : e = list[i].end
      BY <2>6 DEF Connectable, ConnectableIn
    <3>4. list[i] \in FreePeers
      BY <3>2
    <3>5. PICK j \in DOMAIN peers : list[i] = peers[j]
      BY <3>4 DEF FreePeers
    <3>6. j \in Places(e)
      BY <3>3, <3>5 DEF Places
    <3>7. ~IsBanned(peers[j])
      BY <3>4, <3>5 DEF FreePeers
    <3> QED
      BY <2>2, <2>5, <3>6, <3>7
  <2> QED
    BY <2>6
<1>2. BanInv => BanHolds
  BY <1>1 DEF BanHolds
<1> QED
  BY <1>2, BanInvHolds, PTL

(* Nobody is kept out who was not banned and has not been reported often   *)
(* enough, whatever rewards, doubles and reports of others came between.   *)
THEOREM BansAreEarned == Spec => []BanIsEarned
<1>1. ASSUME BanInv, NEW i \in DOMAIN peers, IsBanned(peers[i])
      PROVE  LET e == peers[i].end
             IN  clock < Of(promised, e) \/ Of(strikes, e) >= FewestReports
  <2> DEFINE e == peers[i].end
  <2>1. /\ peers \in Seq(Peer) /\ ManagerInv /\ clock \in Nat /\ peers[i] \in Peer
    BY <1>1, ManagerTypes DEF BanInv
  <2>2. e \in Endpoint /\ peers[i].until \in Nat /\ peers[i].banned /\ clock < peers[i].until
    BY <1>1, <2>1 DEF Peer, IsBanned
  <2>3. i \in Places(e)
    BY DEF Places
  <2> HIDE DEF e
  <2>4. Known(e)
    BY <2>3 DEF Known
  <2>5. Min(Places(e)) = i
    <3>1. /\ Min(Places(e)) \in Places(e) /\ Min(Places(e)) <= i
          /\ Min(Places(e)) \in DOMAIN peers
      BY <2>1, <2>3, <2>4, FirstPlace
    <3>2. peers[Min(Places(e))].end = peers[i].end
      BY <2>3, <3>1 DEF Places
    <3>3. i <= Min(Places(e))
      BY <2>1, <2>2, <3>1, <3>2 DEF ManagerInv
    <3> QED
      BY <2>1, <3>1, <3>3
  <2>6. Settled(peers[i], Of(strikes, e), Of(promised, e))
    BY <2>1, <2>2, <2>4, <2>5, StandingType DEF PeerOf
  <2>7. Of(strikes, e) \in Nat /\ Of(promised, e) \in Nat /\ FewestReports \in Nat
    BY <2>1, HistoryType, FewestBan
  <2>8. clock < Of(promised, e) \/ Of(strikes, e) >= FewestReports
    BY <2>1, <2>2, <2>6, <2>7 DEF Settled
  <2> QED
    BY <2>8 DEF e
<1>2. BanInv => BanIsEarned
  BY <1>1 DEF BanIsEarned
<1> QED
  BY <1>2, BanInvHolds, PTL
=============================================================================

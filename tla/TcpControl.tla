------------------------------ MODULE TcpControl ------------------------------
(***************************************************************************)
(* The channels of the misting controller that share its main loop: the    *)
(* control messages of the app over TCP, one byte per pass                  *)
(* (tcpControlServer.ino over WiFiServer.cpp and WiFiClient.cpp), the UDP   *)
(* discovery that waits while a control message is being received, and the *)
(* registration answers of the cloud (udpMulticast.ino).  Clients connect, *)
(* send messages in pieces, close, are reset, or vanish without a sign.    *)
(***************************************************************************)
EXTENDS Integers, Sequences, FiniteSets

CONSTANTS
  Client,          (* TCP connections the app opens, each used once             *)
  Asker,           (* hosts that send discovery packets                         *)
  Size,            (* bytes of a message between its braces                     *)
  Terminators,     (* line ends after a message: 1 for "\n", 2 for "\r\n"       *)
  Cmdr,            (* what messages of the cloud say: "devRg", "other", "none"  *)
  BufLen,          (* CONTROL_MESSAGE_BUFF_LEN                                  *)
  RestartBelow,    (* an opening brace below this index starts anew: 5          *)
  MaxMessages,     (* bound: messages of the app and the cloud                  *)
  MaxPackets       (* bound: discovery packets                                  *)

ASSUME ControlAssumption ==
  /\ Size \subseteq Nat
  /\ Terminators \subseteq {1, 2}
  /\ Cmdr \subseteq {"devRg", "other", "none"}
  /\ BufLen \in Nat /\ RestartBelow \in 1 .. BufLen - 1
  /\ MaxMessages \in Nat /\ MaxPackets \in Nat
  /\ "none" \notin Client \cup Asker /\ "cloud" \notin Client

VARIABLES
  pc,              (* the part of loop() that comes next                        *)
  (* the network *)
  peer,            (* per client: "new", "open", "closed" or "gone"             *)
  out,             (* per client, and the cloud: bytes on their way             *)
  backlog,         (* connections the server socket has not handed out          *)
  stream,          (* per client, and the cloud: bytes in the socket            *)
  udpIn,           (* packets in the UDP socket                                 *)
  (* the app's channel *)
  client,          (* tcpClient_control                                         *)
  rx,              (* its WiFiClientRxBuffer                                    *)
  buf,             (* tcpClientControlMessageBuffer up to messageWritePtr       *)
  gDataRxMutex,
  (* the cloud's channel *)
  cloudUp,         (* tcpClient_Cloud is connected                              *)
  cbuf,            (* tcpClientControlMessageBuffer_Cloud                       *)
  gCloudCommandStatus,
  dId,             (* the message whose id is stored, 0 if none is              *)
  (* discovery *)
  remote,          (* Udp_receiver.remote_ip                                    *)
  events,          (* events whose handlers answer a host                       *)
  packets,
  (* history *)
  sent,            (* the messages: who sent them, and how long they are        *)
  executed,        (* messages whose command was executed                       *)
  read,            (* messages of the app read to their end                     *)
  tears,           (* how often a broken connection left RestartBelow bytes     *)
  torn,            (* what is stored begins with a piece of a broken connection *)
  wrapped          (* the write pointer has wrapped in this message             *)

network == <<peer, out, backlog, stream, udpIn>>
appSide == <<client, rx, buf, gDataRxMutex>>
cloudSide == <<cloudUp, cbuf, gCloudCommandStatus, dId>>
discovery == <<remote, events>>
history == <<sent, executed, read, tears, torn, wrapped>>
vars == <<pc, network, appSide, cloudSide, discovery, packets, history>>

Message == 1 .. MaxMessages
Sender == Client \cup {"cloud"}

(* A byte is the message it belongs to and its index there; index 0 is the opening
   brace, Size + 1 the closing one, and END any of the characters that end a message. *)
END == -1
Object(m, size) == [i \in 1 .. size + 2 |-> <<m, i - 1>>]
Whole(m) == Object(m, sent[m].size)

(* parseObject: the object that a text begins with, whatever follows it. *)
Starts(s, t) == Len(s) <= Len(t) /\ SubSeq(t, 1, Len(s)) = s
Command(text) == {m \in DOMAIN sent : Starts(Whole(m), text)}

Init ==
  /\ pc = "events"
  /\ peer = [c \in Client |-> "new"]
  /\ out = [s \in Sender |-> <<>>]
  /\ backlog = <<>>
  /\ stream = [s \in Sender |-> <<>>]
  /\ udpIn = <<>>
  /\ client = "none" /\ rx = <<>> /\ buf = <<>> /\ gDataRxMutex = 1
  /\ cloudUp = FALSE /\ cbuf = <<>> /\ gCloudCommandStatus = "NA" /\ dId = 0
  /\ remote = "none" /\ events = {} /\ packets = 0
  /\ sent = <<>> /\ executed = {} /\ read = {} /\ tears = 0
  /\ torn = [app |-> FALSE, cloud |-> FALSE]
  /\ wrapped = [app |-> FALSE, cloud |-> FALSE]

-----------------------------------------------------------------------------
(* The other ends.  The device looks at each channel once per pass; what happens on it
   in between is as if it happened just before the next look. *)
Before(s) == pc = (IF s = "cloud" THEN "cloud" ELSE "tcp")

Environment == UNCHANGED <<pc, appSide, cloudSide, discovery, executed, read, tears, torn, wrapped>>

Connect(c) ==
  /\ Before(c) /\ peer[c] = "new"
  /\ peer' = [peer EXCEPT ![c] = "open"]
  /\ backlog' = Append(backlog, c)
  /\ UNCHANGED <<out, stream, udpIn, packets, sent>> /\ Environment

(* A message is written to an open connection; the network cuts it as it likes. *)
Open(s) == IF s = "cloud" THEN cloudUp ELSE peer[s] = "open"

Compose(s, size, ends) ==
  /\ Before(s) /\ Open(s) /\ out[s] = <<>>
  /\ Len(sent) < MaxMessages
  /\ LET m == Len(sent) + 1
     IN  out' = [out EXCEPT ![s] = Object(m, size) \o [i \in 1 .. ends |-> <<m, END>>]]
  /\ \E cmdr \in (IF s = "cloud" THEN Cmdr ELSE {"none"}) :
       sent' = Append(sent, [from |-> s, size |-> size, cmdr |-> cmdr])
  /\ UNCHANGED <<peer, backlog, stream, udpIn, packets>> /\ Environment

Arrive(s, n) ==
  /\ Before(s) /\ n \in 1 .. Len(out[s])
  /\ stream' = [stream EXCEPT ![s] = @ \o SubSeq(out[s], 1, n)]
  /\ out' = [out EXCEPT ![s] = SubSeq(@, n + 1, Len(@))]
  /\ UNCHANGED <<peer, backlog, udpIn, packets, sent>> /\ Environment

(* The orderly end of a connection comes after its bytes, ... *)
Close(c) ==
  /\ Before(c) /\ peer[c] = "open" /\ out[c] = <<>>
  /\ peer' = [peer EXCEPT ![c] = "closed"]
  /\ UNCHANGED <<out, backlog, stream, udpIn, packets, sent>> /\ Environment

(* ... a reset discards what the socket holds, ... *)
Reset(c) ==
  /\ Before(c) /\ peer[c] \in {"open", "gone"}
  /\ peer' = [peer EXCEPT ![c] = "closed"]
  /\ out' = [out EXCEPT ![c] = <<>>]
  /\ stream' = [stream EXCEPT ![c] = <<>>]
  /\ UNCHANGED <<backlog, udpIn, packets, sent>> /\ Environment

(* ... and a host that loses its power says nothing. *)
Vanish(c) ==
  /\ Before(c) /\ peer[c] = "open"
  /\ peer' = [peer EXCEPT ![c] = "gone"]
  /\ out' = [out EXCEPT ![c] = <<>>]
  /\ UNCHANGED <<backlog, stream, udpIn, packets, sent>> /\ Environment

(* SO_KEEPALIVE (WiFiServer.cpp:56) finds out in the end. *)
KeepAlive(c) == peer[c] = "gone" /\ Reset(c)

(* A connection to the cloud ends; bytes already here can still be read. *)
CloudDrop ==
  /\ Before("cloud") /\ cloudUp
  /\ cloudUp' = FALSE
  /\ out' = [out EXCEPT !["cloud"] = <<>>]
  /\ UNCHANGED <<pc, peer, backlog, stream, udpIn, appSide, cbuf, gCloudCommandStatus,
                 dId, discovery, packets, history>>

(* A discovery packet, or one without content. *)
Ask(a, len) ==
  /\ pc = "udp" /\ packets < MaxPackets
  /\ packets' = packets + 1
  /\ udpIn' = Append(udpIn, [from |-> a, len |-> len])
  /\ UNCHANGED <<peer, out, backlog, stream, sent>> /\ Environment

-----------------------------------------------------------------------------
(* The two buffers. *)

(* storeMessage, storeMessage_Cloud for a byte that does not end the message.  The
   write pointer is an unsigned char: at BufLen it is 0 again, and the flush test on
   it never true.  Only the app's channel starts anew at an early opening brace. *)
Restarts(text, b) == b[2] = 0 /\ Len(text) < RestartBelow
AddedBeyond(text, b) == Append(text, b)   (* Mutant: the pointer goes on. *)
Added(text, b) == IF Len(text) + 1 = BufLen THEN <<>> ELSE Append(text, b)
StoredNoRestart(text, b) == Added(text, b)   (* Mutant: no fresh start. *)
Stored(text, b) == IF Restarts(text, b) THEN <<b>> ELSE Added(text, b)

(* WiFiClient::connected: a closed connection counts as open until its socket, but
   not its WiFiClientRxBuffer, has been read to the end. *)
ConnectedOnce == client # "none"   (* Mutant: a client stays for ever. *)
Connected == client # "none" /\ (peer[client] # "closed" \/ stream[client] # <<>>)

(* WiFiClientRxBuffer::read fetches everything the socket holds once it has run empty. *)
Fetched == IF rx = <<>> /\ client # "none" THEN stream[client] ELSE rx
Fetch ==
  /\ rx' = Tail(Fetched)
  /\ stream' = IF rx = <<>> THEN [stream EXCEPT ![client] = <<>>] ELSE stream

-----------------------------------------------------------------------------
(* One pass of loop(). *)

(* eventFwProcess: the handlers answer the hosts their events came from, and some of
   them report to the cloud, connecting to it first if they must.  The message the
   cloud had begun on an earlier connection stays in its buffer. *)
sendIdentityResponse_Cloud ==
  /\ ~cloudUp
  /\ cloudUp' = TRUE
  /\ stream' = [stream EXCEPT !["cloud"] = <<>>]
  /\ torn' = [torn EXCEPT !.cloud = torn.cloud \/ cbuf # <<>>]

(* The server socket is closed and opened again when the network has changed; the
   connections it has not handed out are reset, the one in use stays. *)
reInitTcpServer ==
  /\ backlog # <<>> /\ backlog' = <<>>
  /\ LET Dropped == {backlog[i] : i \in DOMAIN backlog}
     IN  /\ peer' = [c \in Client |-> IF c \in Dropped THEN "closed" ELSE peer[c]]
         /\ out' = [s \in Sender |-> IF s \in Dropped THEN <<>> ELSE out[s]]
         /\ stream' = [s \in Sender |-> IF s \in Dropped THEN <<>> ELSE stream[s]]
  /\ UNCHANGED <<cloudUp, torn>>

eventFwProcess ==
  /\ pc = "events" /\ pc' = "udp"
  /\ events' = {}
  /\ \/ sendIdentityResponse_Cloud /\ UNCHANGED <<peer, out, backlog>>
     \/ reInitTcpServer
     \/ UNCHANGED <<peer, out, backlog, cloudUp, stream, torn>>
  /\ UNCHANGED <<udpIn, appSide, cbuf, gCloudCommandStatus, dId, remote,
                 packets, sent, executed, read, tears, wrapped>>

(* Mutant: every packet that has come is taken in one pass. *)
ParseAll ==
  /\ udpIn # <<>>
  /\ remote' = udpIn[Len(udpIn)].from
  /\ udpIn' = <<>>
  /\ events' = events \cup {[kind |-> "udp", from |-> udpIn[i].from] :
                              i \in {j \in DOMAIN udpIn : udpIn[j].len > 0}}

(* WiFiUDP::parsePacket notes the sender even of a packet without content. *)
ParsePacket ==
  /\ udpIn # <<>>
  /\ remote' = Head(udpIn).from
  /\ udpIn' = Tail(udpIn)
  /\ events' = events \cup (IF Head(udpIn).len > 0
                             THEN {[kind |-> "udp", from |-> Head(udpIn).from]} ELSE {})

(* Mutant: discovery waits for the client to go. *)
ReceiveAlone ==
  /\ pc = "udp" /\ pc' = "tcp"
  /\ IF client = "none" /\ udpIn # <<>> THEN ParsePacket
     ELSE UNCHANGED <<udpIn, remote, events>>
  /\ UNCHANGED <<peer, out, backlog, stream, appSide, cloudSide, packets, history>>

receiveMulticastMessage ==
  /\ pc = "udp" /\ pc' = "tcp"
  /\ IF gDataRxMutex = 1 /\ udpIn # <<>> THEN ParsePacket
     ELSE UNCHANGED <<udpIn, remote, events>>
  /\ UNCHANGED <<peer, out, backlog, stream, appSide, cloudSide, packets, history>>

(* handleTcpControlMessages *)
Tcp == pc = "tcp" /\ pc' = "cloud" /\ UNCHANGED <<peer, out, udpIn, cloudSide, remote, packets, sent>>

LeavesPiece ==
  /\ torn' = [torn EXCEPT !.app = torn.app \/ Len(buf) >= RestartBelow]
  /\ tears' = IF torn'.app /\ ~torn.app THEN tears + 1 ELSE tears

(* Mutant: the mutex is freed when a client is gone, the write pointer kept. *)
TcpAcceptFrees ==
  /\ ~Connected
  /\ client' = IF backlog = <<>> THEN "none" ELSE Head(backlog)
  /\ backlog' = IF backlog = <<>> THEN <<>> ELSE Tail(backlog)
  /\ rx' = <<>>
  /\ gDataRxMutex' = 1
  /\ LeavesPiece
  /\ UNCHANGED <<stream, buf, events, executed, read, wrapped>>
  /\ Tcp

(* No client: take the next one, or none; what the last one has left unread is gone,
   and a message it has left unfinished stays. *)
TcpAccept ==
  /\ ~Connected
  /\ client' = IF backlog = <<>> THEN "none" ELSE Head(backlog)
  /\ backlog' = IF backlog = <<>> THEN <<>> ELSE Tail(backlog)
  /\ rx' = <<>>
  /\ LeavesPiece
  /\ UNCHANGED <<stream, buf, gDataRxMutex, events, executed, read, wrapped>>
  /\ Tcp

TcpNothing ==
  /\ Connected /\ Fetched = <<>>
  /\ UNCHANGED <<backlog, stream, appSide, events, executed, read, tears, torn, wrapped>>
  /\ Tcp

NextByte == Connected /\ Fetched # <<>>
EndsMessage == NextByte /\ Head(Fetched)[2] = END

TcpByte ==
  /\ NextByte /\ ~EndsMessage
  /\ Fetch
  /\ buf' = Stored(buf, Head(Fetched))
  /\ gDataRxMutex' = 0
  /\ IF Restarts(buf, Head(Fetched))
     THEN torn' = [torn EXCEPT !.app = FALSE] /\ wrapped' = [wrapped EXCEPT !.app = FALSE]
     ELSE /\ wrapped' = [wrapped EXCEPT !.app = wrapped.app \/ Len(buf) + 1 = BufLen]
          /\ UNCHANGED torn
  /\ UNCHANGED <<client, backlog, events, executed, read, tears>>
  /\ Tcp

(* Mutant: the buffer is not emptied after a command. *)
TcpMessageKept ==
  /\ EndsMessage
  /\ Fetch
  /\ executed' = executed \cup Command(buf)
  /\ read' = read \cup {Head(Fetched)[1]}
  /\ gDataRxMutex' = 1
  /\ UNCHANGED <<buf, events, client, backlog, tears, torn, wrapped>>
  /\ Tcp

(* commandDecoder, processCommand, reInitMessenger.  The handler answers now or
   through an event. *)
TcpMessage ==
  /\ EndsMessage
  /\ Fetch
  /\ executed' = executed \cup Command(buf)
  /\ read' = read \cup {Head(Fetched)[1]}
  /\ \E later \in (IF Command(buf) = {} THEN {{}} ELSE {{}, {[kind |-> "tcp", from |-> client]}}) :
       events' = events \cup later
  /\ buf' = <<>>
  /\ gDataRxMutex' = 1
  /\ torn' = [torn EXCEPT !.app = FALSE]
  /\ wrapped' = [wrapped EXCEPT !.app = FALSE]
  /\ UNCHANGED <<client, backlog, tears>>
  /\ Tcp

handleTcpControlMessages == TcpAccept \/ TcpNothing \/ TcpByte \/ TcpMessage

(* handleTcpControlMessages_CLoud: bytes are read even from a connection that has ended. *)
Cloud ==
  /\ pc = "cloud" /\ pc' = "events"
  /\ UNCHANGED <<peer, out, backlog, udpIn, appSide, cloudUp, discovery, packets, sent, executed, read, tears>>

CloudNothing ==
  /\ stream["cloud"] = <<>>
  /\ UNCHANGED <<stream, cbuf, gCloudCommandStatus, dId, torn, wrapped>>
  /\ Cloud

CloudByte ==
  /\ stream["cloud"] # <<>>
  /\ LET b == Head(stream["cloud"])
     IN  /\ b[2] # END
         /\ cbuf' = Added(cbuf, b)
         /\ wrapped' = [wrapped EXCEPT !.cloud = wrapped.cloud \/ Len(cbuf) + 1 = BufLen]
  /\ stream' = [stream EXCEPT !["cloud"] = Tail(@)]
  /\ UNCHANGED <<gCloudCommandStatus, dId, torn>>
  /\ Cloud

(* Mutant: the status stays for a command that is not known, too. *)
DecodedRegister(text) ==
  IF \E m \in Command(text) : sent[m].cmdr = "devRg" THEN "REGISTER" ELSE gCloudCommandStatus

(* commandDecoder_Cloud leaves the status of the last message if it finds no "cmdr". *)
Decoded(text) ==
  CASE \E m \in Command(text) : sent[m].cmdr = "devRg" -> "REGISTER"
    [] \E m \in Command(text) : sent[m].cmdr = "other" -> "NA"
    [] OTHER -> gCloudCommandStatus

CloudMessage ==
  /\ stream["cloud"] # <<>> /\ Head(stream["cloud"])[2] = END
  /\ stream' = [stream EXCEPT !["cloud"] = Tail(@)]
  /\ gCloudCommandStatus' = Decoded(cbuf)
  /\ dId' = IF gCloudCommandStatus' = "REGISTER" /\ Command(cbuf) # {}
             THEN CHOOSE m \in Command(cbuf) : TRUE ELSE dId
  /\ cbuf' = <<>>
  /\ torn' = [torn EXCEPT !.cloud = FALSE]
  /\ wrapped' = [wrapped EXCEPT !.cloud = FALSE]
  /\ Cloud

handleTcpControlMessages_CLoud == CloudNothing \/ CloudByte \/ CloudMessage

-----------------------------------------------------------------------------
Loop ==
  eventFwProcess \/ receiveMulticastMessage
  \/ handleTcpControlMessages \/ handleTcpControlMessages_CLoud

Network ==
  \/ \E c \in Client : Connect(c) \/ Close(c) \/ Reset(c) \/ Vanish(c)
  \/ \E s \in Sender : (\E size \in Size, ends \in Terminators : Compose(s, size, ends))
                       \/ \E n \in 1 .. Len(out[s]) : Arrive(s, n)
  \/ CloudDrop
  \/ \E a \in Asker, len \in {0, 1} : Ask(a, len)

Next == Loop \/ Network

(* loop() is called again and again, and TCP notices hosts that have vanished; strongly
   fair, since the network acts between two looks only. *)
Fairness == WF_vars(Loop) /\ \A c \in Client : SF_vars(KeepAlive(c))

Spec == Init /\ [][Next]_vars /\ Fairness

-----------------------------------------------------------------------------
Byte == Message \X Int

(* Types of the network, the buffers and the histories. *)
TypeOK ==
  /\ pc \in {"events", "udp", "tcp", "cloud"}
  /\ peer \in [Client -> {"new", "open", "closed", "gone"}]
  /\ out \in [Sender -> Seq(Byte)] /\ stream \in [Sender -> Seq(Byte)]
  /\ backlog \in Seq(Client)
  /\ udpIn \in Seq([from : Asker, len : {0, 1}])
  /\ client \in Client \cup {"none"}
  /\ rx \in Seq(Byte) /\ buf \in Seq(Byte) /\ cbuf \in Seq(Byte)
  /\ Len(buf) < BufLen /\ Len(cbuf) < BufLen
  /\ gDataRxMutex \in {0, 1}
  /\ cloudUp \in BOOLEAN
  /\ gCloudCommandStatus \in {"NA", "REGISTER"}
  /\ dId \in 0 .. MaxMessages
  /\ remote \in Asker \cup {"none"}
  /\ packets \in 0 .. MaxPackets
  /\ executed \subseteq Message /\ read \subseteq Message
  /\ tears \in Nat

(* The mutex is free only while nothing of a message is stored: no discovery packet is
   taken in the middle of a control message, whatever became of its sender. *)
MutexHonest == gDataRxMutex = 1 => buf = <<>>

(* A message that ends is the one its client has sent, or a bare line end, unless it
   is too long for the buffer or follows RestartBelow bytes or more of a broken one. *)
Framed ==
  EndsMessage /\ ~torn.app /\ ~wrapped.app =>
    buf = <<>> \/ \E m \in DOMAIN sent : buf = Whole(m) /\ sent[m].from = client

(* The handlers of events find their addressee in globals (Udp_receiver.remoteIP(),
   tcpClient_control): these still name the host the event came from. *)
AnswersAsker ==
  pc = "events" =>
    \A e \in events : e.from = (IF e.kind = "udp" THEN remote ELSE client)

(* An id is stored only once the cloud has answered a registration, and never from a
   message that names another command.  It need not be the answer's own: a message that
   names no command is taken for one more answer while the last one that did was. *)
IdNeedsRegistration ==
  [][dId' # dId => /\ sent[dId'].from = "cloud" /\ sent[dId'].cmdr # "other"
                   /\ \E r \in DOMAIN sent : sent[r].from = "cloud" /\ sent[r].cmdr = "devRg"]_vars

(* A waiting discovery packet is taken unless the mutex is never free again: every
   control message that ends leaves it free long enough for one packet. *)
DiscoveryGetsTurn == []<>(gDataRxMutex = 1) => []<>(udpIn = <<>>)

(* A broken connection costs the app at most one later message, if that: all others
   that fit into the buffer and are read to their end have their command executed. *)
OneLostPerTear ==
  Cardinality({m \in read \ executed : sent[m].size + 2 < BufLen}) <= tears

(* Every connection is handed out or reset in the end, if those before it end. *)
EachServed ==
  (\A c \in Client : []<>(peer[c] # "open")) =>
    \A c \in Client : peer[c] # "new" ~> (\A i \in DOMAIN backlog : backlog[i] # c)
=============================================================================

---------------------------- MODULE TcpControlProofs ----------------------------
(***************************************************************************)
(* For any clients, hosts, message sizes and buffer length: a message's    *)
(* bytes are stored only while discovery is locked out, answers reach the  *)
(* host that asked, an id is stored only after a registration, messages    *)
(* stay in frame, and a broken connection costs at most one of them.       *)
(***************************************************************************)
EXTENDS TcpControl, SequenceTheorems, FiniteSetTheorems, TLAPS

USE DEF vars, network, appSide, cloudSide, discovery, history, Environment

LEMMA MutexInit == Init => MutexHonest
  BY DEF Init, MutexHonest

(* The mutex and the buffer are written by two steps: a stored byte takes the mutex,
   and the end of a message frees it with the buffer empty. *)
LEMMA MutexStep == MutexHonest /\ [Next]_vars => MutexHonest'
  <1> SUFFICES ASSUME MutexHonest, [Next]_vars PROVE MutexHonest'
    OBVIOUS
  <1> USE DEF MutexHonest
  <1>1. CASE UNCHANGED vars
    BY <1>1
  <1>2. CASE Network
    BY <1>2 DEF Network, Connect, Compose, Arrive, Close, Reset, Vanish, CloudDrop, Ask
  <1>3. CASE eventFwProcess
    BY <1>3 DEF eventFwProcess
  <1>4. CASE receiveMulticastMessage
    BY <1>4 DEF receiveMulticastMessage
  <1>5. CASE handleTcpControlMessages
    BY <1>5 DEF handleTcpControlMessages, TcpAccept, TcpNothing, TcpByte, TcpMessage
  <1>6. CASE handleTcpControlMessages_CLoud
    BY <1>6 DEF handleTcpControlMessages_CLoud, CloudNothing, CloudByte, CloudMessage, Cloud
  <1> QED
    BY <1>1, <1>2, <1>3, <1>4, <1>5, <1>6 DEF Next, Loop

(* No discovery packet is taken while a piece of a control message is stored, however
   its client goes away. *)
THEOREM MutexIsHonest == Spec => []MutexHonest
  BY MutexInit, MutexStep, PTL DEF Spec

-----------------------------------------------------------------------------
(* Where a pass of the loop is tells whose events there can be: none before discovery,
   those of the packet before the app's channel, and those of the message after it. *)
EventsOwned ==
  /\ pc \in {"events", "udp", "tcp", "cloud"}
  /\ pc = "udp" => events = {}
  /\ pc = "tcp" => \A e \in events : e.kind = "udp" /\ e.from = remote
  /\ pc \in {"cloud", "events"} =>
       \A e \in events : e.from = (IF e.kind = "udp" THEN remote ELSE client)

LEMMA OwnedInit == Init => EventsOwned
  BY DEF Init, EventsOwned

LEMMA OwnedByPacket ==
  ASSUME EventsOwned, receiveMulticastMessage
  PROVE  EventsOwned'
  <1> USE DEF EventsOwned, receiveMulticastMessage
  <1>1. CASE ParsePacket
    BY <1>1 DEF ParsePacket
  <1>2. CASE UNCHANGED events
    BY <1>2
  <1> QED
    BY <1>1, <1>2

LEMMA OwnedByMessage ==
  ASSUME EventsOwned, handleTcpControlMessages
  PROVE  EventsOwned'
  <1> USE DEF EventsOwned, Tcp
  <1>1. CASE TcpAccept
    BY <1>1 DEF TcpAccept
  <1>2. CASE TcpNothing
    BY <1>2 DEF TcpNothing
  <1>3. CASE TcpByte
    BY <1>3 DEF TcpByte
  <1>4. CASE TcpMessage
    <2>1. PICK later \in {{}, {[kind |-> "tcp", from |-> client]}} : events' = events \cup later
      BY <1>4 DEF TcpMessage
    <2>2. \A e \in events' : e \in events \/ (e.kind = "tcp" /\ e.from = client)
      BY <2>1
    <2> QED
      BY <1>4, <2>2 DEF TcpMessage
  <1> QED
    BY <1>1, <1>2, <1>3, <1>4 DEF handleTcpControlMessages

LEMMA OwnedStep == EventsOwned /\ [Next]_vars => EventsOwned'
  <1> SUFFICES ASSUME EventsOwned, [Next]_vars PROVE EventsOwned'
    OBVIOUS
  <1> USE DEF EventsOwned
  <1>1. CASE UNCHANGED vars
    BY <1>1
  <1>2. CASE Network
    BY <1>2 DEF Network, Connect, Compose, Arrive, Close, Reset, Vanish, CloudDrop, Ask
  <1>3. CASE eventFwProcess
    BY <1>3 DEF eventFwProcess
  <1>4. CASE handleTcpControlMessages_CLoud
    BY <1>4 DEF handleTcpControlMessages_CLoud, CloudNothing, CloudByte, CloudMessage, Cloud
  <1> QED
    BY <1>1, <1>2, <1>3, <1>4, OwnedByPacket, OwnedByMessage DEF Next, Loop

(* When the handlers run, the globals that hold the addressee still name the host that
   each event came from. *)
THEOREM AskersAnswered == Spec => []AnswersAsker
  <1>1. EventsOwned => AnswersAsker
    BY DEF EventsOwned, AnswersAsker
  <1> QED
    BY <1>1, OwnedInit, OwnedStep, PTL DEF Spec

-----------------------------------------------------------------------------
(* The messages sent, and the cloud's bytes: they belong to messages of the cloud. *)
SentOK ==
  /\ sent \in Seq([from : Sender, size : Size, cmdr : Cmdr \cup {"none"}])
  /\ Len(sent) <= MaxMessages
  /\ \A m \in DOMAIN sent : sent[m].from = "cloud" => sent[m].cmdr \in Cmdr

CloudMessages == {m \in DOMAIN sent : sent[m].from = "cloud"}
CloudBytes == CloudMessages \X Int

CloudTyped ==
  /\ out["cloud"] \in Seq(CloudBytes)
  /\ stream["cloud"] \in Seq(CloudBytes)
  /\ cbuf \in Seq(CloudBytes)

Inv == TypeOK /\ SentOK /\ CloudTyped

(* TypeOK in two parts, the network and the device, and the one Boolean on its own. *)
NetTypes ==
  /\ peer \in [Client -> {"new", "open", "closed", "gone"}]
  /\ out \in [Sender -> Seq(Byte)] /\ stream \in [Sender -> Seq(Byte)]
  /\ backlog \in Seq(Client)
  /\ udpIn \in Seq([from : Asker, len : {0, 1}])
  /\ packets \in 0 .. MaxPackets

DeviceTypes ==
  /\ pc \in {"events", "udp", "tcp", "cloud"}
  /\ client \in Client \cup {"none"}
  /\ rx \in Seq(Byte) /\ buf \in Seq(Byte) /\ cbuf \in Seq(Byte)
  /\ Len(buf) < BufLen /\ Len(cbuf) < BufLen
  /\ gDataRxMutex \in {0, 1}
  /\ gCloudCommandStatus \in {"NA", "REGISTER"}
  /\ dId \in 0 .. MaxMessages
  /\ remote \in Asker \cup {"none"}
  /\ executed \subseteq Message /\ read \subseteq Message
  /\ tears \in Nat

LEMMA Parts == TypeOK <=> NetTypes /\ DeviceTypes /\ cloudUp \in BOOLEAN
  BY DEF TypeOK, NetTypes, DeviceTypes

LEMMA PartsNext == TypeOK' <=> NetTypes' /\ DeviceTypes' /\ cloudUp' \in BOOLEAN
  BY DEF TypeOK, NetTypes, DeviceTypes

LEMMA Numbers ==
  /\ BufLen \in Nat /\ BufLen >= 2 /\ MaxMessages \in Nat /\ MaxPackets \in Nat
  /\ Size \subseteq Nat /\ Terminators \subseteq {1, 2}
  BY ControlAssumption

LEMMA Names ==
  /\ "none" \notin Client /\ "none" \notin Asker /\ "cloud" \notin Client
  /\ "cloud" \in Sender /\ Client \subseteq Sender
  BY ControlAssumption DEF Sender

(* The message that is sent is one of those sent, and every message before it stays. *)
LEMMA MoreSent ==
  ASSUME SentOK, NEW r \in [from : Sender, size : Size, cmdr : Cmdr \cup {"none"}],
         r.from = "cloud" => r.cmdr \in Cmdr,
         Len(sent) < MaxMessages, sent' = Append(sent, r)
  PROVE  /\ SentOK'
         /\ CloudMessages \subseteq CloudMessages'
         /\ Len(sent) + 1 \in Message
         /\ r.from = "cloud" => Len(sent) + 1 \in CloudMessages'
  <1> DEFINE R == [from : Sender, size : Size, cmdr : Cmdr \cup {"none"}]
  <1>1. sent \in Seq(R) /\ r \in R
    BY DEF SentOK
  <1> HIDE DEF R
  <1>2. /\ sent' \in Seq(R)
        /\ Len(sent') = Len(sent) + 1 /\ Len(sent) \in Nat
        /\ DOMAIN sent' = 1 .. Len(sent) + 1 /\ DOMAIN sent = 1 .. Len(sent)
        /\ \A m \in DOMAIN sent : sent'[m] = sent[m]
        /\ sent'[Len(sent) + 1] = r
    BY <1>1
  <1>3. \A m \in DOMAIN sent' : sent'[m].from = "cloud" => sent'[m].cmdr \in Cmdr
    BY <1>2 DEF SentOK
  <1>4. SentOK'
    BY <1>2, <1>3, Numbers DEF SentOK, R
  <1> QED
    BY <1>2, <1>4, Numbers DEF CloudMessages, Message

(* What is put on the network is a sequence of bytes of that message. *)
LEMMA Written ==
  ASSUME NEW m, NEW size \in Nat, NEW ends \in {1, 2}
  PROVE  Object(m, size) \o [i \in 1 .. ends |-> <<m, END>>] \in Seq({m} \X Int)
  <1> DEFINE B == {m} \X Int
             head == [i \in 1 .. size + 2 |-> <<m, i - 1>>]
             tail == [i \in 1 .. ends |-> <<m, END>>]
  <1>1. head \in [1 .. size + 2 -> B] /\ tail \in [1 .. ends -> B]
    BY DEF END
  <1>2. head \in Seq(B) /\ tail \in Seq(B)
    <2> HIDE DEF head, tail, B
    <2> QED BY <1>1, SeqDef
  <1> HIDE DEF head, tail, B
  <1>3. head \o tail \in Seq(B)
    BY <1>2, ConcatProperties
  <1> QED
    BY <1>3 DEF Object, head, tail, B

LEMMA InvInit == Init => Inv
  <1> SUFFICES ASSUME Init PROVE Inv
    OBVIOUS
  <1>1. TypeOK
    <2>1. NetTypes
      BY Numbers DEF Init, NetTypes
    <2>2. DeviceTypes
      BY Numbers DEF Init, DeviceTypes
    <2> QED
      BY <2>1, <2>2, Parts DEF Init
  <1>2. SentOK
    BY Numbers DEF Init, SentOK
  <1>3. CloudTyped
    BY Names DEF Init, CloudTyped
  <1> QED
    BY <1>1, <1>2, <1>3 DEF Inv

(* The network: most of its steps move bytes, and Compose makes new ones. *)
LEMMA StreamsTyped ==
  ASSUME TypeOK, NEW s \in Sender, NEW n \in 1 .. Len(out[s])
  PROVE  /\ stream[s] \o SubSeq(out[s], 1, n) \in Seq(Byte)
         /\ SubSeq(out[s], n + 1, Len(out[s])) \in Seq(Byte)
  <1>1. out[s] \in Seq(Byte) /\ stream[s] \in Seq(Byte)
    BY DEF TypeOK
  <1>2. \A i \in 1 .. Len(out[s]) : out[s][i] \in Byte
    BY <1>1, ElementOfSeq
  <1>3. Len(out[s]) \in Nat
    BY <1>1
  <1>4. SubSeq(out[s], 1, n) \in Seq(Byte) /\ SubSeq(out[s], n + 1, Len(out[s])) \in Seq(Byte)
    BY <1>1, <1>2, <1>3, SubSeqProperties
  <1> QED
    BY <1>1, <1>4, ConcatProperties

LEMMA CloudStreamTyped ==
  ASSUME CloudTyped, NEW n \in 1 .. Len(out["cloud"])
  PROVE  /\ stream["cloud"] \o SubSeq(out["cloud"], 1, n) \in Seq(CloudBytes)
         /\ SubSeq(out["cloud"], n + 1, Len(out["cloud"])) \in Seq(CloudBytes)
  <1>1. out["cloud"] \in Seq(CloudBytes) /\ stream["cloud"] \in Seq(CloudBytes)
    BY DEF CloudTyped
  <1>2. \A i \in 1 .. Len(out["cloud"]) : out["cloud"][i] \in CloudBytes
    BY <1>1, ElementOfSeq
  <1>3. Len(out["cloud"]) \in Nat
    BY <1>1
  <1>4. /\ SubSeq(out["cloud"], 1, n) \in Seq(CloudBytes)
        /\ SubSeq(out["cloud"], n + 1, Len(out["cloud"])) \in Seq(CloudBytes)
    BY <1>1, <1>2, <1>3, SubSeqProperties
  <1> QED
    BY <1>1, <1>4, ConcatProperties

LEMMA ArriveInv ==
  ASSUME Inv, NEW s \in Sender, NEW n \in 1 .. Len(out[s]), Arrive(s, n)
  PROVE  Inv'
  <1> DEFINE more == stream[s] \o SubSeq(out[s], 1, n)
             rest == SubSeq(out[s], n + 1, Len(out[s]))
  <1>1. more \in Seq(Byte) /\ rest \in Seq(Byte)
    BY StreamsTyped DEF Inv
  <1>2. s = "cloud" => more \in Seq(CloudBytes) /\ rest \in Seq(CloudBytes)
    BY CloudStreamTyped DEF Inv
  <1>3. stream' = [stream EXCEPT ![s] = more] /\ out' = [out EXCEPT ![s] = rest]
    BY DEF Arrive
  <1> HIDE DEF more, rest
  <1>4. TypeOK'
    BY <1>1, <1>3 DEF Inv, TypeOK, Arrive
  <1>5. SentOK' /\ CloudBytes' = CloudBytes
    BY DEF Inv, SentOK, CloudBytes, CloudMessages, Arrive
  <1>6. CloudTyped'
    BY <1>2, <1>3, <1>5, Names DEF Inv, TypeOK, CloudTyped, Arrive
  <1> QED
    BY <1>4, <1>5, <1>6 DEF Inv

LEMMA ComposeInv ==
  ASSUME Inv, NEW s \in Sender, NEW size \in Size, NEW ends \in Terminators, Compose(s, size, ends)
  PROVE  Inv'
  <1> DEFINE m == Len(sent) + 1
             text == Object(m, size) \o [i \in 1 .. ends |-> <<m, END>>]
  <1>1. PICK cmdr \in (IF s = "cloud" THEN Cmdr ELSE {"none"}) :
          sent' = Append(sent, [from |-> s, size |-> size, cmdr |-> cmdr])
    BY DEF Compose
  <1> DEFINE r == [from |-> s, size |-> size, cmdr |-> cmdr]
  <1>2. r \in [from : Sender, size : Size, cmdr : Cmdr \cup {"none"}] /\ (r.from = "cloud" => r.cmdr \in Cmdr)
    BY <1>1
  <1>3. Len(sent) < MaxMessages /\ SentOK
    BY DEF Compose, Inv
  <1>4. /\ SentOK' /\ CloudMessages \subseteq CloudMessages' /\ m \in Message
        /\ s = "cloud" => m \in CloudMessages'
    BY <1>1, <1>2, <1>3, MoreSent
  <1>5. text \in Seq({m} \X Int)
    BY Written, Numbers
  <1>6. text \in Seq(Byte) /\ (s = "cloud" => text \in Seq(CloudBytes'))
    <2>1. {m} \X Int \subseteq Byte /\ (s = "cloud" => {m} \X Int \subseteq CloudBytes')
      BY <1>4 DEF Byte, CloudBytes
    <2> HIDE DEF text, m
    <2> QED
      BY <1>5, <2>1, SeqMonotonic
  <1>7. out' = [out EXCEPT ![s] = text]
    BY DEF Compose
  <1> HIDE DEF text, m, r
  <1>8. TypeOK'
    BY <1>6, <1>7 DEF Inv, TypeOK, Compose
  <1>9. CloudTyped'
    <2>1. CloudBytes \subseteq CloudBytes'
      BY <1>4 DEF CloudBytes
    <2>2. /\ out["cloud"] \in Seq(CloudBytes') /\ stream["cloud"] \in Seq(CloudBytes')
          /\ cbuf \in Seq(CloudBytes')
      BY <2>1, SeqMonotonic DEF Inv, CloudTyped
    <2>3. stream' = stream /\ cbuf' = cbuf
      BY DEF Compose
    <2>4. out'["cloud"] \in Seq(CloudBytes')
      BY <1>6, <1>7, <2>2, Names DEF Inv, TypeOK
    <2> QED
      BY <2>2, <2>3, <2>4 DEF CloudTyped
  <1> QED
    BY <1>4, <1>8, <1>9 DEF Inv

LEMMA NetworkInv == Inv /\ Network => Inv'
  <1> SUFFICES ASSUME Inv, Network PROVE Inv'
    OBVIOUS
  <1>1. ASSUME NEW c \in Client, Connect(c) \/ Close(c) \/ Reset(c) \/ Vanish(c)
        PROVE  Inv'
    <2> USE <1>1
    <2>1. TypeOK'
      <3>1. NetTypes'
        <4>1. c \in Sender /\ NetTypes
          BY Parts, Names DEF Inv
        <4>2. CASE Connect(c)
          BY <4>1, <4>2 DEF NetTypes, Connect
        <4>3. CASE Close(c)
          BY <4>1, <4>3 DEF NetTypes, Close
        <4>4. CASE Reset(c)
          BY <4>1, <4>4 DEF NetTypes, Reset
        <4>5. CASE Vanish(c)
          BY <4>1, <4>5 DEF NetTypes, Vanish
        <4> QED
          BY <4>2, <4>3, <4>4, <4>5
      <3>2. DeviceTypes' /\ UNCHANGED cloudUp
        BY Parts DEF Inv, DeviceTypes, Connect, Close, Reset, Vanish
      <3> QED
        BY <3>1, <3>2, Parts, PartsNext DEF Inv
    <2>2. SentOK' /\ CloudBytes' = CloudBytes
      BY DEF Inv, SentOK, CloudBytes, CloudMessages, Connect, Close, Reset, Vanish
    <2>3. out'["cloud"] = out["cloud"] /\ stream'["cloud"] = stream["cloud"] /\ cbuf' = cbuf
      BY Names DEF Inv, TypeOK, Connect, Close, Reset, Vanish
    <2> QED
      BY <2>1, <2>2, <2>3 DEF Inv, CloudTyped
  <1>2. CASE CloudDrop
    <2>1. TypeOK'
      <3>1. NetTypes'
        BY <1>2, Parts, Names DEF Inv, NetTypes, CloudDrop
      <3>2. DeviceTypes' /\ cloudUp' \in BOOLEAN
        BY <1>2, Parts DEF Inv, DeviceTypes, CloudDrop
      <3> QED
        BY <3>1, <3>2, PartsNext
    <2>2. SentOK' /\ CloudBytes' = CloudBytes
      BY <1>2 DEF Inv, SentOK, CloudBytes, CloudMessages, CloudDrop
    <2>3. CloudTyped'
      BY <1>2, <2>2, Names DEF Inv, TypeOK, CloudTyped, CloudDrop
    <2> QED
      BY <2>1, <2>2, <2>3 DEF Inv
  <1>3. ASSUME NEW a \in Asker, NEW len \in {0, 1}, Ask(a, len)
        PROVE  Inv'
    <2>1. TypeOK'
      BY <1>3, Numbers DEF Inv, TypeOK, Ask
    <2>2. SentOK' /\ CloudBytes' = CloudBytes /\ UNCHANGED <<out, stream, cbuf>>
      BY <1>3 DEF Inv, SentOK, CloudBytes, CloudMessages, Ask
    <2> QED
      BY <2>1, <2>2 DEF Inv, CloudTyped
  <1> QED
    BY <1>1, <1>2, <1>3, ArriveInv, ComposeInv DEF Network

(* What a step leaves of the messages and of the cloud's bytes. *)
LEMMA CloudKept ==
  ASSUME Inv, UNCHANGED <<sent, cbuf>>,
         out'["cloud"] \in {out["cloud"], <<>>}, stream'["cloud"] \in {stream["cloud"], <<>>}
  PROVE  SentOK' /\ CloudTyped'
  <1>1. SentOK' /\ CloudBytes' = CloudBytes
    BY DEF Inv, SentOK, CloudBytes, CloudMessages
  <1>2. <<>> \in Seq(CloudBytes)
    OBVIOUS
  <1>3. out'["cloud"] \in Seq(CloudBytes) /\ stream'["cloud"] \in Seq(CloudBytes)
    BY <1>2 DEF Inv, CloudTyped
  <1>4. cbuf' \in Seq(CloudBytes)
    BY DEF Inv, CloudTyped
  <1> QED
    BY <1>1, <1>3, <1>4 DEF CloudTyped

LEMMA EventsInv == Inv /\ eventFwProcess => Inv'
  <1> SUFFICES ASSUME Inv, eventFwProcess PROVE Inv'
    OBVIOUS
  <1>1. NetTypes /\ DeviceTypes /\ cloudUp \in BOOLEAN
    BY Parts DEF Inv
  <1>2. DeviceTypes' /\ UNCHANGED <<sent, cbuf>>
    BY <1>1 DEF DeviceTypes, eventFwProcess
  <1>3. CASE sendIdentityResponse_Cloud /\ UNCHANGED <<peer, out, backlog>>
    <2>1. NetTypes' /\ cloudUp' \in BOOLEAN /\ stream'["cloud"] = <<>>
      BY <1>1, <1>3, Names DEF NetTypes, eventFwProcess, sendIdentityResponse_Cloud
    <2> QED
      BY <1>2, <1>3, <2>1, PartsNext, CloudKept DEF Inv
  <1>4. CASE reInitTcpServer
    <2> DEFINE Dropped == {backlog[i] : i \in DOMAIN backlog}
    <2>1. /\ backlog' = <<>>
          /\ peer' = [c \in Client |-> IF c \in Dropped THEN "closed" ELSE peer[c]]
          /\ out' = [s \in Sender |-> IF s \in Dropped THEN <<>> ELSE out[s]]
          /\ stream' = [s \in Sender |-> IF s \in Dropped THEN <<>> ELSE stream[s]]
          /\ UNCHANGED <<cloudUp, udpIn, packets>>
      BY <1>4 DEF reInitTcpServer, eventFwProcess
    <2> HIDE DEF Dropped
    <2>2. NetTypes' /\ cloudUp' \in BOOLEAN
      BY <1>1, <2>1 DEF NetTypes
    <2>3. out'["cloud"] \in {out["cloud"], <<>>} /\ stream'["cloud"] \in {stream["cloud"], <<>>}
      BY <2>1, Names
    <2> QED
      BY <1>2, <2>2, <2>3, PartsNext, CloudKept DEF Inv
  <1>5. CASE UNCHANGED <<peer, out, backlog, cloudUp, stream, torn>>
    <2>1. NetTypes' /\ cloudUp' \in BOOLEAN
      BY <1>1, <1>5 DEF NetTypes, eventFwProcess
    <2> QED
      BY <1>2, <1>5, <2>1, PartsNext, CloudKept DEF Inv
  <1> QED
    BY <1>3, <1>4, <1>5 DEF eventFwProcess

LEMMA PacketInv == Inv /\ receiveMulticastMessage => Inv'
  <1> SUFFICES ASSUME Inv, receiveMulticastMessage PROVE Inv'
    OBVIOUS
  <1>1. NetTypes /\ DeviceTypes /\ cloudUp \in BOOLEAN
    BY Parts DEF Inv
  <1>2. udpIn' \in Seq([from : Asker, len : {0, 1}]) /\ remote' \in Asker \cup {"none"}
    <2>1. CASE ParsePacket
      <3> DEFINE P == [from : Asker, len : {0, 1}]
      <3>2. udpIn \in Seq(P) /\ udpIn # <<>>
        BY <1>1, <2>1 DEF NetTypes, ParsePacket
      <3> HIDE DEF P
      <3>3. Head(udpIn) \in P /\ Tail(udpIn) \in Seq(P)
        BY <3>2, HeadTailProperties
      <3>1. Head(udpIn) \in [from : Asker, len : {0, 1}] /\ Tail(udpIn) \in Seq([from : Asker, len : {0, 1}])
        BY <3>3 DEF P
      <3> QED
        BY <2>1, <3>1 DEF ParsePacket
    <2>2. CASE UNCHANGED <<udpIn, remote, events>>
      BY <1>1, <2>2 DEF NetTypes, DeviceTypes
    <2> QED
      BY <2>1, <2>2 DEF receiveMulticastMessage
  <1>3. NetTypes' /\ DeviceTypes' /\ cloudUp' \in BOOLEAN
    BY <1>1, <1>2 DEF NetTypes, DeviceTypes, receiveMulticastMessage
  <1>4. UNCHANGED <<sent, cbuf, out, stream>>
    BY DEF receiveMulticastMessage
  <1> QED
    BY <1>3, <1>4, PartsNext, CloudKept DEF Inv

-----------------------------------------------------------------------------
(* A byte of the app's channel comes out of the client's own stream. *)
LEMMA FetchTyped ==
  ASSUME Inv, NextByte, Fetch
  PROVE  /\ Head(Fetched) \in Byte
         /\ rx' \in Seq(Byte)
         /\ stream' \in [Sender -> Seq(Byte)]
         /\ stream'["cloud"] = stream["cloud"]
  <1>1. NetTypes /\ DeviceTypes /\ client \in Client
    BY Parts DEF Inv, DeviceTypes, NextByte, Connected
  <1>2. client \in Sender /\ client # "cloud"
    BY <1>1, Names
  <1>3. Fetched \in Seq(Byte) /\ Fetched # <<>>
    BY <1>1, <1>2 DEF Fetched, NetTypes, DeviceTypes, NextByte
  <1>4. Head(Fetched) \in Byte /\ Tail(Fetched) \in Seq(Byte)
    BY <1>3
  <1>5. stream' \in [Sender -> Seq(Byte)] /\ stream'["cloud"] = stream["cloud"]
    BY <1>1, <1>2, Names DEF Fetch, NetTypes
  <1> QED
    BY <1>4, <1>5 DEF Fetch

(* The buffers never reach their length: the pointer that would is 0 again. *)
LEMMA AddedTyped ==
  ASSUME NEW S, NEW text \in Seq(S), NEW b \in S, Len(text) < BufLen
  PROVE  /\ Added(text, b) \in Seq(S) /\ Len(Added(text, b)) < BufLen
         /\ Stored(text, b) \in Seq(S) /\ Len(Stored(text, b)) < BufLen
  <1>1. Added(text, b) \in Seq(S) /\ Len(Added(text, b)) < BufLen
    BY Numbers DEF Added
  <1>2. <<b>> \in Seq(S) /\ Len(<<b>>) < BufLen
    BY Numbers
  <1> QED
    BY <1>1, <1>2 DEF Stored

LEMMA CommandsSent ==
  ASSUME Inv, NEW text
  PROVE  Command(text) \subseteq DOMAIN sent /\ Command(text) \subseteq Message
  <1>1. DOMAIN sent = 1 .. Len(sent) /\ Len(sent) \in Nat /\ Len(sent) <= MaxMessages
    BY DEF Inv, SentOK
  <1> QED
    BY <1>1, Numbers DEF Command, Message

LEMMA AppInv == Inv /\ handleTcpControlMessages => Inv'
  <1> SUFFICES ASSUME Inv, handleTcpControlMessages PROVE Inv'
    OBVIOUS
  <1>1. NetTypes /\ DeviceTypes /\ cloudUp \in BOOLEAN
    BY Parts DEF Inv
  <1>2. pc' = "cloud" /\ UNCHANGED <<peer, out, udpIn, cloudUp, cbuf, gCloudCommandStatus, dId, remote, packets, sent>>
    BY DEF handleTcpControlMessages, TcpAccept, TcpNothing, TcpByte, TcpMessage, Tcp
  <1>3. CASE TcpAccept
    <2>1. backlog' \in Seq(Client) /\ client' \in Client \cup {"none"} /\ rx' = <<>>
      BY <1>1, <1>3 DEF NetTypes, TcpAccept
    <2>2. UNCHANGED <<stream, buf, gDataRxMutex, executed, read>>
      BY <1>3 DEF TcpAccept
    <2>3. tears' \in Nat
      BY <1>1, <1>3 DEF DeviceTypes, TcpAccept, LeavesPiece
    <2>4. NetTypes' /\ DeviceTypes'
      BY <1>1, <1>2, <2>1, <2>2, <2>3 DEF NetTypes, DeviceTypes
    <2> QED
      BY <1>1, <1>2, <2>2, <2>4, PartsNext, CloudKept DEF Inv
  <1>4. CASE TcpNothing
    <2>1. UNCHANGED <<backlog, stream, client, rx, buf, gDataRxMutex, executed, read, tears>>
      BY <1>4 DEF TcpNothing
    <2>2. NetTypes' /\ DeviceTypes'
      BY <1>1, <1>2, <2>1 DEF NetTypes, DeviceTypes
    <2> QED
      BY <1>1, <1>2, <2>1, <2>2, PartsNext, CloudKept DEF Inv
  <1>5. CASE TcpByte
    <2>1. /\ Head(Fetched) \in Byte /\ rx' \in Seq(Byte) /\ stream' \in [Sender -> Seq(Byte)]
          /\ stream'["cloud"] = stream["cloud"]
      BY <1>5, FetchTyped DEF TcpByte
    <2>2. buf' \in Seq(Byte) /\ Len(buf') < BufLen
      BY <1>1, <1>5, <2>1, AddedTyped DEF DeviceTypes, TcpByte
    <2>3. gDataRxMutex' = 0 /\ UNCHANGED <<client, backlog, executed, read, tears>>
      BY <1>5 DEF TcpByte
    <2>4. NetTypes' /\ DeviceTypes'
      BY <1>1, <1>2, <2>1, <2>2, <2>3 DEF NetTypes, DeviceTypes
    <2> QED
      BY <1>1, <1>2, <2>1, <2>4, PartsNext, CloudKept DEF Inv
  <1>6. CASE TcpMessage
    <2>1. /\ Head(Fetched) \in Byte /\ rx' \in Seq(Byte) /\ stream' \in [Sender -> Seq(Byte)]
          /\ stream'["cloud"] = stream["cloud"]
      BY <1>6, FetchTyped DEF TcpMessage, EndsMessage
    <2>2. executed' \subseteq Message /\ read' \subseteq Message
      BY <1>1, <1>6, <2>1, CommandsSent DEF DeviceTypes, TcpMessage, Byte
    <2>3. buf' = <<>> /\ gDataRxMutex' = 1 /\ UNCHANGED <<client, backlog, tears>>
      BY <1>6 DEF TcpMessage
    <2>4. NetTypes' /\ DeviceTypes'
      BY <1>1, <1>2, <2>1, <2>2, <2>3, Numbers DEF NetTypes, DeviceTypes
    <2> QED
      BY <1>1, <1>2, <2>1, <2>4, PartsNext, CloudKept DEF Inv
  <1> QED
    BY <1>3, <1>4, <1>5, <1>6 DEF handleTcpControlMessages

-----------------------------------------------------------------------------
LEMMA CloudBytesAreBytes == Inv => CloudBytes \subseteq Byte
  <1> SUFFICES ASSUME Inv PROVE CloudMessages \subseteq Message
    BY DEF CloudBytes, Byte
  <1>1. DOMAIN sent = 1 .. Len(sent) /\ Len(sent) \in Nat /\ Len(sent) <= MaxMessages
    BY DEF Inv, SentOK
  <1> QED
    BY <1>1, Numbers DEF CloudMessages, Message

LEMMA CloudInv == Inv /\ handleTcpControlMessages_CLoud => Inv'
  <1> SUFFICES ASSUME Inv, handleTcpControlMessages_CLoud PROVE Inv'
    OBVIOUS
  <1>1. NetTypes /\ DeviceTypes /\ cloudUp \in BOOLEAN /\ CloudTyped
    BY Parts DEF Inv
  <1>2. pc' = "events" /\ UNCHANGED <<peer, out, backlog, udpIn, client, rx, buf, gDataRxMutex, cloudUp,
                                      remote, packets, sent, executed, read, tears>>
    BY DEF handleTcpControlMessages_CLoud, CloudNothing, CloudByte, CloudMessage, Cloud
  <1>3. SentOK' /\ CloudBytes' = CloudBytes
    BY <1>2 DEF Inv, SentOK, CloudBytes, CloudMessages
  <1>4. CASE CloudNothing
    <2>1. UNCHANGED <<stream, cbuf, gCloudCommandStatus, dId>>
      BY <1>4 DEF CloudNothing
    <2>2. NetTypes' /\ DeviceTypes'
      BY <1>1, <1>2, <2>1 DEF NetTypes, DeviceTypes
    <2> QED
      BY <1>1, <1>2, <2>1, <2>2, PartsNext, CloudKept DEF Inv
  <1> DEFINE s == stream["cloud"]
  <1>5. ASSUME s # <<>>, stream' = [stream EXCEPT !["cloud"] = Tail(@)]
        PROVE  /\ stream' \in [Sender -> Seq(Byte)] /\ stream'["cloud"] \in Seq(CloudBytes)
               /\ Head(s) \in CloudBytes /\ Head(s) \in Byte
    <2>1. s \in Seq(CloudBytes) /\ s \in Seq(Byte)
      BY <1>1, Names DEF NetTypes, CloudTyped
    <2> HIDE DEF s
    <2>2. Tail(s) \in Seq(CloudBytes) /\ Tail(s) \in Seq(Byte) /\ Head(s) \in CloudBytes
      BY <1>5, <2>1, HeadTailProperties
    <2>3. stream' = [stream EXCEPT !["cloud"] = Tail(s)]
      BY <1>5 DEF s
    <2> QED
      BY <1>1, <2>2, <2>3, CloudBytesAreBytes, Names DEF NetTypes
  <1>6. CASE CloudByte
    <2>1. s # <<>> /\ stream' = [stream EXCEPT !["cloud"] = Tail(@)] /\ cbuf' = Added(cbuf, Head(s))
      BY <1>6 DEF CloudByte
    <2>2. cbuf' \in Seq(CloudBytes) /\ cbuf' \in Seq(Byte) /\ Len(cbuf') < BufLen
      BY <1>1, <1>5, <2>1, AddedTyped DEF DeviceTypes, CloudTyped
    <2>3. UNCHANGED <<gCloudCommandStatus, dId>>
      BY <1>6 DEF CloudByte
    <2>4. NetTypes' /\ DeviceTypes'
      BY <1>1, <1>2, <1>5, <2>1, <2>2, <2>3 DEF NetTypes, DeviceTypes
    <2>5. CloudTyped'
      BY <1>1, <1>2, <1>3, <1>5, <2>1, <2>2 DEF CloudTyped
    <2> QED
      BY <1>1, <1>2, <1>3, <2>4, <2>5, PartsNext DEF Inv
  <1>7. CASE CloudMessage
    <2>1. s # <<>> /\ stream' = [stream EXCEPT !["cloud"] = Tail(@)] /\ cbuf' = <<>>
      BY <1>7 DEF CloudMessage
    <2>2. gCloudCommandStatus' \in {"NA", "REGISTER"}
      BY <1>1, <1>7 DEF DeviceTypes, CloudMessage, Decoded
    <2>3. dId' \in 0 .. MaxMessages
      <3>1. dId' = dId \/ dId' \in Command(cbuf)
        BY <1>7 DEF CloudMessage
      <3> QED
        BY <1>1, <3>1, CommandsSent, Numbers DEF DeviceTypes, Message
    <2>4. NetTypes' /\ DeviceTypes'
      BY <1>1, <1>2, <1>5, <2>1, <2>2, <2>3, Numbers DEF NetTypes, DeviceTypes
    <2>5. CloudTyped'
      BY <1>1, <1>2, <1>3, <1>5, <2>1 DEF CloudTyped
    <2> QED
      BY <1>1, <1>2, <1>3, <2>4, <2>5, PartsNext DEF Inv
  <1> QED
    BY <1>4, <1>6, <1>7 DEF handleTcpControlMessages_CLoud

LEMMA Inductive == Spec => []Inv
  <1>1. Inv /\ [Next]_vars => Inv'
    <2> SUFFICES ASSUME Inv, [Next]_vars PROVE Inv'
      OBVIOUS
    <2>1. CASE UNCHANGED vars
      <3>1. TypeOK'
        BY <2>1 DEF Inv, TypeOK
      <3>2. UNCHANGED <<sent, cbuf, out, stream>>
        BY <2>1
      <3> QED
        BY <3>1, <3>2, CloudKept DEF Inv
    <2> QED
      BY <2>1, NetworkInv, EventsInv, PacketInv, AppInv, CloudInv DEF Next, Loop
  <1> QED
    BY <1>1, InvInit, PTL DEF Spec

(* Types: above all, neither buffer is ever filled to its length. *)
THEOREM TcpTypes == Spec => []TypeOK
  <1>1. Inv => TypeOK
    BY DEF Inv
  <1> QED
    BY <1>1, Inductive, PTL

(* A text that begins with a whole message begins with the first byte of it, so that
   it begins with no other. *)
LEMMA CommandIsFirst ==
  ASSUME Inv, NEW m \in Command(cbuf)
  PROVE  cbuf[1] = <<m, 0>> /\ m \in CloudMessages
  <1> DEFINE w == Whole(m)
             n == sent[m].size
  <1>1. m \in DOMAIN sent /\ Starts(w, cbuf)
    BY DEF Command
  <1>2. n \in Nat
    <2> DEFINE R == [from : Sender, size : Size, cmdr : Cmdr \cup {"none"}]
    <2>1. sent \in Seq(R) /\ m \in 1 .. Len(sent)
      BY <1>1 DEF Inv, SentOK
    <2>2. sent[m] \in R
      <3> HIDE DEF R
      <3> QED BY <2>1, ElementOfSeq
    <2> QED
      BY <2>2, Numbers
  <1>3. w = [i \in 1 .. n + 2 |-> <<m, i - 1>>]
    BY DEF Whole, Object
  <1>4. w[1] = <<m, 0>> /\ w \in Seq({m} \X Int) /\ Len(w) >= 1
    <2>1. w \in [1 .. n + 2 -> {m} \X Int]
      BY <1>2, <1>3
    <2>2. 1 \in 1 .. n + 2 /\ 1 - 1 = 0
      BY <1>2
    <2>3. w[1] = <<m, 0>>
      BY <1>3, <2>2
    <2>4. w \in Seq({m} \X Int) /\ DOMAIN w = 1 .. n + 2
      <3> HIDE DEF w, n
      <3> QED BY <1>2, <2>1, SeqDef
    <2>5. DOMAIN w = 1 .. Len(w) /\ Len(w) \in Nat
      <3> HIDE DEF w
      <3> QED BY <2>4
    <2> HIDE DEF w, n
    <2> QED
      BY <1>2, <2>2, <2>3, <2>4, <2>5
  <1> HIDE DEF w, n
  <1>5. cbuf \in Seq(CloudBytes) /\ Len(w) <= Len(cbuf) /\ SubSeq(cbuf, 1, Len(w)) = w
    BY <1>1 DEF Inv, CloudTyped, Starts
  <1>6. Len(w) \in Nat /\ Len(cbuf) \in Nat
    BY <1>4, <1>5
  <1>7. \A i \in 1 .. Len(w) : cbuf[i] \in CloudBytes
    BY <1>5, <1>6, ElementOfSeq
  <1>8. SubSeq(cbuf, 1, Len(w))[1] = cbuf[1]
    <2>1. \A i \in 1 .. Len(w) - 1 + 1 : SubSeq(cbuf, 1, Len(w))[i] = cbuf[1 + i - 1]
      BY <1>6, <1>7, SubSeqProperties
    <2> QED
      BY <1>4, <1>6, <2>1
  <1>9. cbuf[1] = <<m, 0>> /\ cbuf[1] \in CloudBytes
    BY <1>4, <1>5, <1>6, <1>7, <1>8
  <1> QED
    BY <1>9 DEF CloudBytes

(* The status of the last command is that of a registration only if there was one. *)
Registered == \E r \in DOMAIN sent : sent[r].from = "cloud" /\ sent[r].cmdr = "devRg"
StatusHonest == gCloudCommandStatus = "REGISTER" => Registered

(* The commands found in what the cloud has sent are the cloud's. *)
LEMMA CommandOfCloud ==
  ASSUME Inv, NEW m \in Command(cbuf)
  PROVE  m \in DOMAIN sent /\ sent[m].from = "cloud"
  BY CommandIsFirst DEF CloudMessages

LEMMA DecodedHonest ==
  ASSUME Inv, StatusHonest, Decoded(cbuf) = "REGISTER"
  PROVE  Registered
  <1>1. CASE \E m \in Command(cbuf) : sent[m].cmdr = "devRg"
    BY <1>1, CommandOfCloud DEF Registered
  <1>2. CASE ~\E m \in Command(cbuf) : sent[m].cmdr = "devRg"
    <2>1. gCloudCommandStatus = "REGISTER"
      BY <1>2 DEF Decoded
    <2> QED
      BY <2>1 DEF StatusHonest
  <1> QED
    BY <1>1, <1>2

(* What has been sent stays sent. *)
LEMMA RegisteredStays ==
  ASSUME Inv, Next, Registered
  PROVE  Registered'
  <1>1. DOMAIN sent \subseteq DOMAIN sent' /\ \A r \in DOMAIN sent : sent'[r] = sent[r]
    <2>1. CASE UNCHANGED sent
      BY <2>1
    <2>2. CASE \E s \in Sender : \E size \in Size, ends \in Terminators : Compose(s, size, ends)
      <3>1. PICK s \in Sender, size \in Size, ends \in Terminators : Compose(s, size, ends)
        BY <2>2
      <3>2. PICK cmdr : sent' = Append(sent, [from |-> s, size |-> size, cmdr |-> cmdr])
        BY <3>1 DEF Compose
      <3> DEFINE r == [from |-> s, size |-> size, cmdr |-> cmdr]
                 S == [from : Sender, size : Size, cmdr : Cmdr \cup {"none"}] \cup {r}
      <3>3. sent \in Seq(S) /\ r \in S
        <4>1. sent \in Seq([from : Sender, size : Size, cmdr : Cmdr \cup {"none"}])
          BY DEF Inv, SentOK
        <4> QED
          BY <4>1, SeqMonotonic
      <3> HIDE DEF r, S
      <3>4. sent' = Append(sent, r)
        BY <3>2 DEF r
      <3> QED
        BY <3>3, <3>4
    <2> QED
      BY <2>1, <2>2
      DEF Next, Loop, Network, Connect, Arrive, Close, Reset, Vanish, CloudDrop, Ask,
          eventFwProcess, receiveMulticastMessage,
          handleTcpControlMessages, TcpAccept, TcpNothing, TcpByte, TcpMessage, Tcp,
          handleTcpControlMessages_CLoud, CloudNothing, CloudByte, CloudMessage, Cloud
  <1> QED
    BY <1>1 DEF Registered

LEMMA StatusStep == Inv /\ StatusHonest /\ [Next]_vars => StatusHonest'
  <1> SUFFICES ASSUME Inv, StatusHonest, [Next]_vars, gCloudCommandStatus' = "REGISTER"
               PROVE  Registered'
    BY DEF StatusHonest
  <1>1. CASE UNCHANGED vars
    BY <1>1 DEF StatusHonest, Registered
  <1>2. CASE Next
    <2>1. CASE CloudMessage
      BY <1>2, <2>1, DecodedHonest, RegisteredStays DEF CloudMessage
    <2>2. CASE ~CloudMessage
      <3>1. UNCHANGED gCloudCommandStatus
        BY <1>2, <2>2
        DEF Next, Loop, Network, Connect, Compose, Arrive, Close, Reset, Vanish, CloudDrop, Ask,
            eventFwProcess, receiveMulticastMessage,
            handleTcpControlMessages, TcpAccept, TcpNothing, TcpByte, TcpMessage, Tcp,
            handleTcpControlMessages_CLoud, CloudNothing, CloudByte
      <3> QED
        BY <1>2, <3>1, RegisteredStays DEF StatusHonest
    <2> QED
      BY <2>1, <2>2
  <1> QED
    BY <1>1, <1>2

LEMMA StatusIsHonest == Spec => []StatusHonest
  <1>1. Init => StatusHonest
    BY DEF Init, StatusHonest
  <1> QED
    BY <1>1, StatusStep, Inductive, PTL DEF Spec

(* Whatever the messages of the cloud say, an id is stored only once the cloud has
   answered a registration, and never from a message that names another command. *)
THEOREM IdsNeedRegistration == Spec => IdNeedsRegistration
  <1> DEFINE Honest == dId' # dId => /\ sent[dId'].from = "cloud" /\ sent[dId'].cmdr # "other"
                                     /\ Registered
  <1>1. Inv /\ StatusHonest /\ [Next]_vars => [Honest]_vars
    <2> SUFFICES ASSUME Inv, StatusHonest, Next, dId' # dId
                 PROVE  sent[dId'].from = "cloud" /\ sent[dId'].cmdr # "other" /\ Registered
      OBVIOUS
    <2>1. CloudMessage
      BY DEF Next, Loop, Network, Connect, Compose, Arrive, Close, Reset, Vanish, CloudDrop, Ask,
             eventFwProcess, receiveMulticastMessage,
             handleTcpControlMessages, TcpAccept, TcpNothing, TcpByte, TcpMessage, Tcp,
             handleTcpControlMessages_CLoud, CloudNothing, CloudByte
    <2>2. Decoded(cbuf) = "REGISTER" /\ dId' \in Command(cbuf)
      BY <2>1 DEF CloudMessage
    <2>3. \A m \in Command(cbuf) : m = dId'
      <3>1. \A m \in Command(cbuf) : cbuf[1] = <<m, 0>>
        BY CommandIsFirst
      <3> QED
        BY <2>2, <3>1
    <2>4. sent[dId'].cmdr # "other"
      BY <2>2, <2>3 DEF Decoded
    <2> QED
      BY <2>2, <2>4, CommandOfCloud, DecodedHonest
  <1> QED
    BY <1>1, StatusIsHonest, Inductive, PTL DEF Spec, IdNeedsRegistration, Registered

-----------------------------------------------------------------------------
(* The bytes of a client that the device has not handled yet, in their order, and what
   keeps them in frame: each follows the one before it in its message, and only the end
   of a message is followed by the beginning of another. *)
ByteOf(log, c, b) ==
  /\ b[1] \in DOMAIN log /\ log[b[1]].from = c
  /\ b[2] \in {END} \cup 0 .. log[b[1]].size + 1

Follows(log, x, y) ==
  IF x[2] = END THEN y = <<x[1], END>> \/ y[2] = 0
  ELSE y = <<x[1], IF x[2] = log[x[1]].size + 1 THEN END ELSE x[2] + 1>>

Threaded(log, c, w) ==
  /\ \A i \in 1 .. Len(w) : ByteOf(log, c, w[i])
  /\ \A i \in 1 .. Len(w) - 1 : Follows(log, w[i], w[i + 1])

Ended(w) == w # <<>> => w[Len(w)][2] = END
Fresh(w) == w # <<>> => w[1][2] = 0

LEMMA ThreadedParts ==
  ASSUME NEW S, NEW p \in Seq(S), NEW q \in Seq(S), NEW log, NEW c, Threaded(log, c, p \o q)
  PROVE  Threaded(log, c, p) /\ Threaded(log, c, q)
  <1> DEFINE w == p \o q
  <1>1. /\ Len(w) = Len(p) + Len(q) /\ Len(p) \in Nat /\ Len(q) \in Nat
        /\ \A i \in 1 .. Len(p) + Len(q) : w[i] = IF i <= Len(p) THEN p[i] ELSE q[i - Len(p)]
    BY ConcatProperties
  <1> HIDE DEF w
  <1>2. Threaded(log, c, w)
    BY DEF w
  <1>3. Threaded(log, c, p)
    <2>1. \A i \in 1 .. Len(p) : w[i] = p[i] /\ i \in 1 .. Len(w)
      BY <1>1
    <2>2. \A i \in 1 .. Len(p) - 1 : w[i] = p[i] /\ w[i + 1] = p[i + 1] /\ i \in 1 .. Len(w) - 1
      BY <1>1
    <2> QED
      BY <1>2, <2>1, <2>2 DEF Threaded
  <1>4. Threaded(log, c, q)
    <2>1. \A i \in 1 .. Len(q) : w[i + Len(p)] = q[i] /\ i + Len(p) \in 1 .. Len(w)
      BY <1>1
    <2>2. \A i \in 1 .. Len(q) - 1 : /\ w[i + Len(p)] = q[i] /\ w[(i + Len(p)) + 1] = q[i + 1]
                                     /\ i + Len(p) \in 1 .. Len(w) - 1
      BY <1>1
    <2>3. \A i \in 1 .. Len(q) : ByteOf(log, c, q[i])
      BY <1>2, <2>1 DEF Threaded
    <2>4. \A i \in 1 .. Len(q) - 1 : Follows(log, q[i], q[i + 1])
      BY <1>2, <2>2 DEF Threaded
    <2> QED
      BY <2>3, <2>4 DEF Threaded
  <1> QED
    BY <1>3, <1>4

(* What begins or ends a concatenation begins or ends one of its parts. *)
LEMMA ConcatEnds ==
  ASSUME NEW S, NEW p \in Seq(S), NEW q \in Seq(S)
  PROVE  /\ p # <<>> => p \o q # <<>> /\ (p \o q)[1] = p[1]
         /\ p = <<>> => p \o q = q
         /\ q = <<>> => p \o q = p
         /\ q # <<>> => p \o q # <<>> /\ (p \o q)[Len(p \o q)] = q[Len(q)]
  <1> DEFINE w == p \o q
  <1>1. /\ w \in Seq(S) /\ Len(w) = Len(p) + Len(q) /\ Len(p) \in Nat /\ Len(q) \in Nat
        /\ \A i \in 1 .. Len(p) + Len(q) : w[i] = IF i <= Len(p) THEN p[i] ELSE q[i - Len(p)]
    BY ConcatProperties
  <1>2. /\ p = <<>> => w = q
        /\ q = <<>> => w = p
    BY ConcatEmptySeq
  <1> HIDE DEF w
  <1>3. p # <<>> => Len(p) >= 1
    BY EmptySeq
  <1>4. q # <<>> => Len(q) >= 1
    BY EmptySeq
  <1>5. Len(w) >= 1 => w # <<>>
    BY <1>1, EmptySeq
  <1>6. p # <<>> => w # <<>> /\ w[1] = p[1]
    BY <1>1, <1>3, <1>5
  <1>7. q # <<>> => w # <<>> /\ w[Len(w)] = q[Len(q)]
    <2> SUFFICES ASSUME q # <<>> PROVE w # <<>> /\ w[Len(w)] = q[Len(q)]
      OBVIOUS
    <2>1. Len(w) \in 1 .. Len(p) + Len(q) /\ ~(Len(w) <= Len(p)) /\ Len(w) - Len(p) = Len(q)
      BY <1>1, <1>4
    <2> QED
      BY <1>1, <1>4, <1>5, <2>1
  <1> QED
    BY <1>2, <1>6, <1>7 DEF w

LEMMA ConcatFirst ==
  ASSUME NEW S, NEW p \in Seq(S), NEW q \in Seq(S), p # <<>>
  PROVE  p \o q # <<>> /\ (p \o q)[1] = p[1]
  BY ConcatEnds

LEMMA ConcatLast ==
  ASSUME NEW S, NEW p \in Seq(S), NEW q \in Seq(S), q # <<>>
  PROVE  p \o q # <<>> /\ (p \o q)[Len(p \o q)] = q[Len(q)]
  BY ConcatEnds

LEMMA ThreadedTail ==
  ASSUME NEW S, NEW w \in Seq(S), w # <<>>, NEW log, NEW c, Threaded(log, c, w)
  PROVE  /\ Threaded(log, c, Tail(w))
         /\ ByteOf(log, c, w[1])
         /\ Tail(w) # <<>> => Follows(log, w[1], Tail(w)[1])
         /\ Ended(w) => Ended(Tail(w)) /\ (Tail(w) = <<>> => w[1][2] = END)
  <1> DEFINE t == Tail(w)
  <1>1. /\ t \in Seq(S) /\ Len(t) = Len(w) - 1 /\ \A i \in 1 .. Len(t) : t[i] = w[i + 1]
    BY HeadTailProperties
  <1>2. Len(w) \in Nat /\ Len(w) >= 1 /\ Len(t) \in Nat
    BY <1>1, EmptySeq
  <1> HIDE DEF t
  <1>3. (t = <<>> => Len(t) = 0) /\ (t # <<>> => Len(t) >= 1)
    BY <1>1
  <1>4. ByteOf(log, c, w[1])
    BY <1>2 DEF Threaded
  <1>5. \A i \in 1 .. Len(t) : ByteOf(log, c, t[i])
    <2>1. \A i \in 1 .. Len(t) : i + 1 \in 1 .. Len(w) /\ w[i + 1] = t[i]
      BY <1>1, <1>2
    <2> QED
      BY <2>1 DEF Threaded
  <1>6. \A i \in 1 .. Len(w) - 1 : Follows(log, w[i], t[i])
    BY <1>1, <1>2 DEF Threaded
  <1>7. \A i \in 1 .. Len(t) - 1 : i + 1 \in 1 .. Len(w) - 1 /\ w[i + 1] = t[i]
    BY <1>1, <1>2
  <1>8. \A i \in 1 .. Len(t) - 1 : Follows(log, t[i], t[i + 1])
    BY <1>6, <1>7
  <1>9. t # <<>> => Follows(log, w[1], t[1])
    BY <1>1, <1>2, <1>3, <1>6
  <1>10. t # <<>> => t[Len(t)] = w[Len(w)]
    BY <1>1, <1>2, <1>3
  <1>11. Ended(w) => Ended(t) /\ (t = <<>> => w[1][2] = END)
    <2>1. t = <<>> => Len(w) = 1
      BY <1>1, <1>2, <1>3
    <2> QED
      BY <1>10, <2>1 DEF Ended
  <1> QED
    BY <1>4, <1>5, <1>8, <1>9, <1>11 DEF Threaded, t

LEMMA ThreadedConcat ==
  ASSUME NEW S, NEW p \in Seq(S), NEW q \in Seq(S), NEW log, NEW c,
         Threaded(log, c, p), Threaded(log, c, q), Ended(p), Fresh(q)
  PROVE  Threaded(log, c, p \o q)
  <1> DEFINE w == p \o q
  <1>1. /\ Len(w) = Len(p) + Len(q) /\ Len(p) \in Nat /\ Len(q) \in Nat
        /\ \A i \in 1 .. Len(p) + Len(q) : w[i] = IF i <= Len(p) THEN p[i] ELSE q[i - Len(p)]
    BY ConcatProperties
  <1>2. (Len(p) >= 1 => p # <<>>) /\ (Len(q) >= 1 => q # <<>>)
    BY EmptySeq
  <1> HIDE DEF w
  <1>3. ASSUME NEW i \in 1 .. Len(w) PROVE ByteOf(log, c, w[i])
    <2>1. CASE i <= Len(p)
      BY <1>1, <2>1 DEF Threaded
    <2>2. CASE i > Len(p)
      <3>1. w[i] = q[i - Len(p)] /\ i - Len(p) \in 1 .. Len(q)
        BY <1>1, <2>2
      <3> QED
        BY <3>1 DEF Threaded
    <2> QED
      BY <1>1, <2>1, <2>2
  <1>4. ASSUME NEW i \in 1 .. Len(w) - 1 PROVE Follows(log, w[i], w[i + 1])
    <2>1. CASE i + 1 <= Len(p)
      <3>1. w[i] = p[i] /\ w[i + 1] = p[i + 1] /\ i \in 1 .. Len(p) - 1
        BY <1>1, <2>1
      <3> QED
        BY <3>1 DEF Threaded
    <2>2. CASE i = Len(p)
      <3>1. w[i] = p[Len(p)] /\ w[i + 1] = q[1] /\ p # <<>> /\ q # <<>>
        BY <1>1, <1>2, <2>2
      <3> QED
        BY <3>1 DEF Follows, Ended, Fresh
    <2>3. CASE i > Len(p)
      <3>1. w[i] = q[i - Len(p)] /\ w[i + 1] = q[(i - Len(p)) + 1] /\ i - Len(p) \in 1 .. Len(q) - 1
        BY <1>1, <2>3
      <3> QED
        BY <3>1 DEF Threaded
    <2> QED
      BY <1>1, <2>1, <2>2, <2>3
  <1> QED
    BY <1>3, <1>4 DEF Threaded, w

LEMMA ThreadedMore ==
  ASSUME NEW S, NEW w \in Seq(S), NEW log, NEW more, NEW c, Threaded(log, c, w),
         \A m \in DOMAIN log : m \in DOMAIN more /\ more[m] = log[m]
  PROVE  Threaded(more, c, w)
  <1>1. Len(w) \in Nat
    OBVIOUS
  <1>2. \A i \in 1 .. Len(w) : ByteOf(log, c, w[i]) /\ ByteOf(more, c, w[i])
    BY DEF Threaded, ByteOf
  <1>3. ASSUME NEW i \in 1 .. Len(w) - 1 PROVE Follows(more, w[i], w[i + 1])
    <2>1. more[w[i][1]] = log[w[i][1]]
      BY <1>1, <1>2 DEF ByteOf
    <2>2. Follows(log, w[i], w[i + 1])
      BY DEF Threaded
    <2> QED
      BY <2>1, <2>2 DEF Follows
  <1> QED
    BY <1>2, <1>3 DEF Threaded

(* The first bytes of a message. *)
Begun(m, k) == [i \in 1 .. k |-> <<m, i - 1>>]

LEMMA BegunSeq ==
  ASSUME NEW m, NEW k \in Nat
  PROVE  /\ Begun(m, k) \in Seq({m} \X Int) /\ Len(Begun(m, k)) = k
         /\ \A i \in 1 .. k : Begun(m, k)[i] = <<m, i - 1>>
  <1> DEFINE t == [i \in 1 .. k |-> <<m, i - 1>>]
  <1>1. t \in [1 .. k -> {m} \X Int] /\ \A i \in 1 .. k : t[i] = <<m, i - 1>>
    OBVIOUS
  <1>2. t \in Seq({m} \X Int) /\ DOMAIN t = 1 .. k
    <2> HIDE DEF t
    <2> QED BY <1>1, SeqDef
  <1> HIDE DEF t
  <1>3. Len(t) = k
    BY <1>2
  <1> QED
    BY <1>1, <1>2, <1>3 DEF Begun, t

LEMMA BegunOne == ASSUME NEW m PROVE Begun(m, 1) = <<<<m, 0>>>>
  <1>1. /\ Begun(m, 1) \in Seq({m} \X Int) /\ Len(Begun(m, 1)) = 1
        /\ Begun(m, 1)[1] = <<m, 0>>
    <2>1. 1 \in 1 .. 1 /\ 1 - 1 = 0 /\ 1 \in Nat
      OBVIOUS
    <2> QED
      BY <2>1, BegunSeq
  <1> DEFINE b == <<m, 0>>
  <1>2. <<b>> \in Seq({m} \X Int) /\ Len(<<b>>) = 1 /\ <<b>>[1] = b
    OBVIOUS
  <1> DEFINE s == Begun(m, 1)
             t == <<b>>
  <1>3. s \in Seq({m} \X Int) /\ t \in Seq({m} \X Int) /\ Len(s) = Len(t) /\ Len(s) = 1 /\ s[1] = t[1]
    BY <1>1, <1>2
  <1> HIDE DEF s, t
  <1>4. \A i \in 1 .. Len(s) : s[i] = t[i]
    BY <1>3
  <1>5. s = t
    BY <1>3, <1>4, SeqEqual
  <1> QED
    BY <1>5 DEF s, t

LEMMA BegunNext ==
  ASSUME NEW m, NEW k \in Nat
  PROVE  Append(Begun(m, k), <<m, k>>) = Begun(m, k + 1)
  <1> DEFINE B == {m} \X Int
             b == <<m, k>>
             s == Begun(m, k)
             t == Begun(m, k + 1)
  <1>1. s \in Seq(B) /\ Len(s) = k /\ \A i \in 1 .. k : s[i] = <<m, i - 1>>
    BY BegunSeq
  <1>0. t \in Seq(B) /\ Len(t) = k + 1 /\ \A i \in 1 .. k + 1 : t[i] = <<m, i - 1>>
    <2> DEFINE j == k + 1
    <2>1. j \in Nat
      OBVIOUS
    <2> HIDE DEF j
    <2>2. /\ Begun(m, j) \in Seq({m} \X Int) /\ Len(Begun(m, j)) = j
          /\ \A i \in 1 .. j : Begun(m, j)[i] = <<m, i - 1>>
      BY <2>1, BegunSeq
    <2> QED
      BY <2>2 DEF j
  <1>2. b \in B /\ t[k + 1] = b
    <2>1. k + 1 \in 1 .. k + 1 /\ (k + 1) - 1 = k
      OBVIOUS
    <2> HIDE DEF t
    <2> QED
      BY <1>0, <2>1
  <1>3. \A i \in 1 .. k : s[i] = t[i]
    <2>1. \A i \in 1 .. k : i \in 1 .. k + 1
      OBVIOUS
    <2> HIDE DEF s, t
    <2> QED
      BY <1>0, <1>1, <2>1
  <1> HIDE DEF s, t, b, B
  <1> DEFINE a == Append(s, b)
  <1>4. /\ a \in Seq(B) /\ Len(a) = k + 1
        /\ \A i \in 1 .. k : a[i] = s[i]
        /\ a[k + 1] = b
    BY <1>1, <1>2, AppendProperties
  <1> HIDE DEF a
  <1>5. \A i \in 1 .. Len(a) : a[i] = t[i]
    <2> TAKE i \in 1 .. Len(a)
    <2>1. i \in 1 .. k \/ i = k + 1
      BY <1>4
    <2> QED
      BY <1>2, <1>3, <1>4, <2>1
  <1>6. a = t
    BY <1>0, <1>4, <1>5, SeqEqual
  <1> QED
    BY <1>6 DEF a, s, t, b

(* The bytes of a message as its client writes them. *)
LEMMA WrittenThreaded ==
  ASSUME NEW log, NEW c, NEW m \in DOMAIN log, log[m].from = c, log[m].size \in Nat, NEW ends \in {1, 2}
  PROVE  LET text == Object(m, log[m].size) \o [i \in 1 .. ends |-> <<m, END>>]
         IN  /\ text \in Seq({m} \X Int) /\ text # <<>>
             /\ Threaded(log, c, text) /\ Ended(text) /\ Fresh(text)
  <1> DEFINE B == {m} \X Int
             n == log[m].size + 2
             p == Begun(m, n)
             q == [i \in 1 .. ends |-> <<m, END>>]
             w == p \o q
             sz == log[m].size
  <1>0. sz \in Nat /\ n = sz + 2
    OBVIOUS
  <1>1. n \in Nat /\ n >= 2
    OBVIOUS
  <1> HIDE DEF sz
  <1>2. p \in Seq(B) /\ Len(p) = n /\ \A i \in 1 .. n : p[i] = <<m, i - 1>>
    <2> HIDE DEF n
    <2> QED BY <1>1, BegunSeq
  <1>3. q \in Seq(B) /\ Len(q) = ends /\ \A i \in 1 .. ends : q[i] = <<m, END>>
    <2>1. q \in [1 .. ends -> B] /\ ends \in Nat /\ \A i \in 1 .. ends : q[i] = <<m, END>>
      BY DEF END
    <2> HIDE DEF q, B
    <2>2. q \in Seq(B) /\ DOMAIN q = 1 .. ends
      BY <2>1, SeqDef
    <2> QED
      BY <2>1, <2>2
  <1> HIDE DEF p, q
  <1>4. /\ w \in Seq(B) /\ Len(w) = n + ends
        /\ \A i \in 1 .. n + ends : w[i] = IF i <= n THEN p[i] ELSE q[i - n]
    <2> HIDE DEF B, n
    <2> QED BY <1>2, <1>3, ConcatProperties
  <1> HIDE DEF w, n, B
  <1>5. \A i \in 1 .. n + ends : w[i] = IF i <= n THEN <<m, i - 1>> ELSE <<m, END>>
    <2> TAKE i \in 1 .. n + ends
    <2>1. i <= n => i \in 1 .. n
      BY <1>1
    <2>2. ~(i <= n) => i - n \in 1 .. ends
      BY <1>1
    <2>3. p[i] = <<m, i - 1>> \/ ~(i <= n)
      BY <1>2, <2>1
    <2>4. q[i - n] = <<m, END>> \/ i <= n
      BY <1>3, <2>2
    <2> QED
      BY <1>4, <2>3, <2>4
  <1>6. \A i \in 1 .. Len(w) : ByteOf(log, c, w[i])
    <2> TAKE i \in 1 .. Len(w)
    <2>1. CASE i <= n
      <3>1. w[i] = <<m, i - 1>> /\ i - 1 \in 0 .. sz + 1
        BY <1>0, <1>1, <1>4, <1>5, <2>1
      <3> QED
        BY <3>1 DEF ByteOf, sz
    <2>2. CASE ~(i <= n)
      <3>1. w[i] = <<m, END>>
        BY <1>1, <1>4, <1>5, <2>2
      <3> QED
        BY <3>1 DEF ByteOf
    <2> QED
      BY <2>1, <2>2
  <1>7. \A i \in 1 .. Len(w) - 1 : Follows(log, w[i], w[i + 1])
    <2> TAKE i \in 1 .. Len(w) - 1
    <2>0. i \in 1 .. n + ends /\ i + 1 \in 1 .. n + ends
      BY <1>1, <1>4
    <2>1. CASE i + 1 <= n
      <3>1. w[i] = <<m, i - 1>> /\ w[i + 1] = <<m, (i - 1) + 1>> /\ i - 1 \in 0 .. sz
        <4>1. i - 1 \in 0 .. sz /\ i <= n /\ (i + 1) - 1 = (i - 1) + 1
          BY <1>0, <2>0, <2>1
        <4>2. w[i] = <<m, i - 1>>
          BY <1>5, <2>0, <4>1
        <4>3. w[i + 1] = <<m, (i + 1) - 1>>
          BY <1>5, <2>0, <2>1
        <4> QED
          BY <4>1, <4>2, <4>3
      <3> QED
        BY <1>0, <3>1 DEF Follows, END, sz
    <2>2. CASE i = n
      <3>1. w[i] = <<m, sz + 1>> /\ w[i + 1] = <<m, END>>
        <4>1. i <= n /\ ~(i + 1 <= n) /\ i - 1 = sz + 1
          BY <1>0, <2>2
        <4> QED
          BY <1>5, <2>0, <4>1
      <3> QED
        BY <1>0, <3>1 DEF Follows, END, sz
    <2>3. CASE i > n
      <3>1. w[i] = <<m, END>> /\ w[i + 1] = <<m, END>>
        <4>1. ~(i <= n) /\ ~(i + 1 <= n)
          BY <1>1, <2>0, <2>3
        <4> QED
          BY <1>5, <2>0, <4>1
      <3> QED
        BY <3>1 DEF Follows
    <2> QED
      BY <1>1, <2>1, <2>2, <2>3
  <1>8. w[1] = <<m, 0>> /\ w[Len(w)] = <<m, END>>
    <2>1. 1 \in 1 .. n + ends /\ 1 <= n /\ 1 - 1 = 0 /\ Len(w) \in 1 .. n + ends /\ ~(Len(w) <= n)
      BY <1>1, <1>4
    <2> QED
      BY <1>5, <2>1
  <1>9. w # <<>>
    BY <1>1, <1>4
  <1>10. Threaded(log, c, w) /\ Ended(w) /\ Fresh(w)
    BY <1>6, <1>7, <1>8 DEF Threaded, Ended, Fresh
  <1>11. w = Object(m, log[m].size) \o [i \in 1 .. ends |-> <<m, END>>]
    BY DEF Object, Begun, p, q, w, n
  <1> QED
    BY <1>4, <1>9, <1>10, <1>11 DEF B

LEMMA TailConcat ==
  ASSUME NEW S, NEW p \in Seq(S), NEW q \in Seq(S), p # <<>>
  PROVE  Tail(p \o q) = Tail(p) \o q /\ p \o q # <<>> /\ Head(p \o q) = Head(p) /\ (p \o q)[1] = Head(p)
  <1> DEFINE w == p \o q
             t == Tail(p)
             u == t \o q
             v == Tail(w)
  <1>1. /\ w \in Seq(S) /\ Len(w) = Len(p) + Len(q) /\ Len(p) \in Nat /\ Len(q) \in Nat
        /\ \A i \in 1 .. Len(p) + Len(q) : w[i] = IF i <= Len(p) THEN p[i] ELSE q[i - Len(p)]
    BY ConcatProperties
  <1>2. w # <<>> /\ w[1] = p[1]
    BY ConcatEnds
  <1>3. t \in Seq(S) /\ Len(t) = Len(p) - 1 /\ \A i \in 1 .. Len(t) : t[i] = p[i + 1]
    BY HeadTailProperties
  <1>4. Head(p) = p[1]
    OBVIOUS
  <1> HIDE DEF w, t
  <1>5. Head(w) = w[1]
    BY <1>1, <1>2
  <1>6. v \in Seq(S) /\ Len(v) = Len(w) - 1 /\ \A i \in 1 .. Len(v) : v[i] = w[i + 1]
    BY <1>1, <1>2, HeadTailProperties
  <1>7. /\ u \in Seq(S) /\ Len(u) = Len(t) + Len(q) /\ Len(t) \in Nat
        /\ \A i \in 1 .. Len(t) + Len(q) : u[i] = IF i <= Len(t) THEN t[i] ELSE q[i - Len(t)]
    <2>1. Len(t) \in Nat
      BY <1>3
    <2> QED
      BY <1>3, <2>1, ConcatProperties
  <1> HIDE DEF u, v
  <1>8. \A i \in 1 .. Len(v) : v[i] = u[i]
    <2> TAKE i \in 1 .. Len(v)
    <2>1. i + 1 \in 1 .. Len(p) + Len(q) /\ i \in 1 .. Len(t) + Len(q) /\ v[i] = w[i + 1]
      <3>1. Len(v) = (Len(p) + Len(q)) - 1 /\ Len(t) + Len(q) = (Len(p) + Len(q)) - 1
        BY <1>1, <1>3, <1>6
      <3> QED
        BY <1>1, <1>6, <3>1
    <2>2. CASE i <= Len(t)
      <3>1. w[i + 1] = p[i + 1] /\ u[i] = t[i] /\ t[i] = p[i + 1]
        BY <1>1, <1>3, <1>7, <2>1, <2>2
      <3> QED
        BY <2>1, <3>1
    <2>3. CASE ~(i <= Len(t))
      <3>1. ~(i + 1 <= Len(p)) /\ (i + 1) - Len(p) = i - Len(t)
        BY <1>1, <1>3, <1>7, <2>1, <2>3
      <3>2. w[i + 1] = q[(i + 1) - Len(p)] /\ u[i] = q[i - Len(t)]
        BY <1>1, <1>7, <2>1, <2>3, <3>1
      <3> QED
        BY <2>1, <3>1, <3>2
    <2> QED
      BY <2>2, <2>3
  <1>9. Len(v) = Len(u)
    BY <1>1, <1>3, <1>6, <1>7
  <1>10. v = u
    BY <1>6, <1>7, <1>8, <1>9, SeqEqual
  <1> QED
    BY <1>2, <1>4, <1>5, <1>10 DEF v, u, t, w

-----------------------------------------------------------------------------
(* What is held for a client in the device, in its socket and on its way. *)
Held(c) == IF c = client THEN rx ELSE <<>>
Socket(c) == stream[c] \o out[c]
Wire(c) == Held(c) \o Socket(c)

WireTypes ==
  \A c \in Client : /\ Held(c) \in Seq(Byte) /\ stream[c] \in Seq(Byte) /\ out[c] \in Seq(Byte)
                    /\ Socket(c) \in Seq(Byte) /\ Wire(c) \in Seq(Byte)

LEMMA WireTyped == Inv => WireTypes
  <1> SUFFICES ASSUME Inv, NEW c \in Client
               PROVE  /\ Held(c) \in Seq(Byte) /\ stream[c] \in Seq(Byte) /\ out[c] \in Seq(Byte)
                      /\ Socket(c) \in Seq(Byte) /\ Wire(c) \in Seq(Byte)
    BY DEF WireTypes
  <1>1. stream[c] \in Seq(Byte) /\ out[c] \in Seq(Byte) /\ rx \in Seq(Byte)
    BY Names DEF Inv, TypeOK
  <1>2. Held(c) \in Seq(Byte)
    BY <1>1 DEF Held
  <1>3. Socket(c) \in Seq(Byte)
    BY <1>1, ConcatProperties DEF Socket
  <1> QED
    BY <1>1, <1>2, <1>3, ConcatProperties DEF Wire

LEMMA WireTypedNext == Inv' => WireTypes'
  BY WireTyped, PTL

(* What the network or the device discards is the end of it, ... *)
CutOf(v, w) == \E rest \in Seq(Byte) : w = v \o rest

LEMMA WireKept ==
  ASSUME Inv, NEW c \in Client, Held(c)' = Held(c), stream'[c] = stream[c], out'[c] = out[c]
  PROVE  Wire(c)' = Wire(c) /\ CutOf(Wire(c)', Wire(c))
  <1>1. Wire(c)' = Wire(c)
    BY DEF Wire, Socket
  <1>2. Wire(c) = Wire(c) \o <<>> /\ <<>> \in Seq(Byte)
    BY WireTyped, ConcatEmptySeq, EmptySeq DEF WireTypes
  <1> QED
    BY <1>1, <1>2 DEF CutOf

LEMMA WireCut ==
  ASSUME Inv, NEW c \in Client, Held(c)' = Held(c), out'[c] = <<>>,
         stream'[c] = stream[c] \/ stream'[c] = <<>>
  PROVE  CutOf(Wire(c)', Wire(c))
  <1> DEFINE h == Held(c)
             s == stream[c]
             o == out[c]
  <1>1. h \in Seq(Byte) /\ s \in Seq(Byte) /\ o \in Seq(Byte) /\ s \o o \in Seq(Byte)
    BY WireTyped DEF WireTypes, Socket
  <1>2. Wire(c) = h \o (s \o o) /\ Wire(c)' = h \o (stream'[c] \o <<>>)
    BY DEF Wire, Socket
  <1> HIDE DEF h, s, o
  <1>3. CASE stream'[c] = s
    <2>1. stream'[c] \o <<>> = s /\ (h \o s) \o o = h \o (s \o o)
      BY <1>1, <1>3, ConcatEmptySeq, ConcatAssociative
    <2> QED
      BY <1>1, <1>2, <2>1 DEF CutOf
  <1>4. CASE stream'[c] = <<>>
    <2>1. <<>> \o <<>> = <<>> /\ h \o <<>> = h
      BY <1>1, ConcatEmptySeq, EmptySeq
    <2> QED
      BY <1>1, <1>2, <1>4, <2>1 DEF CutOf
  <1> QED
    BY <1>3, <1>4 DEF s

(* ... and what the device takes is the beginning. *)
LEMMA HeadOfWire ==
  ASSUME Inv, NextByte
  PROVE  client \in Client /\ Wire(client) # <<>> /\ Head(Fetched) = Wire(client)[1]
  <1> DEFINE s == stream[client]
             o == out[client]
  <1>1. client \in Client /\ Fetched # <<>>
    BY DEF NextByte, Connected, Inv, TypeOK
  <1>2. /\ rx \in Seq(Byte) /\ s \in Seq(Byte) /\ o \in Seq(Byte) /\ s \o o \in Seq(Byte)
        /\ Wire(client) = rx \o (s \o o)
    <2>1. Held(client) = rx
      BY DEF Held
    <2> QED
      BY <1>1, <2>1, WireTyped DEF WireTypes, Socket, Wire
  <1>3. CASE rx = <<>>
    <2>1. Fetched = s
      BY <1>1, <1>3 DEF Fetched, NextByte, Connected
    <2> HIDE DEF s, o
    <2>2. rx \o (s \o o) = s \o o
      BY <1>2, <1>3, ConcatEmptySeq
    <2>3. s \o o # <<>> /\ (s \o o)[1] = Head(s)
      BY <1>1, <1>2, <2>1, TailConcat
    <2> QED
      BY <1>1, <1>2, <2>1, <2>2, <2>3
  <1>4. CASE rx # <<>>
    <2>1. Fetched = rx
      BY <1>4 DEF Fetched
    <2> DEFINE q == s \o o
    <2> HIDE DEF s, o, q
    <2>2. q \in Seq(Byte) /\ q = s \o o
      BY <1>2 DEF q
    <2>3. rx \o q # <<>> /\ (rx \o q)[1] = Head(rx)
      BY <1>2, <1>4, <2>2, TailConcat
    <2> QED
      BY <1>1, <1>2, <2>1, <2>2, <2>3
  <1> QED
    BY <1>3, <1>4

LEMMA WireRead ==
  ASSUME Inv, NextByte, Fetch, client' = client, out' = out
  PROVE  /\ client \in Client /\ Wire(client) # <<>> /\ Head(Fetched) = Wire(client)[1]
         /\ Wire(client)' = Tail(Wire(client))
         /\ \A c \in Client \ {client} : Wire(c)' = Wire(c)
  <1> DEFINE s == stream[client]
             o == out[client]
  <1>1. client \in Client /\ client \in Sender /\ stream \in [Sender -> Seq(Byte)]
    BY Names DEF NextByte, Connected, Inv, TypeOK
  <1>2. /\ rx \in Seq(Byte) /\ s \in Seq(Byte) /\ o \in Seq(Byte) /\ s \o o \in Seq(Byte)
        /\ Wire(client) = rx \o (s \o o)
    <2>1. Held(client) = rx
      BY DEF Held
    <2> QED
      BY <1>1, <2>1, WireTyped DEF WireTypes, Socket, Wire
  <1>3. Wire(client)' = rx' \o (stream'[client] \o o)
    BY DEF Wire, Held, Socket
  <1>4. \A c \in Client \ {client} : Wire(c)' = Wire(c)
    BY <1>1, Names DEF Wire, Held, Socket, Fetch
  <1>5. rx' = Tail(Fetched) /\ Fetched # <<>>
    BY DEF Fetch, NextByte
  <1>6. CASE rx = <<>>
    <2>1. Fetched = s /\ stream'[client] = <<>>
      BY <1>1, <1>6 DEF Fetched, Fetch, NextByte, Connected
    <2> HIDE DEF s, o
    <2>2. <<>> \o o = o /\ rx \o (s \o o) = s \o o
      BY <1>2, <1>6, ConcatEmptySeq
    <2>3. Tail(s \o o) = Tail(s) \o o /\ s \o o # <<>> /\ (s \o o)[1] = Head(s)
      BY <1>2, <1>5, <2>1, TailConcat
    <2> QED
      BY <1>1, <1>2, <1>3, <1>4, <1>5, <2>1, <2>2, <2>3
  <1>7. CASE rx # <<>>
    <2>1. Fetched = rx /\ stream'[client] = s
      BY <1>1, <1>7 DEF Fetched, Fetch
    <2> DEFINE q == s \o o
    <2> HIDE DEF s, o, q
    <2>2. q \in Seq(Byte) /\ q = s \o o
      BY <1>2 DEF q
    <2>3. Tail(rx \o q) = Tail(rx) \o q /\ rx \o q # <<>> /\ (rx \o q)[1] = Head(rx)
      BY <1>2, <1>7, <2>2, TailConcat
    <2> QED
      BY <1>1, <1>2, <1>3, <1>4, <1>5, <2>1, <2>2, <2>3
  <1> QED
    BY <1>6, <1>7

-----------------------------------------------------------------------------
(* Only an open connection is sure to end with the end of a message, ... *)
Framing ==
  \A c \in Client : /\ Threaded(sent, c, Wire(c))
                    /\ peer[c] = "open" => Ended(Wire(c))

(* ... nothing comes before a connection is made, ... *)
Newcomers ==
  \A c \in Client : peer[c] = "new" =>
    Wire(c) = <<>> /\ c # client /\ \A i \in 1 .. Len(backlog) : backlog[i] # c

(* ... and one that has not been handed out is read from its beginning. *)
Waiting ==
  /\ \A i \in 1 .. Len(backlog) : backlog[i] # client /\ Fresh(Wire(backlog[i]))
  /\ \A i, j \in 1 .. Len(backlog) : backlog[i] = backlog[j] => i = j

(* What the next byte b finds in the buffer: little enough to start anew, or what comes
   before b in its message, unless the message is too long or has ended already. *)
Fits(b, text, over, log, done) ==
  \/ b[2] = 0 /\ Len(text) < RestartBelow
  \/ b[2] # 0 /\ over /\ log[b[1]].size + 2 >= BufLen
  \/ b[2] = END /\ ~over /\ text = <<>> /\ b[1] \in done
  \/ b[2] # 0 /\ ~over /\ text = Begun(b[1], IF b[2] = END THEN log[b[1]].size + 2 ELSE b[2])

Reading ==
  ~torn.app /\ client \in Client =>
    /\ Wire(client) # <<>> => Fits(Wire(client)[1], buf, wrapped.app, sent, read)
    /\ Wire(client) = <<>> /\ peer[client] = "open" => Len(buf) < RestartBelow

Flags == torn \in [app : BOOLEAN, cloud : BOOLEAN] /\ wrapped \in [app : BOOLEAN, cloud : BOOLEAN]

FrameInv == Flags /\ Framing /\ Newcomers /\ Waiting /\ Reading

(* Steps that leave the app's channel alone but for what they cut off. *)
LEMMA CutKeeps ==
  ASSUME Inv, Inv', FrameInv, Flags',
         UNCHANGED <<client, buf, read, sent>>, torn'.app = torn.app, wrapped'.app = wrapped.app,
         backlog' \in {backlog, <<>>},
         \A c \in Client : /\ CutOf(Wire(c)', Wire(c))
                           /\ peer'[c] = "new" => peer[c] = "new"
                           /\ peer'[c] = "open" => peer[c] = "open" /\ Wire(c)' = Wire(c)
  PROVE  FrameInv'
  <1>1. ASSUME NEW c \in Client
        PROVE  /\ Threaded(sent, c, Wire(c)')
               /\ Wire(c)' # <<>> => Wire(c) # <<>> /\ Wire(c)'[1] = Wire(c)[1]
    <2>1. PICK rest \in Seq(Byte) : Wire(c) = Wire(c)' \o rest
      BY DEF CutOf
    <2> DEFINE w == Wire(c)
               v == Wire(c)'
    <2>2. v \in Seq(Byte) /\ Threaded(sent, c, w) /\ w = v \o rest
      <3>1. v \in Seq(Byte)
        BY WireTypedNext DEF WireTypes
      <3> QED
        BY <2>1, <3>1 DEF FrameInv, Framing
    <2> HIDE DEF v, w
    <2>3. Threaded(sent, c, v)
      BY <2>2, ThreadedParts
    <2>4. v # <<>> => w # <<>> /\ w[1] = v[1]
      BY <2>2, ConcatEnds
    <2> QED
      BY <2>3, <2>4 DEF v, w
  <1>2. Framing'
    BY <1>1 DEF Framing, FrameInv
  <1>3. Newcomers'
    <2>1. \A i \in 1 .. Len(backlog') : i \in 1 .. Len(backlog) /\ backlog'[i] = backlog[i]
      BY DEF Inv, TypeOK
    <2> QED
      BY <1>1, <2>1 DEF Newcomers, FrameInv
  <1>4. Waiting'
    <2>1. \A i \in 1 .. Len(backlog') : i \in 1 .. Len(backlog) /\ backlog'[i] = backlog[i] /\ backlog[i] \in Client
      BY DEF Inv, TypeOK
    <2> QED
      BY <1>1, <2>1 DEF Waiting, FrameInv, Fresh
  <1>5. Reading'
    BY <1>1 DEF Reading, FrameInv
  <1> QED
    BY <1>2, <1>3, <1>4, <1>5 DEF FrameInv

LEMMA ArriveFrame ==
  ASSUME Inv, Inv', FrameInv, NEW s \in Sender, NEW n \in 1 .. Len(out[s]), Arrive(s, n)
  PROVE  FrameInv'
  <1> DEFINE o == out[s]
             p == SubSeq(o, 1, n)
             q == SubSeq(o, n + 1, Len(o))
             t == stream[s]
  <1>1. UNCHANGED <<client, rx, buf, read, sent, torn, wrapped, backlog, peer>>
    BY DEF Arrive
  <1>2. o \in Seq(Byte) /\ t \in Seq(Byte) /\ stream \in [Sender -> Seq(Byte)] /\ out \in [Sender -> Seq(Byte)]
    BY DEF Inv, TypeOK
  <1>3. stream' = [stream EXCEPT ![s] = t \o p] /\ out' = [out EXCEPT ![s] = q]
    BY DEF Arrive
  <1>4. (t \o p) \o q = t \o o
    <2> HIDE DEF o, t
    <2>1. Len(o) \in Nat /\ n \in 1 .. Len(o) /\ \A i \in 1 .. Len(o) : o[i] \in Byte
      BY <1>2, ElementOfSeq DEF o
    <2>2. p \in Seq(Byte) /\ q \in Seq(Byte)
      <3>1. \A i \in 1 .. n : o[i] \in Byte
        BY <2>1
      <3>2. \A i \in n + 1 .. Len(o) : o[i] \in Byte
        BY <2>1
      <3> QED
        BY <2>1, <3>1, <3>2, SubSeqProperties
    <2>3. p \o q = SubSeq(o, 1, Len(o))
      <3>1. 1 \in 1 .. Len(o) + 1 /\ n \in 1 - 1 .. Len(o) /\ Len(o) \in n .. Len(o)
        BY <2>1
      <3> QED
        BY <1>2, <3>1, ConcatAdjacentSubSeq
    <2>4. SubSeq(o, 1, Len(o)) = o
      BY <1>2, SubSeqFull
    <2>5. (t \o p) \o q = t \o (p \o q)
      <3>1. t \in Seq(Byte)
        BY <1>2
      <3> HIDE DEF p, q
      <3> QED
        BY ONLY <2>2, <3>1, ConcatAssociative
    <2>6. p \o q = o
      BY <2>3, <2>4
    <2> HIDE DEF p, q
    <2> QED
      BY <2>5, <2>6, Zenon
  <1> HIDE DEF p, q, t, o
  <1>5. \A c \in Client : Wire(c)' = Wire(c) /\ CutOf(Wire(c)', Wire(c))
    <2> TAKE c \in Client
    <2>1. Socket(c)' = Socket(c)
      BY <1>2, <1>3, <1>4, Names DEF Socket, o, t
    <2>2. Wire(c)' = Wire(c)
      BY <1>1, <2>1 DEF Wire, Held
    <2>3. Wire(c) = Wire(c) \o <<>> /\ <<>> \in Seq(Byte)
      BY WireTyped, ConcatEmptySeq, EmptySeq DEF WireTypes
    <2> QED
      BY <2>2, <2>3 DEF CutOf
  <1>6. Flags'
    BY <1>1 DEF FrameInv, Flags
  <1> QED
    BY <1>1, <1>5, <1>6, CutKeeps

LEMMA ConnectFrame ==
  ASSUME Inv, FrameInv, NEW d \in Client, Connect(d)
  PROVE  FrameInv'
  <1>1. UNCHANGED <<client, rx, buf, read, sent, torn, wrapped, stream, out>>
    BY DEF Connect
  <1>2. \A c \in Client : Wire(c)' = Wire(c)
    BY <1>1 DEF Wire, Held, Socket
  <1>3. /\ peer[d] = "new" /\ peer' = [peer EXCEPT ![d] = "open"] /\ backlog' = Append(backlog, d)
        /\ peer \in [Client -> {"new", "open", "closed", "gone"}] /\ backlog \in Seq(Client)
    BY DEF Connect, Inv, TypeOK
  <1>4. Wire(d) = <<>> /\ d # client /\ \A i \in 1 .. Len(backlog) : backlog[i] # d
    BY <1>3 DEF FrameInv, Newcomers
  <1>5. /\ Len(backlog') = Len(backlog) + 1 /\ Len(backlog) \in Nat
        /\ \A i \in 1 .. Len(backlog) : backlog'[i] = backlog[i] /\ backlog[i] \in Client
        /\ backlog'[Len(backlog) + 1] = d
    BY <1>3
  <1>6. Framing'
    BY <1>1, <1>2, <1>3, <1>4 DEF FrameInv, Framing, Ended
  <1>7. Newcomers'
    <2> SUFFICES ASSUME NEW c \in Client, peer'[c] = "new"
                 PROVE  Wire(c)' = <<>> /\ c # client' /\ \A i \in 1 .. Len(backlog') : backlog'[i] # c
      BY DEF Newcomers
    <2>1. peer[c] = "new" /\ c # d
      BY <1>3
    <2>2. Wire(c) = <<>> /\ c # client /\ \A i \in 1 .. Len(backlog) : backlog[i] # c
      BY <2>1 DEF FrameInv, Newcomers
    <2> QED
      BY <1>1, <1>2, <1>5, <2>1, <2>2
  <1>8. Waiting'
    <2>1. \A i \in 1 .. Len(backlog) : backlog[i] # client /\ Fresh(Wire(backlog[i]))
      BY DEF FrameInv, Waiting
    <2>2. \A i \in 1 .. Len(backlog') : (i \in 1 .. Len(backlog) /\ backlog'[i] = backlog[i]) \/ (i = Len(backlog) + 1 /\ backlog'[i] = d)
      BY <1>5
    <2>3. \A i \in 1 .. Len(backlog') : backlog'[i] # client' /\ Fresh(Wire(backlog[i]))'
      <3> TAKE i \in 1 .. Len(backlog')
      <3>1. CASE i \in 1 .. Len(backlog) /\ backlog'[i] = backlog[i]
        BY <1>1, <1>2, <1>5, <2>1, <3>1
      <3>2. CASE backlog'[i] = d
        BY <1>1, <1>2, <1>4, <3>2 DEF Fresh
      <3> QED
        BY <2>2, <3>1, <3>2
    <2>4. \A i, j \in 1 .. Len(backlog) : backlog[i] = backlog[j] => i = j
      BY DEF FrameInv, Waiting
    <2>5. \A i, j \in 1 .. Len(backlog') : backlog'[i] = backlog'[j] => i = j
      BY <1>4, <2>2, <2>4
    <2> QED
      BY <2>3, <2>5 DEF Waiting
  <1>9. Reading'
    <2>1. client \in Client => peer'[client] = peer[client]
      BY <1>3, <1>4
    <2> QED
      BY <1>1, <1>2, <2>1 DEF FrameInv, Reading
  <1>10. Flags'
    BY <1>1 DEF FrameInv, Flags
  <1> QED
    BY <1>6, <1>7, <1>8, <1>9, <1>10 DEF FrameInv

LEMMA FitsMore ==
  ASSUME NEW b, NEW text, NEW over, NEW log, NEW done, NEW more, more[b[1]] = log[b[1]],
         Fits(b, text, over, log, done)
  PROVE  Fits(b, text, over, more, done)
  BY DEF Fits

LEMMA ComposeFrame ==
  ASSUME Inv, Inv', FrameInv, NEW s \in Sender, NEW size \in Size, NEW ends \in Terminators, Compose(s, size, ends)
  PROVE  FrameInv'
  <1> DEFINE m == Len(sent) + 1
             text == Object(m, size) \o [i \in 1 .. ends |-> <<m, END>>]
  <1>1. UNCHANGED <<client, rx, buf, read, torn, wrapped, stream, peer, backlog>>
    BY DEF Compose
  <1>2. out' = [out EXCEPT ![s] = text] /\ out[s] = <<>> /\ out \in [Sender -> Seq(Byte)]
    BY DEF Compose, Inv, TypeOK
  <1>3. /\ \A i \in DOMAIN sent : i \in DOMAIN sent' /\ sent'[i] = sent[i]
        /\ m \in DOMAIN sent' /\ sent'[m].from = s /\ sent'[m].size = size
    <2>1. PICK cmdr \in (IF s = "cloud" THEN Cmdr ELSE {"none"}) :
            sent' = Append(sent, [from |-> s, size |-> size, cmdr |-> cmdr])
      BY DEF Compose
    <2> DEFINE r == [from |-> s, size |-> size, cmdr |-> cmdr]
    <2>2. r.from = s /\ r.size = size
      OBVIOUS
    <2> HIDE DEF r
    <2>3. sent' = Append(sent, r)
      BY <2>1 DEF r
    <2>4. sent \in Seq([from : Sender, size : Size, cmdr : Cmdr \cup {"none"}])
      BY DEF Inv, SentOK
    <2> QED
      BY <2>2, <2>3, <2>4
  <1>4. /\ text \in Seq({m} \X Int) /\ text # <<>>
        /\ Threaded(sent', s, text) /\ Ended(text) /\ Fresh(text)
    <2>1. sent'[m].size \in Nat /\ ends \in {1, 2}
      BY <1>3, Numbers
    <2> HIDE DEF m
    <2> QED
      BY <1>3, <2>1, WrittenThreaded
  <1> HIDE DEF text, m
  <1>5. \A c \in Client : c # s => Wire(c)' = Wire(c)
    BY <1>1, <1>2, Names DEF Wire, Held, Socket
  <1>6. s \in Client => Wire(s)' = Wire(s) \o text /\ text \in Seq(Byte) /\ peer[s] = "open"
    <2> SUFFICES ASSUME s \in Client PROVE Wire(s)' = Wire(s) \o text /\ text \in Seq(Byte) /\ peer[s] = "open"
      OBVIOUS
    <2> DEFINE h == Held(s)
               t == stream[s]
    <2>1. h \in Seq(Byte) /\ t \in Seq(Byte)
      BY WireTyped DEF WireTypes
    <2>2. text \in Seq(Byte)
      <3>1. out'[s] = text
        BY <1>2
      <3> QED
        BY <3>1, WireTypedNext DEF WireTypes
    <2>3. Wire(s) = h \o (t \o <<>>) /\ Wire(s)' = h \o (t \o text)
      BY <1>1, <1>2 DEF Wire, Held, Socket
    <2> HIDE DEF h, t
    <2>4. t \o <<>> = t
      BY <2>1, ConcatEmptySeq
    <2>5. h \o (t \o text) = (h \o t) \o text
      BY <2>1, <2>2, ConcatAssociative
    <2>6. peer[s] = "open"
      BY Names DEF Compose, Open
    <2> QED
      BY <2>2, <2>3, <2>4, <2>5, <2>6
  <1>7. \A c \in Client : Wire(c) \in Seq(Byte)
    BY WireTyped DEF WireTypes
  <1>8. ASSUME NEW c \in Client
        PROVE  /\ Threaded(sent', c, Wire(c)') /\ (peer[c] = "open" => Ended(Wire(c)'))
               /\ Fresh(Wire(c)) => Fresh(Wire(c)')
               /\ Wire(c) # <<>> => Wire(c)' # <<>> /\ Wire(c)'[1] = Wire(c)[1]
               /\ Wire(c) = <<>> /\ Wire(c)' # <<>> => peer[c] = "open" /\ Wire(c)'[1][2] = 0
    <2> DEFINE w == Wire(c)
               v == Wire(c)'
    <2>1. w \in Seq(Byte) /\ Threaded(sent, c, w) /\ (peer[c] = "open" => Ended(w))
      BY <1>7 DEF FrameInv, Framing
    <2>2. c # s => v = w
      BY <1>5
    <2>3. c = s => v = w \o text /\ text \in Seq(Byte) /\ peer[c] = "open"
      BY <1>6
    <2> HIDE DEF w, v
    <2>4. Threaded(sent', c, w)
      BY <1>3, <2>1, ThreadedMore
    <2>5. CASE c # s
      BY <2>1, <2>2, <2>4, <2>5 DEF w, v
    <2>6. CASE c = s
      <3>1. Threaded(sent', c, v)
        BY <1>4, <2>1, <2>3, <2>4, <2>6, ThreadedConcat
      <3>2. /\ w # <<>> => v # <<>> /\ v[1] = w[1]
            /\ w = <<>> => v = text
            /\ v # <<>> /\ v[Len(v)] = text[Len(text)]
        <4>1. w # <<>> => w \o text # <<>> /\ (w \o text)[1] = w[1]
          BY <2>1, <2>3, <2>6, ConcatFirst
        <4>2. w \o text # <<>> /\ (w \o text)[Len(w \o text)] = text[Len(text)]
          BY <1>4, <2>1, <2>3, <2>6, ConcatLast
        <4>3. <<>> \o text = text
          BY <2>3, <2>6, ConcatEmptySeq
        <4> QED
          BY <2>3, <2>6, <4>1, <4>2, <4>3, Zenon
      <3>3. Ended(v)
        BY <1>4, <3>2 DEF Ended
      <3>4. Fresh(w) => Fresh(v)
        BY <1>4, <3>2 DEF Fresh
      <3>5. w = <<>> => v[1][2] = 0
        BY <1>4, <3>2 DEF Fresh
      <3> QED
        BY <2>3, <2>6, <3>1, <3>2, <3>3, <3>4, <3>5 DEF w, v
    <2> QED
      BY <2>5, <2>6
  <1>9. Framing'
    BY <1>1, <1>8 DEF Framing
  <1>10. Newcomers'
    <2>1. \A c \in Client : peer[c] = "new" => Wire(c)' = Wire(c)
      BY <1>5, <1>6
    <2> QED
      BY <1>1, <2>1 DEF FrameInv, Newcomers
  <1>11. Waiting'
    <2>1. \A i \in 1 .. Len(backlog) : backlog[i] \in Client
      BY DEF Inv, TypeOK
    <2> QED
      BY <1>1, <1>8, <2>1 DEF FrameInv, Waiting
  <1>12. Reading'
    <2> SUFFICES ASSUME ~torn.app, client \in Client
                 PROVE  /\ Wire(client)' # <<>> => Fits(Wire(client)'[1], buf, wrapped.app, sent', read)
                        /\ Wire(client)' = <<>> /\ peer[client] = "open" => Len(buf) < RestartBelow
      BY <1>1 DEF Reading
    <2> DEFINE b == Wire(client)[1]
    <2>1. CASE Wire(client) # <<>>
      <3>1. Fits(b, buf, wrapped.app, sent, read)
        BY <2>1 DEF FrameInv, Reading
      <3>2. b[1] \in DOMAIN sent
        BY <1>7, <2>1, ThreadedTail DEF FrameInv, Framing, ByteOf
      <3>3. Wire(client)' # <<>> /\ Wire(client)'[1] = b
        BY <1>1, <1>8, <2>1
      <3> HIDE DEF b
      <3>4. Fits(b, buf, wrapped.app, sent', read)
        BY <1>3, <3>1, <3>2, FitsMore
      <3> QED
        BY <3>3, <3>4
    <2>2. CASE Wire(client) = <<>>
      <3>1. peer[client] = "open" => Len(buf) < RestartBelow
        BY <2>2 DEF FrameInv, Reading
      <3> QED
        BY <1>1, <1>8, <2>2, <3>1 DEF Fits
    <2> QED
      BY <2>1, <2>2
  <1>13. Flags'
    BY <1>1 DEF FrameInv, Flags
  <1> QED
    BY <1>9, <1>10, <1>11, <1>12, <1>13 DEF FrameInv

(* The connections that are cut off, and the others. *)
LEMMA CutStep ==
  ASSUME Inv, Inv', FrameInv, UNCHANGED <<client, rx, buf, read, sent>>,
         torn' = [torn EXCEPT !.cloud = torn'.cloud] /\ torn'.cloud \in BOOLEAN,
         wrapped' = [wrapped EXCEPT !.cloud = wrapped'.cloud] /\ wrapped'.cloud \in BOOLEAN,
         backlog' \in {backlog, <<>>},
         \A c \in Client :
           \/ UNCHANGED <<peer[c], out[c], stream[c]>>
           \/ peer'[c] \notin {"new", "open"} /\ out'[c] = <<>> /\ stream'[c] \in {stream[c], <<>>}
  PROVE  FrameInv'
  <1>1. torn'.app = torn.app /\ wrapped'.app = wrapped.app /\ Flags'
    BY DEF FrameInv, Flags
  <1>2. \A c \in Client : Held(c)' = Held(c)
    BY DEF Held
  <1>3. ASSUME NEW c \in Client
        PROVE  /\ CutOf(Wire(c)', Wire(c))
               /\ peer'[c] = "new" => peer[c] = "new"
               /\ peer'[c] = "open" => peer[c] = "open" /\ Wire(c)' = Wire(c)
    <2>1. CASE UNCHANGED <<peer[c], out[c], stream[c]>>
      <3>1. Wire(c)' = Wire(c) /\ CutOf(Wire(c)', Wire(c))
        BY <1>2, <2>1, WireKept
      <3> QED
        BY <2>1, <3>1
    <2>2. CASE peer'[c] \notin {"new", "open"} /\ out'[c] = <<>> /\ stream'[c] \in {stream[c], <<>>}
      BY <1>2, <2>2, WireCut
    <2> QED
      BY <2>1, <2>2
  <1> QED
    BY <1>1, <1>3, CutKeeps

LEMMA SameFlags ==
  ASSUME Flags
  PROVE  /\ torn = [torn EXCEPT !.cloud = torn.cloud] /\ torn.cloud \in BOOLEAN
         /\ wrapped = [wrapped EXCEPT !.cloud = wrapped.cloud] /\ wrapped.cloud \in BOOLEAN
  BY DEF Flags

LEMMA NetworkFrame == Inv /\ Inv' /\ FrameInv /\ Network => FrameInv'
  <1> SUFFICES ASSUME Inv, Inv', FrameInv, Network PROVE FrameInv'
    OBVIOUS
  <1>1. peer \in [Client -> {"new", "open", "closed", "gone"}] /\ out \in [Sender -> Seq(Byte)] /\ stream \in [Sender -> Seq(Byte)]
    BY DEF Inv, TypeOK
  <1>2. Flags
    BY DEF FrameInv
  <1>3. ASSUME NEW d \in Client, Close(d) \/ Reset(d) \/ Vanish(d)
        PROVE  FrameInv'
    <2>1. UNCHANGED <<client, rx, buf, read, sent, torn, wrapped, backlog>>
      BY <1>3 DEF Close, Reset, Vanish
    <2>2. \A c \in Client : c # d => UNCHANGED <<peer[c], out[c], stream[c]>>
      BY <1>1, <1>3, Names DEF Close, Reset, Vanish
    <2>3. peer'[d] \notin {"new", "open"} /\ out'[d] = <<>> /\ stream'[d] \in {stream[d], <<>>}
      BY <1>1, <1>3, Names DEF Close, Reset, Vanish
    <2> QED
      BY <1>2, <2>1, <2>2, <2>3, SameFlags, CutStep
  <1>4. ASSUME CloudDrop \/ \E a \in Asker, len \in {0, 1} : Ask(a, len)
        PROVE  FrameInv'
    <2>1. UNCHANGED <<client, rx, buf, read, sent, torn, wrapped, backlog>>
      BY <1>4 DEF CloudDrop, Ask
    <2>2. \A c \in Client : UNCHANGED <<peer[c], out[c], stream[c]>>
      BY <1>1, <1>4, Names DEF CloudDrop, Ask
    <2> QED
      BY <1>2, <2>1, <2>2, SameFlags, CutStep
  <1> QED
    BY <1>3, <1>4, ArriveFrame, ComposeFrame, ConnectFrame DEF Network

LEMMA EventsFrame == Inv /\ Inv' /\ FrameInv /\ eventFwProcess => FrameInv'
  <1> SUFFICES ASSUME Inv, Inv', FrameInv, eventFwProcess PROVE FrameInv'
    OBVIOUS
  <1>1. peer \in [Client -> {"new", "open", "closed", "gone"}] /\ out \in [Sender -> Seq(Byte)] /\ stream \in [Sender -> Seq(Byte)]
    BY DEF Inv, TypeOK
  <1>2. Flags
    BY DEF FrameInv
  <1>3. UNCHANGED <<client, rx, buf, read, sent, wrapped>>
    BY DEF eventFwProcess
  <1>4. CASE sendIdentityResponse_Cloud /\ UNCHANGED <<peer, out, backlog>>
    <2>1. \A c \in Client : UNCHANGED <<peer[c], out[c], stream[c]>>
      BY <1>1, <1>4, Names DEF sendIdentityResponse_Cloud
    <2>2. torn' = [torn EXCEPT !.cloud = torn'.cloud] /\ torn'.cloud \in BOOLEAN
      BY <1>2, <1>4 DEF Flags, sendIdentityResponse_Cloud
    <2> QED
      BY <1>2, <1>3, <1>4, <2>1, <2>2, SameFlags, CutStep
  <1>5. CASE reInitTcpServer
    <2> DEFINE Dropped == {backlog[i] : i \in DOMAIN backlog}
    <2>1. /\ UNCHANGED torn /\ backlog' = <<>>
          /\ peer' = [c \in Client |-> IF c \in Dropped THEN "closed" ELSE peer[c]]
          /\ out' = [s \in Sender |-> IF s \in Dropped THEN <<>> ELSE out[s]]
          /\ stream' = [s \in Sender |-> IF s \in Dropped THEN <<>> ELSE stream[s]]
      BY <1>5 DEF reInitTcpServer
    <2> HIDE DEF Dropped
    <2>2. ASSUME NEW c \in Client
          PROVE  \/ UNCHANGED <<peer[c], out[c], stream[c]>>
                 \/ peer'[c] \notin {"new", "open"} /\ out'[c] = <<>> /\ stream'[c] \in {stream[c], <<>>}
      BY <2>1, Names
    <2> QED
      BY <1>2, <1>3, <2>1, <2>2, SameFlags, CutStep
  <1>6. CASE UNCHANGED <<peer, out, backlog, cloudUp, stream, torn>>
    BY <1>2, <1>3, <1>6, SameFlags, CutStep
  <1> QED
    BY <1>4, <1>5, <1>6 DEF eventFwProcess

LEMMA CloudFrame == Inv /\ Inv' /\ FrameInv /\ handleTcpControlMessages_CLoud => FrameInv'
  <1> SUFFICES ASSUME Inv, Inv', FrameInv, handleTcpControlMessages_CLoud PROVE FrameInv'
    OBVIOUS
  <1>1. UNCHANGED <<peer, out, backlog, client, rx, buf, read, sent>>
    BY DEF handleTcpControlMessages_CLoud, CloudNothing, CloudByte, CloudMessage, Cloud
  <1>2. \A c \in Client : UNCHANGED <<peer[c], out[c], stream[c]>>
    <2>1. stream \in [Sender -> Seq(Byte)]
      BY DEF Inv, TypeOK
    <2> QED
      BY <1>1, <2>1, Names DEF handleTcpControlMessages_CLoud, CloudNothing, CloudByte, CloudMessage
  <1>3. Flags
    BY DEF FrameInv
  <1>4. torn' = [torn EXCEPT !.cloud = torn'.cloud] /\ torn'.cloud \in BOOLEAN
    BY <1>3 DEF Flags, handleTcpControlMessages_CLoud, CloudNothing, CloudByte, CloudMessage
  <1>5. wrapped' = [wrapped EXCEPT !.cloud = wrapped'.cloud] /\ wrapped'.cloud \in BOOLEAN
    BY <1>3 DEF Flags, handleTcpControlMessages_CLoud, CloudNothing, CloudByte, CloudMessage
  <1> QED
    BY <1>1, <1>2, <1>4, <1>5, CutStep

(* Steps that do not concern the app's channel. *)
LEMMA OtherFrame ==
  ASSUME Inv, Inv', FrameInv, UNCHANGED <<peer, out, stream, backlog, appSide, read, sent, torn, wrapped>>
  PROVE  FrameInv'
  BY SameFlags, CutStep DEF FrameInv

LEMMA AcceptFrame ==
  ASSUME Inv, Inv', FrameInv, TcpAccept
  PROVE  FrameInv'
  <1>1. /\ UNCHANGED <<stream, out, peer, buf, sent, read, wrapped>>
        /\ rx' = <<>>
        /\ client' = IF backlog = <<>> THEN "none" ELSE Head(backlog)
        /\ backlog' = IF backlog = <<>> THEN <<>> ELSE Tail(backlog)
        /\ torn' = [torn EXCEPT !.app = torn.app \/ Len(buf) >= RestartBelow]
    BY DEF TcpAccept, LeavesPiece, Tcp
  <1>2. \A c \in Client : Wire(c)' = Socket(c)
    <2> TAKE c \in Client
    <2>1. Socket(c)' = Socket(c) /\ Held(c)' = <<>>
      BY <1>1 DEF Socket, Held
    <2>2. <<>> \o Socket(c) = Socket(c)
      BY WireTyped, ConcatEmptySeq DEF WireTypes
    <2> QED
      BY <2>1, <2>2 DEF Wire
  <1>3. \A c \in Client : c # client => Wire(c) = Socket(c)
    <2> TAKE c \in Client
    <2>1. <<>> \o Socket(c) = Socket(c)
      BY WireTyped, ConcatEmptySeq DEF WireTypes
    <2> QED
      BY <2>1 DEF Wire, Held
  <1>4. \A c \in Client : Threaded(sent, c, Socket(c)) /\ (peer[c] = "open" => Ended(Socket(c)))
    <2> TAKE c \in Client
    <2> DEFINE h == Held(c)
               s == Socket(c)
    <2>1. h \in Seq(Byte) /\ s \in Seq(Byte)
      BY WireTyped DEF WireTypes
    <2>2. Threaded(sent, c, h \o s) /\ (peer[c] = "open" => Ended(h \o s))
      BY DEF FrameInv, Framing, Wire
    <2> HIDE DEF h, s
    <2>3. Threaded(sent, c, s)
      BY <2>1, <2>2, ThreadedParts
    <2>4. s # <<>> => h \o s # <<>> /\ (h \o s)[Len(h \o s)] = s[Len(s)]
      BY <2>1, ConcatLast
    <2>5. peer[c] = "open" => Ended(s)
      BY <2>2, <2>4 DEF Ended
    <2> QED
      BY <2>3, <2>5 DEF s
  <1>5. Framing'
    BY <1>1, <1>2, <1>4 DEF Framing
  <1>6. backlog \in Seq(Client) /\ "none" \notin Client
    BY Names DEF Inv, TypeOK
  <1>7. \A i \in 1 .. Len(backlog') : i + 1 \in 1 .. Len(backlog) /\ backlog'[i] = backlog[i + 1]
    BY <1>1, <1>6
  <1>8. client' \in Client => 1 \in 1 .. Len(backlog) /\ client' = backlog[1]
    BY <1>1, <1>6
  <1>9. /\ \A i \in 1 .. Len(backlog) : backlog[i] \in Client /\ backlog[i] # client /\ Fresh(Wire(backlog[i]))
        /\ \A i, j \in 1 .. Len(backlog) : backlog[i] = backlog[j] => i = j
    BY <1>6 DEF FrameInv, Waiting
  <1>10. Waiting'
    <2>1. \A i \in 1 .. Len(backlog') : backlog'[i] # client'
      <3> TAKE i \in 1 .. Len(backlog')
      <3>1. i + 1 # 1
        BY <1>1, <1>6
      <3>2. backlog'[i] \in Client
        BY <1>7, <1>9
      <3> QED
        BY <1>7, <1>8, <1>9, <3>1, <3>2
    <2>2. \A i \in 1 .. Len(backlog') : Fresh(Wire(backlog[i]))'
      <3> TAKE i \in 1 .. Len(backlog')
      <3> DEFINE d == backlog[i + 1]
      <3>1. backlog'[i] = d /\ d \in Client /\ d # client /\ Fresh(Wire(d))
        BY <1>7, <1>9
      <3>2. Wire(backlog[i])' = Socket(d)
        <4>1. backlog'[i] \in Client
          BY <3>1
        <4>2. Wire(backlog[i])' = <<>> \o Socket(d)
          <5>1. Held(backlog[i])' = <<>>
            BY <1>1 DEF Held
          <5>2. Socket(backlog[i])' = Socket(d)
            BY <1>1, <3>1 DEF Socket
          <5> QED
            BY <5>1, <5>2 DEF Wire
        <4>3. <<>> \o Socket(d) = Socket(d)
          BY <3>1, WireTyped, ConcatEmptySeq DEF WireTypes
        <4> QED
          BY <4>2, <4>3
      <3>3. Fresh(Socket(d))
        BY <1>3, <3>1
      <3> QED
        BY <3>2, <3>3 DEF Fresh
    <2>3. \A i, j \in 1 .. Len(backlog') : backlog'[i] = backlog'[j] => i = j
      <3> TAKE i, j \in 1 .. Len(backlog')
      <3>1. backlog'[i] = backlog'[j] => i + 1 = j + 1
        BY <1>7, <1>9
      <3> QED
        BY <1>6, <1>1, <3>1
    <2> QED
      BY <2>1, <2>2, <2>3 DEF Waiting
  <1>11. Newcomers'
    <2> SUFFICES ASSUME NEW c \in Client, peer[c] = "new"
                 PROVE  Wire(c)' = <<>> /\ c # client' /\ \A i \in 1 .. Len(backlog') : backlog'[i] # c
      BY <1>1 DEF Newcomers
    <2>1. Wire(c) = <<>> /\ c # client /\ \A i \in 1 .. Len(backlog) : backlog[i] # c
      BY DEF FrameInv, Newcomers
    <2> QED
      BY <1>2, <1>3, <1>7, <1>8, <2>1
  <1>12. Reading'
    <2> SUFFICES ASSUME ~torn'.app, client' \in Client
                 PROVE  /\ Wire(client)' # <<>> => Fits(Wire(client)'[1], buf, wrapped.app, sent, read)
                        /\ Len(buf) < RestartBelow
      BY <1>1 DEF Reading
    <2>1. Len(buf) < RestartBelow
      <3>1. Len(buf) >= RestartBelow => torn'.app
        BY <1>1 DEF FrameInv, Flags
      <3>2. Len(buf) \in Nat /\ RestartBelow \in Nat
        BY ControlAssumption DEF Inv, TypeOK
      <3>3. ~(Len(buf) >= RestartBelow)
        BY <3>1
      <3> QED
        BY <3>2, <3>3
    <2> DEFINE d == backlog[1]
    <2>2. client' = d /\ d \in Client /\ d # client /\ Fresh(Wire(d))
      BY <1>8, <1>9
    <2>3. Wire(client)' = Wire(d)
      <3>1. Wire(client)' = Socket(client')
        <4>1. Wire(client)' = <<>> \o Socket(d)
          BY <1>1, <2>2 DEF Wire, Held, Socket
        <4>2. <<>> \o Socket(d) = Socket(d)
          BY <2>2, WireTyped, ConcatEmptySeq DEF WireTypes
        <4> QED
          BY <2>2, <4>1, <4>2
      <3> QED
        BY <1>3, <2>2, <3>1
    <2> QED
      BY <2>1, <2>2, <2>3 DEF Fits, Fresh
  <1>13. Flags'
    BY <1>1 DEF FrameInv, Flags
  <1> QED
    BY <1>5, <1>10, <1>11, <1>12, <1>13 DEF FrameInv

(* What a byte that is taken leaves of the wires. *)
LEMMA TakenFrame ==
  ASSUME Inv, Inv', FrameInv, NextByte, Fetch, UNCHANGED <<client, out, peer, sent, backlog>>
  PROVE  /\ Framing' /\ Newcomers' /\ Waiting'
         /\ ByteOf(sent, client, Head(Fetched)) /\ Head(Fetched) \in Byte
         /\ Wire(client)' # <<>> => Follows(sent, Head(Fetched), Wire(client)'[1])
         /\ Wire(client)' = <<>> /\ peer[client] = "open" => Head(Fetched)[2] = END
  <1> DEFINE w == Wire(client)
             v == Wire(client)'
  <1>1. /\ client \in Client /\ w # <<>> /\ Head(Fetched) = w[1] /\ v = Tail(w)
        /\ \A c \in Client \ {client} : Wire(c)' = Wire(c)
    BY WireRead
  <1>2. w \in Seq(Byte) /\ Threaded(sent, client, w) /\ (peer[client] = "open" => Ended(w))
    BY <1>1, WireTyped DEF WireTypes, FrameInv, Framing
  <1> HIDE DEF w, v
  <1>3. /\ Threaded(sent, client, v) /\ ByteOf(sent, client, w[1])
        /\ v # <<>> => Follows(sent, w[1], v[1])
        /\ Ended(w) => Ended(v) /\ (v = <<>> => w[1][2] = END)
    BY <1>1, <1>2, ThreadedTail
  <1>4. Framing'
    <2> SUFFICES ASSUME NEW c \in Client PROVE Threaded(sent, c, Wire(c)') /\ (peer[c] = "open" => Ended(Wire(c)'))
      BY DEF Framing
    <2>1. CASE c = client
      BY <1>2, <1>3, <2>1 DEF v
    <2>2. CASE c # client
      BY <1>1, <2>2 DEF FrameInv, Framing
    <2> QED
      BY <2>1, <2>2
  <1>5. Newcomers'
    BY <1>1 DEF FrameInv, Newcomers
  <1>6. Waiting'
    <2>1. \A i \in 1 .. Len(backlog) : backlog[i] \in Client \ {client} /\ Fresh(Wire(backlog[i]))
      BY DEF Inv, TypeOK, FrameInv, Waiting
    <2>2. \A i \in 1 .. Len(backlog) : Wire(backlog[i])' = Wire(backlog[i])
      BY <1>1, <2>1
    <2> QED
      BY <2>1, <2>2 DEF FrameInv, Waiting
  <1>7. w[1] \in Byte
    BY <1>1, <1>2
  <1> QED
    BY <1>1, <1>2, <1>3, <1>4, <1>5, <1>6, <1>7 DEF v

(* A byte that is stored leaves the buffer fit for the one that follows it. *)
LEMMA ByteFits ==
  ASSUME NEW b, NEW y, NEW log, NEW done, NEW over \in BOOLEAN, NEW c, NEW text, NEW S, text \in Seq(S),
         b = <<b[1], b[2]>>, ByteOf(log, c, b), b[2] # END, Follows(log, b, y), log[b[1]].size \in Nat,
         ~Restarts(text, b), Fits(b, text, over, log, done)
  PROVE  Fits(y, Added(text, b), over \/ Len(text) + 1 = BufLen, log, done)
  <1> DEFINE m == b[1]
             k == b[2]
             n == log[m].size
  <1>1. k \in 0 .. n + 1 /\ n \in Nat
    BY DEF ByteOf
  <1>2. y[1] = m /\ y[2] = (IF k = n + 1 THEN END ELSE k + 1)
    BY DEF Follows
  <1>3. y[2] # 0
    BY <1>1, <1>2 DEF END
  <1>4. \/ k # 0 /\ over /\ n + 2 >= BufLen
        \/ k # 0 /\ ~over /\ text = Begun(m, k)
    BY DEF Fits, Restarts
  <1>5. CASE over /\ n + 2 >= BufLen
    BY <1>2, <1>3, <1>5 DEF Fits
  <1>6. CASE k # 0 /\ ~over /\ text = Begun(m, k)
    <2>1. k \in Nat /\ Len(text) = k
      <3>1. k \in Nat
        BY <1>1
      <3> HIDE DEF m, k
      <3> QED
        BY <1>6, <3>1, BegunSeq
    <2>2. CASE k + 1 = BufLen
      <3>1. n + 2 >= BufLen
        BY <1>1, <2>2
      <3>2. over \/ Len(text) + 1 = BufLen
        BY <2>1, <2>2
      <3> QED
        BY <1>2, <1>3, <3>1, <3>2 DEF Fits
    <2>3. CASE k + 1 # BufLen
      <3>1. Added(text, b) = Begun(m, k + 1)
        <4>1. b = <<m, k>>
          OBVIOUS
        <4>2. Added(text, b) = Append(text, b)
          BY <2>1, <2>3 DEF Added
        <4>3. Append(Begun(m, k), <<m, k>>) = Begun(m, k + 1)
          BY <2>1, BegunNext
        <4> QED
          BY <1>6, <4>1, <4>2, <4>3
      <3>2. ~(over \/ Len(text) + 1 = BufLen)
        BY <1>6, <2>1, <2>3
      <3>3. k + 1 = (IF y[2] = END THEN log[y[1]].size + 2 ELSE y[2])
        BY <1>1, <1>2 DEF END
      <3> HIDE DEF m, k, n
      <3> QED
        BY <1>2, <1>3, <3>1, <3>2, <3>3 DEF Fits
    <2> QED
      BY <2>2, <2>3
  <1> QED
    BY <1>4, <1>5, <1>6

LEMMA SentSizes == Inv => \A m \in DOMAIN sent : sent[m].size \in Nat
  <1> DEFINE R == [from : Sender, size : Size, cmdr : Cmdr \cup {"none"}]
  <1> SUFFICES ASSUME Inv, NEW m \in DOMAIN sent PROVE sent[m].size \in Nat
    OBVIOUS
  <1>1. sent \in Seq(R) /\ m \in 1 .. Len(sent)
    BY DEF Inv, SentOK
  <1>2. sent[m] \in R
    <2> HIDE DEF R
    <2> QED BY <1>1, ElementOfSeq
  <1> QED
    BY <1>2, Numbers

LEMMA ByteFrame ==
  ASSUME Inv, Inv', FrameInv, TcpByte
  PROVE  FrameInv'
  <1> DEFINE b == Head(Fetched)
             y == Wire(client)'[1]
  <1>1. NextByte /\ Fetch /\ b[2] # END /\ UNCHANGED <<client, out, peer, sent, backlog, read>>
    BY DEF TcpByte, EndsMessage, Tcp
  <1>2. /\ Framing' /\ Newcomers' /\ Waiting'
        /\ ByteOf(sent, client, b) /\ b \in Byte
        /\ Wire(client)' # <<>> => Follows(sent, b, y)
        /\ Wire(client)' = <<>> /\ peer[client] = "open" => b[2] = END
    BY <1>1, TakenFrame
  <1>3. b = <<b[1], b[2]>> /\ b[1] \in DOMAIN sent /\ sent[b[1]].size \in Nat
    BY <1>2, SentSizes DEF Byte, ByteOf
  <1>4. client \in Client /\ Wire(client) # <<>> /\ b = Wire(client)[1]
    BY <1>1, WireRead
  <1>5. torn \in [app : BOOLEAN, cloud : BOOLEAN] /\ wrapped \in [app : BOOLEAN, cloud : BOOLEAN]
    BY DEF FrameInv, Flags
  <1>6. Flags'
    BY <1>5 DEF TcpByte, Flags
  <1>7. Reading'
    <2> SUFFICES ASSUME ~torn'.app, Wire(client)' # <<>> PROVE Fits(y, buf', wrapped'.app, sent, read)
      BY <1>1, <1>2 DEF Reading
    <2>1. Follows(sent, b, y)
      BY <1>2
    <2>2. CASE Restarts(buf, b)
      <3>1. buf' = <<b>> /\ ~wrapped'.app /\ b[2] = 0
        BY <1>5, <2>2 DEF TcpByte, Stored, Restarts
      <3>2. buf' = Begun(b[1], 1)
        BY <1>3, <3>1, BegunOne
      <3> HIDE DEF b, y
      <3>3. y[1] = b[1] /\ y[2] = 1
        BY <1>3, <2>1, <3>1 DEF Follows, END
      <3> QED
        BY <3>1, <3>2, <3>3 DEF Fits, END
    <2>3. CASE ~Restarts(buf, b)
      <3>1. buf' = Added(buf, b) /\ UNCHANGED torn /\ wrapped' = [wrapped EXCEPT !.app = wrapped.app \/ Len(buf) + 1 = BufLen]
        BY <2>3 DEF TcpByte, Stored
      <3>2. Fits(b, buf, wrapped.app, sent, read)
        BY <1>4, <3>1 DEF FrameInv, Reading
      <3> DEFINE over == wrapped.app
                 more == over \/ Len(buf) + 1 = BufLen
      <3>3. wrapped'.app = more
        BY <1>5, <3>1
      <3>4. over \in BOOLEAN /\ buf \in Seq(Byte)
        BY <1>5 DEF Inv, TypeOK
      <3> HIDE DEF b, y, over
      <3>5. Fits(b, buf, over, sent, read)
        BY <3>2 DEF over
      <3>6. Fits(y, Added(buf, b), more, sent, read)
        BY <1>1, <1>2, <1>3, <2>1, <2>3, <3>4, <3>5, ByteFits DEF b
      <3> HIDE DEF more
      <3> QED
        BY <3>1, <3>3, <3>6
    <2> QED
      BY <2>2, <2>3
  <1> QED
    BY <1>2, <1>6, <1>7 DEF FrameInv

LEMMA MessageFrame ==
  ASSUME Inv, Inv', FrameInv, TcpMessage
  PROVE  FrameInv'
  <1> DEFINE b == Head(Fetched)
             y == Wire(client)'[1]
  <1>1. /\ NextByte /\ Fetch /\ b[2] = END /\ UNCHANGED <<client, out, peer, sent, backlog>>
        /\ buf' = <<>> /\ read' = read \cup {b[1]}
        /\ torn' = [torn EXCEPT !.app = FALSE] /\ wrapped' = [wrapped EXCEPT !.app = FALSE]
    BY DEF TcpMessage, EndsMessage, Tcp
  <1>2. /\ Framing' /\ Newcomers' /\ Waiting'
        /\ Wire(client)' # <<>> => Follows(sent, b, y)
    BY <1>1, TakenFrame
  <1>3. Flags' /\ ~wrapped'.app
    BY <1>1 DEF FrameInv, Flags
  <1>4. Len(buf') = 0 /\ 0 < RestartBelow
    BY <1>1, ControlAssumption
  <1>5. Reading'
    <2> SUFFICES ASSUME Wire(client)' # <<>> PROVE Fits(y, buf', wrapped'.app, sent, read')
      BY <1>1, <1>4 DEF Reading
    <2> HIDE DEF b, y
    <2>1. y = <<b[1], END>> \/ y[2] = 0
      BY <1>1, <1>2 DEF Follows
    <2> QED
      BY <1>1, <1>3, <1>4, <2>1 DEF Fits
  <1> QED
    BY <1>2, <1>3, <1>5 DEF FrameInv

LEMMA FrameInit == Init => FrameInv
  <1> SUFFICES ASSUME Init PROVE FrameInv
    OBVIOUS
  <1>1. \A c \in Client : Wire(c) = <<>>
    <2> TAKE c \in Client
    <2>1. Held(c) = <<>> /\ Socket(c) = <<>> \o <<>>
      BY Names DEF Init, Held, Socket
    <2>2. <<>> \o <<>> = <<>>
      OBVIOUS
    <2> QED
      BY <2>1, <2>2 DEF Wire
  <1>2. client \notin Client /\ Len(backlog) = 0 /\ Len(buf) = 0
    BY Names DEF Init
  <1>3. Flags
    BY DEF Init, Flags
  <1>4. Framing
    <2>1. Len(<<>>) = 0
      OBVIOUS
    <2> QED
      BY <1>1, <2>1 DEF Framing, Threaded, Ended
  <1>5. Newcomers /\ Waiting /\ Reading
    BY <1>1, <1>2 DEF Newcomers, Waiting, Reading
  <1> QED
    BY <1>3, <1>4, <1>5 DEF FrameInv

LEMMA FrameStep == Inv /\ Inv' /\ FrameInv /\ [Next]_vars => FrameInv'
  <1> SUFFICES ASSUME Inv, Inv', FrameInv, [Next]_vars PROVE FrameInv'
    OBVIOUS
  <1>1. CASE UNCHANGED vars
    BY <1>1, OtherFrame
  <1>2. CASE receiveMulticastMessage
    BY <1>2, OtherFrame DEF receiveMulticastMessage
  <1>3. CASE TcpNothing
    BY <1>3, OtherFrame DEF TcpNothing, Tcp
  <1> QED
    BY <1>1, <1>2, <1>3, NetworkFrame, EventsFrame, CloudFrame, AcceptFrame, ByteFrame, MessageFrame
       DEF Next, Loop, handleTcpControlMessages

(* A message that ends is a whole one of the client whose end it is, or a bare line end,
   whatever pieces and broken connections came before it: only a message too long for
   the buffer, or one behind a long piece of another, is anything else
   (tcpControlServer.ino, storeMessage and handleTcpControlMessages). *)
THEOREM MessagesFramed == Spec => []Framed
  <1>1. Inv /\ FrameInv => Framed
    <2> SUFFICES ASSUME Inv, FrameInv, EndsMessage, ~torn.app, ~wrapped.app
                 PROVE  buf = <<>> \/ \E m \in DOMAIN sent : buf = Whole(m) /\ sent[m].from = client
      BY DEF Framed
    <2> DEFINE b == Head(Fetched)
    <2>1. client \in Client /\ Wire(client) # <<>> /\ b = Wire(client)[1] /\ b[2] = END
      BY HeadOfWire DEF EndsMessage
    <2>2. ByteOf(sent, client, b)
      BY <2>1, WireTyped, ThreadedTail DEF WireTypes, FrameInv, Framing
    <2>3. Fits(b, buf, wrapped.app, sent, read)
      BY <2>1 DEF FrameInv, Reading
    <2> HIDE DEF b
    <2> QED
      BY <2>1, <2>2, <2>3 DEF Fits, END, ByteOf, Whole, Object, Begun
  <1> QED
    BY <1>1, FrameInit, FrameStep, Inductive, PTL DEF Spec

-----------------------------------------------------------------------------
(* The messages that were read to their end but not executed, though they fit. *)
Lost == {m \in read \ executed : sent[m].size + 2 < BufLen}

(* A tear that has not cost a message yet can cost one. *)
LossInv ==
  /\ read \subseteq DOMAIN sent
  /\ Cardinality(Lost) + (IF torn.app THEN 1 ELSE 0) <= tears

Counted == IsFiniteSet(Lost) /\ Cardinality(Lost) \in Nat

LEMMA LostCounted == Inv => Counted
  <1> SUFFICES ASSUME Inv PROVE IsFiniteSet(Lost) /\ Cardinality(Lost) \in Nat
    BY DEF Counted
  <1>1. Lost \subseteq 1 .. MaxMessages
    BY DEF Lost, Inv, TypeOK, Message
  <1>2. IsFiniteSet(1 .. MaxMessages)
    BY Numbers, FS_Interval
  <1> QED
    BY <1>1, <1>2, FS_Subset, FS_CardinalityType

LEMMA LostCountedNext == Inv' => Counted'
  BY LostCounted, PTL

LEMMA LossInit == Init => LossInv
  <1> SUFFICES ASSUME Init PROVE LossInv
    OBVIOUS
  <1>1. Lost = {}
    BY DEF Init, Lost
  <1>2. Cardinality({}) = 0
    BY FS_EmptySet
  <1> QED
    BY <1>1, <1>2 DEF Init, LossInv

(* Nothing new is lost, and no tear made good. *)
LEMMA LossKept ==
  ASSUME Inv, Inv', LossInv, Lost' \subseteq Lost, read' \subseteq DOMAIN sent',
         torn'.app => torn.app /\ tears' = tears, tears' >= tears
  PROVE  LossInv'
  <1>1. Cardinality(Lost') <= Cardinality(Lost)
    BY LostCounted, FS_Subset DEF Counted
  <1>2. Cardinality(Lost) \in Nat /\ Cardinality(Lost') \in Nat /\ tears \in Nat /\ tears' \in Nat
    BY LostCounted, LostCountedNext DEF Inv, TypeOK, Counted
  <1> DEFINE l == Cardinality(Lost)
             k == Cardinality(Lost')
  <1>3. l + (IF torn.app THEN 1 ELSE 0) <= tears
    BY DEF LossInv
  <1> HIDE DEF l, k
  <1>4. k + (IF torn'.app THEN 1 ELSE 0) <= tears'
    BY <1>1, <1>2, <1>3 DEF l, k
  <1> QED
    BY <1>4 DEF LossInv, k

LEMMA LossAccept ==
  ASSUME Inv, Inv', FrameInv, LossInv, TcpAccept
  PROVE  LossInv'
  <1>1. UNCHANGED <<sent, read, executed>> /\ Lost' = Lost
    BY DEF TcpAccept, Tcp, Lost
  <1>2. tears' = IF torn'.app /\ ~torn.app THEN tears + 1 ELSE tears
    BY DEF TcpAccept, LeavesPiece
  <1>3. torn.app => torn'.app
    BY DEF TcpAccept, LeavesPiece, FrameInv, Flags
  <1>4. Cardinality(Lost) \in Nat /\ tears \in Nat
    BY LostCounted DEF Inv, TypeOK, Counted
  <1> DEFINE l == Cardinality(Lost)
  <1>5. l + (IF torn.app THEN 1 ELSE 0) <= tears
    BY DEF LossInv
  <1>6. l \in Nat /\ Cardinality(Lost') = l
    BY <1>1, <1>4
  <1> HIDE DEF l
  <1>7. l + (IF torn'.app THEN 1 ELSE 0) <= tears'
    BY <1>2, <1>3, <1>4, <1>5, <1>6
  <1> QED
    BY <1>1, <1>6, <1>7 DEF LossInv

LEMMA WholeIsCommand ==
  ASSUME Inv, NEW m \in DOMAIN sent
  PROVE  m \in Command(Begun(m, sent[m].size + 2))
  <1> DEFINE w == Begun(m, sent[m].size + 2)
  <1>1. w = Whole(m)
    BY DEF Begun, Whole, Object
  <1>2. w \in Seq({m} \X Int)
    <2>1. sent[m].size + 2 \in Nat
      BY SentSizes
    <2> QED
      BY <2>1, BegunSeq
  <1> HIDE DEF w
  <1>3. SubSeq(w, 1, Len(w)) = w /\ Len(w) <= Len(w)
    BY <1>2, SubSeqFull
  <1>4. Starts(w, w)
    BY <1>3 DEF Starts
  <1> QED
    BY <1>1, <1>4 DEF Command, w

LEMMA LossMessage ==
  ASSUME Inv, Inv', FrameInv, LossInv, TcpMessage
  PROVE  LossInv'
  <1> DEFINE b == Head(Fetched)
             m == b[1]
  <1>1. /\ NextByte /\ b[2] = END /\ UNCHANGED <<sent, tears>>
        /\ read' = read \cup {m} /\ executed' = executed \cup Command(buf)
        /\ ~torn'.app
    BY DEF TcpMessage, EndsMessage, Tcp, FrameInv, Flags
  <1>2. client \in Client /\ Wire(client) # <<>> /\ b = Wire(client)[1]
    BY <1>1, HeadOfWire
  <1>3. m \in DOMAIN sent /\ sent[m].size \in Nat
    <2>1. ByteOf(sent, client, b)
      BY <1>2, WireTyped, ThreadedTail DEF WireTypes, FrameInv, Framing
    <2> QED
      BY <2>1, SentSizes DEF ByteOf
  <1>4. read' \subseteq DOMAIN sent'
    BY <1>1, <1>3 DEF LossInv
  <1>5. Lost' \subseteq Lost \cup {m}
    BY <1>1 DEF Lost
  <1>6. tears' >= tears
    BY <1>1 DEF Inv, TypeOK
  <1>7. CASE ~torn.app
    <2>1. Fits(b, buf, wrapped.app, sent, read)
      BY <1>2, <1>7 DEF FrameInv, Reading
    <2>2. \/ sent[m].size + 2 >= BufLen
          \/ m \in read
          \/ buf = Begun(m, sent[m].size + 2)
      <3> HIDE DEF b
      <3> QED BY <1>1, <2>1 DEF Fits, END
    <2>3. m \in Lost' => m \in Lost
      <3>1. CASE sent[m].size + 2 >= BufLen
        <4>1. ~(sent[m].size + 2 < BufLen)
          BY <1>3, <3>1, Numbers
        <4> QED
          BY <1>1, <4>1 DEF Lost
      <3>2. CASE m \in read
        BY <1>1, <3>2 DEF Lost
      <3>3. CASE buf = Begun(m, sent[m].size + 2)
        <4>1. m \in Command(buf)
          BY <1>3, <3>3, WholeIsCommand
        <4> QED
          BY <1>1, <4>1 DEF Lost
      <3> QED
        BY <2>2, <3>1, <3>2, <3>3
    <2>4. Lost' \subseteq Lost
      BY <1>5, <2>3
    <2> QED
      BY <1>1, <1>4, <1>6, <2>4, LossKept
  <1>8. CASE torn.app
    <2> DEFINE l == Cardinality(Lost)
               k == Cardinality(Lost')
               j == Cardinality(Lost \cup {m})
    <2>1. IsFiniteSet(Lost \cup {m}) /\ j <= l + 1
      <3>1. IsFiniteSet(Lost) /\ l \in Nat
        BY LostCounted DEF Counted
      <3>2. IsFiniteSet(Lost \cup {m}) /\ j = IF m \in Lost THEN l ELSE l + 1
        BY <3>1, FS_AddElement
      <3> QED
        BY <3>1, <3>2
    <2>2. k <= j
      BY <1>5, <2>1, FS_Subset
    <2>3. l \in Nat /\ k \in Nat /\ j \in Nat /\ tears \in Nat
      BY <2>1, LostCounted, LostCountedNext, FS_CardinalityType DEF Inv, TypeOK, Counted
    <2>4. l + 1 <= tears
      BY <1>8 DEF LossInv
    <2> HIDE DEF l, k, j
    <2>5. k + 0 <= tears
      BY <2>1, <2>2, <2>3, <2>4
    <2> QED
      BY <1>1, <1>4, <2>5 DEF LossInv, k
  <1> QED
    BY <1>7, <1>8

LEMMA LossStep == Inv /\ Inv' /\ FrameInv /\ LossInv /\ [Next]_vars => LossInv'
  <1> SUFFICES ASSUME Inv, Inv', FrameInv, LossInv, [Next]_vars PROVE LossInv'
    OBVIOUS
  <1>1. tears \in Nat
    BY DEF Inv, TypeOK
  <1>2. torn \in [app : BOOLEAN, cloud : BOOLEAN]
    BY DEF FrameInv, Flags
  <1>3. CASE UNCHANGED <<read, executed, tears, sent>> /\ (torn'.app => torn.app)
    <2>1. Lost' = Lost /\ read' \subseteq DOMAIN sent'
      BY <1>3 DEF Lost, LossInv
    <2> QED
      BY <1>1, <1>3, <2>1, LossKept
  <1>4. CASE UNCHANGED vars
    BY <1>3, <1>4
  <1>5. CASE Network
    <2>1. ASSUME NEW s \in Sender, NEW size \in Size, NEW ends \in Terminators, Compose(s, size, ends)
          PROVE  LossInv'
      <3>1. UNCHANGED <<read, executed, tears, torn>>
        BY <2>1 DEF Compose
      <3>2. \A m \in DOMAIN sent : m \in DOMAIN sent' /\ sent'[m] = sent[m]
        <4>1. PICK cmdr \in (IF s = "cloud" THEN Cmdr ELSE {"none"}) :
                sent' = Append(sent, [from |-> s, size |-> size, cmdr |-> cmdr])
          BY <2>1 DEF Compose
        <4> DEFINE r == [from |-> s, size |-> size, cmdr |-> cmdr]
        <4> HIDE DEF r
        <4>2. sent' = Append(sent, r)
          BY <4>1 DEF r
        <4>3. sent \in Seq([from : Sender, size : Size, cmdr : Cmdr \cup {"none"}])
          BY DEF Inv, SentOK
        <4> QED
          BY <4>2, <4>3
      <3>3. Lost' \subseteq Lost /\ read' \subseteq DOMAIN sent'
        BY <3>1, <3>2 DEF Lost, LossInv
      <3> QED
        BY <1>1, <3>1, <3>3, LossKept
    <2>2. CASE ~\E s \in Sender, size \in Size, ends \in Terminators : Compose(s, size, ends)
      BY <1>3, <1>5, <2>2 DEF Network, Connect, Close, Reset, Vanish, Arrive, CloudDrop, Ask
    <2> QED
      BY <2>1, <2>2
  <1>6. CASE eventFwProcess
    <2>1. torn'.app = torn.app
      BY <1>2, <1>6 DEF eventFwProcess, sendIdentityResponse_Cloud, reInitTcpServer
    <2> QED
      BY <1>3, <1>6, <2>1 DEF eventFwProcess
  <1>7. CASE receiveMulticastMessage
    BY <1>3, <1>7 DEF receiveMulticastMessage
  <1>8. CASE TcpNothing
    BY <1>3, <1>8 DEF TcpNothing, Tcp
  <1>9. CASE TcpByte
    <2>1. torn'.app => torn.app
      BY <1>2, <1>9 DEF TcpByte
    <2> QED
      BY <1>3, <1>9, <2>1 DEF TcpByte, Tcp
  <1>10. CASE handleTcpControlMessages_CLoud
    <2>1. torn'.app = torn.app
      BY <1>2, <1>10 DEF handleTcpControlMessages_CLoud, CloudNothing, CloudByte, CloudMessage
    <2> QED
      BY <1>3, <1>10, <2>1 DEF handleTcpControlMessages_CLoud, CloudNothing, CloudByte, CloudMessage, Cloud
  <1> QED
    BY <1>4, <1>5, <1>6, <1>7, <1>8, <1>9, <1>10, LossAccept, LossMessage DEF Next, Loop, handleTcpControlMessages

(* A broken connection costs the app at most one later message of those that fit into the
   buffer, for any number of clients, messages and broken connections: the next end of a
   message empties the buffer (tcpControlServer.ino, reInitMessenger). *)
THEOREM OneLossPerTear == Spec => []OneLostPerTear
  <1>1. Inv /\ LossInv => OneLostPerTear
    <2> SUFFICES ASSUME Inv, LossInv PROVE Cardinality(Lost) <= tears
      BY DEF OneLostPerTear, Lost
    <2> DEFINE l == Cardinality(Lost)
    <2>1. l \in Nat /\ tears \in Nat /\ l + (IF torn.app THEN 1 ELSE 0) <= tears
      BY LostCounted DEF LossInv, Inv, TypeOK, Counted
    <2> HIDE DEF l
    <2>2. l <= tears
      BY <2>1
    <2> QED
      BY <2>2 DEF l
  <1> QED
    BY <1>1, FrameInit, FrameStep, LossInit, LossStep, Inductive, PTL DEF Spec
=============================================================================

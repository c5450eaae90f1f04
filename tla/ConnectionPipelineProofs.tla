---------------------- MODULE ConnectionPipelineProofs ----------------------
(***************************************************************************)
(* The connections table follows the clients, for any number of clients,   *)
(* messages, consumers and faults.  The partition of the pipeline changes  *)
(* hands only when its owner has ended, so handlers do not overlap.        *)
(*                                                                         *)
(* The invariants of the two consumers hold in the pipeline as well: a     *)
(* step of it is a step of each, or leaves its variables alone.  Between   *)
(* the two, the partition holds what the clients said; and behind them,    *)
(* the table is what the last status that took effect makes of it.         *)
(***************************************************************************)
EXTENDS ConnectionPipeline, KafkaMessageConsumerProofs

\* The MQTT message consumer of the pipeline, with what is proved of it.
MP == INSTANCE MqttMessageConsumerProofs WITH
    MqttMessage <- {Envelope(c) : c \in ClientID},
    Prefix      <- "redhat",
    Partition   <- {1},
    Hash        <- OnePartition

\* What the clients published: every message has an id of its own.
ContentInv ==
    /\ content \in Seq(Message)
    /\ Len(content) = Len(published)
    /\ \A i \in DOMAIN content : published[i] = Envelope(content[i].client_id)
    /\ \A i, j \in DOMAIN content : i < j => content[i].message_id # content[j].message_id

\* The partition holds what the messages say that were written to it.
CarriedInv == log = [i \in DOMAIN kafka[1] |-> content[kafka[1][i]]]

\* An online message m has been recorded in the table t, is older than what has
\* been recorded, or is one of those, g, that a handler gave up on.
Registered(m, t, g) ==
    \/ m.message_id \in g
    \/ /\ t[m.client_id] # <<>>
       /\ \A r \in FindConnectionByClientID(t, m.client_id) : IsDuplicateOrOldMessage(r, m)

\* The message says whether its client is connected.
IsStatus(m) == m.state \in {"online", "offline"}

\* The last status of a client among the first n messages of the partition l.
LastStatus(o, c, l, n) ==
    /\ l[o].client_id = c
    /\ IsStatus(l[o])
    /\ \A o2 \in 1..n : o2 > o /\ l[o2].client_id = c => ~IsStatus(l[o2])

\* The rows of a client are what its last status makes of them.
RowFollows(c, l, n, t, g) ==
    \/ /\ \A o \in 1..n : l[o].client_id = c => ~IsStatus(l[o])
       /\ t[c] = <<>>
    \/ \E o \in 1..n :
         /\ LastStatus(o, c, l, n)
         /\ l[o].state = "offline" => t[c] = <<>>
         /\ l[o].state = "online" => Registered(l[o], t, g)

FollowsInv == \A c \in ClientID : RowFollows(c, log, applied, connections, gaveUp)

\* A handler that is past the upsert, or decided against it, knows that the message
\* is dealt with.
DoneCalls == {"record", "lookup", "create", "commit"}

HandlerFollows(p) ==
    proc[p].pc \in DoneCalls /\ Msg(p).state = "online" =>
      Registered(Msg(p), connections, gaveUp)

PipelineInv ==
    /\ MP!MqttInv
    /\ LedgerInv
    /\ RowIsOneMessage
    /\ ContentInv
    /\ CarriedInv
    /\ FollowsInv
    /\ \A p \in Consumer : HandlerFollows(p)

-----------------------------------------------------------------------------
(* The MQTT message consumer of the pipeline *)

\* The pipeline gives the MQTT message consumer what it assumes.
LEMMA MqttConstants == MP!MqttAssumption
BY PipelineAssumption DEF MP!MqttAssumption, Envelope, OnePartition

\* Every message of the pipeline is forwarded, on behalf of its client.
LEMMA EnvelopeForwarded ==
    ASSUME NEW c
    PROVE  MP!Forwarded(Envelope(c)) /\ MP!TopicClient(Envelope(c).topic) = c
BY DEF MP!Forwarded, MP!IsIncomingTopic, MP!TopicType, MP!TopicClient, Envelope

\* The steps of the MQTT message consumer in the pipeline are its own.
LEMMA MqttMoves ==
    ASSUME \/ MqttProgress \/ MqttFault
    PROVE  \/ MP!AckReceived \/ MP!HandleMessage
           \/ MP!WriteMessage \/ MP!WriteMessageFails
           \/ MP!Connect \/ MP!ConnectionLost \/ MP!ShutDown \/ MP!Crash
<1>1. Mqtt!AckReceived => MP!AckReceived
  BY DEF Mqtt!AckReceived, MP!AckReceived
<1>2. Mqtt!Connect => MP!Connect
  BY DEF Mqtt!Connect, MP!Connect
<1>3. Mqtt!HandleMessage => MP!HandleMessage
  BY DEF Mqtt!HandleMessage, MP!HandleMessage, Mqtt!IsNext, MP!IsNext, Mqtt!Forwarded,
         MP!Forwarded, Mqtt!IsIncomingTopic, MP!IsIncomingTopic, Mqtt!TopicType, MP!TopicType
<1>4. \A n : Mqtt!Write(n) <=> MP!Write(n)
  BY DEF Mqtt!Write, MP!Write, Mqtt!ClientOf, MP!ClientOf, Mqtt!TopicClient, MP!TopicClient
<1>5. Mqtt!WriteMessage => MP!WriteMessage
  BY <1>4 DEF Mqtt!WriteMessage, MP!WriteMessage
<1>6. Mqtt!ShutDown => MP!ShutDown
  BY DEF Mqtt!ShutDown, MP!ShutDown, Mqtt!Terminate, MP!Terminate
<1>7. Mqtt!WriteMessageFails => MP!WriteMessageFails
  BY <1>4 DEF Mqtt!WriteMessageFails, MP!WriteMessageFails, Mqtt!Fault, MP!Fault,
              Mqtt!Terminate, MP!Terminate
<1>8. Mqtt!ConnectionLost => MP!ConnectionLost
  BY DEF Mqtt!ConnectionLost, MP!ConnectionLost, Mqtt!Fault, MP!Fault
<1>9. Mqtt!Crash => MP!Crash
  BY DEF Mqtt!Crash, MP!Crash, Mqtt!Fault, MP!Fault, Mqtt!Terminate, MP!Terminate
<1> QED
  BY <1>1, <1>2, <1>3, <1>5, <1>6, <1>7, <1>8, <1>9 DEF MqttProgress, MqttFault

\* The steps of the pipeline keep the invariant of the MQTT message consumer.
LEMMA MqttStep ==
    ASSUME MP!MqttInv, [PipelineNext]_pipelineVars
    PROVE  MP!MqttInv'
<1>1. ASSUME NEW m \in Message, ClientPublishes(m)
      PROVE  MP!MqttInv'
  <2>1. m \in ControlMessage
    BY TableAssumption
  <2>2. Envelope(m.client_id) \in {Envelope(c) : c \in ClientID}
    BY <2>1 DEF ControlMessage
  <2>3. MP!ClientPublish(Envelope(m.client_id))
    BY <1>1 DEF ClientPublishes, Mqtt!ClientPublish, MP!ClientPublish
  <2> HIDE DEF MP!MqttInv, MP!ClientPublish
  <2> QED
    BY <2>2, <2>3, MqttConstants, MP!PublishPreserves
<1>2. CASE MqttProgress \/ MqttFault
  BY <1>2, MqttMoves, MqttConstants, MP!AckPreserves, MP!HandlePreserves, MP!WritePreserves,
     MP!LinkPreserves
<1>3. ASSUME UNCHANGED pipeVars, faults' \in 0..MaxFaults
      PROVE  MP!MqttInv'
  <2>1. UNCHANGED <<published, unacked, acks, link, taken, writing, kafka>>
    BY <1>3 DEF pipeVars
  <2> QED
    BY <1>3, <2>1 DEF MP!MqttInv, MP!MqttTypeOK, MP!HeldIsSuffix, MP!HandlerInv, MP!AcksInv,
       MP!WrittenInv, MP!KeyedInv, MP!NoOvertaking, MP!NewerFollow, MP!Written, MP!ClientOf
<1>4. faults \in 0..MaxFaults
  BY DEF MP!MqttInv, MP!MqttTypeOK
<1>5. ASSUME NEW p \in Consumer, ConsumerProgress(p)
      PROVE  MP!MqttInv'
  BY <1>3, <1>4, <1>5 DEF ConsumerProgress
<1>6. ASSUME NEW p \in Consumer, ConsumerFault(p)
      PROVE  MP!MqttInv'
  <2>1. faults' \in 0..MaxFaults /\ UNCHANGED pipeVars
    BY <1>4, <1>6, PipelineAssumption DEF ConsumerFault, Mqtt!Fault
  <2> QED
    BY <1>3, <2>1
<1>7. CASE UNCHANGED pipelineVars
  BY <1>3, <1>4, <1>7 DEF pipelineVars, pipeVars
<1> QED
  BY <1>1, <1>2, <1>5, <1>6, <1>7 DEF PipelineNext

-----------------------------------------------------------------------------
(* Between the two consumers *)

\* What is known of the partition and of what was published.
LEMMA PartitionTypes ==
    ASSUME MP!MqttInv, ContentInv, CarriedInv
    PROVE  /\ content \in Seq(ControlMessage) /\ Len(content) \in Nat
           /\ DOMAIN content = 1..Len(content) /\ Len(published) = Len(content)
           /\ DOMAIN published = 1..Len(content)
           /\ kafka[1] \in Seq(1..Len(content))
           /\ \A i \in DOMAIN kafka[1] : kafka[1][i] \in DOMAIN content
           /\ DOMAIN log = DOMAIN kafka[1]
           /\ \A i \in DOMAIN log : log[i] = content[kafka[1][i]]
           /\ writing \in 0..Len(content)
<1>1. content \in Seq(ControlMessage)
  BY TableAssumption DEF ContentInv
<1>2. /\ Len(content) \in Nat /\ DOMAIN content = 1..Len(content)
      /\ Len(published) = Len(content)
  BY <1>1 DEF ContentInv
<1>3. /\ published \in Seq({Envelope(c) : c \in ClientID})
      /\ kafka \in [{1} -> Seq(1..Len(published))]
      /\ writing \in 0..Len(published)
  BY DEF MP!MqttInv, MP!MqttTypeOK
<1>4. kafka[1] \in Seq(1..Len(content)) /\ DOMAIN published = 1..Len(content)
  BY <1>2, <1>3
<1>5. \A i \in DOMAIN kafka[1] : kafka[1][i] \in DOMAIN content
  BY <1>2, <1>4
<1>6. DOMAIN log = DOMAIN kafka[1] /\ \A i \in DOMAIN log : log[i] = content[kafka[1][i]]
  BY DEF CarriedInv
<1> QED
  BY <1>1, <1>2, <1>3, <1>4, <1>5, <1>6

\* Clients publish messages that are new.
LEMMA ContentStep ==
    ASSUME MP!MqttInv, ContentInv, CarriedInv, [PipelineNext]_pipelineVars
    PROVE  ContentInv'
<1>1. /\ content \in Seq(Message) /\ Len(content) \in Nat /\ Len(published) = Len(content)
      /\ DOMAIN content = 1..Len(content) /\ DOMAIN published = 1..Len(content)
      /\ published \in Seq({Envelope(c) : c \in ClientID})
  BY PartitionTypes DEF ContentInv, MP!MqttInv, MP!MqttTypeOK
<1>2. ASSUME NEW m \in Message, ClientPublishes(m)
      PROVE  ContentInv'
  <2> DEFINE L == Len(content)
             env == Envelope(m.client_id)
  <2>1. content' = Append(content, m) /\ published' = Append(published, env) /\ IsNew(m)
    BY <1>2 DEF ClientPublishes, Mqtt!ClientPublish
  <2> HIDE DEF env
  <2>2. /\ content' \in Seq(Message) /\ Len(content') = L + 1
        /\ DOMAIN content' = 1..(L + 1)
        /\ content'[L + 1] = m /\ \A i \in 1..L : content'[i] = content[i]
    BY <1>1, <2>1
  <2>3. /\ Len(published') = L + 1
        /\ published'[L + 1] = env /\ \A i \in 1..L : published'[i] = published[i]
    BY <1>1, <2>1
  <2>4. ASSUME NEW i \in DOMAIN content'
        PROVE  published'[i] = Envelope(content'[i].client_id)
    <3>1. CASE i = L + 1
      BY <2>2, <2>3, <3>1 DEF env
    <3>2. CASE i \in 1..L
      BY <1>1, <2>2, <2>3, <3>2 DEF ContentInv
    <3> QED
      BY <1>1, <2>2, <3>1, <3>2
  <2>5. ASSUME NEW i \in DOMAIN content', NEW j \in DOMAIN content', i < j
        PROVE  content'[i].message_id # content'[j].message_id
    <3>1. i \in 1..L
      BY <1>1, <2>2, <2>5
    <3>2. CASE j = L + 1
      BY <1>1, <2>1, <2>2, <3>1, <3>2 DEF IsNew
    <3>3. CASE j \in 1..L
      BY <1>1, <2>2, <2>5, <3>1, <3>3 DEF ContentInv
    <3> QED
      BY <1>1, <2>2, <3>2, <3>3
  <2> QED
    BY <2>2, <2>3, <2>4, <2>5 DEF ContentInv
<1>3. CASE UNCHANGED <<content, published>>
  BY <1>3 DEF ContentInv
<1>4. ASSUME MqttProgress \/ MqttFault
      PROVE  UNCHANGED <<content, published>>
  <2>1. content' = content
    BY <1>4 DEF MqttProgress, MqttFault, Carried
  <2>2. published' = published
    BY <1>4, MqttMoves
       DEF MP!AckReceived, MP!HandleMessage, MP!WriteMessage, MP!WriteMessageFails,
           MP!Connect, MP!ConnectionLost, MP!ShutDown, MP!Crash
  <2> QED
    BY <2>1, <2>2
<1>5. ASSUME NEW p \in Consumer, ConsumerProgress(p) \/ ConsumerFault(p)
      PROVE  UNCHANGED <<content, published>>
  BY <1>5 DEF ConsumerProgress, ConsumerFault, pipeVars
<1> QED
  BY <1>2, <1>3, <1>4, <1>5 DEF PipelineNext, pipelineVars, pipeVars

\* What the MQTT message consumer does to the partition (WriteMessages).
LEMMA MqttWrites ==
    ASSUME MP!MqttInv, MqttProgress \/ MqttFault
    PROVE  \/ kafka' = kafka
           \/ writing # 0 /\ kafka'[1] = Append(kafka[1], writing)
<1>1. kafka \in [{1} -> Seq(1..Len(published))]
  BY DEF MP!MqttInv, MP!MqttTypeOK
<1>2. ASSUME MP!Write(writing)
      PROVE  kafka'[1] = Append(kafka[1], writing)
  BY <1>1, <1>2 DEF MP!Write, OnePartition
<1> QED
  BY <1>2, MqttMoves
     DEF MP!AckReceived, MP!HandleMessage, MP!WriteMessage, MP!WriteMessageFails,
         MP!Connect, MP!ConnectionLost, MP!ShutDown, MP!Crash

\* To the Kafka message consumers, the pipeline is a partition that messages of
\* the clients arrive at.
LEMMA PipelineShapes ==
    ASSUME MP!MqttInv, ContentInv, CarriedInv, ConsumerTypeOK, [PipelineNext]_pipelineVars
    PROVE  /\ \/ UNCHANGED consumerVars
              \/ \E m \in Message : Arrives(m)
              \/ \E p \in Consumer : ConsumerProgress(p) \/ ConsumerFault(p)
           /\ CarriedInv'
<1> DEFINE K == kafka[1]
           L == Len(content)
<1>1. /\ content \in Seq(Message) /\ L \in Nat /\ DOMAIN content = 1..L
      /\ K \in Seq(1..L) /\ \A i \in DOMAIN K : K[i] \in DOMAIN content
      /\ DOMAIN log = DOMAIN K /\ \A i \in DOMAIN log : log[i] = content[K[i]]
      /\ writing \in 0..L
  BY PartitionTypes DEF ContentInv
<1>2. ASSUME NEW m \in Message, ClientPublishes(m)
      PROVE  UNCHANGED consumerVars /\ CarriedInv'
  <2>1. /\ content' = Append(content, m) /\ kafka' = kafka
        /\ UNCHANGED consumerVars /\ log' = log
    BY <1>2 DEF ClientPublishes, Mqtt!ClientPublish, consumerVars
  <2>2. \A i \in DOMAIN K : content'[K[i]] = content[K[i]]
    BY <1>1, <2>1
  <2> QED
    BY <2>1, <2>2 DEF CarriedInv
<1>3. ASSUME MqttProgress \/ MqttFault
      PROVE  (UNCHANGED consumerVars \/ \E m \in Message : Arrives(m)) /\ CarriedInv'
  <2>1. /\ log' = [i \in DOMAIN kafka'[1] |-> content[kafka'[1][i]]]
        /\ UNCHANGED <<connections, inventory, committed, owner, position, proc, sources,
                       applied, handled, lost, content>>
    BY <1>3 DEF MqttProgress, MqttFault, Carried
  <2>2. CarriedInv'
    BY <2>1 DEF CarriedInv
  <2>3. CASE kafka' = kafka
    <3>1. log' = log
      BY <2>1, <2>3 DEF CarriedInv
    <3> QED
      BY <2>1, <2>2, <3>1 DEF consumerVars
  <2>4. CASE writing # 0 /\ kafka'[1] = Append(K, writing)
    <3>1. writing \in 1..L /\ content[writing] \in Message
      BY <1>1, <2>4
    <3>2. log \in Seq(Message) /\ Len(log) = Len(K) /\ Len(K) \in Nat
      <4>1. log = [i \in 1..Len(K) |-> content[K[i]]]
        BY <1>1 DEF CarriedInv
      <4>2. \A i \in 1..Len(K) : content[K[i]] \in Message
        BY <1>1
      <4> QED
        BY <1>1, <4>1, <4>2
    <3>3. log' = Append(log, content[writing])
      <4>1. DOMAIN kafka'[1] = 1..(Len(K) + 1)
        BY <1>1, <2>4, <3>1
      <4>2. \A i \in 1..Len(K) : kafka'[1][i] = K[i]
        BY <1>1, <2>4, <3>1
      <4>3. kafka'[1][Len(K) + 1] = writing
        BY <1>1, <2>4, <3>1
      <4>4. ASSUME NEW i \in 1..(Len(K) + 1)
            PROVE  content[kafka'[1][i]] = Append(log, content[writing])[i]
        <5>1. CASE i = Len(K) + 1
          BY <3>1, <3>2, <4>3, <5>1
        <5>2. CASE i \in 1..Len(K)
          <6>1. Append(log, content[writing])[i] = log[i]
            BY <3>1, <3>2, <5>2
          <6>2. log[i] = content[K[i]]
            BY <1>1, <5>2
          <6> QED
            BY <4>2, <5>2, <6>1, <6>2
        <5> QED
          BY <3>2, <5>1, <5>2
      <4>5. Append(log, content[writing]) \in Seq(Message)
            /\ DOMAIN Append(log, content[writing]) = 1..(Len(K) + 1)
        BY <3>1, <3>2
      <4>6. Append(log, content[writing]) = [i \in 1..(Len(K) + 1) |-> Append(log, content[writing])[i]]
        BY <4>5
      <4> QED
        BY <2>1, <4>1, <4>4, <4>6
    <3>4. Arrives(content[writing])
      BY <2>1, <3>3 DEF Arrives
    <3> QED
      BY <2>2, <3>1, <3>4
  <2> QED
    BY <1>3, <2>3, <2>4, MqttWrites
<1>4. ASSUME NEW p \in Consumer, ConsumerProgress(p) \/ ConsumerFault(p)
      PROVE  CarriedInv'
  <2>1. UNCHANGED <<kafka, content>>
    BY <1>4 DEF ConsumerProgress, ConsumerFault, pipeVars
  <2>2. log' = log
    BY <1>4, ConsumersOnlyRead DEF ConsumerProgress, ConsumerFault
  <2> QED
    BY <2>1, <2>2 DEF CarriedInv
<1>5. CASE UNCHANGED pipelineVars
  BY <1>5 DEF pipelineVars, pipeVars, consumerVars, CarriedInv
<1> QED
  BY <1>2, <1>3, <1>4, <1>5 DEF PipelineNext

LEMMA PipelineIsOpen ==
    ASSUME MP!MqttInv, ContentInv, CarriedInv, ConsumerTypeOK, [PipelineNext]_pipelineVars
    PROVE  [OpenNext]_consumerVars /\ CarriedInv'
<1>1. ASSUME NEW p \in Consumer, ConsumerProgress(p) \/ ConsumerFault(p)
      PROVE  OpenNext
  BY <1>1 DEF ConsumerProgress, ConsumerFault, OpenNext
<1>2. ASSUME NEW m \in Message, Arrives(m)
      PROVE  OpenNext
  BY <1>2 DEF OpenNext
<1> QED
  BY <1>1, <1>2, PipelineShapes

\* In the pipeline the partition changes hands only when it has no owner, so that no
\* handler is at work on it.
LEMMA PipelineIsOrderly ==
    ASSUME MP!MqttInv, ContentInv, CarriedInv, LedgerInv, [PipelineNext]_pipelineVars
    PROVE  [OrderlyNext]_consumerVars
<1>1. ConsumerTypeOK /\ \A q \in Consumer : HandlerExclusive(q)
  BY DEF LedgerInv, TypeInv
<1>2. owner = NoConsumer => \A q \in Consumer : proc[q].pc \notin Busy
  BY <1>1, ConsumerAssumption DEF HandlerExclusive
<1>3. \A p \in Consumer : owner = NoConsumer /\ Rebalance(p) => HandOver(p)
  BY <1>2 DEF HandOver
<1>4. ASSUME NEW p \in Consumer, ConsumerProgress(p) \/ ConsumerFault(p)
      PROVE  OrderlyNext
  BY <1>3, <1>4 DEF ConsumerProgress, ConsumerFault, OrderlyNext
<1>5. ASSUME NEW m \in Message, Arrives(m)
      PROVE  OrderlyNext
  BY <1>5 DEF OrderlyNext
<1> QED
  BY <1>1, <1>4, <1>5, PipelineShapes

\* An id stands for one message, however often it is in the partition.
LEMMA SameIdSameMessage ==
    ASSUME MP!MqttInv, ContentInv, CarriedInv, NEW i \in DOMAIN log, NEW j \in DOMAIN log,
           log[i].message_id = log[j].message_id
    PROVE  log[i] = log[j]
<1> DEFINE a == kafka[1][i]
           b == kafka[1][j]
<1>1. /\ a \in DOMAIN content /\ b \in DOMAIN content /\ DOMAIN content = 1..Len(content)
      /\ log[i] = content[a] /\ log[j] = content[b] /\ Len(content) \in Nat
  BY PartitionTypes
<1> HIDE DEF a, b
<1>2. a = b
  <2> SUFFICES ASSUME a # b
               PROVE  FALSE
    OBVIOUS
  <2>1. a < b \/ b < a
    BY <1>1
  <2>2. content[a].message_id # content[b].message_id
    BY <1>1, <2>1 DEF ContentInv
  <2> QED
    BY <1>1, <2>2
<1> QED
  BY <1>1, <1>2

-----------------------------------------------------------------------------
(* The table *)

\* A step that is not about a status of the client leaves its last status and its
\* rows in accord.
LEMMA UnaffectedClient ==
    ASSUME NEW c, NEW l, NEW l2, NEW n \in Nat, NEW n2, NEW t, NEW t2, NEW g, NEW g2,
           \/ n2 = n
           \/ n2 = n + 1 /\ (l2[n + 1].client_id # c \/ ~IsStatus(l2[n + 1])),
           \A o \in 1..n : l2[o] = l[o],
           t2[c] = t[c],
           \A o \in 1..n : l[o].client_id = c /\ l[o].message_id \in g => l[o].message_id \in g2,
           RowFollows(c, l, n, t, g)
    PROVE  RowFollows(c, l2, n2, t2, g2)
<1>1. \A o \in 1..n2 : o \in 1..n \/ (o = n + 1 /\ n2 = n + 1)
  OBVIOUS
<1>2. \A o \in 1..n : o \in 1..n2
  OBVIOUS
<1>3. FindConnectionByClientID(t2, c) = FindConnectionByClientID(t, c)
  BY DEF FindConnectionByClientID
<1>4. CASE /\ \A o \in 1..n : l[o].client_id = c => ~IsStatus(l[o])
           /\ t[c] = <<>>
  <2>1. \A o \in 1..n2 : l2[o].client_id = c => ~IsStatus(l2[o])
    BY <1>1, <1>4
  <2> QED
    BY <1>4, <2>1 DEF RowFollows
<1>5. ASSUME NEW o \in 1..n, LastStatus(o, c, l, n),
             l[o].state = "offline" => t[c] = <<>>,
             l[o].state = "online" => Registered(l[o], t, g)
      PROVE  RowFollows(c, l2, n2, t2, g2)
  <2>1. o \in 1..n2 /\ l2[o] = l[o] /\ l[o].client_id = c
    BY <1>2, <1>5 DEF LastStatus
  <2>2. LastStatus(o, c, l2, n2)
    BY <1>1, <1>5, <2>1 DEF LastStatus
  <2>3. l[o].state = "online" => Registered(l[o], t2, g2)
    BY <1>3, <1>5, <2>1 DEF Registered
  <2> QED
    BY <1>5, <2>1, <2>2, <2>3 DEF RowFollows
<1> QED
  BY <1>4, <1>5 DEF RowFollows

\* The message that takes effect is the last status of its client.
LEMMA NewStatus ==
    ASSUME NEW c, NEW l, NEW n \in Nat, NEW t, NEW g, n # 0,
           l[n].client_id = c, IsStatus(l[n]),
           l[n].state = "offline" => t[c] = <<>>,
           l[n].state = "online" => Registered(l[n], t, g)
    PROVE  RowFollows(c, l, n, t, g)
<1>1. n \in 1..n /\ \A o \in 1..n : ~(o > n)
  OBVIOUS
<1>2. LastStatus(n, c, l, n)
  BY <1>1 DEF LastStatus
<1> QED
  BY <1>1, <1>2 DEF RowFollows

\* What a consumer's step does to the record of the messages that were given up.
LEMMA GivingUpSteps ==
    ASSUME ConsumerTypeOK, NEW p \in Consumer, ConsumerProgress(p) \/ ConsumerFault(p)
    PROVE  /\ proc[p].pc # "exec" \/ End(p) => gaveUp' = gaveUp
           /\ ExecUpsert(p) => gaveUp' = gaveUp \ {Msg(p).message_id}
           /\ ExecUpsertFails(p) => gaveUp' = gaveUp \cup {Msg(p).message_id}
<1>1. proc[p].pc # "exec" => gaveUp' = gaveUp
  BY DEF ConsumerProgress, ConsumerFault, NoteGivingUp
<1>2. ASSUME End(p)
      PROVE  gaveUp' = gaveUp
  <2>1. proc'[p].pc = "down"
    BY <1>2, EndType
  <2> QED
    BY <2>1 DEF ConsumerProgress, ConsumerFault
<1>3. ASSUME ExecUpsert(p)
      PROVE  gaveUp' = gaveUp \ {Msg(p).message_id}
  <2>1. proc[p].pc = "exec" /\ proc'[p].pc = "record"
    BY <1>3, GotoType DEF ExecUpsert, Busy
  <2> QED
    BY <2>1 DEF ConsumerProgress, ConsumerFault, NoteGivingUp
<1>4. ASSUME ExecUpsertFails(p)
      PROVE  gaveUp' = gaveUp \cup {Msg(p).message_id}
  <2>1. proc[p].pc = "exec" /\ proc'[p].pc = "commit"
    BY <1>4, GotoType DEF ExecUpsertFails, Return, Busy
  <2> QED
    BY <2>1 DEF ConsumerProgress, ConsumerFault, NoteGivingUp
<1> QED
  BY <1>1, <1>2, <1>3, <1>4

\* A step that leaves table, offsets and given-up messages alone keeps everything.
LEMMA QuietFollows ==
    ASSUME LedgerInv, [OpenNext]_consumerVars, FollowsInv,
           UNCHANGED <<connections, applied, gaveUp>>
    PROVE  /\ FollowsInv'
           /\ \A q \in Consumer : HandlerFollows(q) /\ proc'[q] = proc[q] => HandlerFollows(q)'
<1>1. applied \in Nat /\ applied <= Len(log) /\ TypeInv
  BY DEF LedgerInv, TypeInv, ConsumerTypeOK
<1>2. Len(log) \in Nat /\ \A i \in 1..Len(log) : log'[i] = log[i]
  BY <1>1, LogGrows
<1>3. \A o \in 1..applied : log'[o] = log[o]
  BY <1>1, <1>2
<1>4. FollowsInv'
  <2> SUFFICES ASSUME NEW c \in ClientID
               PROVE  RowFollows(c, log', applied', connections', gaveUp')
    BY DEF FollowsInv
  <2>1. RowFollows(c, log, applied, connections, gaveUp)
    BY DEF FollowsInv
  <2> QED
    BY <1>1, <1>3, <2>1, UnaffectedClient
<1>5. ASSUME NEW q \in Consumer, HandlerFollows(q), proc'[q] = proc[q]
      PROVE  HandlerFollows(q)'
  <2>1. proc[q].pc \in Busy => proc[q].offset \in 1..Len(log)
    BY <1>1 DEF TypeInv, OffsetsInLog
  <2>2. proc[q].pc \in Busy => Msg(q)' = Msg(q)
    BY <1>2, <1>5, <2>1 DEF Msg
  <2>3. proc[q].pc \in DoneCalls => proc[q].pc \in Busy
    BY DEF DoneCalls, Busy
  <2> QED
    BY <1>5, <2>2, <2>3 DEF HandlerFollows, Registered, FindConnectionByClientID
<1> QED
  BY <1>4, <1>5

\* The upsert: its message is the last status of its client, and is recorded.
LEMMA UpsertFollows ==
    ASSUME PipelineInv, NEW p \in Consumer, proc[p].pc = "exec", Upsert(p), log' = log,
           gaveUp \ {Msg(p).message_id} \subseteq gaveUp'
    PROVE  /\ FollowsInv'
           /\ Registered(Msg(p), connections', gaveUp')
<1> DEFINE m == Msg(p)
           d == m.client_id
           n == committed + 1
<1>1. /\ LedgerInv /\ MP!MqttInv /\ ContentInv /\ CarriedInv /\ FollowsInv
      /\ proc[p].pc \in Busy
  BY DEF PipelineInv, Busy
<1>2. /\ committed \in Nat /\ applied = committed /\ proc[p].offset = n
      /\ m = log[n] /\ n \in 1..Len(log)
  BY <1>1, MessageInHand DEF LedgerInv, FindingsCurrent, AcceptedCalls
<1>3. m.state = "online"
  BY <1>1 DEF LedgerInv, StateInHand, OnlineCalls
<1>4. /\ d \in ClientID
      /\ \A c \in ClientID : c # d => connections'[c] = connections[c]
      /\ Len(connections'[d]) = 1 /\ DOMAIN connections'[d] = {1}
      /\ IsFrom(connections'[d][1], m)
      /\ applied' = n
  BY <1>1, <1>2, UpsertEffect
<1>5. DOMAIN log = 1..Len(log) /\ Len(log) \in Nat
  BY <1>1 DEF LedgerInv, TypeInv, ConsumerTypeOK
<1> HIDE DEF m
<1>6. Registered(m, connections', gaveUp')
  <2>1. connections'[d] # <<>>
    BY <1>4
  <2>2. \A r \in FindConnectionByClientID(connections', d) : r.message_id = m.message_id
    BY <1>4 DEF FindConnectionByClientID, IsFrom
  <2> QED
    BY <2>1, <2>2 DEF Registered, IsDuplicateOrOldMessage
<1>7. ASSUME NEW c \in ClientID
      PROVE  RowFollows(c, log', applied', connections', gaveUp')
  <2>1. CASE c = d
    <3>1. /\ log'[n] = m /\ n \in Nat /\ n # 0 /\ IsStatus(m) /\ m.state # "offline"
      BY <1>2, <1>3 DEF IsStatus
    <3> QED
      BY <1>4, <1>6, <2>1, <3>1, NewStatus
  <2>2. CASE c # d
    <3>1. ASSUME NEW o \in 1..applied, log[o].client_id = c, log[o].message_id \in gaveUp
          PROVE  log[o].message_id \in gaveUp'
      <4>1. o \in DOMAIN log /\ n \in DOMAIN log
        BY <1>2, <1>5
      <4>2. log[o].message_id # m.message_id
        BY <1>1, <1>2, <2>2, <3>1, <4>1, SameIdSameMessage
      <4> QED
        BY <3>1, <4>2 DEF m
    <3>2. RowFollows(c, log, applied, connections, gaveUp)
      BY <1>1 DEF FollowsInv
    <3>3. log'[applied + 1].client_id # c /\ applied' = applied + 1 /\ applied \in Nat
      BY <1>2, <1>4, <2>2
    <3> QED
      BY <1>4, <2>2, <3>1, <3>2, <3>3, UnaffectedClient
  <2> QED
    BY <2>1, <2>2
<1> QED
  BY <1>6, <1>7 DEF FollowsInv, m

\* The deletion: its message is the last status of its client, which has no row.
LEMMA UnregisterFollows ==
    ASSUME PipelineInv, NEW p \in Consumer, UnregisterClient(p) \/ UnregisterReplyLost(p),
           gaveUp' = gaveUp
    PROVE  FollowsInv'
<1> DEFINE m == Msg(p)
           d == m.client_id
           n == committed + 1
<1>1. /\ LedgerInv /\ TypeInv /\ FollowsInv /\ log' = log
  BY DEF PipelineInv, LedgerInv, UnregisterClient, UnregisterReplyLost
<1>2. /\ d \in ClientID
      /\ \A c \in ClientID : c # d => connections'[c] = connections[c]
      /\ connections'[d] = <<>>
      /\ applied' = proc[p].offset /\ proc[p].pc = "unregister"
  BY <1>1, UnregisterEffect
<1>3. /\ committed \in Nat /\ proc[p].offset = n /\ m = log[n]
      /\ applied = committed \/ applied = n
  BY <1>1, <1>2, MessageInHand DEF Busy
<1>4. m.state = "offline"
  BY <1>1, <1>2 DEF LedgerInv, StateInHand
<1> HIDE DEF m
<1> SUFFICES ASSUME NEW c \in ClientID
             PROVE  RowFollows(c, log', applied', connections', gaveUp')
  BY DEF FollowsInv
<1>5. CASE c = d
  <2>1. log'[n] = m /\ n \in Nat /\ n # 0 /\ IsStatus(m) /\ m.state # "online"
    BY <1>1, <1>3, <1>4 DEF IsStatus
  <2> QED
    BY <1>2, <1>3, <1>5, <2>1, NewStatus
<1>6. CASE c # d
  <2>1. RowFollows(c, log, applied, connections, gaveUp)
    BY <1>1 DEF FollowsInv
  <2>2. /\ applied' = applied \/ (applied' = applied + 1 /\ log'[applied + 1].client_id # c)
        /\ applied \in Nat
    BY <1>1, <1>2, <1>3, <1>6
  <2> QED
    BY <1>1, <1>2, <1>6, <2>1, <2>2, UnaffectedClient
<1> QED
  BY <1>5, <1>6

\* The commit: the message takes effect now, if it has not, as one that says
\* nothing of the connection or that the handler dealt with.
LEMMA CommitFollows ==
    ASSUME PipelineInv, NEW p \in Consumer, CommitMessage(p), gaveUp' = gaveUp
    PROVE  FollowsInv'
<1> DEFINE m == Msg(p)
           n == committed + 1
<1>1. /\ LedgerInv /\ TypeInv /\ FollowsInv /\ proc[p].pc = "commit"
      /\ UNCHANGED <<log, connections>> /\ HandlerFollows(p)
      /\ applied' = IF applied < proc[p].offset THEN proc[p].offset ELSE applied
  BY DEF PipelineInv, LedgerInv, CommitMessage
<1>2. /\ committed \in Nat /\ proc[p].offset = n /\ m = log[n]
      /\ applied = committed \/ applied = n
  BY <1>1, MessageInHand DEF Busy
<1>4. /\ m.state = "online" => Registered(m, connections, gaveUp)
      /\ m.state = "offline" => applied = n
  <2>2. m.state = "online" => Registered(m, connections, gaveUp)
    BY <1>1 DEF HandlerFollows, DoneCalls
  <2>3. FindingsCurrent(p)
    BY <1>1 DEF LedgerInv
  <2>4. m.state = "offline" => applied = n
    BY <1>1, <1>2, <2>3 DEF FindingsCurrent
  <2> QED
    BY <2>2, <2>4
<1>5. applied' = n /\ n \in Nat /\ n # 0 /\ applied \in Nat
  <2>1. applied' = IF applied < n THEN n ELSE applied
    BY <1>1, <1>2
  <2>2. committed \in Nat /\ (applied = committed \/ applied = committed + 1)
    BY <1>2
  <2>3. n \in Nat /\ n # 0 /\ applied \in Nat /\ committed < n
    BY <2>2
  <2>4. CASE applied = committed
    BY <2>1, <2>3, <2>4
  <2>5. CASE applied = n
    BY <2>1, <2>3, <2>5
  <2> QED
    BY <1>2, <2>3, <2>4, <2>5
<1> HIDE DEF m
<1> SUFFICES ASSUME NEW c \in ClientID
             PROVE  RowFollows(c, log', applied', connections', gaveUp')
  BY DEF FollowsInv
<1>6. RowFollows(c, log, applied, connections, gaveUp)
  BY <1>1 DEF FollowsInv
<1>7. CASE applied = n \/ m.client_id # c \/ ~IsStatus(m)
  <2>1. \/ applied' = applied
        \/ applied' = applied + 1 /\ (log'[applied + 1].client_id # c \/ ~IsStatus(log'[applied + 1]))
    BY <1>1, <1>2, <1>5, <1>7
  <2> QED
    BY <1>1, <1>5, <1>6, <2>1, UnaffectedClient
<1>8. CASE applied # n /\ m.client_id = c /\ IsStatus(m)
  <2>1. log'[n] = m /\ m.state # "offline" /\ Registered(m, connections', gaveUp')
    BY <1>1, <1>2, <1>4, <1>8 DEF IsStatus
  <2> QED
    BY <1>5, <1>8, <2>1, NewStatus
<1> QED
  BY <1>7, <1>8

\* A duplicate or old message is ignored because of the row that there is.
LEMMA IgnoredIsRegistered ==
    ASSUME LedgerInv, NEW p \in Consumer, IgnoreDuplicate(p)
    PROVE  Registered(Msg(p), connections, gaveUp)
<1> DEFINE m == Msg(p)
           c == m.client_id
<1>1. PICK r \in FindConnectionByClientID(connections, c) : IsDuplicateOrOldMessage(r, m)
  BY DEF IgnoreDuplicate
<1>2. c \in ClientID
  BY MsgType DEF LedgerInv, IgnoreDuplicate, Busy
<1>3. connections[c] \in Seq(Row) /\ Len(connections[c]) <= 1
  BY <1>2 DEF LedgerInv, OneRowPerClient, TypeInv, ConsumerTypeOK, ConnectionsTypeOK
<1> HIDE DEF m
<1>4. connections[c] # <<>>
  BY <1>1 DEF FindConnectionByClientID
<1>5. DOMAIN connections[c] = {1}
  BY <1>3, <1>4, OneElement
<1>6. \A s \in FindConnectionByClientID(connections, c) : s = r
  BY <1>1, <1>5 DEF FindConnectionByClientID
<1> QED
  BY <1>1, <1>4, <1>6 DEF Registered, m

\* A handler that gets to the calls after the upsert knows its message dealt with.
LEMMA InsideFollowsClients ==
    ASSUME PipelineInv, NEW p \in Consumer, ConsumerProgress(p) \/ ConsumerFault(p), Inside(p)
    PROVE  HandlerFollows(p)'
<1>1. /\ LedgerInv /\ TypeInv /\ ConsumerTypeOK /\ HandlerFollows(p) /\ StateInHand(p)
  BY DEF PipelineInv, LedgerInv, TypeInv
<1>2. Move(p) /\ Follows(proc[p].pc, proc'[p].pc)
  BY <1>1, InsideMoves, InsideFollows
<1>3. Msg(p)' = Msg(p) /\ log' = log
  BY <1>2 DEF Move, Msg
<1> SUFFICES ASSUME proc'[p].pc \in DoneCalls, Msg(p).state = "online"
             PROVE  Registered(Msg(p), connections', gaveUp')
  BY <1>3 DEF HandlerFollows
<1>4. CASE ExecUpsert(p)
  BY <1>1, <1>3, <1>4, GivingUpSteps, UpsertFollows DEF ExecUpsert
<1>5. CASE ExecUpsertFails(p)
  BY <1>1, <1>5, GivingUpSteps DEF Registered
<1>6. CASE IgnoreDuplicate(p)
  <2>1. gaveUp' = gaveUp /\ connections' = connections
    BY <1>1, <1>6, GivingUpSteps DEF IgnoreDuplicate
  <2> QED
    BY <1>1, <1>6, <2>1, IgnoredIsRegistered
<1>7. CASE RecordClient(p) \/ RecordClientFails(p) \/ SourceExists(p) \/ SourceNotFound(p)
           \/ CreateSource(p)
  <2>1. proc[p].pc \in {"record", "lookup", "create"} /\ connections' = connections
    BY <1>7 DEF RecordClient, RecordClientFails, SourceExists, SourceNotFound, CreateSource
  <2>2. gaveUp' = gaveUp
    BY <1>1, <2>1, GivingUpSteps
  <2> QED
    BY <1>1, <2>1, <2>2 DEF HandlerFollows, DoneCalls
<1>8. CASE UnregisterClient(p)
  BY <1>1, <1>8 DEF StateInHand, UnregisterClient
<1>9. CASE AcceptMessage(p)
  <2>1. proc'[p].pc = "resolve"
    BY <1>1, <1>9, GotoType DEF AcceptMessage, Busy
  <2> QED
    BY <2>1 DEF DoneCalls
<1>10. CASE ResolveTenant(p) \/ PrepareUpsert(p)
  <2>1. proc[p].pc \in {"resolve", "prepare"}
    BY <1>10 DEF ResolveTenant, PrepareUpsert
  <2> QED
    BY <1>2, <2>1 DEF Follows, DoneCalls
<1> QED
  BY <1>4, <1>5, <1>6, <1>7, <1>8, <1>9, <1>10 DEF Inside

\* Every step inside the handler keeps the table behind the clients.
LEMMA InsideRowsFollow ==
    ASSUME PipelineInv, NEW p \in Consumer, ConsumerProgress(p) \/ ConsumerFault(p), Inside(p)
    PROVE  FollowsInv'
<1>1. /\ LedgerInv /\ TypeInv /\ ConsumerTypeOK /\ FollowsInv /\ applied \in Nat
  BY DEF PipelineInv, LedgerInv, TypeInv, ConsumerTypeOK
<1>2. log' = log
  BY <1>1, InsideMoves DEF Move
<1>3. CASE ExecUpsert(p)
  BY <1>1, <1>2, <1>3, GivingUpSteps, UpsertFollows DEF ExecUpsert
<1>4. CASE ExecUpsertFails(p)
  <2>1. gaveUp' = gaveUp \cup {Msg(p).message_id} /\ proc[p].pc = "exec"
    BY <1>1, <1>4, GivingUpSteps DEF ExecUpsertFails
  <2>2. CASE Upsert(p)
    BY <1>2, <2>1, <2>2, UpsertFollows
  <2>3. CASE UNCHANGED <<connections, applied>>
    <3> SUFFICES ASSUME NEW c \in ClientID
                 PROVE  RowFollows(c, log', applied', connections', gaveUp')
      BY DEF FollowsInv
    <3>1. RowFollows(c, log, applied, connections, gaveUp)
      BY <1>1 DEF FollowsInv
    <3> QED
      BY <1>1, <1>2, <2>1, <2>3, <3>1, UnaffectedClient
  <2> QED
    BY <1>4, <2>2, <2>3 DEF ExecUpsertFails
<1>5. CASE UnregisterClient(p)
  <2>1. gaveUp' = gaveUp
    BY <1>1, <1>5, GivingUpSteps DEF UnregisterClient
  <2> QED
    BY <1>5, <2>1, UnregisterFollows
<1>6. CASE ~(ExecUpsert(p) \/ ExecUpsertFails(p) \/ UnregisterClient(p))
  <2>1. UNCHANGED <<connections, applied>> /\ proc[p].pc # "exec"
    BY <1>6 DEF Inside, IgnoreDuplicate, AcceptMessage, ResolveTenant, PrepareUpsert,
                RecordClient, RecordClientFails, SourceExists, SourceNotFound, CreateSource
  <2>2. gaveUp' = gaveUp
    BY <1>1, <2>1, GivingUpSteps
  <2> SUFFICES ASSUME NEW c \in ClientID
               PROVE  RowFollows(c, log', applied', connections', gaveUp')
    BY DEF FollowsInv
  <2>3. RowFollows(c, log, applied, connections, gaveUp)
    BY <1>1 DEF FollowsInv
  <2> QED
    BY <1>1, <1>2, <2>1, <2>2, <2>3
<1> QED
  BY <1>3, <1>4, <1>5, <1>6

\* Every step of a consumer keeps the table, and its handler, behind the clients.
LEMMA ConsumerFollows ==
    ASSUME PipelineInv, NEW p \in Consumer, ConsumerProgress(p) \/ ConsumerFault(p),
           [OpenNext]_consumerVars
    PROVE  FollowsInv' /\ \A q \in Consumer : HandlerFollows(q)'
<1>1. /\ LedgerInv /\ TypeInv /\ ConsumerTypeOK /\ FollowsInv
      /\ \A q \in Consumer : HandlerFollows(q)
      /\ \A q \in Consumer : HandlerExclusive(q)
  BY DEF PipelineInv, LedgerInv, TypeInv
<1>2. ASSUME NEW q \in Consumer, proc'[q].pc \notin Busy
      PROVE  HandlerFollows(q)'
  BY <1>2 DEF HandlerFollows, DoneCalls, Busy
<1>3. ASSUME UNCHANGED <<connections, applied, gaveUp>>
      PROVE  /\ FollowsInv'
             /\ \A q \in Consumer : proc'[q] = proc[q] => HandlerFollows(q)'
  BY <1>1, <1>3, QuietFollows
\* While p is in the handler, nobody else is.
<1>4. ASSUME proc[p].pc \in Busy, NEW q \in Consumer \ {p},
             Bystander(q) \/ proc'[q] = proc[q]
      PROVE  HandlerFollows(q)'
  <2>1. owner = p
    BY <1>1, <1>4 DEF HandlerExclusive
  <2>2. proc[q].pc \notin Busy
    BY <1>1, <2>1, OneHandler
  <2> QED
    BY <1>2, <1>4, <2>2 DEF Bystander
<1>5. CASE Start(p)
  <2>1. /\ UNCHANGED <<connections, applied>> /\ proc[p].pc = "down"
        /\ proc'[p].pc = "fetch" /\ \A q \in Consumer \ {p} : proc'[q] = proc[q]
    BY <1>1, <1>5, GotoType DEF Start
  <2>2. gaveUp' = gaveUp
    BY <1>1, <2>1, GivingUpSteps
  <2>3. HandlerFollows(p)'
    BY <1>2, <2>1 DEF Busy
  <2> QED
    BY <1>3, <2>1, <2>2, <2>3
<1>6. CASE owner = NoConsumer /\ Rebalance(p)
  <2>1. UNCHANGED <<connections, applied, proc>>
    BY <1>6 DEF Rebalance
  <2>2. proc[p].pc # "exec"
    BY <1>1, <1>6, ConsumerAssumption DEF HandlerExclusive, Busy
  <2>3. gaveUp' = gaveUp
    BY <1>1, <2>2, GivingUpSteps
  <2> QED
    BY <1>3, <2>1, <2>3
<1>7. CASE Inside(p)
  <2>1. proc[p].pc \in Busy /\ \A q \in Consumer \ {p} : Bystander(q)
    BY <1>1, <1>7, InsideMoves DEF Move
  <2>2. HandlerFollows(p)' /\ FollowsInv'
    BY <1>7, InsideFollowsClients, InsideRowsFollow
  <2> QED
    BY <1>4, <2>1, <2>2
<1>8. CASE End(p)
  <2>1. /\ proc'[p].pc = "down" /\ \A q \in Consumer \ {p} : Bystander(q)
    BY <1>1, <1>8, EndType
  <2>2. gaveUp' = gaveUp /\ HandlerFollows(p)'
    BY <1>1, <1>2, <1>8, <2>1, GivingUpSteps DEF Busy
  <2>3. CASE Exit(p) /\ UNCHANGED <<connections, applied>>
    BY <1>1, <1>3, <2>2, <2>3, ExitType
  <2>4. CASE UnregisterReplyLost(p)
    <3>1. FollowsInv' /\ proc[p].pc \in Busy
      BY <2>2, <2>4, UnregisterFollows DEF UnregisterReplyLost, Busy
    <3> QED
      BY <1>4, <2>1, <2>2, <3>1
  <2> QED
    BY <1>8, <2>3, <2>4 DEF End
<1>9. CASE FetchMessage(p)
  <2>1. /\ UNCHANGED <<connections, applied, log>> /\ proc[p].pc = "fetch"
        /\ proc'[p].offset = position + 1
        /\ \A q \in Consumer \ {p} : proc'[q] = proc[q]
    BY <1>1, <1>9, FetchType DEF FetchMessage
  <2>2. gaveUp' = gaveUp
    BY <1>1, <2>1, GivingUpSteps
  <2>3. HandlerFollows(p)'
    <3>1. proc'[p].pc = FirstCall(log[position + 1]) /\ Msg(p)' = log[position + 1]
      BY <1>1, <1>9, <2>1, FetchState DEF Msg
    <3> QED
      BY <3>1 DEF HandlerFollows, FirstCall, DoneCalls
  <2> QED
    BY <1>3, <2>1, <2>2, <2>3
<1>10. CASE CommitMessage(p)
  <2>1. /\ proc'[p].pc = "fetch" /\ \A q \in Consumer \ {p} : proc'[q] = proc[q]
        /\ proc[p].pc = "commit"
    BY <1>1, <1>10, CommitType DEF CommitMessage
  <2>2. gaveUp' = gaveUp
    BY <1>1, <2>1, GivingUpSteps
  <2>3. FollowsInv' /\ HandlerFollows(p)'
    BY <1>2, <1>10, <2>1, <2>2, CommitFollows DEF Busy
  <2> QED
    BY <1>4, <2>1, <2>3 DEF Busy
<1> QED
  BY <1>5, <1>6, <1>7, <1>8, <1>9, <1>10, HandlerShapes DEF ConsumerProgress, ConsumerFault

-----------------------------------------------------------------------------
(* The whole pipeline *)

\* The invariant of the pipeline is kept by every step.
LEMMA PipelineStep ==
    ASSUME PipelineInv, [PipelineNext]_pipelineVars
    PROVE  PipelineInv'
<1>1. /\ MP!MqttInv /\ LedgerInv /\ RowIsOneMessage /\ ContentInv /\ CarriedInv /\ FollowsInv
      /\ \A p \in Consumer : HandlerFollows(p)
  BY DEF PipelineInv
<1>2. ConsumerTypeOK /\ RowInv
  BY <1>1 DEF LedgerInv, TypeInv, RowInv
<1>3. [OpenNext]_consumerVars /\ CarriedInv'
  BY <1>1, <1>2, PipelineIsOpen
<1>4. MP!MqttInv' /\ ContentInv'
  BY <1>1, MqttStep, ContentStep
<1>5. LedgerInv' /\ RowIsOneMessage'
  BY <1>1, <1>2, <1>3, PipelineIsOrderly, LedgerStep, RowStep
<1>6. FollowsInv' /\ \A q \in Consumer : HandlerFollows(q)'
  <2>1. CASE UNCHANGED <<connections, applied, gaveUp, proc>>
    BY <1>1, <1>3, <2>1, QuietFollows
  <2>2. ASSUME NEW m \in Message, ClientPublishes(m)
        PROVE  UNCHANGED <<connections, applied, gaveUp, proc>>
    BY <2>2 DEF ClientPublishes, consumerVars
  <2>3. ASSUME MqttProgress \/ MqttFault
        PROVE  UNCHANGED <<connections, applied, gaveUp, proc>>
    BY <2>3 DEF MqttProgress, MqttFault, Carried
  <2>4. ASSUME UNCHANGED pipelineVars
        PROVE  UNCHANGED <<connections, applied, gaveUp, proc>>
    BY <2>4 DEF pipelineVars, consumerVars
  <2>5. CASE \E p \in Consumer : ConsumerProgress(p) \/ ConsumerFault(p)
    BY <1>3, <2>5, ConsumerFollows
  <2> QED
    BY <2>1, <2>2, <2>3, <2>4, <2>5 DEF PipelineNext
<1> QED
  BY <1>3, <1>4, <1>5, <1>6 DEF PipelineInv

\* Nobody has published anything, and nobody is connected.
LEMMA PipelineStart ==
    ASSUME PipelineInit
    PROVE  PipelineInv
<1>1. ConsumerInit /\ Mqtt!MqttInit /\ content = <<>>
  BY DEF PipelineInit
<1>2. MP!MqttInv
  BY <1>1, MqttConstants
     DEF Mqtt!MqttInit, MP!MqttAssumption, MP!MqttInv, MP!MqttTypeOK, MP!HeldIsSuffix,
         MP!HandlerInv, MP!AcksInv, MP!WrittenInv, MP!KeyedInv, MP!NoOvertaking,
         MP!NewerFollow
<1>3. \A c \in ClientID : connections[c] = <<>>
  BY <1>1 DEF ConsumerInit, ConnectionsInit
<1>4. RowIsOneMessage
  <2>1. \A c \in ClientID : FindConnectionByClientID(connections, c) = {}
    <3> TAKE c \in ClientID
    <3>1. DOMAIN connections[c] = {}
      BY <1>3
    <3> QED
      BY <3>1 DEF FindConnectionByClientID
  <2> QED
    BY <2>1 DEF RowIsOneMessage
<1>5. published = <<>> /\ kafka[1] = <<>> /\ log = <<>> /\ applied = 0
  BY <1>1 DEF Mqtt!MqttInit, ConsumerInit
<1>6. DOMAIN kafka[1] = {} /\ DOMAIN content = {}
  BY <1>1, <1>5
<1>7. ContentInv
  BY <1>1, <1>5, <1>6 DEF ContentInv
<1>8. CarriedInv
  BY <1>5, <1>6 DEF CarriedInv
<1>9. FollowsInv
  <2> SUFFICES ASSUME NEW c \in ClientID
               PROVE  RowFollows(c, log, applied, connections, gaveUp)
    BY DEF FollowsInv
  <2>1. 1..applied = {}
    BY <1>5
  <2> QED
    BY <1>3, <2>1 DEF RowFollows
<1>10. ASSUME NEW p \in Consumer
       PROVE  HandlerFollows(p)
  BY <1>1, <1>10, IdleType DEF ConsumerInit, HandlerFollows, DoneCalls
<1> QED
  BY <1>1, <1>2, <1>4, <1>7, <1>8, <1>9, <1>10, LedgerInit DEF PipelineInv


\* Every message of the pipeline is forwarded, to the partition.
LEMMA AllForwarded ==
    ASSUME ContentInv
    PROVE  \A n \in DOMAIN content :
             MP!Forwarded(published[n]) /\ MP!ClientOf(n) = content[n].client_id
BY EnvelopeForwarded DEF ContentInv, MP!ClientOf

\* What the broker no longer holds is in the partition.
LEMMA ReleasedIsInPartition ==
    ASSUME MP!MqttInv, ContentInv, CarriedInv, NEW i \in DOMAIN content, i \notin unacked
    PROVE  \E k \in DOMAIN log : kafka[1][k] = i
<1>1. DOMAIN published = DOMAIN content /\ DOMAIN log = DOMAIN kafka[1]
  BY PartitionTypes
<1>2. MP!Written(i)
  BY <1>1, AllForwarded DEF MP!MqttInv, MP!WrittenInv
<1> QED
  BY <1>1, <1>2 DEF MP!Written, OnePartition

\* Once the broker holds nothing, any message of a client in the partition is followed
\* by all the newer ones.
LEMMA NewerInPartition ==
    ASSUME PipelineInv, unacked = {}, NEW i \in DOMAIN content, NEW o \in DOMAIN log,
           kafka[1][o] < i, log[o].client_id = content[i].client_id
    PROVE  \E k \in DOMAIN log : k > o /\ kafka[1][k] = i
<1>1. MP!MqttInv /\ ContentInv /\ CarriedInv
  BY DEF PipelineInv
<1>2. /\ Len(content) \in Nat /\ DOMAIN content = 1..Len(content)
      /\ DOMAIN published = DOMAIN content /\ kafka[1] \in Seq(1..Len(content))
      /\ DOMAIN log = DOMAIN kafka[1]
      /\ \A n \in DOMAIN kafka[1] : kafka[1][n] \in DOMAIN content
      /\ \A n \in DOMAIN log : log[n] = content[kafka[1][n]]
  BY <1>1, PartitionTypes
<1>3. Len(kafka[1]) \in Nat /\ DOMAIN kafka[1] = 1..Len(kafka[1])
  BY <1>2
<1>4. /\ i > kafka[1][o] /\ MP!ClientOf(i) = MP!ClientOf(kafka[1][o])
      /\ MP!Forwarded(published[i])
  BY <1>1, <1>2, AllForwarded
<1>5. PICK k \in (o + 1)..Len(kafka[1]) : kafka[1][k] = i
  BY <1>1, <1>2, <1>4 DEF MP!MqttInv, MP!NewerFollow
<1>6. k \in 1..Len(kafka[1]) /\ k > o
  <2> DEFINE n == Len(kafka[1])
  <2>1. n \in Nat /\ o \in 1..n /\ k \in (o + 1)..n
    BY <1>2, <1>3
  <2> HIDE DEF n
  <2>2. k \in 1..n /\ k > o
    BY <2>1
  <2> QED
    BY <2>2 DEF n
<1> QED
  BY <1>2, <1>3, <1>5, <1>6

\* Once the broker holds nothing, the last status of a client in the partition is
\* the last that the client published.
LEMMA LastIsLast ==
    ASSUME PipelineInv, unacked = {}, NEW c \in ClientID,
           NEW i \in DOMAIN content, IsLastStatus(i, c),
           NEW o \in DOMAIN log, LastStatus(o, c, log, Len(log))
    PROVE  log[o] = content[i]
<1> DEFINE n == kafka[1][o]
<1>1. /\ Len(content) \in Nat /\ DOMAIN content = 1..Len(content)
      /\ n \in DOMAIN content /\ log[o] = content[n]
      /\ \A k \in DOMAIN log : log[k] = content[kafka[1][k]]
  BY PartitionTypes DEF PipelineInv
<1>2. DOMAIN log = 1..Len(log)
  BY DEF PipelineInv, LedgerInv, TypeInv, ConsumerTypeOK
<1> HIDE DEF n
<1>3. n \in StatusOf(c) /\ content[i].client_id = c /\ IsStatus(content[i])
  BY <1>1 DEF LastStatus, StatusOf, IsLastStatus, IsStatus
<1>4. n <= i
  BY <1>3 DEF IsLastStatus
<1>5. CASE n < i
  <2>1. PICK k \in DOMAIN log : k > o /\ kafka[1][k] = i
    BY <1>1, <1>3, <1>5, NewerInPartition DEF n, LastStatus
  <2>2. log[k] = content[i]
    BY <1>1, <2>1
  <2> QED
    BY <1>2, <1>3, <2>1, <2>2 DEF LastStatus
<1>6. CASE n = i
  BY <1>1, <1>6
<1> QED
  BY <1>1, <1>4, <1>5, <1>6

\* A client that came online last has the row of its last message, or of one that
\* its clock puts after it.
LEMMA LastIsRegistered ==
    ASSUME PipelineInv, NEW c \in ClientID, NEW i \in DOMAIN content, IsLastStatus(i, c),
           content[i].state = "online",
           Registered(content[i], connections, gaveUp), content[i].message_id \notin gaveUp
    PROVE  HasRowOf(c, i)
<1> DEFINE r == connections[c][1]
<1>1. content[i].client_id = c /\ i \in StatusOf(c)
  BY DEF IsLastStatus, StatusOf
<1>2. connections[c] # <<>>
  BY <1>1 DEF Registered
<1>3. connections[c] \in Seq(Row) /\ Len(connections[c]) <= 1
  BY DEF PipelineInv, LedgerInv, OneRowPerClient, TypeInv, ConsumerTypeOK, ConnectionsTypeOK
<1>4. Len(connections[c]) = 1 /\ DOMAIN connections[c] = {1}
  BY <1>2, <1>3, OneElement
<1>5. r \in FindConnectionByClientID(connections, c)
  BY <1>4 DEF FindConnectionByClientID
<1>6. r.message_id = content[i].message_id \/ content[i].sent < r.message_sent
  BY <1>1, <1>5 DEF Registered, IsDuplicateOrOldMessage
<1> HIDE DEF r
<1>7. PICK o \in DOMAIN log : /\ log[o].state = "online" /\ log[o].client_id = c
                              /\ log[o].message_id = r.message_id
                              /\ log[o].sent = r.message_sent
  BY <1>5 DEF PipelineInv, RowIsOneMessage
<1> DEFINE n == kafka[1][o]
<1>8. n \in DOMAIN content /\ log[o] = content[n] /\ content \in Seq(ControlMessage)
  BY PartitionTypes DEF PipelineInv
<1> HIDE DEF n
<1>9. /\ n \in StatusOf(c) /\ content[n].state = "online"
      /\ content[n].message_id = r.message_id /\ content[n].sent = r.message_sent
  BY <1>7, <1>8 DEF StatusOf
<1>10. CASE r.message_id = content[i].message_id
  BY <1>1, <1>4, <1>10 DEF HasRowOf, r
<1>11. CASE content[i].sent < r.message_sent
  <2>1. content[i] \in ControlMessage /\ content[n] \in ControlMessage
    BY <1>8
  <2>2. content[i].sent \in Nat /\ content[n].sent \in Nat
    BY <2>1 DEF ControlMessage
  <2>3. content[n].sent > content[i].sent
    BY <1>9, <1>11, <2>2
  <2> QED
    BY <1>4, <1>9, <2>3 DEF HasRowOf, r
<1> QED
  BY <1>6, <1>10, <1>11

\* When nothing is under way, every row is what its client said last.
LEMMA FollowsWhenSettled ==
    ASSUME PipelineInv
    PROVE  TableFollowsClients
<1> SUFFICES ASSUME unacked = {}, committed = Len(log), NEW c \in ClientID
             PROVE  /\ StatusOf(c) = {} => connections[c] = <<>>
                    /\ \A i \in DOMAIN content : IsLastStatus(i, c) =>
                         \/ content[i].state = "offline" /\ connections[c] = <<>>
                         \/ /\ content[i].state = "online"
                            /\ content[i].message_id \in gaveUp \/ HasRowOf(c, i)
  BY DEF TableFollowsClients, Settled, Quiescent
<1>1. applied = Len(log) /\ DOMAIN log = 1..applied
  <2>1. /\ committed \in Nat /\ applied \in Nat /\ applied <= Len(log)
        /\ applied = committed \/ applied = committed + 1
    BY DEF PipelineInv, LedgerInv, TypeInv, ConsumerTypeOK, ReplayIsOneMessage
  <2>2. applied = Len(log)
    BY <2>1
  <2> QED
    BY <2>2 DEF PipelineInv, LedgerInv, TypeInv, ConsumerTypeOK
<1>2. RowFollows(c, log, Len(log), connections, gaveUp)
  BY <1>1 DEF PipelineInv, FollowsInv
<1>3. /\ content \in Seq(ControlMessage)
      /\ \A o \in DOMAIN log : kafka[1][o] \in DOMAIN content /\ log[o] = content[kafka[1][o]]
  BY PartitionTypes DEF PipelineInv
<1>4. ASSUME StatusOf(c) = {}
      PROVE  connections[c] = <<>>
  <2>1. \A o \in DOMAIN log : log[o].client_id = c => ~IsStatus(log[o])
    BY <1>3, <1>4 DEF StatusOf, IsStatus
  <2> QED
    BY <1>1, <1>2, <2>1 DEF RowFollows, LastStatus
<1>5. ASSUME NEW i \in DOMAIN content, IsLastStatus(i, c)
      PROVE  \/ content[i].state = "offline" /\ connections[c] = <<>>
             \/ /\ content[i].state = "online"
                /\ content[i].message_id \in gaveUp \/ HasRowOf(c, i)
  <2>1. content[i].client_id = c /\ IsStatus(content[i])
    BY <1>5 DEF IsLastStatus, StatusOf, IsStatus
  <2>2. PICK k \in DOMAIN log : kafka[1][k] = i
    BY ReleasedIsInPartition DEF PipelineInv
  <2>3. log[k].client_id = c /\ IsStatus(log[k])
    BY <1>3, <2>1, <2>2
  <2>4. PICK o \in DOMAIN log :
          /\ LastStatus(o, c, log, Len(log))
          /\ log[o].state = "offline" => connections[c] = <<>>
          /\ log[o].state = "online" => Registered(log[o], connections, gaveUp)
    BY <1>1, <1>2, <2>3 DEF RowFollows
  <2>5. log[o] = content[i]
    BY <1>5, <2>4, LastIsLast
  <2>7. content[i].state = "online" \/ content[i].state = "offline"
    BY <2>1 DEF IsStatus
  <2> QED
    BY <1>5, <2>4, <2>5, <2>7, LastIsRegistered
<1> QED
  BY <1>4, <1>5

\* The connections table follows the clients.  For any number of clients, messages
\* and consumers, and whatever faults the two processes go through, once nothing is
\* under way the rows of a client are what it said last about its connection, or,
\* when its clock went back, what it said with a later clock; unless a handler gave
\* up on registering it (ControlMessageHandler, the at-least-once delivery of both
\* consumers, isDuplicateOrOldMessage).
THEOREM TableFollows == PipelineSpec => []TableFollowsClients
<1>1. PipelineInit => PipelineInv
  BY PipelineStart
<1>2. PipelineInv /\ [PipelineNext]_pipelineVars => PipelineInv'
  BY PipelineStep
<1>3. PipelineInv => TableFollowsClients
  BY FollowsWhenSettled
<1> QED
  BY <1>1, <1>2, <1>3, PTL DEF PipelineSpec

\* Behind an MQTT message consumer that writes messages several times, and old ones
\* after newer ones, the entries of the partition still take effect on the table one
\* at a time, in their order and each exactly once; only an online message may be
\* dropped (Register, Unregister, consumeMqttMessagesFromKafka).
THEOREM PipelineImplementsLedger == PipelineSpec => ImplementsLedger
<1>1. PipelineInit => PipelineInv /\ Ledger!Init
  BY PipelineStart, LedgerStart DEF PipelineInit
<1>2. PipelineInv /\ [PipelineNext]_pipelineVars => PipelineInv'
  BY PipelineStep
<1>3. PipelineInv /\ [PipelineNext]_pipelineVars => [Ledger!Next]_(Ledger!ledgerVars)
  <2> SUFFICES ASSUME PipelineInv, [PipelineNext]_pipelineVars
               PROVE  [Ledger!Next]_(Ledger!ledgerVars)
    OBVIOUS
  <2>1. [OpenNext]_consumerVars /\ LedgerInv
    BY PipelineIsOpen DEF PipelineInv, LedgerInv, TypeInv
  <2> QED
    BY <2>1, LedgerNext
<1> QED
  BY <1>1, <1>2, <1>3, PTL DEF PipelineSpec, ImplementsLedger, Ledger!Spec

\* Every message that a client published is with the broker, waits in the partition,
\* or was handled.
NothingLostOnTheWay ==
    \A i \in DOMAIN content :
      \/ i \in unacked
      \/ \E k \in DOMAIN log : log[k] = content[i] /\ (k > committed \/ k \in handled)

CarriageInv ==
    /\ MP!MqttInv
    /\ ContentInv
    /\ CarriedInv
    /\ GapInv

\* Two times at least once is at least once: the broker forgets a message only when
\* it is written to Kafka, and the offset passes it only when it was handled, whatever
\* crashes, lost connections and failed writes fall between (the MQTT side's
\* ControlMessageHandler, acknowledged when it returns; consumeMqttMessagesFromKafka).
THEOREM NothingLostEndToEnd == PipelineSpec => []NothingLostOnTheWay
<1>1. PipelineInit => CarriageInv
  BY PipelineStart, GapInit DEF PipelineInit, PipelineInv, CarriageInv
<1>2. CarriageInv /\ [PipelineNext]_pipelineVars => CarriageInv'
  <2> SUFFICES ASSUME CarriageInv, [PipelineNext]_pipelineVars
               PROVE  CarriageInv'
    OBVIOUS
  <2>1. MP!MqttInv /\ ContentInv /\ CarriedInv /\ GapInv /\ ConsumerTypeOK
    BY DEF CarriageInv, GapInv, TypeInv
  <2>2. [OpenNext]_consumerVars /\ CarriedInv'
    BY <2>1, PipelineIsOpen
  <2> QED
    BY <2>1, <2>2, MqttStep, ContentStep, GapStep DEF CarriageInv
<1>3. CarriageInv => NothingLostOnTheWay
  <2> SUFFICES ASSUME CarriageInv, NEW i \in DOMAIN content, i \notin unacked
               PROVE  \E k \in DOMAIN log :
                        log[k] = content[i] /\ (k > committed \/ k \in handled)
    BY DEF NothingLostOnTheWay
  <2>1. PICK k \in DOMAIN log : kafka[1][k] = i /\ log[k] = content[i]
    BY ReleasedIsInPartition, PartitionTypes DEF CarriageInv
  <2>2. k \in Nat \ {0} /\ committed \in Nat /\ 1..committed \subseteq handled
    BY DEF CarriageInv, GapInv, TypeInv, ConsumerTypeOK, CommittedMessagesHandled
  <2> QED
    BY <2>1, <2>2
<1> QED
  BY <1>1, <1>2, <1>3, PTL DEF PipelineSpec
=============================================================================

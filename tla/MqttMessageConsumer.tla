------------------------ MODULE MqttMessageConsumer ------------------------
(***************************************************************************)
(* The MQTT message consumer: one process that takes the messages of the   *)
(* clients from the MQTT broker and writes the control messages to the RHC *)
(* message topic of Kafka, one after the other.                            *)
(*                                                                         *)
(* Messages are named by their place in the sequence the broker accepted   *)
(* them in.  The subscriptions have QoS 1 and the session is not clean: a  *)
(* message stays in the session until the broker has received its          *)
(* acknowledgement, and each new connection delivers what is left again.   *)
(***************************************************************************)
EXTENDS Naturals, Sequences

CONSTANTS
    MqttMessage,                  \* what clients may publish, records with the levels
                                  \* of the topic and the payload
    Prefix,                       \* the configured topic prefix
    Partition,                    \* the partitions of the Kafka topic
    Hash(_),                      \* the hash balancer: the partition of a message key
    MaxPublished,                 \* bound: messages the clients publish
    MaxFaults                     \* bound: crashes, lost connections, failed writes

ASSUME MqttAssumption ==
    /\ \A m \in MqttMessage : m.payload \in {"empty", "text"}
    /\ \A m \in MqttMessage : Len(m.topic) >= 3 => Hash(m.topic[3]) \in Partition
    /\ MaxPublished \in Nat
    /\ MaxFaults \in Nat

VARIABLES
    published,   \* the messages the broker accepted for the session, in order
    unacked,     \* those whose acknowledgement has not arrived: the session
    acks,        \* acknowledgements under way on the current connection
    link,        \* "down": no process; "lost", "stopping": connection lost, and the
                 \* process will reconnect or shut down; "connected"
    taken,       \* the last message a handler was called with on this connection
    writing,     \* the message that the handler is writing to Kafka, 0 if none
    kafka,       \* the partitions of the RHC message topic
    faults       \* number of faults so far

mqttVars == <<published, unacked, acks, link, taken, writing, kafka, faults>>

MqttTypeOK ==
    /\ published \in Seq(MqttMessage)
    /\ unacked \subseteq 1..Len(published)
    /\ acks \subseteq unacked
    /\ link \in {"down", "lost", "stopping", "connected"}
    /\ taken \in 0..Len(published)
    /\ writing \in 0..Len(published)
    /\ kafka \in [Partition -> Seq(1..Len(published))]
    /\ faults \in 0..MaxFaults

MqttInit ==
    /\ published = <<>>
    /\ unacked = {}
    /\ acks = {}
    /\ link = "down"
    /\ taken = 0
    /\ writing = 0
    /\ kafka = [p \in Partition |-> <<>>]
    /\ faults = 0

-----------------------------------------------------------------------------
(* Topics *)

\* VerifyIncomingTopic: <prefix>/insights/<client id>/<control or data>/out.
IsIncomingTopic(topic) ==
    /\ Len(topic) = 5
    /\ topic[1] = Prefix
    /\ topic[2] = "insights"
    /\ topic[4] \in {"control", "data"}
    /\ topic[5] = "out"

TopicType(topic) == topic[4]

TopicClient(topic) == topic[3]

\* The messages that ControlMessageHandler writes to Kafka, be it called through
\* the subscription or by DefaultMessageHandler: DataMessageHandler writes none.
Forwarded(m) ==
    /\ IsIncomingTopic(m.topic)
    /\ TopicType(m.topic) = "control"
    /\ m.payload # "empty"

ClientOf(n) == TopicClient(published[n].topic)

\* Mutant: the message is written without a key.
WriteWithoutKey(n) ==
    \E p \in Partition : kafka' = [kafka EXCEPT ![p] = Append(@, n)]

\* The client id is the key of the Kafka message.
Write(n) == kafka' = [kafka EXCEPT ![Hash(ClientOf(n))] = Append(@, n)]

-----------------------------------------------------------------------------
(* The MQTT broker and the clients (external) *)

ClientPublish(m) ==
    /\ Len(published) < MaxPublished
    /\ published' = Append(published, m)
    /\ unacked' = unacked \cup {Len(published) + 1}
    /\ UNCHANGED <<acks, link, taken, writing, kafka, faults>>

\* Acknowledgements arrive in the order they were sent in.
AckReceived ==
    /\ \E n \in acks :
         /\ \A k \in acks : n <= k
         /\ unacked' = unacked \ {n}
         /\ acks' = acks \ {n}
    /\ UNCHANGED <<published, link, taken, writing, kafka, faults>>

-----------------------------------------------------------------------------
(* startMqttMessageConsumer and its handlers *)

Fault ==
    /\ faults < MaxFaults
    /\ faults' = faults + 1

\* Mutant: the session is clean, the broker forgets what it held for it.
ConnectClean ==
    /\ \/ link = "down"
       \/ link = "lost" /\ writing = 0
    /\ link' = "connected"
    /\ taken' = Len(published)
    /\ unacked' = {}
    /\ UNCHANGED <<published, acks, writing, kafka, faults>>

\* CreateBrokerConnection at the start of the process, and the reconnect of the
\* client library after a lost connection; the handler of the old connection
\* has returned.  The connect handler subscribes.
Connect ==
    /\ \/ link = "down"
       \/ link = "lost" /\ writing = 0
    /\ link' = "connected"
    /\ taken' = 0
    /\ UNCHANGED <<published, unacked, acks, writing, kafka, faults>>

\* Messages are delivered in the order of the session (external).
IsNext(n) == n > taken /\ \A k \in unacked : k > taken => n <= k

\* Mutant: the write is left to a goroutine, and the handler returns.
HandleMessageAckFirst ==
    /\ link = "connected"
    /\ writing = 0
    /\ \E n \in unacked :
         /\ IsNext(n)
         /\ taken' = n
         /\ acks' = acks \cup {n}
         /\ writing' = IF Forwarded(published[n]) THEN n ELSE 0
    /\ UNCHANGED <<published, unacked, link, kafka, faults>>

\* The next message of the session is handed to its handler.  What is not
\* forwarded is acknowledged as soon as the handler returns.
HandleMessage ==
    /\ link = "connected"
    /\ writing = 0
    /\ \E n \in unacked :
         /\ IsNext(n)
         /\ taken' = n
         /\ \/ Forwarded(published[n]) /\ writing' = n /\ UNCHANGED acks
            \/ ~Forwarded(published[n]) /\ acks' = acks \cup {n} /\ UNCHANGED writing
    /\ UNCHANGED <<published, unacked, link, kafka, faults>>

\* Mutant: the acknowledgement does not wait for the connection's fate.
WriteMessageAckAlways ==
    /\ writing # 0
    /\ Write(writing)
    /\ writing' = 0
    /\ acks' = acks \cup {writing}
    /\ UNCHANGED <<published, unacked, link, taken, faults>>

\* WriteMessages succeeds and the handler returns: the message is acknowledged
\* if the connection it came from is still there.
WriteMessage ==
    /\ writing # 0
    /\ Write(writing)
    /\ writing' = 0
    /\ acks' = IF link = "connected" THEN acks \cup {writing} ELSE acks
    /\ UNCHANGED <<published, unacked, link, taken, faults>>

\* The process ends: no acknowledgement leaves it any more.
Terminate ==
    /\ link' = "down"
    /\ taken' = 0
    /\ writing' = 0
    /\ acks' = {}

\* Mutant: the error of WriteMessages is only logged.
WriteErrorLogged ==
    /\ Fault
    /\ writing # 0
    /\ Write(writing) \/ UNCHANGED kafka
    /\ writing' = 0
    /\ acks' = IF link = "connected" THEN acks \cup {writing} ELSE acks
    /\ UNCHANGED <<published, unacked, link, taken>>

\* WriteMessages fails, perhaps although the message was written: log.Fatal.
WriteMessageFails ==
    /\ Fault
    /\ writing # 0
    /\ Write(writing) \/ UNCHANGED kafka
    /\ Terminate
    /\ UNCHANGED <<published, unacked>>

\* The connection is lost, and with it the acknowledgements under way.  Whether the
\* process reconnects or shuts down is a matter of its configuration.
ConnectionLost ==
    /\ Fault
    /\ link = "connected"
    /\ link' \in {"lost", "stopping"}
    /\ acks' = {}
    /\ UNCHANGED <<published, unacked, taken, writing, kafka>>

\* notifyOnMqttConnectionLostHandler wakes main up, and main ends the process
\* without waiting for the handler.
ShutDown ==
    /\ link = "stopping"
    /\ Terminate
    /\ UNCHANGED <<published, unacked, kafka, faults>>

\* The process is killed, gets a signal, or fails to subscribe (Fatal).
Crash ==
    /\ Fault
    /\ link # "down"
    /\ Terminate
    /\ UNCHANGED <<published, unacked, kafka>>

MqttNext ==
    \/ \E m \in MqttMessage : ClientPublish(m)
    \/ AckReceived
    \/ Connect \/ HandleMessage \/ WriteMessage \/ WriteMessageFails
    \/ ConnectionLost \/ ShutDown \/ Crash

MqttSpec == MqttInit /\ [][MqttNext]_mqttVars

-----------------------------------------------------------------------------
(* Properties *)

Written(n) == \E i \in DOMAIN kafka[Hash(ClientOf(n))] : kafka[Hash(ClientOf(n))][i] = n

\* The broker forgets a control message only when it is in Kafka: the process
\* dies before it acknowledges a message it could not write (ControlMessageHandler).
NothingLost ==
    \A n \in DOMAIN published :
      Forwarded(published[n]) /\ n \notin unacked => Written(n)

\* The ordering of a client's messages is retained: where a message stands in
\* its partition, all messages that its client published before stand ahead of it.
NoOvertaking ==
    \A p \in Partition : \A i \in DOMAIN kafka[p] : \A n \in DOMAIN published :
      (/\ n < kafka[p][i]
       /\ Forwarded(published[n])
       /\ ClientOf(n) = ClientOf(kafka[p][i]))
      => \E j \in 1..(i - 1) : kafka[p][j] = n

\* Duplicates do not bring the past back: the last message of a client in its
\* partition is behind what the client published only by messages that the broker
\* still holds, however often connections broke and messages were delivered again.
LastWordIsLast ==
    \A p \in Partition : \A i \in DOMAIN kafka[p] :
      (\A j \in (i + 1)..Len(kafka[p]) : ClientOf(kafka[p][j]) # ClientOf(kafka[p][i]))
      => \A n \in DOMAIN published :
           n > kafka[p][i] /\ Forwarded(published[n]) /\ ClientOf(n) = ClientOf(kafka[p][i])
           => n \in unacked

\* The broker's side makes progress, the deployment restarts the process, the
\* client library reconnects, and the handler's call returns.
FairMqttSpec ==
    /\ MqttSpec
    /\ WF_mqttVars(AckReceived)
    /\ WF_mqttVars(Connect)
    /\ WF_mqttVars(HandleMessage)
    /\ WF_mqttVars(WriteMessage)
    /\ WF_mqttVars(ShutDown)

\* Every control message of a client reaches Kafka, and the broker learns of it.
EveryMessageForwarded ==
    \A n \in 1..MaxPublished :
      n \in DOMAIN published
      ~> n \in DOMAIN published \ unacked /\ (Forwarded(published[n]) => Written(n))
=============================================================================

-------------------------- MODULE ConnectionPipeline --------------------------
(***************************************************************************)
(* The way of a client's connection status from the MQTT broker to the     *)
(* connections table: the MQTT message consumer writes what the broker     *)
(* delivers to the topic that the Kafka message consumers read.            *)
(*                                                                         *)
(* MqttMessageConsumer knows the messages by their place in what clients   *)
(* published, KafkaMessageConsumer by what they say; content ties the two  *)
(* together.  Either process may fail at any step, so a message can be     *)
(* delivered, written and handled several times, and old ones after newer  *)
(* ones.                                                                   *)
(***************************************************************************)
EXTENDS KafkaMessageConsumer

CONSTANTS
    MaxPublished,   \* bound: messages the clients publish
    MaxFaults       \* bound: faults of the two processes together

ASSUME PipelineAssumption ==
    /\ MaxPublished \in Nat
    /\ MaxFaults \in Nat

VARIABLES
    published, unacked, acks, link, taken, writing, kafka, faults,  \* MqttMessageConsumer
    content,        \* what each published message says
    gaveUp          \* history: online messages that a handler gave up on last

pipeVars == <<published, unacked, acks, link, taken, writing, kafka>>

pipelineVars == <<consumerVars, pipeVars, faults, content, gaveUp>>

\* Every status message comes on the control topic of its client.
Envelope(c) == [topic |-> <<"redhat", "insights", c, "control", "out">>, payload |-> "text"]

OnePartition(key) == 1

Mqtt == INSTANCE MqttMessageConsumer WITH
    MqttMessage <- {Envelope(c) : c \in ClientID},
    Prefix      <- "redhat",
    Partition   <- {1},
    Hash        <- OnePartition

PipelineInit ==
    /\ ConsumerInit
    /\ Mqtt!MqttInit
    /\ content = <<>>
    /\ gaveUp = {}

-----------------------------------------------------------------------------
(* The clients (external) *)

\* A client gives every message an id of its own; its clock may go back.
IsNew(m) == \A i \in DOMAIN content : content[i].message_id # m.message_id

ClientPublishes(m) ==
    /\ IsNew(m)
    /\ Mqtt!ClientPublish(Envelope(m.client_id))
    /\ content' = Append(content, m)
    /\ UNCHANGED <<consumerVars, gaveUp>>

-----------------------------------------------------------------------------
(* The MQTT message consumer *)

\* The value of a Kafka message is the payload of the MQTT message.
Carried ==
    /\ log' = [i \in DOMAIN kafka'[1] |-> content[kafka'[1][i]]]
    /\ UNCHANGED <<connections, inventory, committed, owner, position, proc, sources,
                   applied, handled, lost, content, gaveUp>>

MqttProgress ==
    /\ \/ Mqtt!AckReceived \/ Mqtt!Connect \/ Mqtt!HandleMessage \/ Mqtt!WriteMessage
       \/ Mqtt!ShutDown
    /\ Carried

MqttFault ==
    /\ Mqtt!WriteMessageFails \/ Mqtt!ConnectionLost \/ Mqtt!Crash
    /\ Carried

-----------------------------------------------------------------------------
(* The Kafka message consumers *)

\* History: did Register fail for the message in hand, without a fatal error?
NoteGivingUp(p) ==
    gaveUp' = IF proc[p].pc # "exec" THEN gaveUp
              ELSE IF proc'[p].pc = "commit" THEN gaveUp \cup {Msg(p).message_id}
              ELSE gaveUp \ {Msg(p).message_id}

\* The process is started, gets the partition, or takes a step of its loop.
ConsumerProgress(p) ==
    /\ \/ Start(p)
       \/ owner = NoConsumer /\ Rebalance(p)
       \/ HandlerStep(p)
    /\ proc'[p].pc # "down"
    /\ NoteGivingUp(p)
    /\ UNCHANGED <<pipeVars, faults, content>>

\* The process ends: a fatal error or a crash.
ConsumerFault(p) ==
    /\ Crash(p) \/ HandlerStep(p)
    /\ proc'[p].pc = "down"
    /\ Mqtt!Fault
    /\ UNCHANGED <<pipeVars, content, gaveUp>>

PipelineNext ==
    \/ \E m \in Message : ClientPublishes(m)
    \/ MqttProgress
    \/ MqttFault
    \/ \E p \in Consumer : ConsumerProgress(p) \/ ConsumerFault(p)

\* Both processes are restarted, reconnect, and get on with what they have to do.
\* The calls they make return: an assumption on the database, as Prepare is called
\* without a time limit.
PipelineFairness ==
    /\ WF_pipelineVars(MqttProgress)
    /\ \A p \in Consumer : WF_pipelineVars(ConsumerProgress(p))

PipelineSpec == PipelineInit /\ [][PipelineNext]_pipelineVars /\ PipelineFairness

-----------------------------------------------------------------------------
(* Properties *)

\* Nothing is under way: the broker holds nothing, all of Kafka is committed.
Settled ==
    /\ unacked = {}
    /\ Quiescent

\* The places of what a client said about its connection.
StatusOf(c) == {i \in DOMAIN content : /\ content[i].client_id = c
                                       /\ content[i].state \in {"online", "offline"}}

IsLastStatus(i, c) == i \in StatusOf(c) /\ \A j \in StatusOf(c) : j <= i

\* The row of c is of an online message that does not lose to message i: i itself,
\* or one that the clock of the client puts after i.
HasRowOf(c, i) ==
    /\ Len(connections[c]) = 1
    /\ \E j \in StatusOf(c) :
         /\ content[j].state = "online"
         /\ connections[c][1].message_id = content[j].message_id
         /\ j = i \/ content[j].sent > content[i].sent

\* The connections table follows the clients.  Whatever the two processes went
\* through, once nothing is under way a client that went offline last has no row,
\* and one that came online last has a single row, that of its last message, or, when
\* its clock went back, of a message with a later clock; unless the consumer gave up
\* on registering it (ControlMessageHandler, the at-least-once delivery of both
\* consumers, and isDuplicateOrOldMessage).
TableFollowsClients ==
    Settled =>
      \A c \in ClientID :
        /\ StatusOf(c) = {} => connections[c] = <<>>
        /\ \A i \in DOMAIN content : IsLastStatus(i, c) =>
             \/ content[i].state = "offline" /\ connections[c] = <<>>
             \/ /\ content[i].state = "online"
                /\ content[i].message_id \in gaveUp \/ HasRowOf(c, i)

\* The next message to be committed makes the handler panic.
Blocked == committed < Len(log) /\ log[committed + 1].state = "malformed"

\* The pipeline drains: a restarted process takes up what its predecessor left, and
\* no message stays with the broker, in Kafka or in a handler for ever (the restart
\* after fatalProcessingError, the redelivery of the broker).  One thing stops it, for
\* good: a message whose content is not an object (handleConnectionStatusMessage).
PipelineDrains == []<>Settled \/ <>[]Blocked
=============================================================================

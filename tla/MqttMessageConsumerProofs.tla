--------------------- MODULE MqttMessageConsumerProofs ----------------------
(***************************************************************************)
(* What the MQTT message consumer promises about the messages it forwards, *)
(* for any messages, partitions and hash, for any number of faults, and    *)
(* for both ways of dealing with a lost connection.                        *)
(*                                                                         *)
(* The argument rests on the order of the session: what the broker has     *)
(* forgotten is a prefix of what was published, because handlers run in    *)
(* this order, an acknowledgement follows its write, and acknowledgements  *)
(* arrive in the order they were sent in.                                  *)
(***************************************************************************)
EXTENDS MqttMessageConsumer, SequenceTheorems, TLAPS

\* What the broker still holds is all that came after some point.
HeldIsSuffix ==
    \A n \in unacked : \A m \in DOMAIN published : m > n => m \in unacked

\* The handler is busy with the last message taken, which is not acknowledged.
HandlerInv ==
    /\ writing # 0 => writing = taken /\ writing \in unacked \ acks
    /\ writing # 0 => Forwarded(published[writing])
    /\ link = "down" => writing = 0

\* On a connection, everything taken but the message being written is acknowledged.
AcksInv ==
    /\ link = "connected" => \A n \in unacked : n <= taken /\ n # writing => n \in acks
    /\ link # "connected" => acks = {}
    /\ \A n \in acks : n <= taken

\* What is acknowledged, if only on this side, is written; so is what was taken.
WrittenInv ==
    \A n \in DOMAIN published :
      Forwarded(published[n]) =>
        /\ n \notin unacked \/ n \in acks => Written(n)
        /\ n <= taken /\ n # writing => Written(n)

\* Only messages to be forwarded are written, each to the partition of its client.
KeyedInv ==
    \A p \in Partition : \A i \in DOMAIN kafka[p] :
      Hash(ClientOf(kafka[p][i])) = p /\ Forwarded(published[kafka[p][i]])

\* After a message in its partition stand all the newer ones of its client, but for
\* those that the broker will deliver again.
NewerFollow ==
    \A p \in Partition : \A i \in DOMAIN kafka[p] : \A n \in DOMAIN published :
      n > kafka[p][i] /\ Forwarded(published[n]) /\ ClientOf(n) = ClientOf(kafka[p][i])
      => \/ n \in unacked \ acks
         \/ \E j \in (i + 1)..Len(kafka[p]) : kafka[p][j] = n

MqttInv ==
    /\ MqttTypeOK
    /\ HeldIsSuffix
    /\ HandlerInv
    /\ AcksInv
    /\ WrittenInv
    /\ KeyedInv
    /\ NoOvertaking
    /\ NewerFollow

-----------------------------------------------------------------------------

\* A message of the session to be forwarded has a partition (VerifyIncomingTopic).
LEMMA ForwardedHash ==
    ASSUME MqttTypeOK, NEW n \in DOMAIN published, Forwarded(published[n])
    PROVE  Hash(ClientOf(n)) \in Partition
<1>1. published[n] \in MqttMessage
  BY DEF MqttTypeOK
<1>2. Len(published[n].topic) = 5
  BY DEF Forwarded, IsIncomingTopic
<1> QED
  BY <1>1, <1>2, MqttAssumption DEF ClientOf, TopicClient

\* What a successful write does to the partitions (WriteMessages).
LEMMA WriteStep ==
    ASSUME MqttInv, writing # 0, Write(writing),
           published' = published, unacked' = unacked, acks' \subseteq acks \cup {writing}
    PROVE  /\ kafka' \in [Partition -> Seq(1..Len(published))]
           /\ \A n : n = writing => Written(n)'
           /\ \A n \in DOMAIN published : Forwarded(published[n]) /\ Written(n) => Written(n)'
           /\ KeyedInv'
           /\ NoOvertaking'
           /\ NewerFollow'
<1> DEFINE h == Hash(ClientOf(writing))
<1> USE DEF MqttInv
<1>1. /\ writing \in DOMAIN published
      /\ writing = taken
      /\ writing \in unacked \ acks
      /\ Forwarded(published[writing])
  BY DEF HandlerInv, MqttTypeOK
<1>2. h \in Partition
  BY <1>1, ForwardedHash
<1>3. kafka \in [Partition -> Seq(1..Len(published))] /\ writing \in 1..Len(published)
  BY <1>1 DEF MqttTypeOK
<1>4. kafka' = [kafka EXCEPT ![h] = Append(kafka[h], writing)]
  BY DEF Write
<1> HIDE DEF h
<1>5. /\ kafka[h] \in Seq(1..Len(published))
      /\ Append(kafka[h], writing) \in Seq(1..Len(published))
      /\ Len(Append(kafka[h], writing)) = Len(kafka[h]) + 1
      /\ \A i \in DOMAIN kafka[h] : Append(kafka[h], writing)[i] = kafka[h][i]
      /\ Append(kafka[h], writing)[Len(kafka[h]) + 1] = writing
  BY <1>2, <1>3
<1>6. /\ kafka' \in [Partition -> Seq(1..Len(published))]
      /\ \A p \in Partition \ {h} : kafka'[p] = kafka[p]
      /\ Len(kafka'[h]) = Len(kafka[h]) + 1
      /\ DOMAIN kafka'[h] = DOMAIN kafka[h] \cup {Len(kafka[h]) + 1}
      /\ \A i \in DOMAIN kafka[h] : kafka'[h][i] = kafka[h][i]
      /\ kafka'[h][Len(kafka[h]) + 1] = writing
  BY <1>2, <1>3, <1>4, <1>5
<1>7. /\ \A n : ClientOf(n)' = ClientOf(n)
      /\ \A p \in Partition : Len(kafka[p]) \in Nat /\ DOMAIN kafka[p] = 1..Len(kafka[p])
      /\ \A p \in Partition : \A i \in DOMAIN kafka[p] :
           kafka[p][i] \in 1..Len(published) /\ i \in DOMAIN kafka'[p] /\ kafka'[p][i] = kafka[p][i]
  <2>1. \A n : ClientOf(n)' = ClientOf(n)
    BY DEF ClientOf
  <2>2. ASSUME NEW p \in Partition
        PROVE  Len(kafka[p]) \in Nat /\ DOMAIN kafka[p] = 1..Len(kafka[p])
    BY <1>3
  <2>3. ASSUME NEW p \in Partition, NEW i \in DOMAIN kafka[p]
        PROVE  kafka[p][i] \in 1..Len(published) /\ i \in DOMAIN kafka'[p] /\ kafka'[p][i] = kafka[p][i]
    <3>1. kafka[p][i] \in 1..Len(published)
      BY <1>3
    <3> QED
      BY <1>6, <3>1
  <2> QED
    BY <2>1, <2>2, <2>3
<1>8. ASSUME NEW n, n = writing
      PROVE  Written(n)'
  BY <1>2, <1>6, <1>7, <1>8 DEF Written, h
<1>9. ASSUME NEW n \in DOMAIN published, Forwarded(published[n]), Written(n)
      PROVE  Written(n)'
  <2>1. Hash(ClientOf(n)) \in Partition
    BY <1>9, ForwardedHash
  <2> QED
    BY <1>7, <1>9, <2>1 DEF Written
\* Everything that the client published before the message is in its partition.
<1>10. ASSUME NEW n \in DOMAIN published, n < writing, Forwarded(published[n]),
              ClientOf(n) = ClientOf(writing)
       PROVE  \E j \in 1..Len(kafka[h]) : kafka[h][j] = n
  <2>1. n <= taken /\ n # writing
    BY <1>1, <1>3, <1>10
  <2>2. Written(n)
    BY <1>10, <2>1 DEF WrittenInv
  <2> QED
    BY <1>2, <1>7, <1>10, <2>2 DEF Written, h
<1>11. KeyedInv'
  <2> SUFFICES ASSUME NEW p \in Partition, NEW i \in DOMAIN kafka'[p]
               PROVE  Hash(ClientOf(kafka'[p][i])) = p /\ Forwarded(published[kafka'[p][i]])
    BY <1>7 DEF KeyedInv
  <2>1. CASE p = h /\ i = Len(kafka[h]) + 1
    BY <1>1, <1>6, <2>1 DEF h
  <2>2. CASE ~(p = h /\ i = Len(kafka[h]) + 1)
    <3>1. i \in DOMAIN kafka[p] /\ kafka'[p][i] = kafka[p][i]
      BY <1>6, <2>2
    <3> QED
      BY <3>1 DEF KeyedInv
  <2> QED
    BY <2>1, <2>2
<1>12. NoOvertaking'
  <2> SUFFICES ASSUME NEW p \in Partition, NEW i \in DOMAIN kafka'[p],
                      NEW n \in DOMAIN published, n < kafka'[p][i],
                      Forwarded(published[n]), ClientOf(n) = ClientOf(kafka'[p][i])
               PROVE  \E j \in 1..(i - 1) : kafka'[p][j] = n
    BY <1>7 DEF NoOvertaking
  <2>1. CASE p = h /\ i = Len(kafka[h]) + 1
    <3>1. PICK j \in 1..Len(kafka[h]) : kafka[h][j] = n
      BY <1>6, <1>10, <2>1
    <3>2. j \in 1..(i - 1) /\ kafka'[p][j] = n
      BY <1>2, <1>7, <2>1, <3>1
    <3> QED
      BY <3>2
  <2>2. CASE ~(p = h /\ i = Len(kafka[h]) + 1)
    <3>1. i \in DOMAIN kafka[p] /\ kafka'[p][i] = kafka[p][i]
      BY <1>6, <2>2
    <3>2. PICK j \in 1..(i - 1) : kafka[p][j] = n
      BY <3>1 DEF NoOvertaking
    <3>3. j \in DOMAIN kafka[p]
      BY <1>7, <3>1, <3>2
    <3> QED
      BY <1>7, <3>2, <3>3
  <2> QED
    BY <2>1, <2>2
<1>13. NewerFollow'
  <2> SUFFICES ASSUME NEW p \in Partition, NEW i \in DOMAIN kafka'[p],
                      NEW n \in DOMAIN published, n > kafka'[p][i],
                      Forwarded(published[n]), ClientOf(n) = ClientOf(kafka'[p][i])
               PROVE  \/ n \in unacked /\ n \notin acks /\ n # writing
                      \/ \E j \in (i + 1)..Len(kafka'[p]) : kafka'[p][j] = n
    BY <1>7 DEF NewerFollow
  <2>1. CASE p = h /\ i = Len(kafka[h]) + 1
    <3>1. n > writing /\ n > taken
      BY <1>1, <1>6, <2>1
    <3>2. n \in unacked
      BY <1>1, <3>1 DEF HeldIsSuffix
    <3>3. n \notin acks
      BY <1>1, <1>3, <3>1 DEF AcksInv
    <3> QED
      BY <1>3, <3>1, <3>2, <3>3
  <2>2. CASE ~(p = h /\ i = Len(kafka[h]) + 1)
    <3>1. i \in DOMAIN kafka[p] /\ kafka'[p][i] = kafka[p][i]
      BY <1>6, <2>2
    <3>2. /\ Len(kafka'[p]) \in Nat /\ Len(kafka[p]) \in Nat
          /\ Len(kafka'[p]) >= Len(kafka[p]) /\ i \in 1..Len(kafka[p])
      <4>1. Len(kafka[p]) \in Nat /\ i \in 1..Len(kafka[p])
        BY <1>7, <3>1
      <4>2. Len(kafka'[p]) = Len(kafka[p]) + 1 \/ Len(kafka'[p]) = Len(kafka[p])
        BY <1>6
      <4> QED
        BY <4>1, <4>2
    <3>3. CASE \E j \in (i + 1)..Len(kafka[p]) : kafka[p][j] = n
      <4>1. PICK j \in (i + 1)..Len(kafka[p]) : kafka[p][j] = n
        BY <3>3
      <4>2. j \in 1..Len(kafka[p]) /\ j \in (i + 1)..Len(kafka'[p])
        BY <3>2
      <4>3. j \in DOMAIN kafka[p]
        BY <1>7, <4>2
      <4>4. kafka'[p][j] = n
        BY <1>7, <4>1, <4>3
      <4> QED
        BY <4>2, <4>4
    <3>4. CASE n = writing
      <4>1. Hash(ClientOf(kafka[p][i])) = p
        BY <3>1 DEF KeyedInv
      <4>2. p = h
        BY <3>1, <3>4, <4>1 DEF h
      <4>3. Len(kafka[h]) + 1 \in (i + 1)..Len(kafka'[p])
        BY <1>6, <1>7, <3>1, <4>2
      <4> QED
        BY <1>6, <3>4, <4>2, <4>3
    <3> QED
      BY <3>1, <3>3, <3>4 DEF NewerFollow
  <2> QED
    BY <2>1, <2>2
<1> QED
  BY <1>6, <1>8, <1>9, <1>11, <1>12, <1>13

\* Steps that leave the topic alone and do not acknowledge anything more.
LEMMA TopicUnchanged ==
    ASSUME MqttInv, UNCHANGED <<published, kafka>>, unacked \ acks \subseteq unacked' \ acks'
    PROVE  /\ KeyedInv' /\ NoOvertaking' /\ NewerFollow'
           /\ \A n : Written(n)' = Written(n)
<1>1. \A n : ClientOf(n)' = ClientOf(n)
  BY DEF ClientOf
<1> QED
  BY <1>1 DEF MqttInv, KeyedInv, NoOvertaking, NewerFollow, Written

-----------------------------------------------------------------------------

\* ClientPublish: the new message is the last one and the broker holds it.
LEMMA PublishPreserves ==
    ASSUME MqttInv, NEW m \in MqttMessage, ClientPublish(m)
    PROVE  MqttInv'
<1> DEFINE L == Len(published)
<1>1. /\ L \in Nat /\ published \in Seq(MqttMessage)
      /\ published' \in Seq(MqttMessage) /\ Len(published') = L + 1
      /\ DOMAIN published = 1..L /\ DOMAIN published' = 1..(L + 1)
      /\ \A n \in 1..L : published'[n] = published[n]
      /\ unacked' = unacked \cup {L + 1}
      /\ UNCHANGED <<acks, link, taken, writing, kafka, faults>>
  BY DEF MqttInv, MqttTypeOK, ClientPublish
<1>2. \A n \in 1..L : ClientOf(n)' = ClientOf(n)
  BY <1>1 DEF ClientOf
<1>3. /\ unacked \subseteq 1..L /\ acks \subseteq unacked
      /\ taken \in 0..L /\ writing \in 0..L
      /\ kafka \in [Partition -> Seq(1..L)]
      /\ \A p \in Partition : \A i \in DOMAIN kafka[p] : kafka[p][i] \in 1..L
  BY DEF MqttInv, MqttTypeOK
<1> HIDE DEF L
<1>4. MqttTypeOK'
  <2>1. kafka' \in [Partition -> Seq(1..(L + 1))]
    <3>1. ASSUME NEW p \in Partition
          PROVE  kafka[p] \in Seq(1..(L + 1))
      <4>1. kafka[p] \in Seq(1..L)
        BY <1>3
      <4>2. 1..L \subseteq 1..(L + 1)
        BY <1>1
      <4> QED
        BY <4>1, <4>2, SeqMonotonic, Zenon
    <3> QED
      BY <1>1, <1>3, <3>1
  <2> QED
    BY <1>1, <1>3, <2>1 DEF MqttTypeOK, MqttInv
<1>5. HeldIsSuffix'
  BY <1>1, <1>3 DEF HeldIsSuffix, MqttInv
<1>6. HandlerInv'
  BY <1>1, <1>3 DEF HandlerInv, MqttInv
<1>7. AcksInv'
  BY <1>1, <1>3 DEF AcksInv, MqttInv
<1>8. WrittenInv'
  <2> SUFFICES ASSUME NEW n \in 1..(L + 1), Forwarded(published'[n]),
                      (n \notin unacked' \/ n \in acks) \/ (n <= taken /\ n # writing)
               PROVE  Written(n)'
    BY <1>1 DEF WrittenInv
  <2>1. n \in 1..L
    BY <1>1, <1>3
  <2>2. Written(n)
    BY <1>1, <2>1 DEF WrittenInv, MqttInv
  <2> QED
    BY <1>1, <1>2, <2>1, <2>2 DEF Written
<1>9. KeyedInv'
  BY <1>1, <1>2, <1>3 DEF KeyedInv, MqttInv
<1>10. NoOvertaking'
  <2> SUFFICES ASSUME NEW p \in Partition, NEW i \in DOMAIN kafka[p],
                      NEW n \in 1..(L + 1), n < kafka[p][i],
                      Forwarded(published'[n]), ClientOf(n)' = (ClientOf(kafka[p][i]))'
               PROVE  \E j \in 1..(i - 1) : kafka[p][j] = n
    BY <1>1 DEF NoOvertaking
  <2>1. n \in 1..L /\ kafka[p][i] \in 1..L
    BY <1>1, <1>3
  <2>2. (ClientOf(kafka[p][i]))' = ClientOf(kafka[p][i])
    BY <1>1, <2>1 DEF ClientOf
  <2> QED
    BY <1>1, <1>2, <2>1, <2>2 DEF NoOvertaking, MqttInv
<1>11. NewerFollow'
  <2> SUFFICES ASSUME NEW p \in Partition, NEW i \in DOMAIN kafka[p],
                      NEW n \in 1..(L + 1), n > kafka[p][i],
                      Forwarded(published'[n]), ClientOf(n)' = (ClientOf(kafka[p][i]))'
               PROVE  \/ n \in unacked' \ acks
                      \/ \E j \in (i + 1)..Len(kafka[p]) : kafka[p][j] = n
    BY <1>1 DEF NewerFollow
  <2>1. CASE n = L + 1
    <3>1. n \in unacked' /\ n \notin acks
      BY <1>1, <1>3, <2>1
    <3> QED
      BY <3>1
  <2>2. CASE n \in 1..L
    <3>1. (ClientOf(kafka[p][i]))' = ClientOf(kafka[p][i])
      BY <1>1, <1>3 DEF ClientOf
    <3>2. /\ n > kafka[p][i] /\ Forwarded(published[n]) /\ n \in DOMAIN published
          /\ ClientOf(n) = ClientOf(kafka[p][i])
      BY <1>1, <1>2, <2>2, <3>1
    <3>3. n \in unacked \ acks \/ \E j \in (i + 1)..Len(kafka[p]) : kafka[p][j] = n
      BY <3>2 DEF NewerFollow, MqttInv
    <3> QED
      BY <1>1, <3>3
  <2> QED
    BY <1>1, <2>1, <2>2
<1> QED
  BY <1>4, <1>5, <1>6, <1>7, <1>8, <1>9, <1>10, <1>11 DEF MqttInv

\* AckReceived: the acknowledgement is that of the oldest message held.
LEMMA AckPreserves ==
    ASSUME MqttInv, AckReceived
    PROVE  MqttInv'
<1> USE DEF MqttInv
<1>1. PICK n \in acks : /\ \A k \in acks : n <= k
                        /\ unacked' = unacked \ {n}
                        /\ acks' = acks \ {n}
  BY DEF AckReceived
<1>2. UNCHANGED <<published, link, taken, writing, kafka, faults>>
  BY DEF AckReceived
<1>3. /\ link = "connected" /\ n \in unacked /\ n <= taken
      /\ acks \subseteq unacked /\ unacked \subseteq 1..Len(published)
      /\ DOMAIN published = 1..Len(published) /\ Len(published) \in Nat
      /\ taken \in 0..Len(published) /\ writing \in 0..Len(published)
  BY <1>1 DEF AcksInv, MqttTypeOK
<1>4. MqttTypeOK'
  BY <1>1, <1>2, <1>3 DEF MqttTypeOK
<1>5. \A k \in unacked : n <= k
  <2> SUFFICES ASSUME NEW k \in unacked, k < n
               PROVE  FALSE
    BY <1>3
  <2>1. k <= taken
    BY <1>3
  <2>2. writing # 0 => writing = taken
    BY DEF HandlerInv
  <2>3. k # writing
    BY <1>3, <2>2
  <2>4. k \in acks
    BY <1>3, <2>1, <2>3 DEF AcksInv
  <2> QED
    BY <1>1, <1>3, <2>4
<1>6. HeldIsSuffix'
  BY <1>1, <1>2, <1>3, <1>5 DEF HeldIsSuffix
<1>7. HandlerInv'
  BY <1>1, <1>2 DEF HandlerInv
<1>8. AcksInv'
  BY <1>1, <1>2, <1>3 DEF AcksInv
<1>9. unacked \ acks \subseteq unacked' \ acks'
  BY <1>1
<1>10. WrittenInv'
  BY <1>1, <1>2, <1>9, TopicUnchanged DEF WrittenInv
<1> QED
  BY <1>2, <1>4, <1>6, <1>7, <1>8, <1>9, <1>10, TopicUnchanged

\* The steps of a connection's life leave the broker and the topic alone:
\* Connect, ConnectionLost, ShutDown and Crash.
LEMMA LinkPreserves ==
    ASSUME MqttInv, Connect \/ ConnectionLost \/ ShutDown \/ Crash
    PROVE  MqttInv'
<1> USE DEF MqttInv
<1>1. UNCHANGED <<published, unacked, kafka>>
  BY DEF Connect, ConnectionLost, ShutDown, Crash
<1>2. faults' \in 0..MaxFaults
  BY MqttAssumption DEF Connect, ConnectionLost, ShutDown, Crash, Fault, MqttTypeOK
<1>3. acks' = {} /\ link' \in {"down", "lost", "stopping", "connected"}
  BY DEF Connect, ConnectionLost, ShutDown, Crash, Terminate, AcksInv
<1>4. \/ taken' = 0 /\ writing' = 0
      \/ UNCHANGED <<taken, writing>> /\ link' \in {"lost", "stopping"}
  BY DEF Connect, ConnectionLost, ShutDown, Crash, Terminate, HandlerInv
<1>5. /\ taken \in 0..Len(published) /\ writing \in 0..Len(published)
      /\ DOMAIN published = 1..Len(published) /\ Len(published) \in Nat
      /\ unacked \subseteq 1..Len(published)
  BY DEF MqttTypeOK
<1>6. MqttTypeOK'
  BY <1>1, <1>2, <1>3, <1>4, <1>5 DEF MqttTypeOK
<1>7. HeldIsSuffix'
  BY <1>1 DEF HeldIsSuffix
<1>8. HandlerInv'
  BY <1>1, <1>3, <1>4 DEF HandlerInv
<1>9. AcksInv'
  BY <1>1, <1>3, <1>4, <1>5 DEF AcksInv
<1>10. unacked \ acks \subseteq unacked' \ acks'
  BY <1>1, <1>3
<1>11. WrittenInv'
  <2> SUFFICES ASSUME NEW n \in DOMAIN published, Forwarded(published[n]),
                      n \notin unacked \/ (n <= taken' /\ n # writing')
               PROVE  Written(n)
    BY <1>1, <1>3, <1>10, TopicUnchanged DEF WrittenInv
  <2> QED
    BY <1>4, <1>5 DEF WrittenInv
<1> QED
  BY <1>1, <1>6, <1>7, <1>8, <1>9, <1>10, <1>11, TopicUnchanged

\* HandleMessage: what lies between the messages taken was forgotten, so written.
LEMMA HandlePreserves ==
    ASSUME MqttInv, HandleMessage
    PROVE  MqttInv'
<1> USE DEF MqttInv
<1>1. /\ link = "connected" /\ writing = 0
      /\ UNCHANGED <<published, unacked, link, kafka, faults>>
  BY DEF HandleMessage
<1>2. PICK n \in unacked :
        /\ n > taken /\ \A k \in unacked : k > taken => n <= k
        /\ taken' = n
        /\ \/ Forwarded(published[n]) /\ writing' = n /\ UNCHANGED acks
           \/ ~Forwarded(published[n]) /\ acks' = acks \cup {n} /\ UNCHANGED writing
  BY DEF HandleMessage, IsNext
<1>3. /\ taken \in 0..Len(published) /\ n \in 1..Len(published)
      /\ DOMAIN published = 1..Len(published) /\ Len(published) \in Nat
      /\ unacked \subseteq 1..Len(published) /\ acks \subseteq unacked
  BY DEF MqttTypeOK
<1>4. MqttTypeOK'
  <2>1. (acks' = acks \/ acks' = acks \cup {n}) /\ (writing' = n \/ writing' = 0)
    BY <1>1, <1>2, Zenon
  <2>2. acks' \subseteq unacked
    BY <1>3, <2>1
  <2>3. writing' \in 0..Len(published) /\ n \in 0..Len(published)
    BY <1>3, <2>1
  <2> QED
    BY <1>1, <1>2, <2>2, <2>3 DEF MqttTypeOK
<1>5. n \notin acks
  BY <1>2, <1>3 DEF AcksInv
<1>6. HeldIsSuffix'
  BY <1>1 DEF HeldIsSuffix
<1>7. HandlerInv'
  BY <1>1, <1>2, <1>3, <1>5 DEF HandlerInv
<1>8. AcksInv'
  <2>1. \A k \in acks' : k <= n
    <3>1. acks' = acks \/ acks' = acks \cup {n}
      BY <1>2, Zenon
    <3>2. ASSUME NEW k \in acks
          PROVE  k <= n
      <4>1. k <= taken
        BY DEF AcksInv
      <4>2. k \in Nat /\ taken \in Nat /\ n \in Nat /\ n > taken
        BY <1>2, <1>3
      <4> QED
        BY <4>1, <4>2
    <3>3. n <= n
      BY <1>3
    <3> QED
      BY <3>1, <3>2, <3>3, Zenon
  <2>2. ASSUME NEW k \in unacked, k <= n, k # writing'
        PROVE  k \in acks'
    <3>1. CASE k = n
      BY <1>2, <2>2, <3>1
    <3>2. CASE k # n
      <4>1. k <= taken /\ k # writing
        BY <1>1, <1>2, <1>3, <2>2, <3>2
      <4>2. k \in acks
        BY <1>1, <4>1 DEF AcksInv
      <4> QED
        BY <1>2, <4>2
    <3> QED
      BY <3>1, <3>2
  <2> QED
    BY <1>1, <1>2, <2>1, <2>2 DEF AcksInv
<1>9. \A k : Written(k)' = Written(k)
  BY <1>1 DEF Written, ClientOf
<1>10. WrittenInv'
  <2> SUFFICES ASSUME NEW k \in DOMAIN published, Forwarded(published[k]),
                      (k \notin unacked \/ k \in acks') \/ (k <= n /\ k # writing')
               PROVE  Written(k)
    BY <1>1, <1>2, <1>9 DEF WrittenInv
  <2>1. CASE k \notin unacked
    BY <2>1 DEF WrittenInv
  <2>2. CASE k \in unacked /\ k \in acks'
    BY <1>2, <2>2 DEF WrittenInv
  <2>3. CASE k \in unacked /\ k <= n /\ k # writing'
    <3>1. k # n
      BY <1>2, <2>3
    <3>2. k <= taken /\ k # writing
      BY <1>1, <1>2, <1>3, <2>3, <3>1
    <3> QED
      BY <3>2 DEF WrittenInv
  <2> QED
    BY <2>1, <2>2, <2>3
<1>11. /\ KeyedInv' /\ NoOvertaking'
       /\ \A k : ClientOf(k)' = ClientOf(k)
  BY <1>1 DEF KeyedInv, NoOvertaking, ClientOf
<1>12. NewerFollow'
  <2>1. \A k \in unacked \ acks : Forwarded(published[k]) => k \in unacked' \ acks'
    BY <1>1, <1>2
  <2> QED
    BY <1>1, <1>11, <2>1 DEF NewerFollow
<1> QED
  BY <1>4, <1>6, <1>7, <1>8, <1>10, <1>11, <1>12

\* WriteMessage and WriteMessageFails: the topic gains the message in hand at
\* most; only a message that was written is acknowledged.
LEMMA WritePreserves ==
    ASSUME MqttInv, WriteMessage \/ WriteMessageFails
    PROVE  MqttInv'
<1> USE DEF MqttInv
<1>1. writing # 0 /\ UNCHANGED <<published, unacked>> /\ writing' = 0
  BY DEF WriteMessage, WriteMessageFails, Terminate
<1>2. /\ writing = taken /\ writing \in unacked \ acks /\ link # "down"
      /\ acks \subseteq unacked /\ unacked \subseteq 1..Len(published)
      /\ DOMAIN published = 1..Len(published) /\ Len(published) \in Nat
      /\ kafka \in [Partition -> Seq(1..Len(published))]
      /\ link \in {"down", "lost", "stopping", "connected"}
      /\ taken \in 0..Len(published)
  BY <1>1 DEF HandlerInv, MqttTypeOK
<1>3. HeldIsSuffix'
  BY <1>1 DEF HeldIsSuffix
<1>4. HandlerInv'
  BY <1>1 DEF HandlerInv
<1>5. faults' \in 0..MaxFaults
  BY MqttAssumption DEF WriteMessage, WriteMessageFails, Fault, MqttTypeOK
<1>6. CASE Write(writing) /\ taken' = taken /\ link' = link
           /\ acks' = IF link = "connected" THEN acks \cup {writing} ELSE acks
  <2>1. acks' \subseteq acks \cup {writing}
    BY <1>6
  <2>2. /\ kafka' \in [Partition -> Seq(1..Len(published))]
        /\ \A n : n = writing => Written(n)'
        /\ \A n \in DOMAIN published : Forwarded(published[n]) /\ Written(n) => Written(n)'
        /\ KeyedInv' /\ NoOvertaking' /\ NewerFollow'
    BY <1>1, <1>6, <2>1, WriteStep
  <2>3. MqttTypeOK'
    BY <1>1, <1>2, <1>5, <1>6, <2>1, <2>2 DEF MqttTypeOK
  <2>4. AcksInv'
    BY <1>1, <1>2, <1>6 DEF AcksInv
  <2>5. WrittenInv'
    <3> SUFFICES ASSUME NEW n \in DOMAIN published, Forwarded(published[n]),
                        (n \notin unacked \/ n \in acks') \/ n <= taken
                 PROVE  Written(n)'
      BY <1>1, <1>6 DEF WrittenInv
    <3>1. CASE n = writing
      BY <2>2, <3>1
    <3>2. CASE n # writing
      BY <2>1, <2>2, <3>2 DEF WrittenInv
    <3> QED
      BY <3>1, <3>2
  <2> QED
    BY <1>3, <1>4, <2>2, <2>3, <2>4, <2>5
<1>7. CASE (Write(writing) \/ UNCHANGED kafka) /\ link' = "down" /\ taken' = 0 /\ acks' = {}
  <2>1. acks' \subseteq acks \cup {writing} /\ unacked \ acks \subseteq unacked' \ acks'
    BY <1>1, <1>7
  <2>2. /\ kafka' \in [Partition -> Seq(1..Len(published))]
        /\ \A n \in DOMAIN published : Forwarded(published[n]) /\ Written(n) => Written(n)'
        /\ KeyedInv' /\ NoOvertaking' /\ NewerFollow'
    <3>1. CASE Write(writing)
      BY <1>1, <2>1, <3>1, WriteStep
    <3>2. CASE UNCHANGED kafka
      BY <1>1, <1>2, <2>1, <3>2, TopicUnchanged
    <3> QED
      BY <1>7, <3>1, <3>2
  <2>3. MqttTypeOK'
    BY <1>1, <1>2, <1>5, <1>7, <2>2 DEF MqttTypeOK
  <2>4. AcksInv'
    BY <1>1, <1>7 DEF AcksInv
  <2>5. WrittenInv'
    BY <1>1, <1>2, <1>7, <2>2 DEF WrittenInv
  <2> QED
    BY <1>3, <1>4, <2>2, <2>3, <2>4, <2>5
<1> QED
  BY <1>6, <1>7 DEF WriteMessage, WriteMessageFails, Terminate

-----------------------------------------------------------------------------

\* The inductive invariant holds of every behaviour of the consumer.
LEMMA MqttInvariant == MqttSpec => []MqttInv
<1>1. MqttInit => MqttInv
  BY MqttAssumption DEF MqttInit, MqttInv, MqttTypeOK, HeldIsSuffix, HandlerInv, AcksInv,
     WrittenInv, KeyedInv, NoOvertaking, NewerFollow
<1>2. MqttInv /\ [MqttNext]_mqttVars => MqttInv'
  <2> SUFFICES ASSUME MqttInv, [MqttNext]_mqttVars
               PROVE  MqttInv'
    OBVIOUS
  <2>1. CASE \E m \in MqttMessage : ClientPublish(m)
    BY <2>1, PublishPreserves
  <2>2. CASE AckReceived
    BY <2>2, AckPreserves
  <2>3. CASE Connect \/ ConnectionLost \/ ShutDown \/ Crash
    BY <2>3, LinkPreserves
  <2>4. CASE HandleMessage
    BY <2>4, HandlePreserves
  <2>5. CASE WriteMessage \/ WriteMessageFails
    BY <2>5, WritePreserves
  <2>6. CASE UNCHANGED mqttVars
    BY <2>6 DEF mqttVars, MqttInv, MqttTypeOK, HeldIsSuffix, HandlerInv, AcksInv,
       WrittenInv, KeyedInv, NoOvertaking, NewerFollow, Written, ClientOf
  <2> QED
    BY <2>1, <2>2, <2>3, <2>4, <2>5, <2>6 DEF MqttNext
<1> QED
  BY <1>1, <1>2, PTL DEF MqttSpec

\* The state of the MQTT message consumer is well-typed.
THEOREM MqttTypeCorrect == MqttSpec => []MqttTypeOK
<1>1. MqttInv => MqttTypeOK
  BY DEF MqttInv
<1> QED
  BY <1>1, MqttInvariant, PTL

\* The broker never forgets a control message that is not in Kafka: the process
\* ends before it acknowledges what it could not write (ControlMessageHandler).
THEOREM MqttAtLeastOnce == MqttSpec => []NothingLost
<1>1. MqttInv => NothingLost
  BY DEF MqttInv, WrittenInv, NothingLost
<1> QED
  BY <1>1, MqttInvariant, PTL

\* Redelivery and the Kafka key keep the order of a client's messages: none is
\* overtaken (ControlMessageHandler, buildRhcMessageKafkaProducerConfig).
THEOREM MqttOrderRetained == MqttSpec => []NoOvertaking
<1>1. MqttInv => NoOvertaking
  BY DEF MqttInv
<1> QED
  BY <1>1, MqttInvariant, PTL

\* A duplicate of an old message is followed by the newer ones of its client, or
\* the broker still holds them: the last word in the partition is never older than
\* what the broker has forgotten (DefaultMessageHandler after a reconnect).
THEOREM MqttLastWordIsLast == MqttSpec => []LastWordIsLast
<1>1. MqttInv => LastWordIsLast
  BY DEF MqttInv, NewerFollow, LastWordIsLast
<1> QED
  BY <1>1, MqttInvariant, PTL
=============================================================================

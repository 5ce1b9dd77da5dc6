----------------------------- MODULE MosqPackets -----------------------------
(***************************************************************************)
(* The packets libmosquitto builds (send_*.c) and the checks of the calls    *)
(* that ask for them (actions.c).  Each packet is allocated with a remaining *)
(* length that one part of its function adds up, and is then filled by       *)
(* another part; the writes do not check the end.  A packet is modelled by   *)
(* that length and by the fields that are written, a string or a list of     *)
(* properties by its length.                                                 *)
(***************************************************************************)
EXTENDS MosqCodec

None == -1     \* a null pointer, where a length is expected

Field(kind, n) == [kind |-> kind, n |-> n]
Word(n) == Field("uint16", n)
Text(n) == Field("string", n)      \* its two bytes of length, and what is copied of it
Props(n) == Field("properties", n)

Bytes(field) ==
  CASE field.kind = "byte"   -> 1
    [] field.kind = "uint16" -> 2
    [] field.kind = "varint" -> Len(packet__write_varint(field.n))
    [] field.kind = "string" -> 2 + Carried(field.n)
    [] field.kind \in {"properties", "payload"} -> field.n

Filled(fields) == FoldLeft(LAMBDA sum, field : sum + Bytes(field), 0, fields)

Refuse(rc) == [rc |-> rc, command |-> 0, remaining_length |-> 0, fields |-> <<>>]

\* Five bytes do not fit into remaining_bytes.
packet__alloc(command, remaining_length, fields) ==
  IF remaining_length > MaxVarint THEN Refuse("PAYLOAD_SIZE")
  ELSE [rc |-> "SUCCESS", command |-> command, remaining_length |-> remaining_length,
        fields |-> fields]

If(condition, fields) == IF condition THEN fields ELSE <<>>

\* A list of properties with its length before it.
WithLength(proplen) == <<Field("varint", proplen), Props(proplen)>>
LengthAndAll(proplen) == packet__varint_bytes(proplen) + proplen

packet__check_oversize_Payload(maximum_packet_size, remaining_length) ==
  maximum_packet_size > 0 /\ remaining_length > maximum_packet_size
packet__check_oversize(maximum_packet_size, remaining_length) ==
  /\ maximum_packet_size > 0
  /\ remaining_length + packet__varint_bytes(remaining_length) > maximum_packet_size

-----------------------------------------------------------------------------
(* CONNECT.  Of the options o, those not set are None; a list of properties is   *)
(* a list of their lengths, with the one that is a receive maximum marked.       *)

ProtocolName(protocol) == IF protocol = 3 THEN Text(6) ELSE Text(4)

Proplen(properties) == FoldLeft(LAMBDA sum, p : sum + p.len, 0, properties)

\* The number flag where the option is set.
Flag(option, flag) == IF option = None THEN 0 ELSE flag

Flags(o) == 2 * o.clean + Flag(o.will.topic, 4 + 8 * o.will.qos)
              + Flag(o.username, 128) + Flag(o.password, 64)

\* The receive maximum is added when the application gives none.
ConnectProplen(o) ==
  Proplen(o.properties)
    + (IF \E i \in 1 .. Len(o.properties) : o.properties[i].receive_maximum THEN 0 ELSE 3)

WillProplen(o) == Proplen(o.will.properties)

TextOf(n) == IF n = None THEN 2 ELSE 2 + n
TextIf(n) == IF n = None THEN 0 ELSE 2 + n
Given(n) == If(n # None, <<Text(n)>>)

ConnectLength_NoWillLength(o) ==
  (CASE o.protocol = 5 -> 10 + LengthAndAll(ConnectProplen(o))
     [] o.protocol = 4 -> 10
     [] o.protocol = 3 -> 12)
  + TextOf(o.id) + TextIf(o.username) + TextIf(o.password)
  + (IF o.will.topic = None THEN 0
     ELSE 4 + o.will.topic + o.will.payloadlen + (IF o.protocol = 5 THEN WillProplen(o) ELSE 0))
ConnectLength(o) ==
  (CASE o.protocol = 5 -> 10 + LengthAndAll(ConnectProplen(o))
     [] o.protocol = 4 -> 10
     [] o.protocol = 3 -> 12)
  + TextOf(o.id) + TextIf(o.username) + TextIf(o.password)
  + (IF o.will.topic = None THEN 0
     ELSE 4 + o.will.topic + o.will.payloadlen
            + (IF o.protocol = 5 THEN LengthAndAll(WillProplen(o)) ELSE 0))

ConnectFields(o) ==
  <<ProtocolName(o.protocol), Field("byte", o.protocol), Field("byte", Flags(o)), Word(60)>>
    \o If(o.protocol = 5, WithLength(ConnectProplen(o)))
    \o <<Text(IF o.id = None THEN 0 ELSE o.id)>>
    \o If(o.will.topic # None,
          If(o.protocol = 5, WithLength(WillProplen(o)))
            \o <<Text(o.will.topic), Text(o.will.payloadlen)>>)
    \o Given(o.username) \o Given(o.password)

send__connect(o) ==
  IF o.protocol = 3 /\ o.id = None THEN Refuse("PROTOCOL")
  ELSE IF o.protocol \in {3, 4} /\ o.password # None /\ o.username = None THEN Refuse("INVAL")
  ELSE packet__alloc("CONNECT", ConnectLength(o), ConnectFields(o))

-----------------------------------------------------------------------------
(* PUBLISH *)

\* A list that was received, and not made with add_*, is cut after its first.
Outgoing(properties, client_generated) ==
  IF client_generated \/ properties = <<>> THEN properties ELSE <<properties[1]>>

PublishLength_AlwaysMid(protocol, topic, payloadlen, qos, proplen) ==
  TextOf(topic) + payloadlen + 2 + (IF protocol = 5 THEN LengthAndAll(proplen) ELSE 0)
PublishLength(protocol, topic, payloadlen, qos, proplen) ==
  TextOf(topic) + payloadlen + (IF qos > 0 THEN 2 ELSE 0)
    + (IF protocol = 5 THEN LengthAndAll(proplen) ELSE 0)

send__real_publish(protocol, max, topic, payloadlen, qos, proplen) ==
  LET length == PublishLength(protocol, topic, payloadlen, qos, proplen)
  IN  IF packet__check_oversize(max, length) THEN Refuse("OVERSIZE_PACKET")
      ELSE packet__alloc("PUBLISH", length,
             <<Text(IF topic = None THEN 0 ELSE topic)>> \o If(qos > 0, <<Word(1)>>)
               \o If(protocol = 5, WithLength(proplen)) \o <<Field("payload", payloadlen)>>)

\* Why the call is refused, "SUCCESS" when it is not.  A topic is its length.
PublishAllowed(c, properties) ==
  LET empty == c.topic \in {None, 0}
      aliased == c.protocol = 5 /\ \E i \in 1 .. Len(properties) : properties[i].topic_alias
      length == 3 + (IF empty THEN 0 ELSE c.topic) + c.payloadlen + Proplen(properties)
                  + (IF c.qos > 0 THEN 1 ELSE 0)
  IN  IF c.protocol # 5 /\ properties # <<>> THEN "NOT_SUPPORTED"
      ELSE IF c.qos > c.maximum_qos THEN "QOS_NOT_SUPPORTED"
      ELSE IF empty /\ ~aliased THEN "INVAL"
      ELSE IF c.topic > MaxText THEN "MALFORMED_UTF8"
      ELSE IF ~empty /\ c.payloadlen > MaxVarint THEN "PAYLOAD_SIZE"
      ELSE IF c.topic > LongestTopic THEN "INVAL"
      ELSE IF packet__check_oversize(c.max, length) THEN "OVERSIZE_PACKET"
      ELSE "SUCCESS"

\* The packet of the first try to send; a message with qos 1 or 2 waits for it
\* in the queue, and the caller has been told SUCCESS.
mosquitto_publish_v5(c) ==
  LET properties == Outgoing(c.properties, c.client_generated)
      allowed    == PublishAllowed(c, properties)
  IN  IF allowed # "SUCCESS" THEN Refuse(allowed)
      ELSE send__real_publish(c.protocol, c.max, IF c.topic = 0 THEN None ELSE c.topic,
                              c.payloadlen, c.qos, Proplen(properties))

-----------------------------------------------------------------------------
(* SUBSCRIBE and UNSUBSCRIBE: lists of topics, each its length *)

AllTopics(topics) == FoldLeft(LAMBDA sum, n : sum + TextOf(n), 0, topics)

send__subscribe(protocol, topics, proplen) ==
  packet__alloc("SUBSCRIBE",
    2 + AllTopics(topics) + Len(topics)
      + (IF protocol = 5 THEN LengthAndAll(proplen) ELSE 0),
    <<Word(1)>> \o If(protocol = 5, WithLength(proplen))
      \o FlattenSeq([i \in 1 .. Len(topics) |-> <<Text(topics[i]), Field("byte", 0)>>]))

send__unsubscribe(protocol, topics, proplen) ==
  packet__alloc("UNSUBSCRIBE",
    2 + AllTopics(topics)
      + (IF protocol = 5 THEN LengthAndAll(proplen) ELSE 0),
    <<Word(1)>> \o If(protocol = 5, WithLength(proplen))
      \o [i \in 1 .. Len(topics) |-> Text(topics[i])])

\* What mosquitto_subscribe_multiple and mosquitto_unsubscribe_multiple check;
\* each is the number of bytes that a topic has besides its text.
TopicsAllowed(c, each) ==
  LET length == FoldLeft(LAMBDA sum, n : sum + each + n, 0, c.topics) + 2
                  + Proplen(Outgoing(c.properties, c.client_generated))
  IN  IF c.protocol # 5 /\ c.properties # <<>> THEN "NOT_SUPPORTED"
      ELSE IF \E i \in 1 .. Len(c.topics) : c.topics[i] > LongestTopic THEN "INVAL"
      ELSE IF packet__check_oversize(c.max, length) THEN "OVERSIZE_PACKET"
      ELSE "SUCCESS"

mosquitto_subscribe_multiple(c) ==
  IF c.topics = <<>> THEN Refuse("INVAL")
  ELSE IF TopicsAllowed(c, 3) # "SUCCESS" THEN Refuse(TopicsAllowed(c, 3))
  ELSE send__subscribe(c.protocol, c.topics,
                       Proplen(Outgoing(c.properties, c.client_generated)))

mosquitto_unsubscribe_multiple(c) ==
  IF TopicsAllowed(c, 2) # "SUCCESS" THEN Refuse(TopicsAllowed(c, 2))
  ELSE send__unsubscribe(c.protocol, c.topics,
                         Proplen(Outgoing(c.properties, c.client_generated)))

-----------------------------------------------------------------------------
(* The rest: a reason code and properties, in MQTT 5 only.  A list that is not   *)
(* given is <<>>.                                                                *)

\* The end of a packet that has a reason code only when there is something to say.
Reason(c) ==
  If(c.protocol = 5 /\ (c.reason_code # 0 \/ c.properties # <<>>),
     <<Field("byte", c.reason_code)>>
       \o If(c.properties # <<>>, WithLength(Proplen(c.properties))))

ReasonLength(c) ==
  IF c.protocol # 5 \/ (c.reason_code = 0 /\ c.properties = <<>>) THEN 0
  ELSE 1 + (IF c.properties = <<>> THEN 0 ELSE LengthAndAll(Proplen(c.properties)))

send__disconnect(c) == packet__alloc("DISCONNECT", ReasonLength(c), Reason(c))

\* PUBACK, PUBREC, PUBREL and PUBCOMP.
send__command_with_mid(c) ==
  packet__alloc("PUBACK", 2 + ReasonLength(c), <<Word(1)>> \o Reason(c))

\* PINGREQ and PINGRESP.
send__simple_command(c) == packet__alloc("PINGREQ", 0, <<>>)
=============================================================================

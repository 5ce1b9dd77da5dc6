------------------------------ MODULE MosqIn ------------------------------
(***************************************************************************)
(* The messages a libmosquitto client receives with QoS 1 and 2: msgs_in of *)
(* MQTT/lib/messages_mosq.c, handle_publish.c and handle_pubrel.c, and the  *)
(* broker that sends them.                                                  *)
(***************************************************************************)
EXTENDS MosqLink

CONSTANTS
  MaxIn   \* bound on the messages the broker sends, each with a mid of its own

ASSUME InAssumption == MaxIn \in Nat

VARIABLES
  inq,       \* msgs_in.inflight: the mids of the QoS 2 messages, oldest first
  delivered, \* history: how often on_message has been called for a message; once
             \* for QoS 1, whatever the number
  sending,   \* the broker: how far it is with each message
  qosOf      \* the QoS of each message

inVars == <<inq, delivered, sending, qosOf>>

InMids == 1 .. MaxIn

InOK ==
  /\ inq \in Seq(InMids)
  /\ delivered \in [InMids -> Nat]
  /\ sending \in [InMids -> {"new", "published", "released", "done"}]
  /\ qosOf \in [InMids -> {1, 2}]

InInit ==
  /\ inq = <<>> /\ delivered = [m \in InMids |-> 0]
  /\ sending = [m \in InMids |-> "new"]
  /\ qosOf \in [InMids -> {1, 2}]

-----------------------------------------------------------------------------
(* The handlers. *)

\* QoS 1: acknowledged and handed to on_message.
handle__publish1 ==
  /\ Reads("PUBLISH") /\ Head(down).qos = 1
  /\ Sends(<<Ack("PUBACK", Head(down).mid)>>)
  /\ delivered' = [delivered EXCEPT ![Head(down).mid] = 1]
  /\ UNCHANGED <<conn, drops, inq, sending, qosOf>>

\* QoS 2: kept until the PUBREL comes, also when it is there already.
Kept(mid) == Append(inq, mid)

handle__publish2 ==
  /\ Reads("PUBLISH") /\ Head(down).qos = 2
  /\ Sends(<<Ack("PUBREC", Head(down).mid)>>)
  /\ inq' = Kept(Head(down).mid)
  /\ UNCHANGED <<conn, drops, delivered, sending, qosOf>>

\* message__remove takes the first message with the mid.
message__remove_Not(mid) == inq
message__remove(mid) ==
  IF Contains(inq, mid) THEN RemoveFirst(inq, mid) ELSE inq

\* The answer to a PUBREL, also to one whose message is gone.
Answer_WhenKnown(mid) == IF Contains(inq, mid) THEN <<Ack("PUBCOMP", mid)>> ELSE <<>>
Answer(mid) == <<Ack("PUBCOMP", mid)>>

handle__pubrel ==
  /\ Reads("PUBREL")
  /\ Sends(Answer(Head(down).mid))
  /\ inq' = message__remove(Head(down).mid)
  /\ delivered' = IF Contains(inq, Head(down).mid)
                  THEN [delivered EXCEPT ![Head(down).mid] = @ + 1] ELSE delivered
  /\ UNCHANGED <<conn, drops, sending, qosOf>>

\* send__pubcomp fails: the message is removed and not handed to on_message.
handle__pubrel_fails ==
  /\ Readable("PUBREL")
  /\ inq' = message__remove(Head(down).mid)
  /\ Lost
  /\ UNCHANGED <<delivered, sending, qosOf>>

\* message__reconnect_reset keeps the QoS 2 messages, and there are no others.
reset_in_Forgets == inq' = <<>> /\ UNCHANGED <<delivered, sending, qosOf>>
reset_in == UNCHANGED inVars

-----------------------------------------------------------------------------
(* The broker. *)

BrokerSend(m) ==
  /\ Accepted
  /\ sending[m] = "new" /\ \A k \in 1 .. (m - 1) : sending[k] # "new"
  /\ sending' = [sending EXCEPT ![m] = "published"]
  /\ down' = Append(down, Publish(m, qosOf[m]))
  /\ UNCHANGED <<conn, up, drops, inq, delivered, qosOf>>

Now(m, state) == sending' = [sending EXCEPT ![m] = state] /\ UNCHANGED <<inq, delivered, qosOf>>

BrokerPuback  == BrokerReads("PUBACK", <<>>) /\ Now(Head(up).mid, "done")
BrokerPubrec  == BrokerReads("PUBREC", <<Ack("PUBREL", Head(up).mid)>>)
                 /\ Now(Head(up).mid, "released")
BrokerPubcomp == BrokerReads("PUBCOMP", <<>>) /\ Now(Head(up).mid, "done")

\* After a reconnect the session goes on where it was.
Unsettled == {m \in InMids : sending[m] \in {"published", "released"}}
Again(m) == IF sending[m] = "published" THEN Publish(m, qosOf[m]) ELSE Ack("PUBREL", m)

BrokerConnect ==
  /\ BrokerReads("CONNECT", <<Ack("CONNACK", 0)>> \o InOrder(Unsettled, Again))
  /\ UNCHANGED inVars
=============================================================================

---------------------------- MODULE MosqClient ----------------------------
(***************************************************************************)
(* A libmosquitto client with messages in both directions over a connection *)
(* that is lost and made again: mosquitto_loop_forever of MQTT/lib/loop.c   *)
(* and mosquitto__reconnect of connect.c around MosqOut and MosqIn.         *)
(***************************************************************************)
EXTENDS MosqOut, MosqIn

VARIABLE mishaps \* history: what has happened that the client is not made for

vars == <<linkVars, outVars, inVars, mishaps>>

TypeOK ==
  /\ LinkOK(OutMids \cup InMids) /\ OutOK /\ InOK
  /\ mishaps \subseteq {"overLimit", "twiceKept", "pubcompLost"}

Init == LinkInit /\ OutInit /\ InInit /\ mishaps = {}

-----------------------------------------------------------------------------
\* More messages than MaxInflight are part way through their delivery.
OverLimit == conn = "active" /\ Cardinality(DOMAIN outq \ Invalid(outq)) > MaxInflight

\* A message the client has kept is sent and kept once more.
TwiceKept == \E n, k \in DOMAIN inq : n # k /\ inq[n] = inq[k]

Notes(more) ==
  mishaps' = mishaps \cup more \cup (IF OverLimit' THEN {"overLimit"} ELSE {})
                               \cup (IF TwiceKept' THEN {"twiceKept"} ELSE {})

Application == \E qos \in {1, 2} : mosquitto_publish(qos) /\ UNCHANGED inVars

Handlers ==
  \/ \E type \in {"PUBACK", "PUBCOMP"} : handle__pubackcomp(type) /\ UNCHANGED inVars
  \/ \E type \in {"PUBACK", "PUBCOMP"} : handle__pubackcomp_fails(type) /\ UNCHANGED inVars
  \/ handle__pubrec /\ UNCHANGED inVars
  \/ handle__connack /\ UNCHANGED inVars
  \/ message__retry_check /\ UNCHANGED inVars
  \/ handle__publish1 /\ UNCHANGED outVars
  \/ handle__publish2 /\ UNCHANGED outVars
  \/ handle__pubrel /\ UNCHANGED outVars

mosquitto__reconnect == Opens /\ reset_out /\ reset_in

Broker ==
  \/ BrokerPublish1 /\ UNCHANGED inVars
  \/ BrokerPublish2 /\ UNCHANGED inVars
  \/ BrokerPubrel /\ UNCHANGED inVars
  \/ BrokerPuback /\ UNCHANGED outVars
  \/ BrokerPubrec /\ UNCHANGED outVars
  \/ BrokerPubcomp /\ UNCHANGED outVars
  \/ BrokerConnect /\ UNCHANGED outVars

BrokerSends == \E m \in InMids : BrokerSend(m) /\ UNCHANGED outVars

Drop == conn \in {"connecting", "active"} /\ Lost /\ UNCHANGED <<outVars, inVars>>

PubcompLost == handle__pubrel_fails /\ UNCHANGED outVars

Client == (Handlers \/ mosquitto__reconnect) /\ Notes({})

Next ==
  \/ Client
  \/ (Application \/ Broker \/ BrokerSends \/ Drop) /\ Notes({})
  \/ PubcompLost /\ Notes({"pubcompLost"})

Spec == Init /\ [][Next]_vars

\* mosquitto_loop_forever reads and reconnects, the broker answers.
FairSpec == Spec /\ WF_vars(Client) /\ WF_vars(Broker /\ Notes({}))

-----------------------------------------------------------------------------
(* Properties. *)

\* As long as the client keeps to the limit, the broker passes a QoS 2 message
\* on once at most, however often the connection is lost between the steps of
\* the handshake.
OutOnce == "overLimit" \notin mishaps => \A m \in OutMids : got[m] <= 1

\* on_publish is called for messages the broker has.
AckedReceived == \A m \in acked : got[m] > 0

\* Outgoing messages: both of these, and the quota and the lists in their ranges.
OutInv == TypeOK /\ OutOnce /\ AckedReceived

\* Unless a message has been kept twice, on_message is called once at most.
InOnce == "twiceKept" \notin mishaps => \A m \in InMids : delivered[m] <= 1

\* A message the broker has done with has been handed to on_message, unless the
\* connection was lost while the client answered its PUBREL.
InDelivered ==
  "pubcompLost" \notin mishaps =>
    \A m \in InMids : sending[m] = "done" => delivered[m] > 0

\* Incoming messages: neither twice nor not at all.
InInv == InOnce /\ InDelivered

\* Every message published is acknowledged once the connection lasts, those that
\* wait for the quota and those published without a socket included.
OutSettles == \A m \in OutMids : last_mid = m ~> m \in acked

\* The broker gets done with every message it has begun to send.
InSettles == \A m \in InMids : sending[m] = "published" ~> sending[m] = "done"

(* What a comment says. *)

\* handle_pubrel.c: no more than one callback for the same message.
CallbackOnce == \A m \in InMids : delivered[m] <= 1

-----------------------------------------------------------------------------
(* The inductive invariant. *)

\* No packet is on its way twice; before CONNECT has been read nothing is on its way
\* to the client, and behind CONNECT only what has been published meanwhile.
WireInv ==
  /\ IsInjective(up) /\ IsInjective(down)
  /\ conn = "closed" => up = <<>> /\ down = <<>>
  /\ \A p \in Range(up) : p.type = "CONNECT" =>
       /\ p = Head(up) /\ conn = "connecting" /\ down = <<>>
       /\ \A k \in Range(up) : k.type \in {"CONNECT", "PUBLISH"}

Begun(m)    == m.state \in {"wait_for_puback", "wait_for_pubrec", "publish_qos1", "publish_qos2"}
Received(m) == m.state \in {"wait_for_pubcomp", "resend_pubrel"}

\* The list is in the order of the numbers, and its states go with the QoS.
ListInv ==
  /\ \A n, k \in DOMAIN outq : n < k => outq[n].mid < outq[k].mid
  /\ \A m \in Range(outq) :
       /\ m.mid <= last_mid
       /\ m.state \in {"wait_for_puback", "publish_qos1"} => m.qos = 1
       /\ m.state \in {"wait_for_pubrec", "publish_qos2"} => m.qos = 2
       /\ Received(m) => m.qos = 2 /\ got[m.mid] > 0
  /\ \A mid \in OutMids : mid > last_mid => got[mid] = 0
  /\ \A mid \in acked \cup held : got[mid] > 0

\* A handshake has one packet on its way at most, and the message it belongs to is in
\* the list and as far as the packet says.
OutWireInv ==
  /\ \A p \in Range(up) : p.type = "PUBLISH" =>
       /\ \E m \in Range(outq) : m.mid = p.mid /\ m.qos = p.qos /\ Begun(m)
       /\ Ack("PUBACK", p.mid) \notin Range(down) /\ Ack("PUBREC", p.mid) \notin Range(down)
  /\ \A p \in Range(up) : p.type = "PUBREL" =>
       /\ \E m \in Range(outq) : m.mid = p.mid /\ Received(m)
       /\ Ack("PUBCOMP", p.mid) \notin Range(down)
  /\ \A p \in Range(down) : p.type = "PUBACK" =>
       got[p.mid] > 0 /\ \E m \in Range(outq) : m.mid = p.mid /\ m.qos = 1 /\ Begun(m)
  /\ \A p \in Range(down) : p.type = "PUBREC" =>
       got[p.mid] > 0 /\ \E m \in Range(outq) : m.mid = p.mid /\ m.qos = 2 /\ Begun(m)
  /\ \A p \in Range(down) : p.type = "PUBCOMP" =>
       \E m \in Range(outq) : m.mid = p.mid /\ Received(m)

\* What message__retry_check will send has not been sent on this connection, and is not
\* answered.
RepeatInv ==
  conn \in {"connecting", "callback"} =>
    /\ \A p \in Range(up) : p.type # "PUBREL"
    /\ \A m \in Range(outq) :
         /\ m.state # "wait_for_pubcomp"
         /\ m.state \in Resent =>
              /\ \A p \in Range(up) : p.type = "PUBLISH" => p.mid # m.mid
              /\ \A p \in Range(down) : p.type \in {"PUBACK", "PUBREC", "PUBCOMP"} => p.mid # m.mid

\* Behind the first MaxInflight messages none has begun before those in front of it,
\* so one that has begun there means that the limit is exceeded.
LimitInv ==
  /\ \A n, k \in DOMAIN outq :
       n > MaxInflight /\ outq[n].state # "invalid" /\ k < n => outq[k].state # "invalid"
  /\ OverLimit => "overLimit" \in mishaps

\* A message that the broker has passed on and the list has not noted as received is
\* known to the broker by its number; a reset does not forget what has been noted.
OnceInv ==
  "overLimit" \notin mishaps =>
    /\ \A mid \in OutMids : got[mid] <= 1
    /\ \A n \in DOMAIN outq :
         /\ outq[n].qos = 2 /\ ~Received(outq[n]) /\ got[outq[n].mid] > 0 => outq[n].mid \in held
         /\ Received(outq[n]) => n <= MaxInflight

OutIInv == ListInv /\ OutWireInv /\ RepeatInv /\ LimitInv /\ OnceInv

\* The same for the messages of the broker, which knows how far each is.
InWireInv ==
  /\ \A p \in Range(down) : p.type = "PUBLISH" =>
       /\ p.mid \in InMids /\ p.qos = qosOf[p.mid] /\ sending[p.mid] = "published"
       /\ Ack("PUBACK", p.mid) \notin Range(up) /\ Ack("PUBREC", p.mid) \notin Range(up)
  /\ \A p \in Range(down) : p.type = "PUBREL" =>
       /\ p.mid \in InMids /\ qosOf[p.mid] = 2 /\ sending[p.mid] = "released"
       /\ Ack("PUBCOMP", p.mid) \notin Range(up)
  /\ \A p \in Range(up) : p.type = "PUBACK" =>
       /\ p.mid \in InMids /\ qosOf[p.mid] = 1 /\ sending[p.mid] = "published"
       /\ delivered[p.mid] > 0
  /\ \A p \in Range(up) : p.type = "PUBREC" =>
       /\ p.mid \in InMids /\ qosOf[p.mid] = 2 /\ sending[p.mid] = "published"
       /\ p.mid \in Range(inq)
  /\ \A p \in Range(up) : p.type = "PUBCOMP" =>
       /\ p.mid \in InMids /\ qosOf[p.mid] = 2 /\ sending[p.mid] = "released"
       /\ delivered[p.mid] > 0 \/ "pubcompLost" \in mishaps

\* A message is kept, handed on, or lost with its PUBCOMP once the broker knows that
\* it was received; unless it is kept twice, it is never kept and handed on.
KeptInv ==
  /\ \A mid \in Range(inq) : qosOf[mid] = 2 /\ sending[mid] # "new"
  /\ \A mid \in InMids :
       /\ sending[mid] = "new" => delivered[mid] = 0
       /\ qosOf[mid] = 1 => delivered[mid] <= 1
       /\ qosOf[mid] = 2 /\ delivered[mid] > 0 => sending[mid] \in {"released", "done"}
       /\ sending[mid] = "released" =>
            qosOf[mid] = 2 /\ (\/ mid \in Range(inq) \/ delivered[mid] > 0
                               \/ "pubcompLost" \in mishaps)
       /\ sending[mid] = "done" => delivered[mid] > 0 \/ "pubcompLost" \in mishaps
  /\ "twiceKept" \notin mishaps =>
       /\ IsInjective(inq)
       /\ \A mid \in Range(inq) : delivered[mid] = 0
       /\ \A mid \in InMids : delivered[mid] <= 1

IInv == TypeOK /\ WireInv /\ OutIInv /\ InWireInv /\ KeptInv
=============================================================================

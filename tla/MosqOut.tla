------------------------------ MODULE MosqOut ------------------------------
(***************************************************************************)
(* The messages a libmosquitto client publishes with QoS 1 and 2: msgs_out  *)
(* of MQTT/lib/messages_mosq.c and the handlers that move them on, and the  *)
(* broker at the other end.                                                 *)
(***************************************************************************)
EXTENDS MosqLink

CONSTANTS
  MaxInflight, \* inflight_maximum
  MaxOut       \* bound on the messages published, far below 2^16

ASSUME OutAssumption == MaxInflight \in Nat \ {0} /\ MaxOut \in Nat

VARIABLES
  outq,     \* msgs_out.inflight: mid, qos and state of each message, oldest first
  quota,    \* msgs_out.inflight_quota
  last_mid,
  acked,    \* history: the messages on_publish has been called for
  held,     \* the broker: QoS 2 messages it waits for a PUBREL for
  got       \* history: how often the broker has passed a message on; once for
            \* QoS 1, whatever the number

outVars == <<outq, quota, last_mid, acked, held, got>>

OutMids == 1 .. MaxOut
Waiting == {"wait_for_puback", "wait_for_pubrec", "wait_for_pubcomp"}
Resent  == {"publish_qos1", "publish_qos2", "resend_pubrel"}
States  == {"invalid"} \cup Waiting \cup Resent

OutOK ==
  /\ outq \in Seq([mid : OutMids, qos : {1, 2}, state : States])
  /\ quota \in 0 .. MaxInflight
  /\ last_mid \in 0 .. MaxOut
  /\ acked \subseteq OutMids /\ held \subseteq OutMids
  /\ got \in [OutMids -> Nat]

OutInit ==
  /\ outq = <<>> /\ quota = MaxInflight /\ last_mid = 0
  /\ acked = {} /\ held = {} /\ got = [m \in OutMids |-> 0]

-----------------------------------------------------------------------------
(* message__release_to_inflight: the first messages that are "invalid" are   *)
(* sent, as many as the quota allows.  A message that cannot be sent, without *)
(* a socket or because the write fails, has its new state already, is not     *)
(* counted in the quota and ends the loop.                                    *)

Invalid(q) == {n \in DOMAIN q : q[n].state = "invalid"}

Picked(q, most) == {n \in Invalid(q) : Cardinality({k \in Invalid(q) : k <= n}) <= most}

Wait(m) == [m EXCEPT !.state = IF m.qos = 1 THEN "wait_for_puback" ELSE "wait_for_pubrec"]

Released(q, most) == [n \in DOMAIN q |-> IF n \in Picked(q, most) THEN Wait(q[n]) ELSE q[n]]

ReleasedPackets(q, most) ==
  InOrder(Picked(q, most), LAMBDA n : Publish(q[n].mid, q[n].qos))

message__release_to_inflight(q, quo) ==
  IF HasSocket
  THEN /\ outq' = Released(q, quo)
       /\ quota' = quo - Cardinality(Picked(q, quo))
       /\ Sends(ReleasedPackets(q, quo))
  ELSE /\ outq' = Released(q, Min({1, quo}))
       /\ quota' = quo
       /\ UNCHANGED up

\* The write of one of the messages fails; the connection is given up with the
\* next read.
release_fails(q, quo) ==
  /\ conn \in {"connecting", "active"}
  /\ \E n \in 1 .. Cardinality(Picked(q, quo)) :
       outq' = Released(q, n) /\ quota' = quo - (n - 1)
  /\ Lost

-----------------------------------------------------------------------------
(* The application: mosquitto_publish, also from a callback. *)

Queued(qos) == Append(outq, [mid |-> last_mid + 1, qos |-> qos, state |-> "invalid"])

mosquitto_publish(qos) ==
  /\ last_mid < MaxOut
  /\ last_mid' = last_mid + 1
  /\ \/ /\ message__release_to_inflight(Queued(qos), quota)
        /\ UNCHANGED <<conn, down, drops>>
     \/ release_fails(Queued(qos), quota)
  /\ UNCHANGED <<acked, held, got>>

-----------------------------------------------------------------------------
(* The handlers. *)

\* The messages with a mid; there is one at most, and the first is removed.
Find(mid) == {n \in DOMAIN outq : outq[n].mid = mid}
Without(mid) == RemoveFirstMatch(outq, LAMBDA m : m.mid = mid)

OneMore_Unbounded == quota + 1
OneMore == Min({quota + 1, MaxInflight})

\* The message has been deleted and on_publish called when the next are sent.
Acknowledged(mid) ==
  acked' = (IF Find(mid) # {} THEN acked \cup {mid} ELSE acked) /\ UNCHANGED <<last_mid, held, got>>

handle__pubackcomp(type) ==
  /\ Reads(type)
  /\ Acknowledged(Head(down).mid)
  /\ message__release_to_inflight(Without(Head(down).mid), OneMore)
  /\ UNCHANGED <<conn, drops>>

handle__pubackcomp_fails(type) ==
  /\ Readable(type)
  /\ Acknowledged(Head(down).mid)
  /\ release_fails(Without(Head(down).mid), OneMore)

message__out_update(mid, state) ==
  outq' = [n \in DOMAIN outq |-> IF n \in Find(mid) THEN [outq[n] EXCEPT !.state = state]
                                                    ELSE outq[n]]

\* A PUBREL is the answer, whether the message is known or not.
handle__pubrec ==
  /\ Reads("PUBREC")
  /\ message__out_update(Head(down).mid, "wait_for_pubcomp")
  /\ Sends(<<Ack("PUBREL", Head(down).mid)>>)
  /\ UNCHANGED <<conn, drops, quota, last_mid, acked, held, got>>

\* handle__connack, up to the callback on_connect.
handle__connack ==
  /\ Reads("CONNACK")
  /\ conn' = "callback"
  /\ quota' = MaxInflight
  /\ UNCHANGED <<up, drops, outq, last_mid, acked, held, got>>

\* message__retry_check: the states of the messages that are sent again, and how.
Repeated_NoPubrel == {n \in DOMAIN outq : outq[n].state \in {"publish_qos1", "publish_qos2"}}
Repeated == {n \in DOMAIN outq : outq[n].state \in Resent \cup {"wait_for_pubcomp"}}

Repeat(m) ==
  IF m.state \in {"publish_qos1", "publish_qos2"} THEN Publish(m.mid, m.qos) ELSE Ack("PUBREL", m.mid)

message__retry_check ==
  /\ conn = "callback"
  /\ conn' = "active"
  /\ Sends(InOrder(Repeated, LAMBDA n : Repeat(outq[n])))
  /\ UNCHANGED <<down, drops, outVars>>

-----------------------------------------------------------------------------
(* message__reconnect_reset, for the messages of msgs_out. *)

Rewound_Published(m) ==
  [m EXCEPT !.state = IF m.qos = 1 THEN "publish_qos1" ELSE "publish_qos2"]
Rewound_Released(m) ==
  [m EXCEPT !.state = IF m.qos = 1 THEN "publish_qos1" ELSE "resend_pubrel"]
Rewound(m) ==
  [m EXCEPT !.state = CASE m.qos = 1 -> "publish_qos1"
                        [] m.qos = 2 /\ m.state = "wait_for_pubrec" -> "publish_qos2"
                        [] m.qos = 2 /\ m.state = "wait_for_pubcomp" -> "resend_pubrel"
                        [] OTHER -> @]

reset_out ==
  /\ outq' = [n \in DOMAIN outq |-> IF n <= MaxInflight THEN Rewound(outq[n])
                                    ELSE [outq[n] EXCEPT !.state = "invalid"]]
  /\ quota' = MaxInflight - Min({MaxInflight, Len(outq)})
  /\ UNCHANGED <<last_mid, acked, held, got>>

-----------------------------------------------------------------------------
(* The broker. *)

PassOn(mid) == got' = [got EXCEPT ![mid] = @ + 1]

BrokerPublish1 ==
  /\ BrokerReads("PUBLISH", <<Ack("PUBACK", Head(up).mid)>>)
  /\ Head(up).qos = 1
  /\ got' = [got EXCEPT ![Head(up).mid] = 1]
  /\ UNCHANGED <<outq, quota, last_mid, acked, held>>

BrokerPublish2 ==
  /\ BrokerReads("PUBLISH", <<Ack("PUBREC", Head(up).mid)>>)
  /\ Head(up).qos = 2
  /\ IF Head(up).mid \in held THEN UNCHANGED got ELSE PassOn(Head(up).mid)
  /\ held' = held \cup {Head(up).mid}
  /\ UNCHANGED <<outq, quota, last_mid, acked>>

BrokerPubrel ==
  /\ BrokerReads("PUBREL", <<Ack("PUBCOMP", Head(up).mid)>>)
  /\ held' = held \ {Head(up).mid}
  /\ UNCHANGED <<outq, quota, last_mid, acked, got>>
=============================================================================

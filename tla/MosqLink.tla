----------------------------- MODULE MosqLink -----------------------------
(***************************************************************************)
(* The connection of a libmosquitto client to its broker, MQTT/lib.  The    *)
(* client is used as debug.c does: one thread calls mosquitto_loop_forever, *)
(* MQTT 3.1.1; its session is persistent, clean_session is FALSE.           *)
(*                                                                          *)
(* up and down are the packets on their way: those queued by packet__queue, *)
(* in the buffers of the sockets and in the network.  When the connection   *)
(* is lost what has not been read is lost with it.                          *)
(***************************************************************************)
EXTENDS Integers, Sequences, SequencesExt, FiniteSets, FiniteSetsExt

CONSTANTS
  MaxDrops   \* bound on the losses of the connection

ASSUME LinkAssumption == MaxDrops \in Nat

VARIABLES
  conn,  \* "closed": no socket; "connecting": CONNECT sent; "callback": in
         \* on_connect; "active": mosq_cs_active
  up,    \* packets for the broker
  down,  \* packets for the client
  drops  \* losses of the connection so far

linkVars == <<conn, up, down, drops>>

Acks   == {"PUBACK", "PUBREC", "PUBREL", "PUBCOMP"}
Packet(mids) ==
  [type : Acks \cup {"CONNECT", "CONNACK"}, mid : mids \cup {0}, qos : {0}]
    \cup [type : {"PUBLISH"}, mid : mids, qos : {1, 2}]

Publish(mid, qos) == [type |-> "PUBLISH", mid |-> mid, qos |-> qos]
Ack(type, mid)    == [type |-> type, mid |-> mid, qos |-> 0]

LinkInit == conn = "closed" /\ up = <<>> /\ down = <<>> /\ drops = 0

LinkOK(mids) ==
  /\ conn \in {"closed", "connecting", "callback", "active"}
  /\ up \in Seq(Packet(mids)) /\ down \in Seq(Packet(mids))
  /\ drops \in 0 .. MaxDrops

HasSocket == conn # "closed"

\* The members of a finite set of numbers from the least to the greatest, each the
\* one with so many members up to it, and what f makes of them.
Ranked(ns) ==
  [k \in 1 .. Cardinality(ns) |-> CHOOSE n \in ns : Cardinality({j \in ns : j <= n}) = k]
InOrder(ns, f(_)) == [k \in 1 .. Cardinality(ns) |-> f(Ranked(ns)[k])]

\* mosquitto_loop reads a packet; every handler but CONNACK's wants mosq_cs_active.
Readable(type) ==
  /\ conn = (IF type = "CONNACK" THEN "connecting" ELSE "active")
  /\ down # <<>> /\ Head(down).type = type

Reads(type) == Readable(type) /\ down' = Tail(down)

Sends(packets) == up' = up \o packets

\* The broker reads a packet and answers it.
BrokerReads(type, answers) ==
  /\ up # <<>> /\ Head(up).type = type
  /\ up' = Tail(up)
  /\ down' = down \o answers
  /\ UNCHANGED <<conn, drops>>

\* The broker has accepted the connection.
Accepted == HasSocket /\ \A n \in DOMAIN up : up[n].type # "CONNECT"

\* mosquitto__loop_rc_handle: reading or writing has failed, the socket is closed.
Lost ==
  /\ drops < MaxDrops /\ drops' = drops + 1
  /\ conn' = "closed" /\ up' = <<>> /\ down' = <<>>

\* mosquitto__reconnect, up to CONNECT; packet__cleanup_all has emptied the queue.
Opens ==
  /\ conn = "closed"
  /\ conn' = "connecting"
  /\ up' = <<Ack("CONNECT", 0)>> /\ down' = <<>>
  /\ UNCHANGED drops
=============================================================================

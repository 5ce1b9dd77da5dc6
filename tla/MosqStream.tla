----------------------------- MODULE MosqStream -----------------------------
(***************************************************************************)
(* What comes over the socket of a libmosquitto client, byte by byte: the    *)
(* answers of a SOCKS5 proxy (socks_mosq.c), if one is set, and then the     *)
(* packets of the broker (packet__read in packet_mosq.c).  The bytes arrive  *)
(* in pieces of any size, each call reads what has arrived, and what it has  *)
(* read stays in in_packet until the next call.                              *)
(***************************************************************************)
EXTENDS MosqCodec

CONSTANTS
  PacketLengths,   \* the remaining lengths of the broker's packets
  MaxPackets,      \* packets per connection
  MaxConnections,  \* connections
  MaxUnread        \* bytes that wait when one more arrives alone

\* A remaining length has at most four digits.
ASSUME PacketsAssumption == PacketLengths \subseteq 0 .. MaxVarint /\ MaxConnections \in Nat

VARIABLES
  proxy,      \* the option: "none", "open" without a user name, or "user" with one
  state,      \* mosq->state, or "closed" when the socket is
  in_packet,  \* mosq->in_packet
  sent,       \* what the client sent on this connection
  toCome,     \* bytes the other side has sent and that have not arrived
  arrived,    \* bytes in the client's socket
  ended,      \* the other side has closed
  reply,      \* the proxy's last reply on this connection, by its kind
  granted,    \* the proxy has granted this connection
  said,       \* the broker's packets on this connection, by remaining length
  handled,    \* the packets given to handle__packet, by remaining length
  connections

streamVars == <<proxy, state, in_packet, sent, toCome, arrived, ended, reply, granted, said, handled,
                connections>>

StreamTypeOK ==
  /\ proxy \in {"none", "open", "user"} /\ ended \in BOOLEAN /\ connections \in 0 .. MaxConnections
  /\ state \in {"closed", "connected", "new", "socks5_start", "socks5_userpass_reply",
                "socks5_request"}
  /\ in_packet.to_process \in Nat /\ in_packet.remaining_count \in -4 .. 4

-----------------------------------------------------------------------------
(* in_packet *)

packet__cleanup_KeepsLength(p) ==
  [p EXCEPT !.command = 0, !.remaining_count = 0, !.remaining_mult = 1,
            !.to_process = 0, !.payload = <<>>]
packet__cleanup(p) ==
  [command |-> 0, remaining_count |-> 0, remaining_mult |-> 1, remaining_length |-> 0,
   packet_length |-> p.packet_length, to_process |-> 0, payload |-> <<>>]

\* Waiting for the next n bytes of the proxy.
Expecting(p, n) == [p EXCEPT !.payload = <<>>, !.to_process = n, !.packet_length = n]

\* in_packet with n bytes more of what has arrived.
Taking(p, n) ==
  [p EXCEPT !.payload = @ \o SubSeq(arrived, 1, n), !.to_process = @ - n]

Closes == /\ state' = "closed" /\ arrived' = <<>> /\ toCome' = <<>> /\ ended' = FALSE
          /\ in_packet' = in_packet

-----------------------------------------------------------------------------
(* Connecting *)

StreamInit ==
  /\ proxy \in {"none", "open", "user"} /\ state = "closed" /\ connections = 0
  /\ in_packet = [command |-> 0, remaining_count |-> 0, remaining_mult |-> 1,
                  remaining_length |-> 0, packet_length |-> 0, to_process |-> 0, payload |-> <<>>]
  /\ sent = <<>> /\ toCome = <<>> /\ arrived = <<>> /\ ended = FALSE
  /\ reply = "none" /\ granted = FALSE /\ said = <<>> /\ handled = <<>>

\* mosquitto__reconnect: a greeting for the proxy or a CONNECT.
Connects ==
  /\ state = "closed" /\ connections < MaxConnections
  /\ connections' = connections + 1
  /\ IF proxy = "none"
     THEN /\ state' = "connected" /\ sent' = <<"connect">>
          /\ in_packet' = packet__cleanup(in_packet)
     ELSE /\ state' = "socks5_start" /\ sent' = <<"greeting">>
          /\ in_packet' = Expecting(packet__cleanup(in_packet), 2)
  /\ reply' = "none" /\ granted' = FALSE /\ said' = <<>> /\ handled' = <<>>
  /\ UNCHANGED <<proxy, toCome, arrived, ended>>

-----------------------------------------------------------------------------
(* socks5__read, with the socks5__send that follows it *)

\* The bytes of one reading loop.  While some are missing the call returns, or
\* fails when the other side has closed.
ReadsPart(waiting) ==
  /\ state = waiting /\ in_packet.to_process > Len(arrived)
  /\ \/ /\ arrived # <<>> /\ arrived' = <<>> /\ in_packet' = Taking(in_packet, Len(arrived))
        /\ UNCHANGED <<state, toCome, ended>>
     \/ arrived = <<>> /\ toCome = <<>> /\ ended /\ Closes
  /\ UNCHANGED <<proxy, sent, reply, granted, said, handled, connections>>

\* Everything waited for is there.
ReadsWhole(waiting) == state = waiting /\ in_packet.to_process <= Len(arrived)
Whole == Taking(in_packet, in_packet.to_process)

Rest == SubSeq(arrived, in_packet.to_process + 1, Len(arrived))

\* Of socks5__send these are left out: a host name longer than 255 bytes, which it
\* refuses, and strlen of a user name or password that is a null pointer, when a
\* proxy chooses a method it was not offered or no password was set.
\* The next message goes out and the answer to it is waited for.
Goes(next, message, n) ==
  /\ state' = next /\ sent' = Append(sent, message)
  /\ in_packet' = Expecting(packet__cleanup(in_packet), n)
  /\ arrived' = Rest
  /\ UNCHANGED <<proxy, toCome, ended, reply, granted, said, handled, connections>>

GivesUp == /\ Closes
           /\ UNCHANGED <<proxy, sent, reply, granted, said, handled, connections>>

ReadMethod ==
  /\ ReadsWhole("socks5_start")
  /\ \/ Whole.payload = <<5, 0>> /\ Goes("socks5_request", "request", 5)
     \/ Whole.payload = <<5, 2>> /\ Goes("socks5_userpass_reply", "userpass", 2)
     \/ Whole.payload \notin {<<5, 0>>, <<5, 2>>} /\ GivesUp

ReadUserpass ==
  /\ ReadsWhole("socks5_userpass_reply")
  /\ \/ Whole.payload = <<1, 0>> /\ Goes("socks5_request", "request", 5)
     \/ Whole.payload # <<1, 0>> /\ GivesUp

\* The first five bytes say how many there are to come: the rest of the address
\* and the port, but of a name only its characters.
MoreOf_Ipv6Whole(header) ==
  CASE header[4] = 1 -> 4 + 2 - 1 [] header[4] = 4 -> 16 + 2 [] header[4] = 3 -> header[5]
MoreOf(header) ==
  CASE header[4] = 1 -> 4 + 2 - 1 [] header[4] = 4 -> 16 + 2 - 1 [] header[4] = 3 -> header[5]

ReadReplyHeader ==
  /\ ReadsWhole("socks5_request") /\ in_packet.packet_length = 5
  /\ \/ /\ Whole.payload[4] \in {1, 3, 4}
        /\ in_packet' = [Whole EXCEPT !.to_process = MoreOf(Whole.payload),
                                      !.packet_length = 5 + MoreOf(Whole.payload)]
        /\ arrived' = Rest
        /\ UNCHANGED <<proxy, state, sent, toCome, ended, reply, granted, said, handled, connections>>
     \/ Whole.payload[4] \notin {1, 3, 4} /\ GivesUp

IsGranted_Any(payload) == payload[1] = 5
IsGranted(payload) == payload[1] = 5 /\ payload[2] = 0

\* The proxy has connected: CONNECT goes out.
ReadReply ==
  /\ ReadsWhole("socks5_request") /\ in_packet.packet_length # 5
  /\ \/ /\ IsGranted(Whole.payload)
        /\ state' = "new" /\ sent' = Append(sent, "connect")
        /\ in_packet' = packet__cleanup(in_packet) /\ arrived' = Rest
        /\ UNCHANGED <<proxy, toCome, ended, reply, granted, said, handled, connections>>
     \/ ~IsGranted(Whole.payload) /\ GivesUp

-----------------------------------------------------------------------------
(* packet__read *)

\* One byte more of the header: the command or a digit of the remaining length.
Feed(r, byte) ==
  LET p      == r.p
      count  == p.remaining_count - 1
      length == p.remaining_length + (byte % 128) * p.remaining_mult
  IN  IF r.rc # "header" \/ p.remaining_count > 0 THEN r
      ELSE IF p.command = 0 THEN [r EXCEPT !.p.command = byte, !.used = @ + 1]
      ELSE IF count < -4 THEN [r EXCEPT !.rc = "PROTOCOL"]
      ELSE [r EXCEPT !.used = @ + 1,
              !.p = [p EXCEPT !.remaining_length = length, !.remaining_mult = @ * 128,
                       !.remaining_count = IF byte < 128 THEN -count ELSE count,
                       !.to_process = IF byte < 128 THEN length ELSE 0]]

\* in_packet after the header and what there is of the payload, and the bytes used.
Fed ==
  LET r == FoldLeft(Feed, [p |-> in_packet, used |-> 0, rc |-> "header"],
                    SubSeq(arrived, 1, Min({6, Len(arrived)})))
      n == Min({r.p.to_process, Len(arrived) - r.used})
  IN  [r EXCEPT !.p.to_process = @ - n, !.used = @ + n]

ReadPacket ==
  /\ state \in {"connected", "new"} /\ arrived # <<>>
  /\ \E r \in {Fed} :
       \/ /\ r.rc = "header" /\ r.p.remaining_count > 0 /\ r.p.to_process = 0
          /\ handled' = Append(handled, r.p.remaining_length)
          /\ in_packet' = packet__cleanup(r.p)
          /\ arrived' = SubSeq(arrived, r.used + 1, Len(arrived))
          /\ UNCHANGED <<proxy, state, sent, toCome, ended, reply, granted, said, connections>>
       \/ /\ r.rc = "header" /\ (r.p.remaining_count <= 0 \/ r.p.to_process > 0)
          /\ in_packet' = r.p /\ arrived' = <<>>
          /\ UNCHANGED <<proxy, state, sent, toCome, ended, reply, granted, said, handled,
                         connections>>
       \/ r.rc = "PROTOCOL" /\ GivesUp

\* The end of the stream, in the middle of a packet or between two.
ReadEnd ==
  /\ state \in {"connected", "new"} /\ arrived = <<>> /\ toCome = <<>> /\ ended
  /\ GivesUp

-----------------------------------------------------------------------------
(* The other side.  A proxy chooses among the methods it is offered. *)

Says(bytes, grants) ==
  /\ toCome' = toCome \o bytes /\ granted' = grants
  /\ UNCHANGED <<proxy, state, in_packet, sent, arrived, ended, said, handled, connections>>

Silent == toCome = <<>> /\ arrived = <<>> /\ ~ended /\ state # "closed"
Asked(message) == Silent /\ sent # <<>> /\ Last(sent) = message

ChoosesMethod ==
  /\ Asked("greeting") /\ reply = "none" /\ reply' = "method"
  /\ \E m \in {0, 255} \cup (IF proxy = "user" THEN {2} ELSE {}) : Says(<<5, m>>, FALSE)

AnswersUserpass ==
  /\ Asked("userpass") /\ reply = "method" /\ reply' = "userpass"
  /\ \E status \in {0, 1} : Says(<<1, status>>, FALSE)

Address(atyp, n) == (IF atyp = 3 THEN <<n>> ELSE <<>>) \o [i \in 1 .. n |-> 7] \o <<7, 91>>

Replies ==
  /\ Asked("request") /\ reply \in {"method", "userpass"}
  /\ \E rep \in {0, 1, 4}, a \in {<<1, 4>>, <<4, 16>>, <<3, 0>>, <<3, 2>>, <<9, 1>>} :
       /\ reply' = (IF a[1] = 3 THEN "name" ELSE "address")
       /\ Says(<<5, rep, 0, a[1]>> \o Address(a[1], a[2]), rep = 0)

BrokerSays ==
  /\ ~ended /\ state # "closed" /\ sent # <<>> /\ Last(sent) = "connect"
  /\ Len(said) < MaxPackets
  /\ \E n \in PacketLengths :
       /\ said' = Append(said, n)
       /\ toCome' = toCome \o <<32>> \o packet__write_varint(n) \o [i \in 1 .. n |-> 7]
       /\ UNCHANGED <<proxy, state, in_packet, sent, arrived, ended, reply, granted, handled, connections>>

\* A remaining length of five digits, the end of what the broker says.
BrokerGarbles ==
  /\ ~ended /\ state # "closed" /\ sent # <<>> /\ Last(sent) = "connect"
  /\ toCome' = toCome \o <<32, 129, 128, 128, 128, 1>> /\ ended' = TRUE
  /\ UNCHANGED <<proxy, state, in_packet, sent, arrived, reply, granted, said, handled, connections>>

\* A byte arrives, while few are unread, or all of them.
Arrive ==
  /\ toCome # <<>> /\ state # "closed"
  /\ \E n \in {Len(toCome)} \cup (IF Len(arrived) < MaxUnread THEN {1} ELSE {}) :
       /\ arrived' = arrived \o SubSeq(toCome, 1, n)
       /\ toCome' = SubSeq(toCome, n + 1, Len(toCome))
       /\ UNCHANGED <<proxy, state, in_packet, sent, ended, reply, granted, said, handled, connections>>

PeerCloses ==
  /\ ~ended /\ state # "closed" /\ ended' = TRUE
  /\ UNCHANGED <<proxy, state, in_packet, sent, toCome, arrived, reply, granted, said, handled, connections>>

StreamNext ==
  \/ Connects
  \/ \E waiting \in {"socks5_start", "socks5_userpass_reply", "socks5_request"} : ReadsPart(waiting)
  \/ ReadMethod \/ ReadUserpass \/ ReadReplyHeader \/ ReadReply \/ ReadPacket \/ ReadEnd
  \/ ChoosesMethod \/ AnswersUserpass \/ Replies \/ BrokerSays \/ BrokerGarbles \/ Arrive \/ PeerCloses

-----------------------------------------------------------------------------
(* Properties *)

\* However the bytes were cut, handle__packet has seen the broker's packets, in
\* order and with their lengths.  (After a proxy's reply that names a host, two
\* bytes of the reply are left in front of the first packet.)
PacketsRight ==
  reply # "name" => IsPrefix(handled, said)

\* While the client waits for the rest of a proxy's reply it waits for exactly the
\* bytes that are still to come, and for two less when the reply names a host.
ReplyWhole ==
  state = "socks5_request" /\ in_packet.packet_length > 5 /\ ~ended =>
    in_packet.to_process
      = Len(arrived) + Len(toCome) - (IF reply = "name" THEN 2 ELSE 0)

\* CONNECT goes out over a proxy only after the proxy has granted this very
\* connection.
GrantedFirst ==
  proxy # "none" /\ sent # <<>> /\ Last(sent) = "connect" => granted

\* What has arrived is put together right, the proxy's part and the broker's.
StreamInv == StreamTypeOK /\ PacketsRight /\ ReplyWhole /\ GrantedFirst
=============================================================================

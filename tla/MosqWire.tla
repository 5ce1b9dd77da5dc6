------------------------------ MODULE MosqWire ------------------------------
(***************************************************************************)
(* The parts of libmosquitto that decide what is on the wire, put together   *)
(* for one run.  They do not interact here, so a behaviour is about one of   *)
(* them, the subject.  For those without a state, input is what they work on,*)
(* built step by step.                                                      *)
(***************************************************************************)
EXTENDS MosqStream, MosqOptions

CONSTANTS
  ByteValues, Chars, MaxSub, MaxTopic,   \* texts
  Candidates, MaxList,                   \* properties to put into a list
  RawBytes, MaxRaw,                      \* bytes that may be a list of properties
  Calls                                  \* what the application asks for

VARIABLES subject, input

vars == <<subject, input, streamVars, optionVars>>

Pure == [utf8 |-> <<>>, topics |-> [sub |-> <<>>, topic |-> <<>>], lists |-> <<>>,
         bytes |-> <<>>, calls |-> <<>>]

Init ==
  /\ subject \in DOMAIN Pure \cup {"stream", "options"}
  /\ input = IF subject \in DOMAIN Pure THEN Pure[subject] ELSE <<>>
  /\ StreamInit /\ OptionsInit
  /\ subject # "stream" => proxy = "none"

-----------------------------------------------------------------------------

\* Four bytes only where a character may have four.
Utf8Grows ==
  /\ subject = "utf8" /\ Len(input) < 4 /\ (Len(input) = 3 => input[1] >= 224)
  /\ \E byte \in ByteValues : input' = Append(input, byte)

FilterGrows ==
  /\ subject = "topics" /\ input.topic = <<>> /\ Len(input.sub) < MaxSub
  /\ \E c \in Chars : input' = [input EXCEPT !.sub = Append(@, c)]

TopicGrows ==
  /\ subject = "topics" /\ Len(input.topic) < MaxTopic
  /\ \E c \in Chars : input' = [input EXCEPT !.topic = Append(@, c)]

\* mosquitto_property_add_*; one that is refused leaves the list alone.
ListGrows ==
  /\ subject = "lists" /\ Len(input) < MaxList
  /\ \E p \in Candidates : input' = property__add(input, p)

BytesGrow ==
  /\ subject = "bytes" /\ Len(input) < MaxRaw
  /\ \E byte \in RawBytes : input' = Append(input, byte)

CallChosen ==
  /\ subject = "calls" /\ input = <<>>
  /\ \E c \in Calls : input' = <<c>>

Next ==
  \/ /\ Utf8Grows \/ FilterGrows \/ TopicGrows \/ ListGrows \/ BytesGrow \/ CallChosen
     /\ UNCHANGED <<subject, streamVars, optionVars>>
  \/ subject = "stream"  /\ StreamNext  /\ UNCHANGED <<subject, input, optionVars>>
  \/ subject = "options" /\ OptionsNext /\ UNCHANGED <<subject, input, streamVars>>

Spec == Init /\ [][Next]_vars

-----------------------------------------------------------------------------
(* Texts *)

\* mosquitto_validate_utf8 accepts exactly the strings whose every character is
\* the shortest encoding of a code point that MQTT allows.
Utf8Right ==
  subject = "utf8" => (mosquitto_validate_utf8(input) = "SUCCESS") = Utf8(input)

\* For a filter and a topic that are valid, mosquitto_topic_matches_sub says what
\* comparing them level by level says; it never says yes to a topic with a wildcard.
MatchRight ==
  subject = "topics" /\ input.sub # <<>> /\ input.topic # <<>> =>
    LET result == mosquitto_topic_matches_sub2(input.sub, input.topic)
    IN  /\ mosquitto_sub_topic_check(input.sub) /\ mosquitto_pub_topic_check(input.topic)
             => result = IF Matches(input.sub, input.topic) THEN "yes" ELSE "no"
        /\ result = "yes" => mosquitto_pub_topic_check(input.topic)

\* The levels of a filter that was cut, put together again, are the filter: also
\* with empty levels at either end.
LevelsJoin ==
  subject = "topics" /\ input.sub # <<>> =>
    LET levels == mosquitto_sub_topic_tokenise(input.sub)
    IN  FoldLeft(LAMBDA text, level : text \o <<"/">> \o level, Head(levels), Tail(levels))
          = input.sub

\* The texts of MQTT are checked, matched and cut as its definition says.
TextsRight == Utf8Right /\ MatchRight /\ LevelsJoin

-----------------------------------------------------------------------------
(* Properties of MQTT 5 *)

Accepted(list) ==
  {command \in Commands : mosquitto_property_check_all(command, list) = "SUCCESS"}

\* A list that may be sent, of texts under 65536 bytes, is read back as it was, from
\* exactly the bytes that were written for it, and the copy that the queue keeps for a
\* retry is written as the list itself.  (A copy of an empty string that was added is
\* not defined.)
RoundTrip ==
  subject = "lists" =>
    LET bytes == property__write_all(input)
        copy  == mosquitto_property_copy_all(input)
    IN  /\ \A command \in Accepted(input) :
             property__read_all(command, bytes) = Read(Len(bytes), input)
        /\ copy.rc = "SUCCESS" => property__write_all(copy.val) = bytes

\* A list that the end of its packet cuts off is refused, wherever in its last
\* twenty bytes it is cut.
TruncatedRefused ==
  subject = "lists" =>
    LET bytes == property__write_all(input)
    IN  \A command \in Accepted(input) \cap {"PUBLISH", "CONNACK"},
           n \in Max({0, Len(bytes) - 20}) .. Len(bytes) - 1 :
          property__read_all(command, SubSeq(bytes, 1, n)).rc # "SUCCESS"

\* Every property has a name, and with the function for the type that belongs to the
\* name, and no other, reading on from the last one found finds every property with
\* its identifier, in order, and none twice.
FindsEach ==
  subject = "lists" =>
    \A identifier \in {input[i].identifier : i \in 1 .. Len(input)} :
      \E known \in PropertyNames :
        LET info == mosquitto_string_to_property_info(known[1])
        IN  /\ info.identifier = identifier
            /\ \A type \in Types :
                 ReadEach(type, input, identifier)
                   = IF type # info.type THEN <<>>
                     ELSE SetToSortSeq({i \in 1 .. Len(input) : input[i].identifier = identifier}, <)

\* Bytes have one reading: what is accepted, written again, gives the same bytes.
\* (The length in front may have been smaller: the reader takes the whole of a
\* property that begins inside it.)
ReadsBack ==
  subject = "bytes" =>
    \A command \in {"PUBLISH", "CONNACK", "SUBSCRIBE"} :
      LET read  == property__read_all(command, input)
          again == property__write_all(read.val)
          size  == packet__read_varint(input, 0)
      IN  read.rc = "SUCCESS" =>
            /\ SubSeq(again, packet__read_varint(again, 0).pos + 1, Len(again))
                 = SubSeq(input, size.pos + 1, read.pos)
            /\ size.val[1] <= read.pos - size.pos

\* Writing and reading properties are inverse to each other, and nothing that is cut
\* off is taken for the whole.
PropertiesRight == RoundTrip /\ TruncatedRefused /\ FindsEach /\ ReadsBack

-----------------------------------------------------------------------------
(* Packets *)

Packet(c) ==
  CASE c.call = "publish"     -> mosquitto_publish_v5(c)
    [] c.call = "subscribe"   -> mosquitto_subscribe_multiple(c)
    [] c.call = "unsubscribe" -> mosquitto_unsubscribe_multiple(c)
    [] c.call = "disconnect"  -> send__disconnect(c)
    [] c.call = "answer"      -> send__command_with_mid(c)
    [] c.call = "ping"        -> send__simple_command(c)

\* The fields that are written fill the packet that was allocated: none is written
\* behind its end, and no byte of it is sent that was not written.
Fills ==
  subject = "calls" =>
    \A i \in DOMAIN input :
      Packet(input[i]).rc = "SUCCESS" =>
        Filled(Packet(input[i]).fields) = Packet(input[i]).remaining_length

\* The whole packet of a PUBLISH, and whether one of such a length is told to be over
\* the broker's maximum packet size.
PublishSize(c) ==
  1 + LengthAndAll(PublishLength(c.protocol, c.topic, c.payloadlen, c.qos,
                                 Proplen(Outgoing(c.properties, c.client_generated))))

\* What OVERSIZE_PACKET means.  A PUBLISH with QoS 0 before MQTT 5 is told it exactly
\* when it is larger than the limit, or as large, and one byte more would make its
\* length a byte longer.  Any other is told it exactly when it is larger than the
\* limit by more than one byte: the one of the command, which check_oversize leaves
\* out, so that a packet one byte too large is sent.
PublishLimit(c) ==
  LET larger == PublishSize(c) - c.max
      told   == Packet(c).rc = "OVERSIZE_PACKET"
  IN  Packet(c).rc \in {"SUCCESS", "OVERSIZE_PACKET"} =>
        IF c.protocol < 5 /\ c.qos = 0
        THEN told <=> \/ larger > 0
                      \/ larger = 0 /\ PublishSize([c EXCEPT !.payloadlen = @ + 1]) = c.max + 2
        ELSE told <=> larger > 1

\* A SUBSCRIBE or UNSUBSCRIBE that is sent is larger than the limit by that byte and,
\* with MQTT 5, the length of its properties and a byte for its own.
TopicsLimit(c) ==
  LET proplen == Proplen(Outgoing(c.properties, c.client_generated))
  IN  Packet(c).rc = "SUCCESS" =>
        1 + LengthAndAll(Packet(c).remaining_length)
          <= c.max + 1 + (IF c.protocol = 5 THEN packet__varint_bytes(proplen) + 1 ELSE 0)

WithinLimit ==
  subject = "calls" =>
    \A i \in DOMAIN input :
      /\ input[i].call = "publish" /\ input[i].max > 0 => PublishLimit(input[i])
      /\ input[i].call \in {"subscribe", "unsubscribe"} /\ input[i].max > 0
           => TopicsLimit(input[i])

\* A packet is filled as it was allocated, and OVERSIZE_PACKET keeps it within what the
\* broker allows but for the bytes that the check leaves out.
LengthsRight == Fills /\ WithinLimit
=============================================================================

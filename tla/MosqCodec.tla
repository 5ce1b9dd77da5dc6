----------------------------- MODULE MosqCodec -----------------------------
(***************************************************************************)
(* How libmosquitto writes and reads the pieces of a packet                  *)
(* (packet_datatypes.c) and the properties of MQTT 5 (property_mosq.c).      *)
(* A packet is the sequence of its bytes from the remaining length on; pos   *)
(* counts those already read.                                               *)
(*                                                                          *)
(* A property has an identifier, a value and a name, which only user        *)
(* properties use.  Value and name are sequences of numbers: the bytes of a  *)
(* string, of binary data and of a 32 bit number, or one number.            *)
(***************************************************************************)
EXTENDS MosqText

Read(pos, val) == [rc |-> "SUCCESS", pos |-> pos, val |-> val]
Error(rc) == [rc |-> rc, pos |-> 0, val |-> <<>>]
PROTOCOL == Error("PROTOCOL")

\* if(rc) return rc.
Then(read, Rest(_)) == IF read.rc = "SUCCESS" THEN Rest(read) ELSE read

-----------------------------------------------------------------------------
(* packet_datatypes.c *)

packet__read_bytes_Past(s, pos, count) ==
  IF pos >= Len(s) THEN PROTOCOL
  ELSE Read(pos + count, SubSeq(s, pos + 1, Min({pos + count, Len(s)})))
packet__read_bytes(s, pos, count) ==
  IF pos + count > Len(s) THEN PROTOCOL
  ELSE Read(pos + count, SubSeq(s, pos + 1, pos + count))

packet__read_byte(s, pos) == packet__read_bytes(s, pos, 1)

\* Its four bytes stand for the number.
packet__read_uint32(s, pos) == packet__read_bytes(s, pos, 4)

packet__write_uint16(word) == <<word \div 256, word % 256>>

packet__read_uint16(s, pos) ==
  IF pos + 2 > Len(s) THEN PROTOCOL
  ELSE Read(pos + 2, <<s[pos + 1] * 256 + s[pos + 2]>>)

packet__read_binary(s, pos) ==
  Then(packet__read_uint16(s, pos),
       LAMBDA slen : packet__read_bytes(s, slen.pos, slen.val[1]))

packet__read_string(s, pos) ==
  Then(packet__read_binary(s, pos),
       LAMBDA str : IF mosquitto_validate_utf8(str.val) = "SUCCESS" THEN str
                    ELSE Error("MALFORMED_UTF8"))

\* The length is an uint16_t, for the two bytes in front and for what is copied.
Carried(length) == length % 65536

packet__write_string(str) ==
  packet__write_uint16(Carried(Len(str))) \o SubSeq(str, 1, Carried(Len(str)))

packet__write_varint(word) ==
  LET bytes[w \in 0 .. word] ==
        IF w < 128 THEN <<w>> ELSE <<128 + (w % 128)>> \o bytes[w \div 128]
  IN  bytes[word]

MaxVarint == 268435455

OverlongVarint_Never(n, byte) == FALSE
OverlongVarint(n, byte) == n > 1 /\ byte = 0

packet__read_varint(s, pos) ==
  LET ends == {n \in 1 .. Min({4, Len(s) - pos}) : s[pos + n] < 128}
      n    == Min(ends)
  IN  IF ends = {} \/ OverlongVarint(n, s[pos + n]) THEN PROTOCOL
      ELSE Read(pos + n, <<FoldRight(LAMBDA byte, more : (byte % 128) + 128 * more,
                                     SubSeq(s, pos + 1, pos + n), 0)>>)

packet__varint_bytes(word) ==
  IF word < 128 THEN 1 ELSE IF word < 16384 THEN 2 ELSE IF word < 2097152 THEN 3
  ELSE IF word <= MaxVarint THEN 4 ELSE 5

-----------------------------------------------------------------------------
(* The identifiers, by the type that reading, writing, copying and adding give   *)
(* them.                                                                        *)

Byte   == {1, 23, 25, 36, 37, 40, 41, 42}
Int16  == {19, 33, 34, 35}
Int32  == {2, 17, 24, 39}
Varint == {11}
Binary == {9, 22}
String == {3, 8, 18, 21, 26, 28, 31}
Pair   == {38}

Identifiers == Byte \cup Int16 \cup Int32 \cup Varint \cup Binary \cup String \cup Pair

Property(identifier, name, value) ==
  [identifier |-> identifier, name |-> name, value |-> value]

Identified ==
  [byte |-> Byte, int16 |-> Int16, int32 |-> Int32, varint |-> Varint, binary |-> Binary,
   string |-> String, pair |-> Pair]
Types == DOMAIN Identified

\* The names of mosquitto_string_to_property_info, in small letters, with what it
\* says of them.
PropertyNames ==
  {<<"payload-format-indicator", 1, "byte">>, <<"message-expiry-interval", 2, "int32">>,
   <<"content-type", 3, "string">>, <<"response-topic", 8, "string">>,
   <<"correlation-data", 9, "binary">>, <<"subscription-identifier", 11, "varint">>,
   <<"session-expiry-interval", 17, "int32">>, <<"assigned-client-identifier", 18, "string">>,
   <<"server-keep-alive", 19, "int16">>, <<"authentication-method", 21, "string">>,
   <<"authentication-data", 22, "binary">>, <<"request-problem-information", 23, "byte">>,
   <<"will-delay-interval", 24, "int32">>, <<"request-response-information", 25, "byte">>,
   <<"response-information", 26, "string">>, <<"server-reference", 28, "string">>,
   <<"reason-string", 31, "string">>, <<"receive-maximum", 33, "int16">>,
   <<"topic-alias-maximum", 34, "int16">>, <<"topic-alias", 35, "int16">>,
   <<"maximum-qos", 36, "byte">>, <<"retain-available", 37, "byte">>,
   <<"user-property", 38, "pair">>, <<"maximum-packet-size", 39, "int32">>,
   <<"wildcard-subscription-available", 40, "byte">>,
   <<"subscription-identifier-available", 41, "byte">>,
   <<"shared-subscription-available", 42, "byte">>}

mosquitto_string_to_property_info(propname) ==
  LET info == {known \in PropertyNames : known[1] = propname}
  IN  IF info = {} THEN [rc |-> "INVAL"]
      ELSE LET known == CHOOSE known \in info : TRUE
           IN  [rc |-> "SUCCESS", identifier |-> known[2], type |-> known[3]]

-----------------------------------------------------------------------------
(* property_mosq.c: lengths, writing and reading *)

property__get_length_Pair(p) ==
  CASE p.identifier \in Byte -> 2 [] p.identifier \in Int16 -> 3
    [] p.identifier \in Int32 -> 5
    [] p.identifier \in Varint ->
         IF p.value[1] > MaxVarint THEN 0 ELSE 1 + packet__varint_bytes(p.value[1])
    [] p.identifier \in Binary \cup String -> 3 + Len(p.value)
    [] p.identifier \in Pair -> 3 + Len(p.value) + Len(p.name)
property__get_length(p) ==
  CASE p.identifier \in Byte -> 2 [] p.identifier \in Int16 -> 3
    [] p.identifier \in Int32 -> 5
    [] p.identifier \in Varint ->
         IF p.value[1] > MaxVarint THEN 0 ELSE 1 + packet__varint_bytes(p.value[1])
    [] p.identifier \in Binary \cup String -> 3 + Len(p.value)
    [] p.identifier \in Pair -> 5 + Len(p.value) + Len(p.name)

property__get_length_all(list) ==
  FoldLeft(LAMBDA sum, p : sum + property__get_length(p), 0, list)

property__write(p) ==
  packet__write_varint(p.identifier) \o
  CASE p.identifier \in Byte \cup Int32 -> p.value
    [] p.identifier \in Int16  -> packet__write_uint16(p.value[1])
    [] p.identifier \in Varint -> packet__write_varint(p.value[1])
    [] p.identifier \in Binary \cup String -> packet__write_string(p.value)
    [] p.identifier \in Pair   -> packet__write_string(p.name) \o packet__write_string(p.value)

property__write_all(list) ==
  FoldLeft(LAMBDA bytes, p : bytes \o property__write(p),
           packet__write_varint(property__get_length_all(list)), list)

\* What a property with such an identifier holds, at pos.
ReadValue(s, pos, identifier) ==
  CASE identifier \in Byte   -> packet__read_byte(s, pos)
    [] identifier \in Int16  -> packet__read_uint16(s, pos)
    [] identifier \in Int32  -> packet__read_uint32(s, pos)
    [] identifier \in Varint -> packet__read_varint(s, pos)
    [] identifier \in Binary -> packet__read_binary(s, pos)
    [] identifier \in String \cup Pair -> packet__read_string(s, pos)
    [] OTHER -> Error("MALFORMED_PACKET")

property__read(s, pos) ==
  Then(packet__read_varint(s, pos), LAMBDA id :
    Then(ReadValue(s, id.pos, id.val[1]), LAMBDA first :
      IF id.val[1] \notin Pair
      THEN Read(first.pos, Property(id.val[1], <<>>, first.val))
      ELSE Then(packet__read_string(s, first.pos), LAMBDA value :
             Read(value.pos, Property(id.val[1], first.val, value.val)))))

\* What property__read takes from the length of the list: an identifier counts 1.
Taken(p, from, to) == to - from

-----------------------------------------------------------------------------
(* Which properties a command may have *)

Commands == {"CONNECT", "CONNACK", "PUBLISH", "PUBACK", "PUBREC", "PUBREL", "PUBCOMP",
             "SUBSCRIBE", "SUBACK", "UNSUBSCRIBE", "UNSUBACK", "DISCONNECT", "AUTH", "WILL"}

mosquitto_property_check_command(command, identifier) ==
  CASE identifier \in {1, 2, 3, 8, 9} -> command \in {"PUBLISH", "WILL"}
    [] identifier = 11         -> command \in {"PUBLISH", "SUBSCRIBE"}
    [] identifier = 17         -> command \in {"CONNECT", "CONNACK", "DISCONNECT"}
    [] identifier \in {21, 22} -> command \in {"CONNECT", "CONNACK", "AUTH"}
    [] identifier \in {18, 19, 26, 36, 37, 40, 41, 42} -> command = "CONNACK"
    [] identifier = 24         -> command = "WILL"
    [] identifier \in {23, 25} -> command = "CONNECT"
    [] identifier = 28         -> command \in {"CONNACK", "DISCONNECT"}
    [] identifier = 31         -> command \notin {"CONNECT", "PUBLISH", "SUBSCRIBE", "UNSUBSCRIBE"}
    [] identifier \in {33, 34, 39} -> command \in {"CONNECT", "CONNACK"}
    [] identifier = 35         -> command = "PUBLISH"
    [] identifier = 38         -> TRUE
    [] OTHER                   -> FALSE

InRange(p) ==
  /\ p.identifier \in Byte \ {1} => p.value[1] <= 1
  /\ p.identifier = 39 => p.value # <<0, 0, 0, 0>>
  /\ p.identifier \in {33, 35} => p.value[1] # 0

Again(list, i) ==
  list[i].identifier \notin Pair
    /\ \E j \in i + 1 .. Len(list) : list[j].identifier = list[i].identifier

\* The first of the list that is wrong decides.
mosquitto_property_check_all(command, list) ==
  LET Right(p) == InRange(p) /\ mosquitto_property_check_command(command, p.identifier)
      wrong    == {i \in 1 .. Len(list) : ~Right(list[i]) \/ Again(list, i)}
  IN  IF wrong = {} THEN "SUCCESS"
      ELSE IF ~Right(list[Min(wrong)]) THEN "PROTOCOL" ELSE "DUPLICATE_PROPERTY"

\* The list ends where the length says, or behind it.
property__read_all(command, s) ==
  LET from[pos \in Nat, left \in Int] ==
        IF left <= 0 THEN Read(pos, <<>>)
        ELSE Then(property__read(s, pos), LAMBDA p :
               Then(from[p.pos, left - Taken(p.val, pos, p.pos)], LAMBDA rest :
                 Read(rest.pos, <<p.val>> \o rest.val)))
      Checked(all) ==
        LET check == mosquitto_property_check_all(command, all.val)
        IN  IF check = "SUCCESS" THEN all ELSE Error(check)
  IN  Then(packet__read_varint(s, 0), LAMBDA proplen :
        Then(from[proplen.pos, proplen.val[1]], Checked))

-----------------------------------------------------------------------------
(* The application's side: lists are made with add_*, read with read_* and   *)
(* copied for the queue of a publish.                                        *)

\* mosquitto_property_add_string and _add_string_pair; a string has no name.
AddedString(p) ==
  IF {mosquitto_validate_utf8(p.name), mosquitto_validate_utf8(p.value)} = {"SUCCESS"}
  THEN "SUCCESS" ELSE "MALFORMED_UTF8"

\* What the add function of the identifier's type says of a value.
AddedAs(p) ==
  CASE p.identifier \in Varint -> IF p.value[1] > MaxVarint THEN "INVAL" ELSE "SUCCESS"
    [] p.identifier \in String \cup Pair -> AddedString(p)
    [] p.identifier \in Identifiers -> "SUCCESS"
    [] OTHER -> "INVAL"

property__add(proplist, p) == IF AddedAs(p) = "SUCCESS" THEN Append(proplist, p) ELSE proplist

\* The place of the property, 0 for none.
property__get_property_Same(proplist, identifier, skip_first) ==
  LET left == {i \in 1 .. Len(proplist) : proplist[i].identifier = identifier}
  IN  IF left = {} THEN 0 ELSE Min(left)
property__get_property(proplist, identifier, skip_first) ==
  LET them == {i \in 1 .. Len(proplist) : proplist[i].identifier = identifier}
      left == IF skip_first /\ them # {} THEN them \ {Min(them)} ELSE them
  IN  IF left = {} THEN 0 ELSE Min(left)

\* mosquitto_property_read_byte, _int16 and the others, one for each type: the place
\* of the property it has read, 0 for none.
mosquitto_property_read(type, proplist, identifier, skip_first) ==
  LET i == property__get_property(proplist, identifier, skip_first)
  IN  IF i # 0 /\ proplist[i].identifier \in Identified[type] THEN i ELSE 0

\* All properties with an identifier, as an application reads them: first from the
\* head of the list, then on from the last one found.
ReadEach(type, proplist, identifier) ==
  LET next(found, step) ==
        LET from == IF found = <<>> THEN 1 ELSE Last(found)
            i    == mosquitto_property_read(type, SubSeq(proplist, from, Len(proplist)),
                                            identifier, found # <<>>)
        IN  IF i = 0 THEN found ELSE Append(found, from + i - 1)
  IN  FoldLeft(next, <<>>, [step \in 1 .. Len(proplist) |-> step])

\* An empty string that was added has no bytes to copy: strdup gets a null
\* pointer, and what happens then is not defined.
mosquitto_property_copy_all(src) ==
  IF \E i \in 1 .. Len(src) : \/ src[i].identifier \in String \cup Pair /\ src[i].value = <<>>
                              \/ src[i].identifier \in Pair /\ src[i].name = <<>>
  THEN Error("undefined")
  ELSE Read(0, src)
=============================================================================

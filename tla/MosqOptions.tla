----------------------------- MODULE MosqOptions -----------------------------
(***************************************************************************)
(* The life of a libmosquitto client outside a connection: the library's     *)
(* count of users, mosquitto_new, mosquitto_reinitialise, mosquitto_destroy  *)
(* (mosquitto.c) and the calls that set its options (options.c, will_mosq.c),*)
(* in any order.  A text is its length; None is a null pointer; Bad is a     *)
(* text that mosquitto_validate_utf8 refuses or a file that cannot be opened.*)
(***************************************************************************)
EXTENDS MosqPackets

CONSTANTS
  MaxUsers,
  Texts,           \* lengths of texts that are validated, and None
  Unchecked,       \* lengths of passwords and of payloads, of which nothing is asked
  WillProperties

Bad == -2

\* A will's payload may be as long as a packet.
ASSUME OptionsAssumption ==
  /\ MaxUsers \in Nat /\ Texts \subseteq 0 .. MaxText \cup {None}
  /\ Unchecked \subseteq 0 .. MaxVarint
  /\ \A properties \in WillProperties : Proplen(properties) \in Nat

VARIABLES
  init_refcount, netUp,   \* mosquitto.c; whether net__init is in force
  users,                  \* users of the library that have not called cleanup
  alive, mosq,            \* whether there is a client, and its options
  sockpair,               \* "open", "invalid", or "zero" as memset leaves it
  pairs,                  \* socket pairs open in the process
  stray,                  \* a descriptor was closed that was never opened
  refused,                \* a client identifier was refused
  asked                   \* TLS was asked for, and no later call for it failed

optionVars == <<init_refcount, netUp, users, alive, mosq, sockpair, pairs, stray, refused, asked>>

NoWill == [topic |-> None, payloadlen |-> None, qos |-> 0, properties |-> <<>>]
NoTls  == [cafile |-> None, capath |-> None, certfile |-> None, keyfile |-> None, psk |-> None]

\* What memset and the assignments after it leave, before the identifier is set.
Fresh == [id |-> None, clean |-> 0, protocol |-> 4, username |-> None, password |-> None,
          will |-> NoWill, tls |-> NoTls]

OptionsTypeOK ==
  /\ init_refcount \in 0 .. MaxUsers /\ users \in 0 .. MaxUsers
  /\ DOMAIN mosq = DOMAIN Fresh /\ mosq.protocol \in {3, 4, 5}
  /\ sockpair \in {"open", "invalid", "zero"} /\ pairs \in 0 .. 2
  /\ {netUp, alive, stray, refused, asked} \subseteq BOOLEAN

OptionsInit ==
  /\ init_refcount = 0 /\ netUp = FALSE /\ users = 0
  /\ alive = FALSE /\ mosq = Fresh /\ sockpair = "invalid" /\ pairs = 0
  /\ stray = FALSE /\ refused = FALSE /\ asked = FALSE

-----------------------------------------------------------------------------
(* The library.  Its users come and go while there is no client, a bound. *)

lib_init ==
  /\ ~alive /\ users < MaxUsers /\ users' = users + 1
  /\ netUp' = (netUp \/ init_refcount = 0) /\ init_refcount' = init_refcount + 1
  /\ UNCHANGED <<alive, mosq, sockpair, pairs, stray, refused, asked>>

EndsNet_Any(refcount) == refcount >= 1
EndsNet(refcount) == refcount = 1

\* Also once too often, when there is no user any more.
lib_cleanup ==
  /\ ~alive /\ users' = Max({users - 1, 0})
  /\ netUp' = (netUp /\ ~EndsNet(init_refcount)) /\ init_refcount' = Max({init_refcount - 1, 0})
  /\ UNCHANGED <<alive, mosq, sockpair, pairs, stray, refused, asked>>

-----------------------------------------------------------------------------
(* The client.  The pair of sockets is closed and opened with it. *)

PairsAfterDestroy_Kept(pair, count) == IF pair = "zero" THEN count - 1 ELSE count
PairsAfterDestroy(pair, count) == IF pair = "open" THEN count - 1 ELSE count

\* mosquitto_reinitialise on a client with such a pair.
Reinitialised(id, clean, pair, count) ==
  IF id \in {0, Bad}
  THEN /\ mosq' = [Fresh EXCEPT !.clean = clean] /\ sockpair' = "zero"
       /\ pairs' = PairsAfterDestroy(pair, count)
  ELSE /\ mosq' = [Fresh EXCEPT !.clean = clean, !.id = id]
       /\ \/ sockpair' = "open" /\ pairs' = PairsAfterDestroy(pair, count) + 1
          \/ sockpair' = "invalid" /\ pairs' = PairsAfterDestroy(pair, count)

IdAllowed(id, clean) == clean = 1 \/ id # None

\* A refused identifier destroys the client again; its pair is still the zeros of
\* memset then, and standard input is closed for it.
New ==
  /\ ~alive /\ asked' = FALSE
  /\ \E id \in Texts \cup {0, Bad}, clean \in {0, 1}, first \in {"open", "invalid"} :
       /\ IdAllowed(id, clean)
       /\ \/ /\ id \in {0, Bad}
             /\ stray' = TRUE /\ refused' = TRUE
             /\ pairs' = PairsAfterDestroy(first, IF first = "open" THEN pairs + 1 ELSE pairs)
             /\ sockpair' = "invalid" /\ UNCHANGED <<alive, mosq>>
          \/ /\ id \notin {0, Bad} /\ alive' = TRUE
             /\ Reinitialised(id, clean, first, IF first = "open" THEN pairs + 1 ELSE pairs)
             /\ UNCHANGED <<stray, refused>>
  /\ UNCHANGED <<init_refcount, netUp, users>>

Reinitialise ==
  /\ alive /\ asked' = FALSE
  /\ \E id \in Texts \cup {0, Bad}, clean \in {0, 1} :
       /\ IdAllowed(id, clean)
       /\ Reinitialised(id, clean, sockpair, pairs)
       /\ refused' = (refused \/ id \in {0, Bad})
  /\ stray' = (stray \/ sockpair = "zero")
  /\ UNCHANGED <<init_refcount, netUp, users, alive>>

Destroy ==
  /\ alive /\ alive' = FALSE /\ mosq' = Fresh /\ asked' = FALSE
  /\ pairs' = PairsAfterDestroy(sockpair, pairs) /\ sockpair' = "invalid"
  /\ stray' = (stray \/ sockpair = "zero")
  /\ UNCHANGED <<init_refcount, netUp, users, refused>>

-----------------------------------------------------------------------------
(* Options *)

Sets(options) ==
  /\ alive /\ mosq' = options
  /\ UNCHANGED <<init_refcount, netUp, users, alive, sockpair, pairs, stray, refused>>

\* A user name that is refused leaves neither it nor the password.
username_pw_set(o, username, password) ==
  IF username = Bad THEN [o EXCEPT !.username = None, !.password = None]
  ELSE [o EXCEPT !.username = username, !.password = password]

UsernamePwSet ==
  \E username \in Texts \cup {Bad}, password \in Unchecked \cup {None} :
    /\ mosq.protocol \in {3, 4} => ~(password # None /\ username = None)
    /\ Sets(username_pw_set(mosq, username, password)) /\ UNCHANGED asked

\* What is refused changes nothing.  The topic is checked like that of a publish.
WillSet ==
  \E topic \in Texts \ {None}, payloadlen \in Unchecked, qos \in {0, 2}, properties \in WillProperties :
    /\ topic <= LongestTopic
    /\ properties # <<>> => mosq.protocol = 5
    /\ Sets([mosq EXCEPT !.will = [topic |-> topic, payloadlen |-> payloadlen, qos |-> qos,
                                   properties |-> properties]])
    /\ UNCHANGED asked

WillClear == Sets([mosq EXCEPT !.will = NoWill]) /\ UNCHANGED asked

\* Only the protocol version is modelled.
IntOption ==
  \E protocol \in {3, 4, 5} : Sets([mosq EXCEPT !.protocol = protocol]) /\ UNCHANGED asked

\* The files are taken one by one; the first that cannot be opened undoes those
\* before it and leaves those behind it as they were.
tls_set(tls, cafile, capath, certfile, keyfile) ==
  IF cafile = Bad THEN [tls EXCEPT !.cafile = None]
  ELSE IF certfile = Bad THEN [tls EXCEPT !.cafile = None, !.capath = None, !.certfile = None]
  ELSE IF keyfile = Bad THEN [NoTls EXCEPT !.psk = tls.psk]
  ELSE [NoTls EXCEPT !.psk = tls.psk, !.cafile = cafile, !.capath = capath,
                     !.certfile = certfile, !.keyfile = keyfile]

TlsSet ==
  \E cafile, certfile, keyfile \in {None, 1, Bad}, capath \in {None, 1} :
    /\ cafile # None \/ capath # None
    /\ (certfile = None) = (keyfile = None)
    /\ Sets([mosq EXCEPT !.tls = tls_set(@, cafile, capath, certfile, keyfile)])
    /\ asked' = (Bad \notin {cafile, certfile, keyfile})

\* A key that is not hexadecimal is refused and changes nothing.
TlsPskSet == Sets([mosq EXCEPT !.tls.psk = 1]) /\ asked' = TRUE

OptionsNext ==
  \/ lib_init \/ lib_cleanup \/ New \/ Reinitialise \/ Destroy
  \/ UsernamePwSet \/ WillSet \/ WillClear \/ IntOption \/ TlsSet \/ TlsPskSet

-----------------------------------------------------------------------------
(* Properties *)

\* The network is initialised for as long as some user of the library has not
\* called mosquitto_lib_cleanup, also after calls of it that no user was left for.
NetUpWhileUsed == users > 0 => netUp

\* One pair of sockets is open for a client, and none without one; a descriptor
\* that is not the client's is closed only after an identifier was refused.
PairsRight ==
  /\ pairs = (IF sockpair = "open" THEN 1 ELSE 0)
  /\ ~alive => pairs = 0
  /\ stray => refused

\* net__socket_connect_step3 and net__init_ssl_ctx.
BeginsTls_FileOnly(tls) == tls.cafile # None \/ tls.psk # None
BeginsTls(tls) == tls.cafile # None \/ tls.capath # None \/ tls.psk # None

\* A connection is not begun in the clear when TLS was asked for and the call said
\* SUCCESS, whatever was set before it and whatever options follow.
EncryptsWhenAsked == asked => BeginsTls(mosq.tls)

\* What the flags of a CONNECT announce behind its header: the reference.
Announced(packet) ==
  LET flags     == packet.fields[3].n
      Has(flag) == (flags \div flag) % 2 = 1
      v5        == packet.fields[2].n = 5
  IN  If(v5, <<"varint", "properties">>) \o <<"string">>
        \o If(Has(4) /\ v5, <<"varint", "properties">>) \o If(Has(4), <<"string", "string">>)
        \o If(Has(128), <<"string">>) \o If(Has(64), <<"string">>)

Kinds(packet) == [i \in 1 .. Len(packet.fields) - 4 |-> packet.fields[i + 4].kind]

In16Bits(length) == length < 65536

\* Its texts fit into the two bytes that their lengths have.
Fits(o) ==
  /\ In16Bits(o.id) /\ In16Bits(o.username) /\ In16Bits(o.password)
  /\ o.will.topic # None => In16Bits(o.will.topic) /\ In16Bits(o.will.payloadlen)

ConnectSays(o) ==
  LET packet == send__connect(o)
  IN  packet.rc = "SUCCESS" =>
        /\ Kinds(packet) = Announced(packet)
        /\ (Filled(packet.fields) = packet.remaining_length) <=> Fits(o)
        /\ o.protocol < 5 => ((packet.fields[3].n \div 64) % 4) # 1

\* Whatever options were set and in which order, a CONNECT that is sent has exactly
\* the fields that its flags announce, and before MQTT 5 no password without a user
\* name.  It fills its remaining length exactly when each of its texts fits into 16
\* bits, of which the calls that set them make sure for the topic of a will only: of
\* a longer one only the remainder is written, and bytes that nothing was written to
\* are sent behind the last field.
ConnectRight ==
  alive =>
    \A properties \in {<<>>, <<[len |-> 3, receive_maximum |-> TRUE]>>,
                       <<[len |-> 124, receive_maximum |-> FALSE]>>,
                       <<[len |-> 125, receive_maximum |-> FALSE]>>} :
      (mosq.protocol # 5 /\ properties # <<>>)
      \/ ConnectSays([id |-> mosq.id, clean |-> mosq.clean, protocol |-> mosq.protocol,
                      username |-> mosq.username, password |-> mosq.password,
                      will |-> mosq.will, properties |-> properties])

\* What the calls of the application leave, in whatever order it makes them.
OptionsInv ==
  OptionsTypeOK /\ NetUpWhileUsed /\ PairsRight /\ EncryptsWhenAsked /\ ConnectRight
=============================================================================

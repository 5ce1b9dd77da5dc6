----------------------------- MODULE MosqConn -----------------------------
(***************************************************************************)
(* How a libmosquitto client makes, keeps, loses and makes again its        *)
(* connection: mosquitto_loop_forever of MQTT/lib/loop.c with the functions *)
(* it calls in connect.c, net_mosq.c, packet_mosq.c and util_mosq.c.  The    *)
(* application publishes with QoS 0 and disconnects, in a callback or, when *)
(* mosquitto_loop_start is used, from a thread of its own.                  *)
(*                                                                          *)
(* A packet is its kind.  Time goes by while the client waits; a tick is    *)
(* the unit of Keepalive, and of the delays.                                *)
(***************************************************************************)
EXTENDS Integers, SequencesExt

CONSTANTS
  Modes,             \* <<threads are used, TLS is used>>
  Keepalive,
  Timeout,           \* of the select in mosquitto_loop
  reconnect_delay, reconnect_delay_max, reconnect_exponential_backoff,
  ConnectTicks,      \* longest time connect takes
  MaxFaults,         \* bound on what goes wrong at the broker and on the way
  MaxPublishes,      \* bound on the messages of the application
  MaxPair            \* bytes in the socket pair that are told apart

ASSUME ConnAssumption ==
  /\ Modes \subseteq BOOLEAN \X BOOLEAN
  /\ Keepalive \in Nat \ {0} /\ Timeout \in Nat \ {0}
  /\ reconnect_delay \in Nat \ {0} /\ reconnect_delay_max \in Nat \ {0}
  /\ reconnect_exponential_backoff \in BOOLEAN
  /\ ConnectTicks \in 0 .. Keepalive - 1
  /\ MaxFaults \in Nat /\ MaxPublishes \in Nat /\ MaxPair \in Nat \ {0}

VARIABLES
  mode,        \* the member of Modes
  net,         \* the socket: "none", "up", "reset" by the other end, or "mute":
               \* the other end is gone without a word
  state,       \* mosq->state
  want_connect, want_write,  \* of the TLS handshake
  outp,        \* current_out_packet and out_packet
  part,        \* the first of them has been sent in part
  pair,        \* bytes in the socket pair that wakes select
  outAge,      \* now - (next_msg_out - keepalive)
  inAge,       \* now - last_msg_in
  ping_t,      \* a PINGRESP is awaited
  reconnects,
  pc,          \* where the loop is
  ready,       \* what select has reported
  watch,       \* select waits for writing too
  back,        \* who has called packet__write
  left,        \* ticks until select, connect or the sleep ends
  apc, apkt,   \* the other thread: what it does next, and with which packet
  pubs,        \* messages published so far
  faults,      \* faults so far
  asked,       \* mosquitto_disconnect has been called
  broker,      \* what the broker has got on this connection and not answered
  greeted,     \* the broker has got CONNECT on this connection
  down         \* packets for the client

client == <<mode, state, want_connect, want_write, outp, part, pair, ping_t>>
ages   == <<outAge, inAge>>
loop   == <<reconnects, pc, ready, watch, back, left>>
app    == <<apc, apkt, pubs, asked>>
other  == <<broker, greeted, down>>

VARIABLES
  quiet,  \* history: ticks since a packet was read, with a socket
  due,    \* history: ticks an answer of the broker has been due
  slept,  \* history: the last delay, 0 after a connection that was accepted
  early,  \* history: a packet has come before CONNECT
  undone  \* history: on_connect has disconnected, and then the state was overwritten

history == <<quiet, due, slept, early, undone>>
vars    == <<client, ages, loop, app, other, net, faults, history>>

threaded == mode[1]
tls      == mode[2]

States   == {"new", "connect_pending", "connected", "active", "disconnected"}
Outgoing == {"CONNECT", "PUBLISH", "PINGREQ", "DISCONNECT"}
Incoming == {"CONNACK", "REFUSED", "PINGRESP", "PUBLISH", "DISCONNECT"}
Places   == {"reset", "connect", "greet", "hello", "loop", "wait", "read", "refused", "pair",
             "write", "packets", "misc", "decide", "sleep", "check", "over"}

TypeOK ==
  /\ mode \in Modes /\ net \in {"none", "up", "reset", "mute"} /\ state \in States
  /\ want_connect \in BOOLEAN /\ want_write \in BOOLEAN
  /\ outp \in Seq(Outgoing) /\ part \in BOOLEAN /\ pair \in 0 .. MaxPair
  /\ outAge \in Nat /\ inAge \in Nat /\ ping_t \in BOOLEAN
  /\ reconnects \in Nat /\ pc \in Places /\ ready \subseteq {"sock", "pair", "write"}
  /\ watch \in BOOLEAN /\ back \in {"hello", "loop", "ping"} /\ left \in Nat
  /\ apc \in {"idle", "queue", "wake", "join"} /\ apkt \in Outgoing
  /\ pubs \in 0 .. MaxPublishes /\ faults \in 0 .. MaxFaults /\ asked \in BOOLEAN
  /\ broker \in Seq({"CONNECT", "PINGREQ"}) /\ greeted \in BOOLEAN
  /\ down \in Seq(Incoming)
  /\ quiet \in Nat /\ due \in Nat /\ slept \in Nat
  /\ early \in BOOLEAN /\ undone \in BOOLEAN

\* The application connects; its thread begins with the loop.
Init ==
  /\ mode \in Modes /\ net = "none" /\ state = "new"
  /\ want_connect = FALSE /\ want_write = FALSE
  /\ outp = <<>> /\ part = FALSE /\ pair = 0 /\ ping_t = FALSE
  /\ outAge = 0 /\ inAge = 0
  /\ reconnects = 0 /\ pc = "reset" /\ ready = {} /\ watch = FALSE
  /\ back = "loop" /\ left = 0
  /\ apc = "idle" /\ apkt = "PUBLISH" /\ pubs = 0 /\ asked = FALSE
  /\ broker = <<>> /\ greeted = FALSE /\ down = <<>>
  /\ faults = 0 /\ quiet = 0 /\ due = 0 /\ slept = 0 /\ early = FALSE /\ undone = FALSE

Goes(place) == pc' = place /\ UNCHANGED <<reconnects, ready, watch, back, left>>

Fault == faults < MaxFaults /\ faults' = faults + 1

\* packet__queue behind the packets q, up to the packet__write of a client
\* without threads.
Queue(q, packet) == outp' = Append(q, packet) /\ pair' = Min({pair + 1, MaxPair})

\* What a callback may do; in_callback keeps packet__queue from writing.
Callback(q, does) ==
  \/ does = "nothing" /\ outp' = q /\ UNCHANGED <<pair, app>>
  \/ /\ does = "publish" /\ ~threaded /\ net' # "none" /\ pubs < MaxPublishes
     /\ Queue(q, "PUBLISH") /\ pubs' = pubs + 1 /\ UNCHANGED <<apc, apkt, asked>>
  \/ /\ does = "disconnect" /\ ~threaded /\ ~asked
     /\ IF net' = "none" THEN outp' = q /\ UNCHANGED pair ELSE Queue(q, "DISCONNECT")
     /\ asked' = TRUE /\ UNCHANGED <<apc, apkt, pubs>>

\* mosquitto_disconnect sets the state at once.
StateAfter(does) == IF does = "disconnect" THEN "disconnected" ELSE state

Doings == {"nothing", "publish", "disconnect"}

-----------------------------------------------------------------------------
(* mosquitto__reconnect *)

Cleared_Not == UNCHANGED <<outp, part>>
Cleared == outp' = <<>> /\ part' = FALSE

Reset ==
  /\ pc = "reset"
  /\ Cleared /\ ping_t' = FALSE /\ outAge' = 0 /\ inAge' = 0
  /\ net' = "none" /\ broker' = <<>> /\ greeted' = FALSE /\ down' = <<>>
  /\ pc' = "connect" /\ left' \in 0 .. ConnectTicks
  /\ UNCHANGED <<mode, state, want_connect, want_write, pair, reconnects, ready,
                 watch, back, app, faults, history>>

\* net__socket_connect_step3: with TLS the handshake begins.
BeginsTls == want_connect' = tls /\ want_write' \in {want_write, tls}

\* One address of the host takes the connection.
Connect ==
  /\ pc = "connect" /\ left = 0
  /\ net' = "up" /\ quiet' = 0 /\ due' = 0
  /\ BeginsTls
  /\ Goes("greet")
  /\ UNCHANGED <<mode, state, outp, part, pair, ping_t, ages, app, other, faults,
                 slept, early, undone>>

Pending ==
  /\ pc = "connect" /\ left = 0 /\ Fault
  /\ state' = "connect_pending"
  /\ Goes("decide")
  /\ UNCHANGED <<mode, want_connect, want_write, outp, part, pair, ping_t, ages,
                 app, other, net, history>>

\* No address of the host takes the connection.
NoAddress == Pending

\* net__init_ssl_ctx closes the socket when it cannot make a context of the
\* options, load a certificate or a key, or the two do not go together.
NoContext == tls /\ Pending

Greet ==
  /\ pc = "greet" /\ state' = "connected" /\ Goes("hello")
  /\ UNCHANGED <<mode, want_connect, want_write, outp, part, pair, ping_t, ages,
                 app, other, net, faults, history>>

\* send__connect
Hello ==
  /\ pc = "hello" /\ Queue(outp, "CONNECT")
  /\ pc' = (IF threaded THEN "loop" ELSE "packets") /\ back' = "hello"
  /\ UNCHANGED <<mode, state, want_connect, want_write, part, ping_t, ages,
                 reconnects, ready, watch, left, app, other, net, faults, history>>

-----------------------------------------------------------------------------
(* mosquitto_loop: select, reading, writing, keepalive *)

\* What select would report.  A handshake is waiting for the other end.
Readable == net = "reset" \/ down # <<>> \/ (want_connect /\ net = "up")

Ready == (IF Readable THEN {"sock"} ELSE {}) \cup (IF pair > 0 THEN {"pair"} ELSE {})
           \cup (IF watch THEN {"write"} ELSE {})

WaitsAtMost_Timeout == Timeout
WaitsAtMost == Max({0, Min({Timeout, Keepalive - outAge})})

EnterLoop ==
  /\ pc = "loop"
  /\ \/ net = "none" /\ Goes("decide")
     \/ /\ net # "none" /\ pc' = "wait"
        /\ watch' = (want_write \/ (outp # <<>> /\ ~want_connect))
        /\ left' = WaitsAtMost
        /\ UNCHANGED <<reconnects, ready, back>>
  /\ UNCHANGED <<client, ages, app, other, net, faults, history>>

Select ==
  /\ pc = "wait" /\ (Ready # {} \/ left = 0)
  /\ ready' = Ready
  /\ pc' = (IF Ready = {} THEN "misc" ELSE "read")
  /\ UNCHANGED <<client, ages, reconnects, watch, back, left, app, other, net,
                 faults, history>>

\* mosquitto__loop_rc_handle with an error, and what mosquitto_loop_forever does
\* with it.  A client that disconnects reports success and finds no socket.
Broken(fatal) ==
  /\ net' = "none"
  /\ \E does \in Doings : Callback(outp, does) /\ state' = StateAfter(does)
  /\ Goes(IF state = "disconnected" THEN "loop" ELSE IF fatal THEN "over" ELSE "decide")

\* net__socket_connect_tls.  An end that is gone is not an error here.
Handshake(next) ==
  /\ want_connect
  /\ \/ /\ net = "up" /\ Goes(next) /\ UNCHANGED <<net, faults>>
        /\ \/ want_connect' = FALSE /\ UNCHANGED want_write
           \/ ~want_write /\ want_write' = TRUE /\ UNCHANGED want_connect
     \/ /\ net # "up" /\ Goes(next)
        /\ UNCHANGED <<net, faults, want_connect, want_write>>
     \/ /\ net = "up" /\ Fault
        /\ net' = "none" /\ Goes("over") /\ UNCHANGED <<want_connect, want_write>>
  /\ UNCHANGED <<mode, state, outp, part, pair, ping_t, ages, app, other, history>>

ReadHandshake == pc = "read" /\ "sock" \in ready /\ Handshake("pair")

NothingToRead ==
  /\ pc = "read"
  /\ "sock" \notin ready \/ (~want_connect /\ down = <<>> /\ net # "reset")
  /\ Goes("pair")
  /\ UNCHANGED <<client, ages, app, other, net, faults, history>>

\* With TLS an error may set errno to EPROTO, which ends mosquitto_loop_forever.
ReadFails ==
  /\ pc = "read" /\ ~want_connect /\ "sock" \in ready
  /\ down = <<>> /\ net = "reset"
  /\ \E fatal \in {FALSE, tls} : Broken(fatal)
  /\ UNCHANGED <<mode, want_connect, want_write, part, ping_t, ages, other, faults, history>>

\* A packet has been read; packet__read notes the time behind its handler.
Reads(packet) ==
  /\ pc = "read" /\ ~want_connect /\ "sock" \in ready
  /\ down # <<>> /\ Head(down) = packet /\ down' = Tail(down)
  /\ inAge' = 0 /\ quiet' = 0
  /\ UNCHANGED <<mode, want_connect, want_write, part, outAge, broker, greeted, faults, early>>

\* on_connect comes before the state is set, which may be what it has set itself.
ClearReconnects_Not == UNCHANGED reconnects
ClearReconnects == reconnects' = 0

Connack ==
  /\ Reads("CONNACK") /\ due' = 0 /\ slept' = 0
  /\ UNCHANGED <<ready, watch, back, left, ping_t, net>>
  /\ \E does \in Doings :
       /\ Callback(outp, does)
       /\ undone' = (undone \/ does = "disconnect")
  /\ state' = "active"
  /\ ClearReconnects /\ pc' = "pair"

\* on_connect comes here, too.
Refused ==
  /\ Reads("REFUSED") /\ due' = 0
  /\ UNCHANGED <<ping_t, net, slept, undone>>
  /\ \E does \in Doings : Callback(outp, does) /\ state' = StateAfter(does)
  /\ Goes("refused")

\* The first five reasons are MOSQ_ERR_CONN_REFUSED, any other is MOSQ_ERR_PROTOCOL.
RefusedEnds ==
  /\ pc = "refused"
  /\ \E fatal \in BOOLEAN : Broken(fatal)
  /\ UNCHANGED <<mode, want_connect, want_write, part, ping_t, ages, other, faults, history>>

Pingresp ==
  /\ Reads("PINGRESP") /\ due' = 0 /\ state = "active"
  /\ ping_t' = FALSE /\ Goes("pair")
  /\ UNCHANGED <<state, outp, pair, app, net, slept, undone>>

\* on_message
Message ==
  /\ Reads("PUBLISH") /\ state = "active"
  /\ UNCHANGED <<ping_t, net, due, slept, undone>>
  /\ \E does \in Doings : Callback(outp, does) /\ state' = StateAfter(does)
  /\ Goes("pair")

\* The other handlers want a client that is active, and a DISCONNECT one of MQTT 5.
OutOfState ==
  /\ \/ state # "active" /\ \E packet \in {"PINGRESP", "PUBLISH"} : Reads(packet)
     \/ Reads("DISCONNECT")
  /\ Broken(TRUE)
  /\ UNCHANGED <<ping_t, due, slept, undone>>

\* do_client_disconnect, from handle__disconnect: the first packet in the queue goes, too.
Disconnected ==
  /\ pc = "read" /\ ~want_connect /\ "sock" \in ready
  /\ down # <<>> /\ Head(down) = "DISCONNECT" /\ down' = Tail(down)
  /\ state' = "disconnected" /\ net' = "none" /\ part' = FALSE
  /\ outAge' = 0 /\ inAge' = 0 /\ quiet' = 0
  /\ \E does \in Doings : Callback(IF outp = <<>> THEN <<>> ELSE Tail(outp), does)
  /\ Goes("loop")
  /\ UNCHANGED <<mode, want_connect, want_write, ping_t, broker, greeted, faults, due, slept,
                 early, undone>>

TakesByte_Two == pair' = pair - 2
TakesByte == pair' = pair - 1

ReadPair ==
  /\ pc = "pair"
  /\ IF "pair" \in ready
     THEN TakesByte /\ ready' = ready \cup {"write"}
     ELSE UNCHANGED <<pair, ready>>
  /\ pc' = IF "write" \in ready' THEN "write" ELSE "misc"
  /\ UNCHANGED <<mode, state, want_connect, want_write, outp, part, ping_t, ages,
                 reconnects, watch, back, left, app, other, net, faults, history>>

WriteHandshake == pc = "write" /\ Handshake("misc")

LoopWrite ==
  /\ pc = "write" /\ ~want_connect
  /\ pc' = "packets" /\ back' = "loop"
  /\ UNCHANGED <<client, ages, reconnects, ready, watch, left, app, other, net,
                 faults, history>>

-----------------------------------------------------------------------------
(* packet__write *)

\* What a packet does at the broker, which wants CONNECT first.
Arrives(packet) ==
  /\ broker' = IF packet \in {"CONNECT", "PINGREQ"} /\ (greeted \/ packet = "CONNECT")
               THEN Append(broker, packet) ELSE broker
  /\ greeted' = (greeted \/ packet = "CONNECT")
  /\ early' = (early \/ (~greeted /\ packet # "CONNECT"))

Writes_NotConnected ==
  /\ pc = "packets" /\ outp # <<>> /\ state \notin {"connect_pending", "connected"}
  /\ ~want_connect
Writes == pc = "packets" /\ outp # <<>> /\ state # "connect_pending" /\ ~want_connect

\* The caller goes on.
Written == IF back = "loop" THEN "misc" ELSE "loop"

WritesNothing ==
  /\ pc = "packets" /\ ~Writes /\ Goes(Written)
  /\ UNCHANGED <<client, ages, app, other, net, faults, history>>

WritesPart ==
  /\ Writes /\ ~part /\ part' = TRUE
  /\ want_write' = FALSE /\ Goes(Written)
  /\ UNCHANGED <<mode, state, want_connect, outp, pair, ping_t, ages, app, other,
                 net, faults, history>>

Sent(packet) ==
  /\ Writes /\ Head(outp) = packet
  /\ part' = FALSE /\ want_write' = FALSE /\ outAge' = 0
  /\ IF net = "up" THEN Arrives(packet) ELSE UNCHANGED <<broker, greeted, early>>
  /\ UNCHANGED <<mode, want_connect, ping_t, inAge, down, faults, quiet, due, slept, undone>>

\* The broker hangs up when it is not greeted first.  PUBLISH is followed by
\* on_publish.
WritesPacket ==
  \E packet \in Outgoing \ {"DISCONNECT"} :
    /\ Sent(packet)
    /\ net' = IF early' /\ ~early THEN "reset" ELSE net
    /\ \E does \in IF packet = "PUBLISH" THEN Doings ELSE {"nothing"} :
         Callback(Tail(outp), does) /\ state' = StateAfter(does)
    /\ Goes("packets")

\* do_client_disconnect
WritesDisconnect ==
  /\ Sent("DISCONNECT")
  /\ state' = "disconnected" /\ net' = "none" /\ outp' = Tail(outp)
  /\ Goes("loop")
  /\ UNCHANGED <<pair, app>>

\* What the error is to the three that call packet__write.
WriteFails ==
  /\ Writes /\ net = "reset" /\ want_write' = FALSE
  /\ \/ back = "hello" /\ Cleared /\ net' = "none" /\ state' = "new"
        /\ Goes("decide") /\ UNCHANGED <<pair, ping_t, app>>
     \/ back = "loop" /\ (\E fatal \in {FALSE, tls} : Broken(fatal)) /\ UNCHANGED <<part, ping_t>>
     \/ back = "ping" /\ ping_t' = FALSE
        /\ Goes("loop") /\ UNCHANGED <<outp, part, pair, state, app, net>>
  /\ UNCHANGED <<mode, want_connect, ages, other, faults, history>>

-----------------------------------------------------------------------------
(* mosquitto__check_keepalive *)

Overdue == outAge >= Keepalive \/ inAge >= Keepalive
MayPing_Again == state = "active"
MayPing == state = "active" /\ ~ping_t

Restarts_Not == UNCHANGED ages
Restarts == outAge' = 0 /\ inAge' = 0

InTime ==
  /\ pc = "misc" /\ ~Overdue /\ Goes("loop")
  /\ UNCHANGED <<client, ages, app, other, net, faults, history>>

Ping ==
  /\ pc = "misc" /\ Overdue /\ MayPing
  /\ Queue(outp, "PINGREQ") /\ ping_t' = TRUE
  /\ Restarts /\ due' = 0
  /\ pc' = (IF threaded THEN "loop" ELSE "packets") /\ back' = "ping"
  /\ UNCHANGED <<mode, state, want_connect, want_write, part, reconnects, ready,
                 watch, left, app, other, net, faults, quiet, slept, early, undone>>

KeepaliveCloses ==
  /\ pc = "misc" /\ Overdue /\ ~MayPing
  /\ net' = "none"
  /\ \E does \in Doings : Callback(outp, does) /\ state' = StateAfter(does)
  /\ Goes("decide")
  /\ UNCHANGED <<mode, want_connect, want_write, part, ping_t, ages, other, faults, history>>

-----------------------------------------------------------------------------
(* mosquitto_loop_forever, between two connections *)

ToldToStop_Never == FALSE
ToldToStop == state = "disconnected"

raw_delay ==
  IF reconnect_delay_max <= reconnect_delay THEN reconnect_delay
  ELSE reconnect_delay * (reconnects + 1)
         * (IF reconnect_exponential_backoff THEN reconnects + 1 ELSE 1)

Decide ==
  /\ pc = "decide"
  /\ \/ ToldToStop /\ Goes("over") /\ UNCHANGED slept
     \/ /\ ~ToldToStop /\ pc' = "sleep"
        /\ left' = Min({raw_delay, reconnect_delay_max}) /\ slept' = left'
        /\ reconnects' = IF raw_delay > reconnect_delay_max THEN reconnects ELSE reconnects + 1
        /\ UNCHANGED <<ready, watch, back>>
  /\ UNCHANGED <<client, ages, app, other, net, faults, quiet, due, early, undone>>

\* interruptible_sleep
Sleeps ==
  /\ pc = "sleep"
  /\ \/ pair > 0 /\ TakesByte
     \/ pair = 0 /\ left = 0 /\ UNCHANGED pair
  /\ Goes("check")
  /\ UNCHANGED <<mode, state, want_connect, want_write, outp, part, ping_t, ages,
                 app, other, net, faults, history>>

Check ==
  /\ pc = "check"
  /\ Goes(IF ToldToStop THEN "over" ELSE "reset")
  /\ UNCHANGED <<client, ages, app, other, net, faults, history>>

-----------------------------------------------------------------------------
(* The application's own thread: mosquitto_publish, mosquitto_disconnect and    *)
(* mosquitto_loop_stop.  packet__queue puts the packet into the queue and then  *)
(* writes to the socket pair.                                                   *)

AppPublish ==
  /\ threaded /\ apc = "idle" /\ state # "new" /\ ~asked
  /\ net # "none" /\ pubs < MaxPublishes
  /\ apc' = "queue" /\ apkt' = "PUBLISH" /\ pubs' = pubs + 1
  /\ UNCHANGED <<client, ages, loop, asked, other, net, faults, history>>

AppDisconnect ==
  /\ threaded /\ apc = "idle" /\ state # "new" /\ ~asked
  /\ asked' = TRUE /\ state' = "disconnected"
  /\ IF net = "none" THEN UNCHANGED <<apc, apkt>> ELSE apc' = "queue" /\ apkt' = "DISCONNECT"
  /\ UNCHANGED <<mode, want_connect, want_write, outp, part, pair, ping_t, ages,
                 loop, pubs, other, net, faults, history>>

AppQueues ==
  /\ apc = "queue" /\ apc' = "wake" /\ outp' = Append(outp, apkt)
  /\ UNCHANGED <<mode, state, want_connect, want_write, part, pair, ping_t, ages,
                 loop, apkt, pubs, asked, other, net, faults, history>>

WakesLoop_Not == UNCHANGED pair
WakesLoop == pair' = Min({pair + 1, MaxPair})

AppWakes ==
  /\ \/ apc = "wake" /\ apc' = "idle"
     \/ threaded /\ apc = "idle" /\ asked /\ apc' = "join"
  /\ WakesLoop
  /\ UNCHANGED <<mode, state, want_connect, want_write, outp, part, ping_t, ages,
                 loop, apkt, pubs, asked, other, net, faults, history>>

-----------------------------------------------------------------------------
(* Time, the broker and the way to it *)

\* The loop goes round and round when the end of a handshake is gone.
Spins == want_connect /\ (net = "reset" \/ (net = "mute" /\ want_write))

Awaiting == ping_t \/ state = "connected"

\* The history variables stop counting where no property tells any more.
Later(count, when, most) == IF when THEN Min({count + 1, most}) ELSE count
Longest == 4 * Keepalive

Tick ==
  /\ pc \in {"connect", "sleep", "wait"} /\ left > 0 /\ left' = left - 1
  /\ pc = "wait" => Ready = {} \/ Spins
  /\ pc = "sleep" => pair = 0
  /\ LET on == net # "none" \/ pc = "connect"
     IN  outAge' = Later(outAge, on, Longest) /\ inAge' = Later(inAge, on, Longest)
  /\ quiet' = Later(quiet, net # "none", Longest)
  /\ due' = Later(due, net # "none" /\ Awaiting, Longest)
  /\ UNCHANGED <<client, reconnects, pc, ready, watch, back, app, other, net, faults,
                 slept, early, undone>>

BrokerAnswers ==
  /\ net = "up" /\ broker # <<>> /\ broker' = Tail(broker)
  /\ IF Head(broker) = "CONNECT"
     THEN \/ down' = Append(down, "CONNACK") /\ UNCHANGED faults
          \/ down' = Append(down, "REFUSED") /\ Fault
     ELSE down' = Append(down, "PINGRESP") /\ UNCHANGED faults
  /\ UNCHANGED <<client, ages, loop, app, greeted, net, history>>

\* At most one message in a tick.
BrokerPublishes ==
  /\ net = "up" /\ greeted /\ ~Contains(broker, "CONNECT") /\ down = <<>> /\ inAge > 0
  /\ down' = <<"PUBLISH">>
  /\ UNCHANGED <<client, ages, loop, app, broker, greeted, net, faults, history>>

\* With MQTT 5 it may say so when it ends a connection it has accepted.
BrokerDisconnects ==
  /\ net = "up" /\ greeted /\ ~Contains(broker, "CONNECT") /\ Fault
  /\ net' = "reset" /\ broker' = <<>> /\ down' = Append(down, "DISCONNECT")
  /\ UNCHANGED <<client, ages, loop, app, greeted, history>>

\* What is on its way to the client may be lost.
PeerResets ==
  /\ net \in {"up", "mute"} /\ Fault
  /\ net' = "reset" /\ broker' = <<>> /\ down' \in {down, <<>>}
  /\ UNCHANGED <<client, ages, loop, app, greeted, history>>

PeerFallsSilent ==
  /\ net = "up" /\ Fault
  /\ net' = "mute" /\ broker' = <<>>
  /\ UNCHANGED <<client, ages, loop, app, greeted, down, history>>

-----------------------------------------------------------------------------
Loop ==
  \/ Reset \/ Connect \/ NoAddress \/ NoContext \/ Greet \/ Hello
  \/ EnterLoop \/ Select
  \/ ReadHandshake \/ NothingToRead \/ ReadFails
  \/ Connack \/ Refused \/ RefusedEnds \/ Pingresp \/ Message \/ OutOfState \/ Disconnected
  \/ ReadPair \/ WriteHandshake \/ LoopWrite
  \/ WritesNothing \/ WritesPart \/ WritesPacket \/ WritesDisconnect \/ WriteFails
  \/ InTime \/ Ping \/ KeepaliveCloses
  \/ Decide \/ Sleeps \/ Check

Application == AppPublish \/ AppDisconnect \/ AppQueues \/ AppWakes

Next ==
  \/ Loop \/ Application \/ Tick
  \/ BrokerAnswers \/ BrokerPublishes \/ BrokerDisconnects \/ PeerResets \/ PeerFallsSilent

Spec == Init /\ [][Next]_vars

\* Both threads run, time passes however busy they are, and a broker that is up
\* does not answer too late time and again: sometimes its answer is there while
\* the client still waits for it.
AnswersInTime == pc = "wait" /\ BrokerAnswers

FairSpec ==
  /\ Spec /\ WF_vars(Loop) /\ SF_vars(Tick) /\ SF_vars(AnswersInTime)
  /\ WF_vars(AppQueues \/ AppWakes)

-----------------------------------------------------------------------------
(* Properties. *)

\* Without threads nothing of an earlier connection, and nothing a callback has
\* published meanwhile, comes before CONNECT.
ConnectFirst == ~threaded => ~early

\* The same, and the types.
ConnInv == TypeOK /\ ConnectFirst

\* The loop never sleeps over a packet: select waits for the socket to take it, or
\* the socket pair wakes it, also when the other thread queues while it goes to
\* sleep.
WorkWakes ==
  pc = "wait" /\ outp # <<>> /\ ~want_connect => watch \/ pair > 0 \/ apc = "wake"

\* As long as there is a connection the client sends a packet every keepalive
\* interval, whatever the timeout of the loop.
NotSilent == net # "none" => outAge <= Keepalive

\* A broker that is gone without a word is noticed, also while the application goes
\* on sending to it.
DeadNoticed == quiet <= 4 * Keepalive - 2

\* A connection is given up only when an answer has been due for an interval, of
\* which connecting may take a part.
PatientClose ==
  [][KeepaliveCloses /\ ~asked => due >= Keepalive - ConnectTicks]_vars

\* From one failure to the next the delay grows up to its maximum, and it starts
\* again once a broker has accepted the client.
Backoff ==
  [][slept' \notin {0, slept} =>
       /\ slept' <= reconnect_delay_max
       /\ IF slept = 0 THEN slept' <= reconnect_delay ELSE slept' > slept]_slept

\* Without threads a client whose callback has called mosquitto_disconnect makes no
\* connection again, whatever becomes of the one it has and of the DISCONNECT it has
\* queued, unless a CONNACK has overwritten the state: one that calls it in on_connect
\* connects again when the connection is lost before the DISCONNECT is written.
StaysStopped ==
  [][~threaded /\ asked /\ ~undone => (net' # "none" => net # "none")]_net

\* Whatever goes wrong with a connection, the client gets an accepted one again or
\* its loop ends.
ComesBack == net # "up" ~> pc = "over" \/ (net = "up" /\ state = "active")
=============================================================================

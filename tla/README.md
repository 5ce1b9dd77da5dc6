# Smart door lock: a TLA+ verification project

The repository is a smart door lock. An STM32F407 (`src/stm32/CODE`) drives the
servo of the door, a 4x4 keypad, an AS608 fingerprint module (USART2), an
MFRC522 card reader, a display, a beeper and a key that is meant to close the
door. What it does it writes as text frames to a serial line. At the other end a
Wemos D1R (`src/Arduino-MQTT/MQTT1__.ino`) publishes the frames to an MQTT broker,
switches a relay and takes commands of a phone. `src/MQTT` holds the programs
of the Linux side, which subscribe to the topics, and a copy of the
libmosquitto client library.

The hard parts are the interleavings of main loop and interrupt handlers,
protocols without sequence numbers (with the fingerprint module and over the
serial line), sensors that change while they are read, and in libmosquitto the
handshakes across lost connections, the connection itself and its wire format. The
modules are about these.

## The parts of the system

| part | state | operations | talks to |
|---|---|---|---|
| AS608 link (`as608.c`, `usart2.c`, `timer.c` TIM7) | `USART2_RX_BUF`, `USART2_RX_STA` (count and "batch complete"), TIM7 | `PS_HandShake`, the `PS_` commands, `JudgeStr`, `USART2_IRQHandler`, `TIM7_IRQHandler` | the module by UART; `press_FR` and `Add_FR` by calls |
| fingerprint session (`ShakeHand` and `press_FR` of `main.c`) | `PR` | greeting, number of fingers, parameters; image, characteristic, search | AS608 link, control loop |
| control loop (`main.c`, `keyboard.c`, `led.c`) | `read_flag`, `i`, `passwd`, `PR`, `reval`, TIM3, the servo's compare value | the menu, three checks, `OpenDoor`, `CloseDoor`, `Alarm`, `TIM3_`, `EXTI0_` and the missing `EXTI2_IRQHandler` | all parts of the board; the bridge by `send_packet` |
| serial line and bridge (`Communication.c`, `MQTT1__.ino`) | the frame being sent, the receive buffer, `comdata`, the connection, `DELAY` | `send_packet`, `fputc`; `setup`, `loop`, `reconnect`, `callback`, `send_packet` | lock, broker, phone |
| delays (`delay.c`) | the SysTick registers | `delay_ms`, `delay_s` | main program and `EXTI0_IRQHandler` share the counter |
| libmosquitto, message flow (`src/MQTT/lib`) | `msgs_out`, `msgs_in`, quotas, `last_mid` | `mosquitto_publish`, the handlers, release, reset and retry of messages | broker; application by callbacks |
| libmosquitto, connection | the socket, `state`, `out_packet`, the socket pair, the times of the last packets, `reconnects` | `mosquitto_loop_forever`, `mosquitto_loop`, `mosquitto__reconnect`, `packet__write`, `mosquitto__check_keepalive`, `mosquitto_disconnect` | message flow (which queues packets), broker, a second thread |
| libmosquitto, wire format and options | `in_packet`, the options, `init_refcount`, the socket pair's descriptors | writing and reading packets and properties, SOCKS5, validation of texts, the setters | connection, application |
| keypad matrix (`KEY_work`, `KEY_Scan`, `KEY_Fun`, `Get_Num`) | the lines of rows and columns, `Keynumber` | scan, decode | control loop, administration |
| card reader (`MFRC522.c`, `MFRC522Read`) | FIFO and cipher of the chip, `card_numberbuf`, `card_readbuf` | request, anticollision, select, authenticate, read, write | control loop |
| Bluetooth line receiver (`USART3_IRQHandler`, `BleUnlockTest`) | buffer, length with a "line complete" bit | receive, compare, clear | phone; its call in `main` is commented out |
| administration (`Add_FR`, `Del_FR`, `MFRC522ADD` in `Test.c`) | tries and library slots | enrol, delete | AS608 link, card reader |
| Linux programs (`main.py`, `mqtt.py`, `subscribe.py`, `debug.c`) | none of their own | subscribe, store or print each message | broker |
| display, lamps, beeper, owner table, generated code | registers, a constant table | output, look-up | nothing depends on them |

What makes each part correct, in short:

- link: an answer belongs to the command that waits for it; no byte is written
  behind the buffer; a batch that has begun ends;
- session and control loop: the door opens only for a check that has passed in this
  session, is shut on every path, and a key can always be read again;
- line and bridge: garbling never invents a word, and the relay follows the lock;
- delays: a delay ends and is not cut short by more than it has to be;
- keypad: a key is read as itself or not at all; card reader: only a card that has
  been enrolled opens, and it does so again and again; Bluetooth: a word is obeyed
  as often as it was sent; enrolment: a template is of one finger, and the count
  of templates is true;
- libmosquitto, messages: QoS 1 at least once, QoS 2 exactly once, and everything
  is settled when the connection lasts;
- libmosquitto, connection: CONNECT comes first, queued packets do not wait for a
  timeout, a silent client or a dead broker is noticed, and the client comes back;
- libmosquitto, wire: what is written is as long as was allocated and is read back
  as it was, and what arrives in pieces is put together.

## Modules

| module | models | built on |
|---|---|---|
| `As608Link` | driver, both interrupt handlers, the module and the wire | |
| `FingerprintSession` | `ShakeHand`, `press_FR` and what main makes of `PR` | `As608Link` |
| `DoorGuard` | `main` with everything it calls and the interrupts around it | `DoorPolicy` (abstract) |
| `SerialBridge` | both ends of the serial line, broker and phone | `StateChannel` (abstract) |
| `SysTickDelay` | `delay_ms` and `delay_s` in two contexts | |
| `KeyMatrix` | the keypad and its scan | |
| `CardReader` | the reader's commands and their callers, the cards | |
| `BleReceiver` | the interrupt handler and `BleUnlockTest` | |
| `Enrolment` | `Add_FR`, `Del_FR` and `Get_Num` | |
| `Board` | one of the five above at a time | the five above |
| `MosqLink`, `MosqOut`, `MosqIn` | the connection of the messages; publishing; receiving | |
| `MosqClient` | both directions over one connection | the three above |
| `MosqConn` | how a connection is made, kept, lost and made again | |
| `MosqText`, `MosqCodec`, `MosqPackets` | texts; bytes and properties; lengths of packets | each on the one before |
| `MosqStream`, `MosqOptions` | what arrives, and the SOCKS proxy; the options | `MosqCodec`, `MosqPackets` |
| `MosqWire` | one of these at a time | the five above |
| `MCAs608Link`, `MCFingerprint`, `MCDoorGuard`, `MCBoard`, `MCMosqConn`, `MCMosqWire` | instances for TLC | |
| `As608LinkProofs`, `FingerprintProofs`, `DoorGuardProofs`, `SerialBridgeProofs`, `MosqClientProofs`, `MosqConnProofs`, `MosqWireProofs` | theorems and proofs about the module of that name | that module |
| `BoardProofs` | theorems about each of the five parts of `Board` | `Board` |

`PROJECT.json` maps every definition to the lines it models. Mutant operators
(`X_Something` in front of `X`) are plausible mistakes in those lines; each
breaks the property it is listed with. They are used by nothing else.

### As608Link

An action is the code between two points at which an interrupt matters. `done` and
`cnt` are bit 15 and the rest of `USART2_RX_STA`. An answer packet is three units:
the first byte, the header up to its NUL, and the confirmation code with the
rest; this is as fine as `strstr` and `data[9]` can tell apart. Each unit carries
the number of the command it answers; no action decides by it. `TIM7_IRQHandler`
is a load and a store, because `|=` on a variable is, and the receive interrupt,
of higher priority, may come between the two. Two constants switch the
environment: `Timely` (the module answers while `JudgeStr` waits, or never) and
`RxBlocking` (the handler of the close key, of the same priority as the receive
interrupt, holds it up and bytes are lost). The contents of packets, checksums and
the parameters of commands are left out. What `data[9]` may turn out to be
is kept: the code of this or an older answer (`result` is the number of the command
it belongs to), a byte never written (`Zero`), or any other byte (`Garbage`).

### FingerprintSession

Adds the module's decision about each command (`verdict`), `ShakeHand` and `press_FR`. A
read of `Garbage` may look like "done". `ShakeHand` has two loops: `PS_HandShake` is sent
again until it returns 0 (`Retry`), and when it has, `PS_ValidTempleteNum` and
`PS_ReadSysPara` follow; what the first says changes nothing, and unless the second says
"done" the outer loop begins again with `PS_HandShake` (`ShakeAgain`). The module may
refuse its parameters, or not answer, for a time (`Unready`, `MaxIgnore`). `step` is the
command main has sent, "ready" when `ShakeHand` has ended. `Judge` is what main does with
`PR`.

### DoorGuard

The menu, the checks and `Alarm` as one `pc`, with the interrupts between any two
steps. The display, the lamps of the board and the delays (as durations) are left
out; the words sent on the topic of the door state are kept, because they are an
output people act on. A password has `PwLen` digits (6 in the code), a card
`CardTries` tries and an alarm `AlarmRounds` rounds. `i` is the one counter main
uses for digits and tries; `passwd` and `reval` start with any value, because the
code never sets them first. `EXTI2_IRQHandler` is commented out although the line
is enabled: the default handler of the start-up file is a branch to itself, so
`hung` is final. `typed` and `grant` are history variables.

The model keeps two oddities no run asks about: the close key sends "close" and
leaves the servo alone, and the lamp is switched with the words of the door
state, so "open" is the last word after a session with a finger or a password.

### SerialBridge

A byte string is a sequence of tokens; the topic of the door state and its words
are halved so that a frame can be cut in the middle of each. The letters of unrelated
text never complete a word (`WordEnded` are the tokens that do). The close key's handler sends its frame between any two
tokens of main's. The Wemos drops a byte that finds its buffer full, gives a
frame up after 5 ms of silence, publishes without looking at the result, and
connects again with a clean session. The queue of the abstract channel is not a
variable: `Queue` is the sequence of the words whose last halves are on the line (in `part`, `rx`
and `out`), by their places. Left out: the connection to the WiFi in
`setup`; the limit of 1024 bytes of `comdata`, which no frame reaches; the branch
for `PERSON_IN`, a topic the lock never sends on; the second branch of
`EXTI0_IRQHandler` (`keyboard.c:286`), an "open" behind which the lock hangs
(`EXTI0_BothKeys` of `DoorGuard`); `DataLED`; `USART1_IRQHandler`,
whose buffer nothing reads.

### SysTickDelay

One action for each access to the counter (`LOAD`, `VAL`, start, poll, stop),
because the handler of the close key calls `delay_ms` as well, between any two
accesses of main's. In the run the arguments fit the counter: 24 bits of
`21000*nms-1` are enough for 798 ms, as the comment at `delay.c:38` says.
`delay_ms(800)` at `main.c:460` does not, and lasts a millisecond; `SetLoad`
takes the remainder, so an instance with a larger `Asks` shows it.

### KeyMatrix

Each row is read in a step of its own (`readLine`), and keys go down and up between any
two: `KEY_work` and the looks of `KEY_Scan` read one row after the other up to the first
that is low (`AnyLow`), and the four statements that set `Keynumber` read each row
again. A row that its keys connect to a low and to a high column at once reads as either.
`touched` and `held` are history: the keys that were down at some time, or all the
time, of a reading; `bounced` says that one has gone up and down again during it. The
pauses are left out, they only make room for changes.

### CardReader

A card's number is the card itself; `Mixed` is a number no card has, which is what a
failed `Anticoll` leaves in the buffer (its own command over the bytes of the number
before). Each command is an exchange with the cards that are in the state for
it; an answer may be lost, or two cards may answer at once. The chip takes no
answer for `MI_OK` with no bits, as `MFRC522_ToCard` does when the timer runs
out. `cipher` is bit 3 of `Status2Reg`: once the chip has authenticated it talks
enciphered until a reset, or `Anticoll` or `SelectTag`, clears the bit. Cards are
external and follow ISO 14443: each may leave between any two commands. The buffers
that the code overruns (see below) are not modelled byte by byte.

### BleReceiver

`count`, `gotCR` and `deaf` are bits 0 to 13, 14 and 15 of `USART_RX_STA`. The
interrupt comes between any two statements of `BleUnlockTest`; `strcmp` and `memset`
are one step each, since a byte takes a millisecond on the line. Words are short,
begin and end alike and are no beginnings of each other; as the words of `ble.h` do, each has
two neighbouring bytes that nothing else on the line has (`Telling`). What the phone sends is
whole words, with or without CR LF. `meanwhile` counts the bytes that come between
recognising a word and clearing the flag. `printf` (`Test.c:253`, `:261`) makes that time
long: `fputc` waits for USART3 at the 9600 baud of the phone's own bytes, so 16 to 18 may
come, a whole word and its line end among them, which `memset` and the reset of the length
then forget. `MaxMeanwhile` bounds them, by 5 in the run, the longer word and its line
end; the theorem has any bound that leaves room for a word in `USART_RX_BUF`, as 18 of
256 does.

### Enrolment

`Add_FR` as the commands it calls, on a module that answers at once, with 0x00 or an
error, or not at all (the late answers are the matter of `As608Link`). A command whose
answer is an error was not carried out, one whose answer is lost may have been.
`PS_ValidTempleteNum` takes `*ValidN` from any answer (`as608.c:510`), and one with an error
has its check sum there (`Sums`). A buffer of the module holds a pair of
fingers, so that a template of two different ones can be told. `i` starts with any
value of a byte, because nothing sets it. `Get_Num` returns after one pass over
its loop; its own `read_flag` is a variable of `keyboard.c` that nothing sets again.

### Board

The five parts do not interact on the board (main uses one at a time), so a
behaviour of `Board` is about one of them, its `subject`. It exists to check them in
one run.

### MosqLink, MosqOut, MosqIn, MosqClient

The library as `debug.c` uses it, one thread in `mosquitto_loop_forever`, MQTT
3.1.1, with a persistent session, for which the handshakes are made. `up` and `down`
are the packets queued, in socket buffers and in the network; a loss of the
connection empties both. `MosqOut` has the list of outgoing messages with its
states, the quota, `message__release_to_inflight`, `message__retry_check` and
`message__reconnect_reset`; `MosqIn` the list of incoming QoS 2 messages. Publishing
works in every state of the connection, without a socket and inside `on_connect`.
A write that fails is an action of its own where it leaves something behind:
`release_fails` and `handle__pubrel_fails`; everywhere else it is the same as
a packet lost with the connection. Callbacks are history variables.

The broker is external and follows MQTT 3.1.1; it keeps the session. Left out: QoS 0
(no state), SUBSCRIBE, the receive quota of MQTT 5, and `dup`, which nothing reads.
Message identifiers stay far below 2^16. How the connection behaves is the matter
of `MosqConn`.

### MosqConn

One action for each stretch of `mosquitto_loop_forever` between two points where the
other thread, the broker or the clock can come in: the parts of
`mosquitto__reconnect`, `select`, a read, a write, the keepalive check, the decision
after an error, the sleep. `Modes` switches between `mosquitto_loop_forever` alone,
`mosquitto_loop_start` with the application in a thread of its own (`apc`), and TLS,
whose handshake adds states in which reads want to write. A packet is its kind, and
a write may take the whole of it or a part. `pair` counts the bytes in the socket
pair; the loop reads one of them for each time `select` reports it. Time passes
only while the client waits; `outAge` and `inAge` are the ages of the two times
that `mosquitto__check_keepalive` compares. The broker is external: it answers, refuses,
sends DISCONNECT (MQTT 5), resets or falls silent. A refusal with one of the reasons 1 to
5 is an error after which `mosquitto_loop_forever` connects again, any other is
`MOSQ_ERR_PROTOCOL`, which ends it, and both come after `on_connect` (`Refused`,
`RefusedEnds`); a DISCONNECT runs `do_client_disconnect` (`Disconnected`). A read or a write
that fails with TLS may set `EPROTO`, which ends the loop as well. Callbacks may publish
and disconnect; `undone` is history: `on_connect` has called `mosquitto_disconnect`, and
then `handle__connack` has set the state to active. Left out: QoS above 0 (`MosqClient`), `mosquitto_connect_async`,
SRV records, `MOSQ_OPT_TLS` checks of certificates, `keepalive = 0`.

### MosqText, MosqCodec, MosqPackets

Functions without state, translated as operators and folds where they
loop, with reference definitions beside them: `Utf8` is the definition of the
encoding, `Matches` compares level by level. `MosqCodec` writes and reads bytes;
in `MosqPackets` a string is only its length, and a packet is the length that one
function adds up and the fields another one writes. `packet__write_string` has its length
in 16 bits: of a text of n bytes it writes n modulo 65536 (`Carried`), in both modules.

### MosqStream, MosqOptions, MosqWire

`MosqStream` is `in_packet` while bytes arrive in pieces: SOCKS5 first, if an option
asks for it, then packets of the broker. A read ends where the socket has no more.
`MosqOptions` is the library's count of users, the socket pair and the setters, called in
any order, with texts as lengths (`None` for a null pointer, `Bad` for a text that is
not UTF-8 or a file that cannot be opened); `Texts` are those whose length is checked, and
`Unchecked` are the lengths of passwords and payloads. `MosqWire` joins these and the codecs, one
subject per behaviour. The library is initialised and cleaned up by further users only
while there is no client, which is how `mosquitto.h` asks for it to be used.

## Runs

| run | result | what it shows |
|---|---|---|
| `as608_late` | holds | with late answers, lost bytes and a buffer of one answer, no byte is written outside the buffer and every batch that has begun is ended |
| `finger_timely` | holds | with a timely module every call returns its own answer, `ShakeHand` gets through both its loops, and `PR` means that the module said "done" to all three commands |
| `finger_late_answer` | **violated** | a late answer is taken for the answer to the search: `PR` is set for a finger the module has not found |
| `door_guard` | holds | the control loop obeys `DoorPolicy` (a refinement), opens only for a check of this session, ends an alarm with "close", and neither keypad nor door gets stuck |
| `bridge_calm` | holds | without presses of the close key and with room in the buffer, line and bridge refine `StateChannel`, across an outage |
| `bridge_adverse` | holds | with a press, a small buffer and an outage nothing is invented or reordered, and the relay is right again after the next whole word |
| `bridge_subscribed` | **violated** | after an outage the bridge is connected and not subscribed |
| `board` | holds | delays cut by the close key, keys that change while they are read, cards swapped between two commands, Bluetooth bytes between two statements, enrolments with lost answers |
| `mosq_client` | holds | nothing is lost or passed on twice short of the two cases below; all settles once the connection lasts |
| `mosq_twice` | **violated** | a QoS 2 message sent again is kept twice, and a repeated PUBREL hands it to `on_message` twice |
| `mosq_conn` | holds | keepalive, wake-ups, partial writes, reconnecting and disconnecting, with one thread, two, and TLS |
| `mosq_wire` | holds | codecs against reference definitions, lengths of packets, packets and SOCKS5 answers in pieces, options in any order |

An invariant whose name ends in `Inv` or `Right` is a conjunction of named parts about one
component, each with a comment of its own in the module:

| invariant | parts |
|---|---|
| `BridgeInv` | types, `NothingInvented` |
| `DelayInv`, `KeyInv`, `CardInv`, `BleInv`, `EnrolInv` | types, and `LosesOnePiece`; `OneKeyReadRight` and `HeldKeysAddUp`; `OnlyEnrolledOpen`; `ObeysWhatWasSent`; `OneFingerPerTemplate` and `CountRight` |
| `OutInv`, `InInv` | types, `OutOnce`, `AckedReceived`; `InOnce`, `InDelivered` |
| `ConnInv` | types, `ConnectFirst` |
| `TextsRight`, `PropertiesRight`, `LengthsRight` | `Utf8Right`, `MatchRight`, `LevelsJoin`; `RoundTrip`, `TruncatedRefused`, `FindsEach`, `ReadsBack`; `Fills`, `WithinLimit` |
| `StreamInv`, `OptionsInv` | types, and `PacketsRight`, `ReplyWhole`, `GrantedFirst`; `NetUpWhileUsed`, `PairsRight`, `EncryptsWhenAsked`, `ConnectRight` |

`PROJECT.json` has a mutant for every part. What is proved for all instances (`LinkInv`,
`SessionInv`, `GuardInv`, `ShutWhenWaiting`, `KeyNotLost`, the types of the control loop) is
not checked again.

The violated properties are what a comment or the documentation says of the code;
`findings` quotes the line. `OutOnce` and `InOnce` hold unless
more messages are in flight than the maximum (`OverLimit`; CONNACK sets the quota
anew, `handle_connack.c:105`) or the mishap of `mosq_twice` has happened, and
`InDelivered` unless
PUBCOMP could not be written (`handle_pubrel.c:97` removes the message without a
callback): `mishaps` notes them, and the properties say that nothing else goes wrong.

### Bounds

- `as608_late`: four commands, two of them unanswered, a buffer of 3 units, the
  smallest that holds an answer. One handshake and three commands are enough for
  an answer to be two commands late. `finger_timely`: fifteen commands, of which two are not answered and parameters may be
  refused among the first five: enough for a handshake that fails, a round of the outer
  loop that does, one that succeeds, and two sessions behind them, so that a session can
  see what another has left.
- `door_guard`: four keys, of which three are the menu's, passwords of two digits
  with a shared key, two tries, two rounds. There is no bound on the behaviours: the
  variables are finite, and `typed` is emptied by each session.
- bridge: a session of two or three frames, one press, one outage, one command. A
  press cuts a frame at every token; 7 tokens of buffer are one frame and
  one token, 20 hold everything sent.
- `board`, one bound per subject. Delays: 2 ticks to a millisecond and a counter of
  3 bits keep the proportion between an argument, a tick and the range; up to three
  pieces and three presses. Keys: all sixteen, two down at once, three changes, which
  are a key pressed, released and replaced during one reading. Cards: three, one of
  them with a foreign key, two at a time at the reader, four moves and one lost or
  garbled answer: enough to enrol a card, take it away and put another in its place
  in the middle of the next reading. Bluetooth: a buffer of 8 holds the longer
  word and the five bytes that may come while it is obeyed; five words. Enrolment: two
  fingers, two pages, key numbers that are page 1, no page and `#`, a byte of three bits
  for `i`, which must pass five, one lost answer, three calls, and an answer with an error
  that reads as 0 or 11 templates.
- `mosq_client`: two losses are the first number that interrupts a recovery; with a
  maximum of two and three messages the quota is exceeded, refilled and
  waited for (the quota is not counted right in every case, see below). One incoming message is enough, because the broker's messages share
  only the list, and order in it does not matter to any handler.
- `mosq_conn`: a keepalive of 2 ticks, longer than a connect and no longer than the
  timeout of `select`; delays 1 and 2, the maximum being reached; two faults, so
  that a recovery fails as well; one message, with which all four kinds of packet
  meet in the queue; three bytes in the socket pair.
- `mosq_wire`: bytes on both sides of every border that `utf8_mosq.c` draws, texts of up to
  four; filters of up to five and topics of up to three characters over the four that mean
  something and one that does not; lists of up to three of 22 properties, among them
  each type, the empty string, both ends of each integer and lengths around 128;
  five raw bytes; all calls with lengths around the borders of the variable length and of
  16 bits, a null pointer, and maximum packet sizes that are met exactly, and missed by
  one to three bytes; passwords and payloads of a will of 0 and of 65536 bytes; two packets on each of two connections.

### Deadlock and fairness

`MCAs608Link` and `MCFingerprint` let a driver that has used up its
commands repeat its state, and `MCDoorGuard` the default handler; any other stop
is an error. `Mosq.cfg` and `MosqTwice.cfg` do not check deadlock: when all messages are
settled and the losses used up, nothing is left to do; nor does `MosqConn.cfg`, as the
loop returns after `mosquitto_disconnect`, nor `MosqWire.cfg` and `Board.cfg`, where
inputs are of bounded length and the bounds on keys, cards and calls are used up. In
`SerialBridge` the Wemos never stops.

Fairness: the processor runs (`Host`, `Main`, `MainStep`, `Sender`, `Wemos`, `Client`),
pending interrupts are taken, timers count, and the environment
answers (`Answer`, `Broker`; `Connected` is a broker that comes back at last). No
fairness is assumed for keys, presses, outages, late answers or losses. In
`As608Link`, `PS_Timeout` and `JudgeTake` have fairness of their own because the
polling loop alone would satisfy that of `Host`.

`Board`: the counter counts, the program and pending interrupts run, and a user tries
the card again and again (`EnrolledAccepted` is about a card that is held there);
nobody has to press, move or send anything. `MosqConn`: both threads run; time passes
(strongly fair, since the loop, going round, leaves the places where it waits again and
again); and a broker that is up does not always answer too late
(`AnswersInTime`, strongly fair: it asks only that among infinitely many chances
to answer while the client waits one is taken). Without the last a broker slower than
the keepalive interval keeps the client from ever being connected, in the code as in the
model.

## Proofs

All theorems hold for every value of the constants under the assumptions that the
modules name: `LinkAssumption` and `GuardAssumption` (sizes and counts are numbers,
the menu's keys are on the keypad), `BridgeAssumption` (the frames are those of
`create_packet`, there is a buffer), `DelayAssumption`, `KeyAssumption`,
`CardAssumption`, `BleAssumption`, `WordsAssumption` (each word has two neighbouring bytes
by which it is told from the other, "eu" of bleunlock and "el" of blelock in `ble.h:5`, and no
line end in it), `EnrolAssumption` (finite sets of fingers and pages),
`LinkAssumption` of `MosqLink`, `OutAssumption` and `InAssumption` (one message in flight at
least), `ConnAssumption` (a connect is shorter than the keepalive interval, see
the divergences), `SessionAssumption` and `OptionsAssumption` (bounds are numbers; a text that is validated is a
null pointer or has at most 65536 bytes, as `mosquitto_validate_utf8` has it, a password or payload of a will
any length a packet may have, the properties of a will have lengths), and `PacketsAssumption` (the
broker's remaining lengths have at most four digits, as MQTT has it; with a fifth
`packet__read` gives up, `packet_mosq.c:397`). `Delays` has a hypothesis besides, `DelayFits`: the pieces asked for
fit the 24 bits of LOAD. It is what `delay.c:38` demands of its callers, and what
`delay_ms(800)` of `main.c:460` does not meet. `RoomyIsChannel` has two more, which say what
`CalmIsChannel` says of a behaviour in terms of the constants: no press of the close key, and room
for the frames of the run.

The bounds on presses, losses, faults, frames and messages are constants like
the others: the theorems hold for any number of them.

| theorem | statement | argument |
|---|---|---|
| `As608LinkProofs!TypeCorrect` | `Spec => []TypeOK` | inductive; the case that matters is `RxStore`, where `isr7` and `cnt` must agree on the room left |
| `As608LinkProofs!BatchTimer` | `Spec => []BatchWillEnd` | inductive with `TypeOK`: the timer is stopped only when `done` is set, and `done` cleared only with `cnt` |
| `As608LinkProofs!LinkSafe` | timely and not blocked: `Spec => [](LinkInv /\ OwnAnswer)` | `OwnAnswer` speaks of `idle` only, so `LinkInv` says for every `pc` what is on the wire, in the buffer and in TIM7 (`Quiet`, `Receiving`, `Received`, and `ShakeInv` for the timer left running by `TIM7_Int_Init`) |
| `FingerprintProofs!OwnMatch` | timely and not blocked: `SessionSpec => []FingerMatched` | every step of the session is a step of the link, so `LinkInv` carries over; `SessionInv` adds how many of the last commands were done |
| `DoorGuardProofs!TypeCorrect` | types, and the loops stay in bounds | inductive: `passwd[i]` needs `i < PwLen` where a digit is awaited |
| `DoorGuardProofs!Guarded` | `OpenOnlyGranted`, `ShutWhenWaiting`, `KeyNotLost` | `GuardInv`: which check set `grant`, where `PR` is set, that `passwd` holds the digits typed in this session |
| `DoorGuardProofs!DeniedTold` | `DeniedReadsClose` | the part `ToldInv` of `GuardInv`: what the last word is, at each place of `Alarm` |
| `DoorGuardProofs!Implements` | `Spec => DoorPolicySpec` | step by step under `GuardInv`: the checks are `Accept`, the three opens `Open`, the three closes `Close`, all else stutters |
| `SerialBridgeProofs!InOrderShown` | `BridgeInv` | `OrderInv` extends the map from published words to words sent to the word ends that have got to the Wemos, behind those published; a step appends to it, shifts it or drops its beginning |
| `SerialBridgeProofs!CalmIsChannel` | `Spec /\ []Calm => StateChannelSpec` | `CalmInv`: each word end on the line ends a frame of its own, at the beginning or behind a `:`, with a `:` behind it (`Framed`), and all frames but the one without a topic end with a `:`. Then a frame begun appends one word or none (`WordsJoined`), one served removes the first, which is the one that switches (`PartWord`, `WordMeant`), and one given up after 5 ms of silence has none |
| `SerialBridgeProofs!RoomyIsChannel` | no press, `6*MaxFrames <= RxSize`: `Spec => StateChannelSpec` | `RoomInv`: what is stored and what may still come fit the buffer, so every step is calm |
| `SerialBridgeProofs!RelayFollows` | `BackInSync` | `SyncInv`: while `synced`, the last word is on its way as a frame of its own, behind a `:` or at the beginning, with no other `sta` behind it, or there is no `sta` on its way and the relay has the word. What has been read of a frame holds no `:`, so loop reads the frame of the word as it is (`ComingAfter`) |
| `BoardProofs!Delays` | `DelayFits`: `DelayInv` | `DelayIInv` accounts for every tick: what has elapsed, what the counter still holds, and the piece a press may have taken |
| `BoardProofs!Keys` | `KeyInv` | `KeyIInv`: what the rows read so far in each look, the row and the columns say about the keys held and touched; a single key gives its row or, not seen there, none, and a column without a row only if it went up and down again (`bounced`) |
| `BoardProofs!CardsOpen` | `CardInv` | `CardIInv`: whose number and whose data are in the buffers, and that a number is never followed by the data of an enrolled card it does not belong to |
| `BoardProofs!Enrolments` | `EnrolInv` | `EnrolIInv`: the two images and the template at each place of `Add_FR`, `Cardinality` of the pages stored, and that between a page written or emptied and the answer that counts it an answer was lost or had an error, or the call is still under way |
| `BoardProofs!Bluetooth` | `BleInv` | `BleIInv`: what is recognised or still to be obeyed is counted by the telling pairs on the line (`Marks`), in the buffer and split between the two (`Both`, `Half`); a buffer with a Nul in front of them holds no word (`Filled`), and while a word is obeyed nothing gets in front of its pair (`Beyond`). Counting pairs instead of words needs no parsing of the line |
| `MosqClientProofs!Inductive`, `TypeCorrect` | `IInv`, `TypeOK` of `MosqClient` | the invariant below |
| `MosqClientProofs!Outgoing`, `Incoming` | `OutInv`, `InInv` | `IInv`: each packet on its way goes with the state of its message at both ends (`WireInv`, `OutWireInv`, `InWireInv`), the list is in the order of the numbers (`ListInv`), what the retry will send has not been sent (`RepeatInv`), messages behind the maximum have not begun (`LimitInv`), and the broker knows what it has passed on (`OnceInv`, `KeptInv`) |
| `MosqConnProofs!Inductive` | `ConnIInv` of `MosqConn` | the invariant of the next seven: the socket and both threads (`SocketInv`, `AppInv`), the ages of the two times at each place of the loop (`AgeInv`, `QuietInv`, `DueInv`), the queue since CONNECT (`HelloInv`, `FirstInv`), the delay (`DelayInv`) |
| `MosqConnProofs!ConnectComesFirst` | `ConnInv` | `FirstInv`: without threads the queue is empty wherever CONNECT has still to be queued |
| `MosqConnProofs!NeverAsleep` | `WorkWakes` | inductive: a thread that queues a packet while the loop is in select puts a byte into the socket pair before anything else |
| `MosqConnProofs!NeverSilent`, `NoticesTheDead` | `NotSilent`, `DeadNoticed` | `AgeInv` and `QuietInv` bound the two ages at each place of the loop by the keepalive interval and the timeout of select |
| `MosqConnProofs!Patient` | `PatientClose` | `DueInv`: how long ago PINGREQ was sent when the check closes |
| `MosqConnProofs!BacksOff`, `StopsForGood` | `Backoff`, `StaysStopped` | action properties, from `DelayInv`, monotone in `reconnects`, and from `StopInv`: without threads, once a callback has called `mosquitto_disconnect`, the state is disconnected or `undone` is set wherever the loop would connect |
| `MosqWireProofs!Inductive` | `WireIInv` of `MosqWire` | the invariant of the next two |
| `MosqWireProofs!Options` | `OptionsInv` | `OptionsIInv`: the library's count and its users go up and down together, the pair is the client's or the zeros left by a refused identifier, what TLS goes by has been there since it was asked for, and the options have values (`ValuesInv`). `ConnectRight` holds of any such values: of at most 16 fields the fold of `Filled` is a sum of 16 numbers, those behind the last being 0 (`FilledSum`), so that one field more adds its bytes (`FilledMore`); the CONNECT grows field by field and its bytes and kinds with it (`Grown`, `ConnectGrown`), up to what `ConnectLength` adds up (`ConnectLengths`), less what the 16 bits of each text cut off, which is nothing exactly when all texts fit (`ConnectFits`), and up to what the flags announce (`FlagsSay`, `ConnectTold`) |
| `MosqWireProofs!Stream` | `StreamInv` | `PacketsInv`: what is in `in_packet` and behind it what is unread are together what the broker said behind the packets handled (`Followed`). A layout of the stream by packets gives what follows each of them (`Layout`); of one `in_packet` has x bytes (`ReadTo`), and what these say about its fields is `HeadAt` in the header, `BodyAt` behind it and `GarbledAt` where no packet is. `FeedHead`: one byte takes x to x+1; `FedPacket`: so do the few that `packet__read` looks at in one call, which the fold goes through in order (`Folded`), and a packet is handed on with its last byte. `VarintWritten`: up to four digits `packet__write_varint` writes `VarintOf`, its closed form. For the proxy, `ProxyInv`: what has been read, has arrived and is to come are together the one answer to the last message (`Answer`), whatever the pieces; of a reply they have the length that its address says, and its second byte says whether the connection is granted |

Each `Inductive` theorem names the inductive invariant of its module; TLC has checked
each of them on the module's instance before the proof, except `PacketsInv` in that of
`MosqWire`, which quantifies over streams of any length: there TLC has checked `StreamInv`. The invariants checked by runs
are not inductive: they speak of the ends of a connection, a session or a delay, and
nothing in them says what is on its way.

Only model-checked:

- all of liveness (`ShakeHandSucceeds`, `KeysComeAgain`, `ShutUnlessHung`, `StatesArrive`,
  `DelayEnds`, `EnrolledAccepted`, `CalmWordsObeyed`, `EnrolmentEnds`, `OutSettles`,
  `InSettles`, `ComesBack`): the prover reasons neither about fairness nor about ENABLED;
- `TextsRight`, `PropertiesRight` and `LengthsRight`: what the codecs compute for every input is
  an induction over data. (A CONNECT has at most thirteen fields, which need none: `Options` says of
  every one when it fills its length, `LengthsRight` of the packets with lists of any length.)

## Not modelled

- Owner table (`data.c`): its functions are called by nothing, and their loops would not
  run, since `sizeof(head)/sizeof(person_info_t)` is 0 for a pointer.
- Display, lamps, beeper, servo timer, and the test functions that only drive them: output
  nobody reads back. Initialisations only write registers once.
- The Python programs and `debug.c`: no state of their own.
- The contents of the fingerprint module's packets; the registers and CRC of the card
  reader; the text of `RfidID`.
- In libmosquitto: SUBSCRIBE and UNSUBSCRIBE as exchanges (their packets are in
  `MosqPackets`), `helpers.c`, SRV records, the verification of certificates,
  logging, memory limits. Code that is compiled for the broker only (`WITH_BROKER`).
- Vendor and generated code.

## Known divergences

What the code does that its documentation, or a reader, would not expect. The models
follow the code; three points are runs of their own (above, **violated**), the others
are shapes of the models or lie below their abstraction.

Board:

- `keyboard.c:39`: the key on PE2 has its line enabled and no handler: the program hangs,
  with the door open if it was (`ShutUnlessHung` says "unless").
- `main.c:460`, `Test.c:199` and others: `delay_ms` with 800, 1200 and 1500 is
  longer than the counter and ends early.
- Keypad: a key released between the readings of rows and columns is read as the last
  key of the row above, and one that bounces, up while its row is read and down at its
  column, as the key of the first row in its column, although 15 ms are waited for
  bouncing (`OneKeyReadRight` names both); two keys add up to a third (`HeldKeysAddUp`
  says how).
- Card: the cipher stays on for the other tries of a session after a read that failed half
  way. `MFRC522_Read` puts 18 bytes into `card_readbuf[16]`; `MFRC522ADD` writes to the
  card the 5 bytes of `card_numberbuf` and the 11 that lie behind it, and runs before
  `MFRC522_Initializtion`.
- `Communication.c:161`: `%x` writes a byte below 16 as one digit, so two card
  numbers can have one text.
- Administration: `Add_FR` counts in an `i` it has not set; `Get_Num` returns after one
  pass and, once a key has been taken, never takes another, so that all later
  templates go to page 0; an answer with an error to `PS_ValidTempleteNum` overwrites the
  count of templates (`as608.c:510`), and its callers do not look at what it returned
  (`CountRight` says "unless"); `Del_FR` cannot reach its answers 0xFFFF and 0xFF00.
- Bluetooth: when a word is recognised before its CR LF has come, the line end is
  taken for a line of its own and the receiver may stay deaf
  (`CalmWordsObeyed` says when it may not). `memset` at `Test.c:254` and the reset of
  the length are two statements; a byte between them is kept behind a Nul.

libmosquitto:

- `handle_connack.c:105` sets the quota whatever is in flight: after a reconnect up to
  twice the maximum of `mosquitto.h:1591` may be.
- `connect.c:176`: with threads a message published while the socket is being opened precedes
  CONNECT (`ConnectFirst` is stated for one thread), and a state `disconnected` set by
  another thread may be overwritten (`StaysStopped` likewise).
- `handle_connack.c:113` looks for the state `disconnecting` only, and
  `mosquitto_disconnect` sets `disconnected`: a client that calls it in `on_connect` is
  active afterwards, and when the connection is lost before DISCONNECT is written it
  connects again, against `mosquitto.h:1135`, "If you call mosquitto_disconnect() in a
  callback it will return" (`StaysStopped` says "unless a CONNACK has overwritten the
  state"). In other callbacks nothing overwrites it.
- `loop.c:296`: the delay is `reconnect_delay*(reconnects+1)^2`, so 3, 12, 27, 30, where
  `mosquitto.h:1566` says 3, 6, 12, 24, 30. `loop.c:215`: bytes left in the socket pair
  cut the sleep short.
- A PINGRESP or PUBLISH that comes after `mosquitto_disconnect` ends the connection before
  DISCONNECT is written. A connect that takes longer than the keepalive interval is
  closed at once (`ConnectTicks < Keepalive` is assumed).
- `packet__check_oversize` leaves out the byte of the command: a packet one byte larger
  than the broker's maximum is sent, where `mosquitto.h:767` promises
  `MOSQ_ERR_OVERSIZE_PACKET` "if the resulting packet would be larger than supported by the
  broker". On the other side `mosquitto_publish` checks an estimate of the length with QoS
  0 and MQTT 3.1.1 that is one too large, so a packet of exactly the maximum is refused
  where one byte more would need another digit in its length (a remaining length of 127
  and a maximum of 129). `PublishLimit` says exactly which are refused, and `TopicsLimit`
  how far a SUBSCRIBE may go over. With MQTT 5 a PUBLISH may pass the check of
  `mosquitto_publish` and be refused when sent, and stays queued.
- `property__read_all` takes the whole of a property that begins inside the length
  given, so the length may end in the middle of one. `mosquitto_property_copy_all` copies an
  empty string that was added from a null pointer.
- A string's length has 16 bits (`packet_datatypes.c:141`), but `mosquitto_validate_utf8`
  accepts 65536 bytes (`utf8_mosq.c:31`), for a user name or an identifier, nothing looks
  at the length of a password, and `mosquitto.h:320` and `:347` allow 268,435,455 bytes
  for the payload of a will. `send__connect` allocates all of it, the remainder modulo
  65536 is written, and the CONNECT goes out with bytes that were never written
  (`ConnectRight` says for exactly which); a string property of 65536 bytes is written
  empty (`RoundTrip` is about shorter ones). `+/#x` as a filter matches `a`, which no valid filter check lets through.
- `socks5__send` refuses a host name of more than 255 bytes, and takes `strlen` of a null
  pointer when the proxy chooses a user name and password that were not offered, or no
  password was set (`socks_mosq.c:224`); in `MosqStream` a proxy chooses what it was offered.
- `socks_mosq.c:385` reads N of the N+2 bytes that follow a domain name; the two others
  are taken for the first bytes of the broker (`ReplyWhole` says for which replies
  it is whole).
- `mosquitto_new` with an invalid identifier closes descriptor 0
  (`PairsRight` says "unless refused"); a failed `mosquitto_tls_set` leaves some of the
  files of this call and some of the one before (`EncryptsWhenAsked` says "unless a later
  call failed").
- `debug.c` calls `mosquitto_new` with a clean session and subscribes once, so it
  prints nothing after a reconnect.

## Plan

The models of the plan of the first version are done: link, session, control loop, line and
bridge, delays, keypad, card reader, Bluetooth, enrolment, and libmosquitto's message
flow, connection and wire format. What is left:

1. An abstract channel for `MosqOut` and `MosqIn` that hands each QoS 2 message on at most
   once, and the refinement.
2. SUBSCRIBE with a clean session, as `debug.c` has it.

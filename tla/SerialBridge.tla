--------------------------- MODULE SerialBridge ---------------------------
(***************************************************************************)
(* The serial line from the STM32 to the Wemos and the bridge that runs     *)
(* there: send_packet and fputc of stm32/CODE/Esp8266/Communication.c, the  *)
(* close key's handler of keyboard.c, which sends between any two bytes of  *)
(* main, and loop, reconnect, callback and send_packet of                   *)
(* Arduino-MQTT/MQTT1__.ino.                                                *)
(*                                                                          *)
(* A byte string is a sequence of tokens.  The topic "state" and its two    *)
(* words are halved, so that a frame can be cut inside each of them; the    *)
(* text of other frames is one token.                                       *)
(***************************************************************************)
EXTENDS Integers, FiniteSets, Sequences, SequencesExt

CONSTANTS
  Kinds,       \* the kinds of frames main sends
  RxSize,      \* the receive buffer of the Wemos, in tokens
  MaxFrames,   \* bound on the frames main sends
  MaxPresses,  \* bound on the presses of the close key
  MaxOutages,  \* bound on the losses of the broker
  MaxCommands  \* bound on the commands of the phone

Frame == [
  open   |-> <<"sta", "te", "op",  "en", ":", ":">>,
  close  |-> <<"sta", "te", "clo", "se", ":", ":">>,
  nums   |-> <<"fp-nums", "n", ":", ":">>,
  debug  |-> <<"mqtt_debug", "text", ":">>,
  plain  |-> <<"text">> ]            \* PS_ValidTempleteNum: no topic, no ':'

ASSUME BridgeAssumption ==
  /\ Kinds \subseteq DOMAIN Frame
  /\ RxSize \in Nat \ {0}
  /\ {MaxFrames, MaxPresses, MaxOutages, MaxCommands} \subseteq Nat

VARIABLES
  out,        \* what main still has to send of its frame
  kind,       \* the kind of that frame, the last one begun
  irq,        \* EXTI0_IRQHandler: not running, in its delay, or sending
  iout,       \* what it still has to send
  rx,         \* the receive buffer of the Wemos
  wpc,        \* where its program is
  part,       \* comdata: what loop has read of a frame
  link,       \* the connection to the broker is up
  subscribed, \* the broker knows the subscription to "iPhone8"
  inbox,      \* commands that have reached the bridge
  relay,      \* the word that has switched DELAY last
  sent,       \* history: the words that have left the lock
  shown,      \* history: the words published on the topic "state"
  synced,     \* history: the last word was sent whole, after a whole frame
  budget      \* what is left of the bounds

lockVars   == <<out, kind, irq, iout>>
bridgeVars == <<wpc, part, link, subscribed, inbox, relay, shown>>
vars       == <<lockVars, bridgeVars, rx, sent, synced, budget>>

Words  == {"open", "close"}
Tokens == UNION {Range(Frame[k]) : k \in DOMAIN Frame}

\* What is left of a frame, from its n-th token on.
From(k, n) == SubSeq(Frame[k], n, Len(Frame[k]))
SubFrames  == {From(k, n) : k \in DOMAIN Frame, n \in 1 .. 7}

TypeOK ==
  /\ out \in SubFrames /\ iout \in SubFrames
  /\ kind \in DOMAIN Frame
  /\ irq \in {"off", "pause", "send"}
  /\ rx \in Seq(Tokens) /\ Len(rx) <= RxSize
  /\ wpc \in {"setup", "connect", "loop", "read"}
  /\ part \in Seq(Tokens \ {":"})
  /\ link \in BOOLEAN /\ subscribed \in BOOLEAN
  /\ inbox \in Seq(Words)
  /\ relay \in Words
  /\ sent \in Seq(Words) /\ shown \in Seq(Words)
  /\ synced \in BOOLEAN
  /\ budget \in [{"frames", "presses", "outages", "commands"} -> Nat]

\* The Wemos has connected and is about to subscribe.
Init ==
  /\ out = <<>> /\ kind = "debug" /\ irq = "off" /\ iout = <<>>
  /\ rx = <<>>
  /\ wpc = "setup" /\ part = <<>> /\ link = TRUE /\ subscribed = FALSE
  /\ inbox = <<>> /\ relay = "close"
  /\ sent = <<>> /\ shown = <<>> /\ synced = FALSE
  /\ budget = [frames |-> MaxFrames, presses |-> MaxPresses,
               outages |-> MaxOutages, commands |-> MaxCommands]

Spend(what) == budget[what] > 0 /\ budget' = [budget EXCEPT ![what] = @ - 1]

-----------------------------------------------------------------------------
(* The lock. *)

\* The words by their last halves.
WordEnded == [en |-> "open", se |-> "close"]

\* What has been sent ends with a ':', or the bridge has stopped waiting for one.
FrameBoundary ==
  IF rx = <<>> THEN wpc # "read" \/ part = <<>> ELSE Last(rx) = ":"

\* A byte leaves: the Wemos stores it, or drops it when its buffer is full.
HasRoom_OffByOne == Len(rx) <= RxSize
HasRoom == Len(rx) < RxSize

Emit(token) ==
  /\ sent' = IF token \in DOMAIN WordEnded THEN Append(sent, WordEnded[token]) ELSE sent
  /\ rx' = IF HasRoom THEN Append(rx, token) ELSE rx
  /\ synced' = (synced /\ HasRoom)

SendBegins(k) == synced' = IF k \in Words THEN FrameBoundary /\ out = <<>> ELSE synced

\* PS_ReadSysPara reports after PS_ValidTempleteNum, whatever the module says.
BeginFrame(k) ==
  /\ irq = "off" /\ out = <<>>
  /\ kind = "plain" => k = "debug"
  /\ Spend("frames")
  /\ out' = Frame[k] /\ kind' = k
  /\ SendBegins(k)
  /\ UNCHANGED <<irq, iout, rx, sent, bridgeVars>>

\* fputc in the main thread.
MainEmit ==
  /\ irq = "off" /\ out # <<>>
  /\ Emit(Head(out))
  /\ out' = Tail(out)
  /\ UNCHANGED <<kind, irq, iout, bridgeVars, budget>>

\* EXTI0: main stands still for 15 ms.
Press ==
  /\ irq = "off"
  /\ Spend("presses")
  /\ irq' = "pause"
  /\ synced' = (synced /\ out = <<>>)
  /\ UNCHANGED <<out, kind, iout, rx, sent, bridgeVars>>

\* The handler's second branch, "open" for the other key when its line is pending
\* too, is EXTI0_BothKeys of DoorGuard: the EXTI2 interrupt behind it has no
\* handler and the lock hangs, so that word would be the last on this line.
PressSend ==
  /\ irq = "pause"
  /\ irq' = "send" /\ iout' = Frame["close"]
  /\ SendBegins("close")
  /\ UNCHANGED <<out, kind, rx, sent, bridgeVars, budget>>

PressEmit ==
  /\ irq = "send"
  /\ Emit(Head(iout))
  /\ iout' = Tail(iout)
  /\ irq' = IF Tail(iout) = <<>> THEN "off" ELSE "send"
  /\ UNCHANGED <<out, kind, bridgeVars, budget>>

-----------------------------------------------------------------------------
(* The bridge: setup, and loop step by step. *)

lockSide == <<lockVars, sent, budget>>

Subscribe ==
  /\ wpc = "setup"
  /\ subscribed' = link
  /\ wpc' = "connect"
  /\ UNCHANGED <<lockSide, rx, part, link, inbox, relay, shown, synced>>

\* client.connect does nothing while the connection is up; else reconnect
\* repeats it until the broker answers, and nothing subscribes again.
Connected_NoRetry == link /\ UNCHANGED link
Connected == link' = TRUE

Connect ==
  /\ wpc = "connect" /\ Connected
  /\ wpc' = "loop"
  /\ UNCHANGED <<lockSide, rx, part, subscribed, inbox, relay, shown, synced>>

\* client.loop: callback for at most one message.
Callback ==
  IF inbox = <<>> THEN UNCHANGED <<inbox, relay, synced>>
  ELSE relay' = Head(inbox) /\ inbox' = Tail(inbox) /\ synced' = FALSE

\* A byte is there: comdata is filled from its beginning.
Begun_WhereItWas == part
Begun == <<>>

ClientLoop ==
  /\ wpc = "loop"
  /\ Callback
  /\ IF rx = <<>> THEN wpc' = "connect" /\ UNCHANGED part
     ELSE wpc' = "read" /\ part' = Begun
  /\ UNCHANGED <<lockSide, rx, link, subscribed, shown>>

ReadToken ==
  /\ wpc = "read" /\ rx # <<>> /\ Head(rx) # ":"
  /\ part' = Append(part, Head(rx))
  /\ rx' = Tail(rx)
  /\ UNCHANGED <<lockSide, wpc, link, subscribed, inbox, relay, shown, synced>>

\* Five milliseconds without a byte: loop gives the frame up.  The lock needs
\* one for a byte (fputc waits for USART3 as well, 9600 baud), so this does not
\* happen while it sends.
Silent_Always == TRUE
Silent == irq = "pause" \/ (irq = "off" /\ out = <<>>)

Dry ==
  /\ wpc = "read" /\ rx = <<>>
  /\ Silent
  /\ wpc' = "connect"
  /\ UNCHANGED <<lockSide, rx, part, link, subscribed, inbox, relay, shown, synced>>

-----------------------------------------------------------------------------
(* send_packet of the bridge: the frame up to its ':' has been read. *)

OnTopic == Len(part) >= 2 /\ part[1] = "sta" /\ part[2] = "te"
Message == SubSeq(part, 3, Len(part))
Halves  == [open |-> <<"op", "en">>, close |-> <<"clo", "se">>]

\* strncmp compares the beginning of the message only.
Means(w) == IsPrefix(Halves[w], Message)

\* publish fails silently while the connection is down.
Published == link

Switch_WhenPublished ==
  IF OnTopic /\ link /\ \E w \in Words : Means(w)
  THEN relay' = CHOOSE w \in Words : Means(w) ELSE UNCHANGED relay
Switch ==
  IF OnTopic /\ \E w \in Words : Means(w)
  THEN relay' = CHOOSE w \in Words : Means(w) ELSE UNCHANGED relay

Show ==
  shown' = IF OnTopic /\ Published /\ \E w \in Words : Message = Halves[w]
           THEN Append(shown, CHOOSE w \in Words : Message = Halves[w]) ELSE shown

ServeFrame ==
  /\ wpc = "read" /\ rx # <<>> /\ Head(rx) = ":"
  /\ rx' = Tail(rx)
  /\ Switch /\ Show
  /\ wpc' = "connect"
  /\ UNCHANGED <<lockSide, part, link, subscribed, inbox, synced>>

-----------------------------------------------------------------------------
(* The broker and the phone. *)

\* A clean session: the broker forgets the subscription, and commands on
\* their way are lost.
LinkDrop ==
  /\ link /\ Spend("outages")
  /\ link' = FALSE /\ subscribed' = FALSE /\ inbox' = <<>>
  /\ UNCHANGED <<lockVars, wpc, part, relay, shown, rx, sent, synced>>

PhoneSend(w) ==
  /\ link /\ subscribed /\ Spend("commands")
  /\ inbox' = Append(inbox, w)
  /\ UNCHANGED <<lockVars, wpc, part, link, subscribed, relay, shown, rx, sent, synced>>

-----------------------------------------------------------------------------
Sender == MainEmit \/ PressSend \/ PressEmit
Wemos  == \/ Subscribe \/ Connect \/ ClientLoop
          \/ ReadToken \/ ServeFrame \/ Dry
Env    == \/ \E k \in Kinds : BeginFrame(k)
          \/ Press \/ LinkDrop
          \/ \E w \in Words : PhoneSend(w)

Next == Sender \/ Wemos \/ Env

Spec == Init /\ [][Next]_vars

\* Both programs run on, and a broker that is gone comes back.
FairSpec == Spec /\ WF_vars(Sender) /\ WF_vars(Wemos)

-----------------------------------------------------------------------------
(* Properties. *)

\* The words in a string of tokens, by the places of their last halves: the k-th has k
\* of them up to its own.
WordEnds(s) == {n \in DOMAIN s : s[n] \in DOMAIN WordEnded}
EndOf(s, k) == CHOOSE n \in WordEnds(s) : Cardinality({m \in WordEnds(s) : m <= n}) = k
WordsIn(s)  == [k \in 1 .. Cardinality(WordEnds(s)) |-> WordEnded[s[EndOf(s, k)]]]

\* The words on their way: in the frame being read, in the buffer, and in the
\* frame being sent.
Reading == IF wpc = "read" THEN part ELSE <<>>
Queue   == WordsIn(Reading \o rx \o out)

Channel == INSTANCE StateChannel WITH queue <- Queue

\* As long as the close key does not cut into a frame and the buffer does not
\* overflow, the line and loop are a reliable channel for the words of the lock,
\* while the connection to the broker comes and goes.
StateChannelSpec == Channel!Spec

\* Every word that is sent switches the relay, although loop waits in reconnect
\* until the broker is back.
StatesArrive == Queue # <<>> ~> Queue = <<>>

\* Whatever is cut, dropped or glued together, the words "open" and "close" that
\* are published are words the lock has sent, each once and in that order.
NothingInvented ==
  \E f \in [DOMAIN shown -> DOMAIN sent] :
    /\ \A n \in DOMAIN shown : shown[n] = sent[f[n]]
    /\ \A n, k \in DOMAIN shown : n < k => f[n] < f[k]

\* Both, and no byte behind the end of the receive buffer.
BridgeInv == TypeOK /\ NothingInvented

\* Garbled bytes do not outlive the next ':' or pause: a word sent whole after
\* either leaves the relay where the lock has put it, broker or no broker.
AllRead == out = <<>> /\ irq = "off" /\ rx = <<>> /\ wpc # "read"
BackInSync == synced /\ AllRead => relay = Last(sent)

(* What comments and the README say. *)

\* MQTT1__.ino: the bridge has subscribed when it waits for messages.
SubscribedWhileUp == link /\ wpc = "loop" => subscribed
=============================================================================

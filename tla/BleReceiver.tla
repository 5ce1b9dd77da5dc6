----------------------------- MODULE BleReceiver -----------------------------
(***************************************************************************)
(* The Bluetooth line: USART3_IRQHandler and BleUnlockTest of                *)
(* stm32/CODE/测试单元/Test.c, called again and again.  The handler may come   *)
(* between any two statements of BleUnlockTest.  strcmp and memset are one    *)
(* step each: a byte takes a millisecond, they take microseconds.  Only      *)
(* printf takes long while a word that is recognised is obeyed and cleared:  *)
(* fputc waits for the same USART at the same 9600 baud, so about as many    *)
(* bytes come meanwhile as it prints, 16 to 18, a whole word with its line   *)
(* end and the beginning of another, but no buffer full of 256.              *)
(***************************************************************************)
EXTENDS Integers, Sequences, SequencesExt

CONSTANTS
  UNLOCK, LOCK,  \* the two commands
  CR, LF, Nul,
  RxSize,        \* the size of USART_RX_BUF
  MaxMeanwhile,  \* bytes that come while BleUnlockTest obeys, prints and forgets a word
  MaxSends       \* bound on the words that are sent

Words == {UNLOCK, LOCK}
RxBytes == {CR, LF} \cup UNION {Range(word) : word \in Words}

ASSUME BleAssumption ==
  /\ UNLOCK # LOCK /\ \A word \in Words : word \in Seq(Range(word))
  /\ \A word \in Words : Len(word) \in 1 .. RxSize - 1
  /\ CR # LF /\ Nul \notin RxBytes /\ MaxSends \in Nat
  /\ {RxSize, MaxMeanwhile} \subseteq Nat
  /\ \A word \in Words : Len(word) + MaxMeanwhile <= RxSize

\* Two neighbouring bytes of a word, within every word's length, that stand in no other
\* place of a word, and of which the second begins no word.
Telling(word, i) ==
  \A other \in Words :
    /\ i + 1 <= Len(other) /\ other[1] # word[i + 1]
    /\ \A n \in 1 .. Len(other) - 1 :
         other[n] = word[i] /\ other[n + 1] = word[i + 1] => other = word /\ n = i

\* "bleunlock" has "eu" and "blelock" has "el", and no line end is in a word.
ASSUME WordsAssumption ==
  \A word \in Words :
    /\ \E i \in 1 .. Len(word) - 1 : Telling(word, i)
    /\ CR \notin Range(word) /\ LF \notin Range(word)

VARIABLES
  line,                   \* bytes on their way
  USART_RX_BUF,
  count, gotCR, deaf,     \* USART_RX_STA: bits 0 to 13, 14 and 15
  BLE_RX_FLAG,
  bpc,                    \* where BleUnlockTest is
  turning,                \* the word it has recognised
  meanwhile,              \* history: bytes that have come since then
  sent, obeyed,           \* history: how often each word was
  calm                    \* history: each word was sent and taken after the one before was obeyed

bleVars == <<line, USART_RX_BUF, count, gotCR, deaf, BLE_RX_FLAG, bpc, turning, meanwhile,
             sent, obeyed, calm>>
rx      == <<USART_RX_BUF, count, gotCR, deaf>>

BleTypeOK ==
  /\ line \in Seq(RxBytes)
  /\ USART_RX_BUF \in [0 .. RxSize - 1 -> RxBytes \cup {Nul}] /\ count \in 0 .. RxSize - 1
  /\ {gotCR, deaf, BLE_RX_FLAG, calm} \subseteq BOOLEAN
  /\ bpc \in {"loop", "turn", "clear", "sta", "flag"} /\ turning \in Words \cup {<<>>}
  /\ meanwhile \in 0 .. MaxMeanwhile
  /\ sent \in [Words -> 0 .. MaxSends] /\ obeyed \in [Words -> Nat]

Empty == [i \in 0 .. RxSize - 1 |-> Nul]
Zero  == [word \in Words |-> 0]

BleInit ==
  /\ line = <<>> /\ USART_RX_BUF = Empty /\ count = 0 /\ gotCR = FALSE /\ deaf = FALSE
  /\ BLE_RX_FLAG = FALSE /\ bpc = "loop" /\ turning = <<>> /\ meanwhile = 0
  /\ sent = Zero /\ obeyed = Zero /\ calm = TRUE

Total(counts) == counts[UNLOCK] + counts[LOCK]

-----------------------------------------------------------------------------
(* The phone *)

SendWord ==
  /\ Total(sent) < MaxSends
  /\ \E word \in Words, end \in {<<>>, <<CR, LF>>} :
       /\ line' = line \o word \o end
       /\ sent' = [sent EXCEPT ![word] = @ + 1]
  /\ calm' = (calm /\ line = <<>> /\ bpc = "loop" /\ Total(sent) = Total(obeyed))
  /\ UNCHANGED <<rx, BLE_RX_FLAG, bpc, turning, meanwhile, obeyed>>

-----------------------------------------------------------------------------
(* The handler *)

StaZero == count' = 0 /\ gotCR' = FALSE /\ deaf' = FALSE

\* Behind the last place the next byte goes to the first.
RxStored_Behind(byte) ==
  USART_RX_BUF' = [USART_RX_BUF EXCEPT ![count] = byte] /\ count' = count + 1
RxStored(byte) ==
  USART_RX_BUF' = [USART_RX_BUF EXCEPT ![count] = byte] /\ count' = (count + 1) % RxSize

Received(byte) ==
  \/ deaf /\ UNCHANGED rx
  \/ ~deaf /\ gotCR /\ byte # LF /\ StaZero /\ UNCHANGED USART_RX_BUF
  \/ ~deaf /\ gotCR /\ byte = LF /\ deaf' = TRUE /\ UNCHANGED <<USART_RX_BUF, count, gotCR>>
  \/ ~deaf /\ ~gotCR /\ byte = CR /\ gotCR' = TRUE /\ UNCHANGED <<USART_RX_BUF, count, deaf>>
  \/ ~deaf /\ ~gotCR /\ byte # CR /\ RxStored(byte) /\ UNCHANGED <<gotCR, deaf>>

USART3_IRQHandler ==
  /\ line # <<>> /\ line' = Tail(line)
  /\ Received(Head(line))
  /\ BLE_RX_FLAG' = TRUE
  /\ IF bpc = "loop" THEN meanwhile' = 0
     ELSE meanwhile < MaxMeanwhile /\ meanwhile' = meanwhile + 1
  /\ UNCHANGED <<bpc, turning, sent, obeyed, calm>>

-----------------------------------------------------------------------------
(* BleUnlockTest *)

\* strcmp: the bytes up to the first Nul.
Compares(word) ==
  /\ \A i \in 1 .. Len(word) : USART_RX_BUF[i - 1] = word[i]
  /\ USART_RX_BUF[Len(word)] = Nul

\* A word that is recognised before its line has ended is not what the phone sent
\* last.
Recognised ==
  /\ bpc = "loop" /\ BLE_RX_FLAG
  /\ \E word \in Words : Compares(word) /\ turning' = word
  /\ bpc' = "turn" /\ calm' = (calm /\ line = <<>>)
  /\ UNCHANGED <<line, rx, BLE_RX_FLAG, meanwhile, sent, obeyed>>

TIM_SetCompare3 ==
  /\ bpc = "turn" /\ bpc' = "clear" /\ obeyed' = [obeyed EXCEPT ![turning] = @ + 1]
  /\ UNCHANGED <<line, rx, BLE_RX_FLAG, turning, meanwhile, sent, calm>>

Cleared_Not == UNCHANGED USART_RX_BUF
Cleared == USART_RX_BUF' = Empty

memset ==
  /\ bpc = "clear" /\ bpc' = "sta" /\ Cleared
  /\ UNCHANGED <<line, count, gotCR, deaf, BLE_RX_FLAG, turning, meanwhile, sent, obeyed, calm>>

StaAfter_LengthOnly == count' = 0 /\ UNCHANGED <<gotCR, deaf>>
StaAfter == StaZero

ClearsSta ==
  /\ bpc = "sta" /\ bpc' = "flag" /\ StaAfter
  /\ UNCHANGED <<line, USART_RX_BUF, BLE_RX_FLAG, turning, meanwhile, sent, obeyed, calm>>

ClearsFlag ==
  /\ bpc = "flag" /\ bpc' = "loop" /\ BLE_RX_FLAG' = FALSE /\ turning' = <<>>
  /\ meanwhile' = 0 /\ UNCHANGED <<line, rx, sent, obeyed, calm>>

BleUnlockTest == Recognised \/ TIM_SetCompare3 \/ memset \/ ClearsSta \/ ClearsFlag

BleNext == SendWord \/ USART3_IRQHandler \/ BleUnlockTest

-----------------------------------------------------------------------------
(* Properties *)

\* The lock obeys no word more often than it was sent, with bytes of the next words
\* and line ends coming between any two statements that recognise and forget it.
ObeysWhatWasSent ==
  \A word \in Words : obeyed[word] <= sent[word]

\* The same, and no byte behind the end of USART_RX_BUF.
BleInv == BleTypeOK /\ ObeysWhatWasSent

\* A word that is sent after the one before was obeyed, with its line ended or not,
\* is obeyed, unless it was recognised before its own line end had come: then the
\* line end is taken for a line of its own, and the receiver may be deaf for good.
CalmWordsObeyed ==
  calm /\ line # <<>> ~> ~calm \/ (line = <<>> /\ obeyed = sent)
=============================================================================

---------------------------- MODULE As608Link ----------------------------
(***************************************************************************)
(* The serial link between the STM32 and the AS608 fingerprint module:     *)
(* stm32/CODE/AS608/as608.c (commands, JudgeStr, PS_HandShake), usart2.c   *)
(* (the USART2 receive interrupt) and TIM7_IRQHandler of timer.c (a pause  *)
(* of 10 ms ends a batch of bytes).                                        *)
(*                                                                         *)
(* Commands are numbered 1, 2, ... in the order they are sent.  An answer  *)
(* packet is three units: "sync" (byte 0, 0xEF), "head" (bytes 1..8, which *)
(* end in a NUL byte) and "code" (byte 9, the confirmation code, and the   *)
(* rest).  Each unit remembers the command it answers in field of, which   *)
(* the program cannot see: only the theorems and invariants read it.       *)
(***************************************************************************)
EXTENDS Integers

CONSTANTS
  MaxRecv,     \* USART2_MAX_RECV_LEN, in units
  MaxCmds,     \* bound on the commands sent in a behaviour
  MaxIgnore,   \* bound on the commands the module leaves unanswered
  Timely,      \* the module answers while JudgeStr waits, or not at all
  RxBlocking   \* EXTI0_IRQHandler may keep the USART2 interrupt pending

ASSUME LinkAssumption ==
  /\ MaxRecv \in Nat /\ MaxRecv >= 3
  /\ MaxCmds \in Nat /\ MaxIgnore \in Nat
  /\ Timely \in BOOLEAN
  /\ RxBlocking \in BOOLEAN

VARIABLES
  pc,      \* where the main thread is in the driver
  cmd,     \* number of the last command sent
  result,  \* what the last PS_ call returned
  found,   \* the pointer JudgeStr returned, as an index in buf
  cnt,     \* USART2_RX_STA[14:0], the units received
  done,    \* USART2_RX_STA[15], a whole batch is there
  buf,     \* USART2_RX_BUF
  tim7,    \* TIM7 is counting
  isr7,    \* the count TIM7_IRQHandler has loaded, or NotRunning
  served,  \* the last command the module has taken
  ignored, \* how many of them it has left unanswered
  wpos,    \* the units wpos .. wend-1 of its answer
  wend     \*   are still on the wire

hostVars   == <<pc, cmd, result, found>>
rxVars     == <<cnt, done, buf, tim7, isr7>>
moduleVars == <<served, ignored, wpos, wend>>
vars       == <<hostVars, rxVars, moduleVars>>

Parts      == <<"sync", "head", "code">>
Unit(i, k) == [part |-> Parts[i + 1], of |-> k]
Blank      == [part |-> "zero", of |-> 0]
Cells      == [part : {"sync", "head", "code", "zero"}, of : Nat]
Slots      == 0 .. (MaxRecv - 1)
NotRunning == -1
Timeout    == -1   \* ensure = 0xff when JudgeStr gives up
Garbage    == -2   \* data[9] falls on a byte that is no confirmation code
Zero       == 0    \* data[9] falls on a byte of buf that was never written
Unanswered == -3   \* no call has returned since the last command was sent

TypeOK ==
  /\ pc \in {"boot", "shake", "idle", "sent", "poll", "match", "read"}
  /\ cmd \in 0 .. MaxCmds
  /\ result \in Nat \cup {Timeout, Garbage, Unanswered}
  /\ found \in Slots
  /\ cnt \in 0 .. MaxRecv
  /\ done \in BOOLEAN
  /\ buf \in [Slots -> Cells]
  /\ tim7 \in BOOLEAN
  /\ isr7 \in 0 .. MaxRecv \cup {NotRunning}
  /\ served \in 0 .. cmd
  /\ ignored \in 0 .. MaxIgnore
  /\ wpos \in 0 .. 3
  /\ wend \in wpos .. 3

\* After main.c has called usart2_init, which stops TIM7, and then
\* TIM7_Int_Init, which starts it again: the first batch ends by itself.
Init ==
  /\ pc = "boot" /\ cmd = 0 /\ result = Unanswered /\ found = 0
  /\ cnt = 0 /\ done = FALSE /\ buf = [i \in Slots |-> Blank]
  /\ tim7 = TRUE /\ isr7 = NotRunning
  /\ served = 0 /\ ignored = 0 /\ wpos = 3 /\ wend = 3

(***************************************************************************)
(* What the module and the wire still owe the host.  In a timely run the   *)
(* host's waits (200 ms in PS_HandShake, waittime ms in JudgeStr) end only *)
(* when nothing is owed.                                                   *)
(***************************************************************************)
WireEmpty == wpos = wend
Settled   == served = cmd /\ WireEmpty /\ isr7 = NotRunning /\ (cnt = 0 \/ done)

\* The main thread runs only while no interrupt handler does.
Main == isr7 = NotRunning

ClearSta == cnt' = 0 /\ done' = FALSE

-----------------------------------------------------------------------------
(* PS_HandShake: ShakeHand of main.c repeats it until it returns 0, and     *)
(* comes back to it after other commands when those have failed.            *)

HandShakeSend ==
  /\ Main /\ pc \in {"boot", "idle"}
  /\ cmd < MaxCmds
  /\ cmd' = cmd + 1
  /\ result' = Unanswered
  /\ pc' = "shake"
  /\ UNCHANGED <<found, rxVars, moduleVars>>

AnswerInFront == buf[0].part = "sync" /\ buf[1].part = "head"

\* A batch that is not an answer is thrown away as well.
ClearShaken_OnlyOnSuccess ==
  IF done /\ AnswerInFront THEN ClearSta ELSE UNCHANGED <<cnt, done>>
ClearShaken == IF done THEN ClearSta ELSE UNCHANGED <<cnt, done>>

HandShakeCheck ==
  /\ Main /\ pc = "shake"
  /\ Timely => Settled
  /\ pc' = IF done /\ AnswerInFront THEN "idle" ELSE "boot"
  /\ ClearShaken
  /\ UNCHANGED <<cmd, result, found, buf, tim7, isr7, moduleVars>>

-----------------------------------------------------------------------------
(* A PS_ command: send it, wait for the answer in JudgeStr, read data[9].    *)
(* PS_GetImage, ..., PS_ReadSysPara are all of this form.                    *)

PS_Send ==
  /\ Main /\ pc = "idle"
  /\ cmd < MaxCmds
  /\ cmd' = cmd + 1
  /\ result' = Unanswered
  /\ pc' = "sent"
  /\ UNCHANGED <<found, rxVars, moduleVars>>

JudgeStart ==
  /\ Main /\ pc = "sent"
  /\ ClearSta
  /\ pc' = "poll"
  /\ UNCHANGED <<cmd, result, found, buf, tim7, isr7, moduleVars>>

\* A batch has ended: USART2_RX_STA = 0 comes before the buffer is searched.
JudgeTake ==
  /\ Main /\ pc = "poll"
  /\ done
  /\ ClearSta
  /\ pc' = "match"
  /\ UNCHANGED <<cmd, result, found, buf, tim7, isr7, moduleVars>>

\* strstr finds the header at p: NUL bytes end the string, and every unit but
\* "sync" holds one, so only further "sync" units can stand before it.
HeaderAt(p) ==
  /\ p + 1 \in Slots
  /\ \A q \in 0 .. p : buf[q].part = "sync"
  /\ buf[p + 1].part = "head"

JudgeMatch ==
  /\ Main /\ pc = "match"
  /\ \/ \E p \in Slots : HeaderAt(p) /\ found' = p /\ pc' = "read"
     \/ (\A p \in Slots : ~HeaderAt(p)) /\ pc' = "poll" /\ UNCHANGED found
  /\ UNCHANGED <<cmd, result, rxVars, moduleVars>>

CodeOf(cell) == IF cell.part = "code" THEN cell.of
                ELSE IF cell.part = "zero" THEN Zero ELSE Garbage

PS_Return ==
  /\ Main /\ pc = "read"
  /\ result' = IF found + 2 \in Slots THEN CodeOf(buf[found + 2]) ELSE Garbage
  /\ pc' = "idle"
  /\ UNCHANGED <<cmd, found, rxVars, moduleVars>>

\* waittime polls have passed without an answer: ensure = 0xff.
PS_Timeout ==
  /\ Main /\ pc = "poll"
  /\ Timely => Settled /\ ~done
  /\ result' = Timeout
  /\ pc' = "idle"
  /\ UNCHANGED <<cmd, found, rxVars, moduleVars>>

-----------------------------------------------------------------------------
(* USART2_IRQHandler: one unit of the answer arrives. *)

\* The first unit of a batch starts TIM7, whether or not it still counts.
RxArm_Never == UNCHANGED tim7
RxArm == tim7' = (tim7 \/ cnt = 0)

Arrive == wpos < wend /\ wpos' = wpos + 1 /\ UNCHANGED <<served, ignored, wend>>

RoomLeft_OffByOne == cnt <= MaxRecv
RoomLeft == cnt < MaxRecv

RxStore ==
  /\ Arrive
  /\ ~done /\ RoomLeft
  /\ isr7 \in {NotRunning, cnt}
  /\ buf' = [buf EXCEPT ![cnt] = Unit(wpos, served)]
  /\ cnt' = cnt + 1
  /\ RxArm
  /\ UNCHANGED <<hostVars, done, isr7>>

\* The buffer is full: the batch is marked complete, TIM7 keeps counting.
RxFull ==
  /\ Arrive
  /\ ~done /\ ~RoomLeft
  /\ done' = TRUE
  /\ UNCHANGED <<hostVars, cnt, buf, tim7, isr7>>

\* The last batch has not been taken yet: the byte is dropped.
RxDrop ==
  /\ Arrive
  /\ done
  /\ UNCHANGED <<hostVars, rxVars>>

(***************************************************************************)
(* TIM7_IRQHandler: USART2_RX_STA |= 1<<15 is a load and a store, and the  *)
(* receive interrupt has the higher priority and may come between the two, *)
(* once: the two are instructions and the bytes 0.2 ms apart.              *)
(* Each byte restarts the count (TIM7->CNT = 0) and an answer is sent       *)
(* without pauses, so 10 ms pass only between answers.                     *)
(***************************************************************************)
Silence_NotRestarted == TRUE
Silence == WireEmpty \/ wpos = 0

Tim7Load ==
  /\ tim7 /\ isr7 = NotRunning
  /\ Silence
  /\ isr7' = cnt
  /\ UNCHANGED <<hostVars, cnt, done, buf, tim7, moduleVars>>

Tim7Store ==
  /\ isr7 # NotRunning
  /\ cnt' = isr7
  /\ done' = TRUE
  /\ tim7' = FALSE
  /\ isr7' = NotRunning
  /\ UNCHANGED <<hostVars, buf, moduleVars>>

-----------------------------------------------------------------------------
(* The module takes the commands in order; it answers each, or never does. *)
(* Its answer to a command cannot come before JudgeStr has started, because *)
(* the last byte of the command is still being shifted out then, unless an  *)
(* interrupt handler holds the main thread between the two.                 *)

Accept(last) ==
  /\ served < cmd
  /\ WireEmpty
  /\ pc = "sent" => RxBlocking \/ served + 1 < cmd
  /\ served' = served + 1
  /\ wpos' = 0 /\ wend' = last
  /\ UNCHANGED <<hostVars, rxVars>>

Answer == Accept(3) /\ UNCHANGED ignored
Ignore == Accept(0) /\ ignored < MaxIgnore /\ ignored' = ignored + 1

(***************************************************************************)
(* EXTI0_IRQHandler has the preemption priority of USART2_IRQHandler and   *)
(* runs for longer than an answer takes: the data register keeps the first *)
(* unit that arrives meanwhile and the others overrun it.                  *)
(***************************************************************************)
Overrun ==
  /\ RxBlocking
  /\ wend > wpos + 1
  /\ wend' = wpos + 1
  /\ UNCHANGED <<hostVars, rxVars, served, ignored, wpos>>

-----------------------------------------------------------------------------
Host == \/ HandShakeSend \/ HandShakeCheck \/ PS_Send \/ JudgeStart
        \/ JudgeTake \/ JudgeMatch \/ PS_Return \/ PS_Timeout
Rx   == RxStore \/ RxFull \/ RxDrop \/ Tim7Load \/ Tim7Store
Next == Host \/ Rx \/ Answer \/ Ignore \/ Overrun

Spec == Init /\ [][Next]_vars

\* The loops of the driver go on, interrupts are taken, and the module takes
\* the commands it is sent.
Fairness ==
  /\ WF_vars(Host) /\ WF_vars(JudgeTake) /\ WF_vars(PS_Timeout)
  /\ WF_vars(Rx) /\ WF_vars(Tim7Load) /\ WF_vars(Answer)

FairSpec == Spec /\ Fairness

-----------------------------------------------------------------------------
(* Properties. *)

\* A PS_ call returns the confirmation code of its own command, or 0xff after
\* the wait (as608.c: "returns the confirmation word of the module").
OwnAnswer == pc = "idle" => result \in {Unanswered, Timeout, cmd}

\* A batch that has begun will be ended: TIM7 counts until the flag is set, for
\* every order of the clears in the driver and the two interrupt handlers.
BatchWillEnd == cnt > 0 /\ ~done => tim7

-----------------------------------------------------------------------------
(* The inductive invariant of a timely link without receive blocking. *)

Quiet == cnt = 0 /\ ~done /\ ~tim7 /\ isr7 = NotRunning

\* The first n units of the answer to the last command lead the buffer.
Holds(n) == \A i \in 0 .. 2 : i < n => buf[i] = Unit(i, cmd)

\* The answer is on its way, with every unit that has left the wire in buf.
Receiving ==
  /\ wend = 3 /\ ~done /\ cnt = wpos /\ Holds(cnt)
  /\ tim7 <=> cnt > 0
  /\ isr7 # NotRunning => wpos = 3 /\ isr7 = 3

Received == wend = 3 /\ wpos = 3 /\ cnt = 3 /\ done /\ ~tim7
            /\ isr7 = NotRunning /\ Holds(3)

\* While ShakeHand tries, the timer left running may end a batch too early.
ShakeInv ==
  /\ result = Unanswered
  /\ cnt <= wpos /\ (WireEmpty => wend = 3 \/ cnt = 0)
  /\ isr7 <= cnt
  /\ done => ~tim7 /\ isr7 = NotRunning
  /\ served < cmd => cnt = 0 /\ WireEmpty
  /\ pc = "boot" => served = cmd /\ WireEmpty /\ cnt = 0

PollInv ==
  \/ Quiet /\ WireEmpty
  \/ served = cmd /\ (Receiving \/ Received)

LinkInv ==
  /\ cmd <= served + 1
  /\ wend \in {0, 3}
  /\ pc \in {"boot", "shake"} => ShakeInv
  /\ pc = "idle" => Quiet /\ WireEmpty /\ served = cmd /\ OwnAnswer
  /\ pc = "sent" => Quiet /\ WireEmpty /\ served + 1 = cmd
  /\ pc = "poll" => PollInv
  /\ pc \in {"match", "read"} => Quiet /\ WireEmpty /\ served = cmd /\ Holds(3)
  /\ pc = "read" => found = 0

=============================================================================

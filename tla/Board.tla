-------------------------------- MODULE Board --------------------------------
(***************************************************************************)
(* The parts of the lock's board that main uses one at a time, put together  *)
(* for one run: the counter of the delays, the keypad, the card reader, the  *)
(* Bluetooth line and the enrolment of fingers.  They do not interact here,   *)
(* so a behaviour is about one of them, the subject.                        *)
(***************************************************************************)
EXTENDS SysTickDelay, KeyMatrix, CardReader, BleReceiver, Enrolment

VARIABLE subject

vars == <<subject, delayVars, keyVars, cardVars, bleVars, enrolVars>>

Subjects == {"delay", "keys", "cards", "bluetooth", "enrolment"}

Init ==
  /\ subject \in Subjects
  /\ DelayInit /\ KeyInit /\ CardInit /\ BleInit /\ EnrolInit
  /\ subject # "cards" => block = [c \in Cards |-> None]

On(part) == subject = part /\ UNCHANGED subject

Next ==
  \/ On("delay") /\ DelayNext /\ UNCHANGED <<keyVars, cardVars, bleVars, enrolVars>>
  \/ On("keys") /\ KeyNext /\ UNCHANGED <<delayVars, cardVars, bleVars, enrolVars>>
  \/ On("cards") /\ CardNext /\ UNCHANGED <<delayVars, keyVars, bleVars, enrolVars>>
  \/ On("bluetooth") /\ BleNext /\ UNCHANGED <<delayVars, keyVars, cardVars, enrolVars>>
  \/ On("enrolment") /\ EnrolNext /\ UNCHANGED <<delayVars, keyVars, cardVars, bleVars>>

\* The counter counts, the processor runs, the interrupt of a byte is taken, and a
\* user tries the card reader again and again; nobody has to press a key, to move a
\* card or a finger, or to send anything.
Fairness ==
  /\ WF_delayVars(Tick) /\ WF_delayVars(MainStep) /\ WF_delayVars(HandlerStep)
  /\ WF_cardVars(ReaderStep) /\ WF_cardVars(subject = "cards" /\ Starts(FALSE))
  /\ WF_bleVars(USART3_IRQHandler) /\ WF_bleVars(BleUnlockTest)
  /\ WF_enrolVars(EnrolStep)

Spec == Init /\ [][Next]_vars /\ Fairness
=============================================================================

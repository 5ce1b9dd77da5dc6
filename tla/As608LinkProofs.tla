------------------------- MODULE As608LinkProofs -------------------------
(* Theorems about As608Link, for every size of the receive buffer and every *)
(* number of commands.                                                      *)
EXTENDS As608Link, TLAPS

USE LinkAssumption DEF LinkAssumption

-----------------------------------------------------------------------------
\* Clearing USART2_RX_STA, in the form the provers use it.
LEMMA Cleared == ClearSta => cnt' = 0 /\ done' \in BOOLEAN /\ ~done'
  BY DEF ClearSta

\* The types hold at the beginning,
LEMMA TypeInit == Init => TypeOK
<1>1. Init => done \in BOOLEAN /\ tim7 \in BOOLEAN
  BY DEF Init
<1> QED
  BY <1>1 DEF Init, TypeOK, Slots, Cells, Blank, Unanswered, NotRunning

\* and are kept by every step of driver, module and handlers.
LEMMA TypeNext == TypeOK /\ [Next]_vars => TypeOK'
<1> SUFFICES ASSUME TypeOK, [Next]_vars PROVE TypeOK'
  OBVIOUS
<1> USE DEF TypeOK, NotRunning, Main, moduleVars, rxVars, hostVars
<1>1. CASE HandShakeSend
  BY <1>1 DEF HandShakeSend
<1>2. CASE HandShakeCheck
  BY <1>2, Cleared DEF HandShakeCheck, ClearShaken
<1>3. CASE PS_Send
  BY <1>3 DEF PS_Send
<1>4. CASE JudgeStart
  BY <1>4, Cleared DEF JudgeStart
<1>5. CASE JudgeTake
  BY <1>5, Cleared DEF JudgeTake
<1>6. CASE JudgeMatch
  BY <1>6 DEF JudgeMatch
<1>7. CASE PS_Return
  <2>1. found + 2 \in Slots => CodeOf(buf[found + 2]) \in Nat \cup {Garbage}
    BY DEF CodeOf, Cells, Zero
  <2> QED
    BY <1>7, <2>1 DEF PS_Return
<1>8. CASE PS_Timeout
  BY <1>8 DEF PS_Timeout
<1>9. CASE RxStore
  <2>1. Unit(wpos, served) \in Cells
    BY <1>9 DEF RxStore, Arrive, Unit, Cells, Parts
  <2>2. buf' \in [Slots -> Cells]
    BY <1>9, <2>1 DEF RxStore
  <2> QED
    BY <1>9, <2>2 DEF RxStore, Arrive, RoomLeft, RxArm
<1>10. CASE RxFull
  BY <1>10 DEF RxFull, Arrive
<1>11. CASE RxDrop
  BY <1>11 DEF RxDrop, Arrive
<1>12. CASE Tim7Load
  BY <1>12 DEF Tim7Load
<1>13. CASE Tim7Store
  BY <1>13 DEF Tim7Store
<1>14. CASE Answer
  BY <1>14 DEF Answer, Accept
<1>15. CASE Ignore
  BY <1>15 DEF Ignore, Accept
<1>16. CASE Overrun
  BY <1>16 DEF Overrun
<1>17. CASE UNCHANGED vars
  BY <1>17 DEF vars
<1> QED
  BY <1>1, <1>2, <1>3, <1>4, <1>5, <1>6, <1>7, <1>8, <1>9, <1>10, <1>11,
     <1>12, <1>13, <1>14, <1>15, <1>16, <1>17 DEF Next, Host, Rx

\* Every variable keeps its type: the receive interrupt never writes behind
\* USART2_RX_BUF, whatever the module sends and when.
THEOREM TypeCorrect == Spec => []TypeOK
  BY TypeInit, TypeNext, PTL DEF Spec

-----------------------------------------------------------------------------
\* TIM7 is stopped only with the batch marked complete, and a batch begun only with TIM7 started.
LEMMA BatchNext == TypeOK /\ BatchWillEnd /\ [Next]_vars => BatchWillEnd'
<1> SUFFICES ASSUME TypeOK, BatchWillEnd, [Next]_vars PROVE BatchWillEnd'
  OBVIOUS
<1> USE DEF TypeOK, BatchWillEnd, hostVars, rxVars, moduleVars
<1>1. CASE UNCHANGED <<cnt, done, tim7>>
  BY <1>1
<1>2. CASE HandShakeCheck \/ JudgeStart \/ JudgeTake
  BY <1>2, Cleared DEF HandShakeCheck, ClearShaken, JudgeStart, JudgeTake
<1>3. CASE RxStore
  <2>1. cnt = 0 \/ tim7
    BY <1>3 DEF RxStore
  <2>2. tim7' = (tim7 \/ cnt = 0)
    BY <1>3 DEF RxStore, RxArm
  <2>3. tim7'
    BY <2>1, <2>2, Zenon
  <2> QED
    BY <2>3
<1>4. CASE RxFull \/ Tim7Store
  <2>1. done'
    BY <1>4 DEF RxFull, Tim7Store
  <2> QED
    BY <2>1
<1>5. CASE HandShakeSend \/ PS_Send \/ JudgeMatch \/ PS_Return \/ PS_Timeout
  <2>1. UNCHANGED rxVars
    BY <1>5 DEF HandShakeSend, PS_Send, JudgeMatch, PS_Return, PS_Timeout
  <2> QED
    BY <2>1, <1>1
<1>6. CASE RxDrop \/ Tim7Load \/ Answer \/ Ignore \/ Overrun
  BY <1>6, <1>1 DEF RxDrop, Tim7Load, Answer, Ignore, Accept, Overrun
<1> QED
  BY <1>1, <1>2, <1>3, <1>4, <1>5, <1>6 DEF Next, Host, Rx, vars

\* A batch that has begun always has a running timer to end it, also when the
\* driver clears USART2_RX_STA between two bytes of it.
THEOREM BatchTimer == Spec => []BatchWillEnd
<1>1. Init => BatchWillEnd
  BY DEF Init, BatchWillEnd
<1> QED
  BY <1>1, TypeCorrect, BatchNext, PTL DEF Spec

-----------------------------------------------------------------------------
(* The link with a module that answers in time and receive interrupts that  *)
(* are never kept waiting.                                                  *)

\* The invariant of the link holds at the beginning,
LEMMA LinkInit == Init => LinkInv
  BY DEF Init, LinkInv, ShakeInv, WireEmpty, Unanswered, NotRunning

\* is kept by the driver: a command is sent when nothing of an older one is on its way,
LEMMA LinkHost ==
  ASSUME Timely, ~RxBlocking, TypeOK, TypeOK', LinkInv, Host
  PROVE  LinkInv'
<1> USE DEF TypeOK, LinkInv, Main, NotRunning, moduleVars, rxVars, hostVars,
        WireEmpty
<1>1. CASE HandShakeSend
  BY <1>1 DEF HandShakeSend, ShakeInv, Quiet
<1>2. CASE HandShakeCheck
  <2>1. Settled /\ UNCHANGED <<cmd, result, tim7, isr7, moduleVars>>
    BY <1>2 DEF HandShakeCheck
  <2>2. cnt' = 0 /\ ~done' /\ (done => ~tim7)
    BY <1>2, <2>1, Cleared DEF HandShakeCheck, ClearShaken, Settled, ShakeInv
  <2>3. pc' \in {"idle", "boot"}
    BY <1>2 DEF HandShakeCheck
  <2> QED
    BY <1>2, <2>1, <2>2, <2>3
    DEF HandShakeCheck, Settled, ShakeInv, Quiet, OwnAnswer
<1>3. CASE PS_Send
  BY <1>3 DEF PS_Send, Quiet
<1>4. CASE JudgeStart
  BY <1>4, Cleared DEF JudgeStart, PollInv, Quiet
<1>5. CASE JudgeTake
  <2>1. served = cmd /\ Received
    BY <1>5 DEF JudgeTake, PollInv, Quiet, Receiving
  <2> QED
    BY <1>5, <2>1, Cleared DEF JudgeTake, Received, Quiet, Holds
<1>6. CASE JudgeMatch
  <2>1. HeaderAt(0) /\ \A p \in Slots : HeaderAt(p) => p = 0
    BY <1>6 DEF JudgeMatch, HeaderAt, Holds, Unit, Parts, Slots
  <2> QED
    BY <1>6, <2>1 DEF JudgeMatch, Quiet, Holds, Slots
<1>7. CASE PS_Return
  <2>1. found = 0 /\ 2 \in Slots /\ CodeOf(buf[2]) = cmd
    BY <1>7 DEF PS_Return, Holds, Unit, Parts, CodeOf, Slots
  <2> QED
    BY <1>7, <2>1 DEF PS_Return, Quiet, OwnAnswer
<1>8. CASE PS_Timeout
  BY <1>8 DEF PS_Timeout, Settled, PollInv, Quiet, Receiving, Received,
     OwnAnswer
<1> QED
  BY <1>1, <1>2, <1>3, <1>4, <1>5, <1>6, <1>7, <1>8 DEF Host

\* (the receive interrupt starts TIM7 with the first byte of a batch)
LEMMA Armed == RxArm => (tim7' <=> tim7 \/ cnt = 0)
  BY Zenon DEF RxArm

\* by the receive interrupt,
LEMMA LinkRx ==
  ASSUME Timely, ~RxBlocking, TypeOK, TypeOK', LinkInv,
         Rx \/ Answer \/ Ignore
  PROVE  LinkInv'
<1> USE DEF TypeOK, LinkInv, Main, NotRunning, moduleVars, rxVars, hostVars,
        WireEmpty
<1>1. CASE RxStore
  <2>1. pc \in {"shake", "poll"} /\ UNCHANGED <<pc, cmd, result, served, wend, done, isr7>>
    BY <1>1 DEF RxStore, Arrive, Quiet, ShakeInv
  <2>2. wpos' = wpos + 1 /\ cnt' = cnt + 1 /\ ~done /\ wpos < wend
    BY <1>1 DEF RxStore, Arrive
  <2>3. CASE pc = "shake"
    BY <1>1, <2>1, <2>2, <2>3 DEF RxStore, ShakeInv
  <2>4. CASE pc = "poll"
    <3>1. served = cmd /\ Receiving
      BY <2>2, <2>4 DEF PollInv, Received
    <3>2. buf' = [buf EXCEPT ![cnt] = Unit(cnt, cmd)] /\ cnt \in Slots
      BY <1>1, <3>1 DEF RxStore, Receiving, Slots
    <3>3. Holds(cnt)'
      BY <3>1, <3>2, <2>1, <2>2 DEF Holds, Receiving, Slots
    <3>4. tim7'
      BY <1>1, <3>1, Armed DEF RxStore, Receiving
    <3>5. Receiving'
      BY <2>1, <2>2, <3>1, <3>3, <3>4 DEF Receiving, Holds
    <3> QED
      BY <2>1, <2>4, <3>1, <3>5 DEF PollInv
  <2> QED
    BY <2>1, <2>3, <2>4
<1>2. CASE RxFull
  <2>1. cnt = MaxRecv /\ wpos < 3
    BY <1>2 DEF RxFull, Arrive, RoomLeft
  <2> QED
    BY <1>2, <2>1 DEF RxFull, Arrive, ShakeInv, PollInv, Quiet, Receiving,
       Received
<1>3. CASE RxDrop
  BY <1>3 DEF RxDrop, Arrive, ShakeInv, PollInv, Quiet, Receiving, Received
<1>4. CASE Tim7Load
  BY <1>4 DEF Tim7Load, Silence, ShakeInv, PollInv, Quiet, Receiving, Received, Holds
<1>5. CASE Tim7Store
  <2>1. done' /\ ~tim7' /\ cnt' = isr7 /\ isr7' = NotRunning
        /\ UNCHANGED <<hostVars, buf, moduleVars>>
    BY <1>5 DEF Tim7Store
  <2>2. pc \in {"boot", "shake", "poll"}
    BY <1>5 DEF Tim7Store, Quiet
  <2> QED
    BY <1>5, <2>1, <2>2 DEF Tim7Store, ShakeInv, PollInv, Quiet, Receiving,
       Received, Holds
<1>6. CASE Answer \/ Ignore
  <2>1. /\ served < cmd /\ served' = cmd
        /\ wpos' = 0 /\ wend' \in {0, 3}
        /\ UNCHANGED <<hostVars, rxVars>>
    BY <1>6 DEF Answer, Ignore, Accept
  <2>2. pc \in {"shake", "poll"}
    BY <1>6, <2>1 DEF Answer, Ignore, Accept, ShakeInv
  <2>3. CASE pc = "shake"
    BY <2>1, <2>3 DEF ShakeInv
  <2>4. CASE pc = "poll"
    <3>1. Quiet
      BY <2>1, <2>4 DEF PollInv
    <3>2. wend' = 0 \/ Receiving'
      BY <2>1, <3>1 DEF Quiet, Receiving, Holds
    <3> QED
      BY <2>1, <2>4, <3>1, <3>2 DEF Quiet, PollInv
  <2> QED
    BY <2>1, <2>2, <2>3, <2>4
<1> QED
  BY <1>1, <1>2, <1>3, <1>4, <1>5, <1>6 DEF Rx

\* and by every step of a timely module.
LEMMA LinkNext ==
  ASSUME Timely, ~RxBlocking, TypeOK, TypeOK', LinkInv, [Next]_vars
  PROVE  LinkInv'
<1>1. CASE UNCHANGED vars
  BY <1>1 DEF vars, hostVars, rxVars, moduleVars, LinkInv, ShakeInv, Quiet,
     WireEmpty, OwnAnswer, PollInv, Receiving, Received, Holds
<1>2. CASE Overrun
  BY <1>2 DEF Overrun
<1> QED
  BY <1>1, <1>2, LinkHost, LinkRx DEF Next

\* When the module answers in time and no handler keeps receive interrupts
\* pending, a PS_ call returns the confirmation code of its own command or
\* 0xff after the wait, and leaves nothing of it behind in USART2_RX_STA.
THEOREM LinkSafe ==
  ASSUME Timely, ~RxBlocking
  PROVE  Spec => [](LinkInv /\ OwnAnswer)
<1>1. Spec => [](TypeOK /\ LinkInv)
  <2>1. TypeOK /\ LinkInv /\ [Next]_vars => (TypeOK /\ LinkInv)'
    BY TypeNext, LinkNext
  <2> QED
    BY TypeInit, LinkInit, <2>1, PTL DEF Spec
<1>2. LinkInv => OwnAnswer
  BY DEF LinkInv, OwnAnswer
<1> QED
  BY <1>1, <1>2, PTL

=============================================================================

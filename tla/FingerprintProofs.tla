------------------------ MODULE FingerprintProofs ------------------------
(* What is proved of FingerprintSession: a match is the module's own answer *)
(* to all three commands of the session.                                    *)
EXTENDS FingerprintSession, As608LinkProofs

\* The types of the session hold at the beginning,
LEMMA SessionTypeInit == SessionInit => TypeOK /\ SessionTypeOK
<1> SUFFICES ASSUME SessionInit PROVE TypeOK /\ SessionTypeOK
  OBVIOUS
<1>1. TypeOK
  BY TypeInit DEF SessionInit
<1>2. SessionTypeOK
  BY DEF SessionInit, SessionTypeOK, Greeting
<1> QED
  BY <1>1, <1>2

\* Every step of a session is a step of the link, or leaves it alone.
LEMMA SessionIsLink == [SessionNext]_allVars => [Next]_vars
<1> SUFFICES ASSUME [SessionNext]_allVars PROVE [Next]_vars
  OBVIOUS
<1>1. CASE Press_FR
  BY <1>1 DEF Press_FR, GetImage, Judge, GenChar, HighSpeedSearch, GivesUp,
     Searched, Send, Next, Host
<1>5. CASE ShakeHand
  BY <1>5 DEF ShakeHand, Retry, ValidTempleteNum, ReadSysPara, Connected,
     ShakeAgain, Send, Next, Host
<1>2. CASE LinkStep
  BY <1>2 DEF LinkStep, Driver, Next, Host
<1>3. CASE ModuleStep
  BY <1>3 DEF ModuleStep, AnswerWith, Next
<1>4. CASE UNCHANGED allVars
  BY <1>4 DEF allVars
<1> QED
  BY <1>1, <1>2, <1>3, <1>4, <1>5 DEF SessionNext

\* and are kept by every step.
LEMMA SessionTypeNext ==
  TypeOK /\ SessionTypeOK /\ [SessionNext]_allVars => SessionTypeOK'
<1> SUFFICES ASSUME TypeOK, SessionTypeOK, [SessionNext]_allVars
             PROVE  SessionTypeOK'
  OBVIOUS
<1>1. CASE Press_FR
  <2>1. PR' \in BOOLEAN
    <3>1. \/ PR' = PR
          \/ PR' = FALSE
          \/ \E any \in BOOLEAN : PR' = ReadsDone(any)
      BY <1>1, Zenon DEF Press_FR, GetImage, Judge, Forget, GenChar,
         HighSpeedSearch, GivesUp, Searched, Send
    <3>2. \A any \in BOOLEAN : ReadsDone(any) \in BOOLEAN
      BY Zenon DEF ReadsDone
    <3> QED
      BY <3>1, <3>2, Zenon DEF SessionTypeOK
  <2>2. verdict' = verdict
    BY <1>1 DEF Press_FR, GetImage, Judge, GenChar, HighSpeedSearch, GivesUp,
       Searched, Send
  <2>3. step' \in Greeting \cup Running \cup {"ready", "judge"}
    BY <1>1 DEF Press_FR, GetImage, Judge, GenChar, HighSpeedSearch, GivesUp,
       Searched, Send, Running
  <2> QED
    BY <2>1, <2>2, <2>3 DEF SessionTypeOK
<1>2. CASE LinkStep
  BY <1>2 DEF LinkStep, sessionVars, SessionTypeOK
<1>3. CASE ModuleStep
  BY <1>3 DEF ModuleStep, AnswerWith, SessionTypeOK
<1>4. CASE UNCHANGED allVars
  BY <1>4 DEF allVars, sessionVars, SessionTypeOK
<1>5. CASE ShakeHand
  BY <1>5 DEF ShakeHand, Retry, ValidTempleteNum, ReadSysPara, Connected,
     ShakeAgain, Send, sessionVars, SessionTypeOK, Greeting
<1> QED
  BY <1>1, <1>2, <1>3, <1>4, <1>5 DEF SessionNext

\* What comes back done is the command that was sent last.
LEMMA DoneIsOwn ==
  ASSUME TypeOK, SessionTypeOK, OwnAnswer, NEW any \in BOOLEAN,
         pc = "idle", cmd >= 1, ReadsDone(any)
  PROVE  verdict[cmd]
  BY DEF TypeOK, OwnAnswer, ReadsDone, Zero, Garbage, Timeout, Unanswered

\* The invariant of the session is kept by ShakeHand,
LEMMA ShakeHandNext ==
  ASSUME TypeOK, SessionInv, ShakeHand
  PROVE  SessionInv'
<1> USE DEF SessionInv, DoneSince, FingerMatched, Running
<1>1. CASE Retry
  BY <1>1 DEF Retry, HandShakeSend, sessionVars
<1>2. CASE ValidTempleteNum
  BY <1>2 DEF ValidTempleteNum, Returned, Send, PS_Send
<1>3. CASE ReadSysPara
  BY <1>3 DEF ReadSysPara, Returned, Send, PS_Send
<1>4. ASSUME NEW any \in BOOLEAN, Connected(any) PROVE SessionInv'
  BY <1>4 DEF Connected, Returned, vars, hostVars
<1>5. ASSUME NEW any \in BOOLEAN, ShakeAgain(any) PROVE SessionInv'
  BY <1>5 DEF ShakeAgain, Returned, HandShakeSend
<1> QED
  BY <1>1, <1>2, <1>3, <1>4, <1>5 DEF ShakeHand

\* by press_FR and main,
LEMMA Press_FRNext ==
  ASSUME TypeOK, SessionTypeOK, LinkInv, SessionInv, Press_FR
  PROVE  SessionInv'
<1> USE DEF TypeOK, SessionTypeOK, SessionInv, DoneSince, FingerMatched, Running
<1>1. CASE GetImage
  BY <1>1 DEF GetImage, Send, PS_Send
<1>2. CASE Judge
  BY <1>2 DEF Judge, Forget, vars, hostVars
<1>3. ASSUME NEW any \in BOOLEAN, GenChar(any) PROVE SessionInv'
  <2>1. verdict[cmd]
    BY <1>3, DoneIsOwn DEF GenChar, Returned, LinkInv
  <2> QED
    BY <1>3, <2>1 DEF GenChar, Returned, Send, PS_Send
<1>4. ASSUME NEW any \in BOOLEAN, HighSpeedSearch(any) PROVE SessionInv'
  <2>1. verdict[cmd]
    BY <1>4, DoneIsOwn DEF HighSpeedSearch, Returned, LinkInv
  <2> QED
    BY <1>4, <2>1 DEF HighSpeedSearch, Returned, Send, PS_Send
<1>5. ASSUME NEW any \in BOOLEAN, GivesUp(any) PROVE SessionInv'
  BY <1>5 DEF GivesUp, Returned, vars, hostVars
<1>6. ASSUME NEW any \in BOOLEAN, Searched(any) PROVE SessionInv'
  <2>1. UNCHANGED <<pc, cmd, verdict>> /\ step = "search" /\ pc = "idle"
        /\ step' = "judge" /\ PR' = ReadsDone(any)
    BY <1>6 DEF Searched, Returned, vars, hostVars
  <2>2. CASE ~ReadsDone(any)
    BY <2>1, <2>2
  <2>3. CASE ReadsDone(any)
    <3>1. verdict[cmd]
      BY <2>1, <2>3, DoneIsOwn DEF LinkInv
    <3> QED
      BY <2>1, <3>1
  <2> QED
    BY <2>2, <2>3
<1> QED
  BY <1>1, <1>2, <1>3, <1>4, <1>5, <1>6 DEF Press_FR

\* by the steps of the link in which the module answers nothing,
LEMMA LinkStepNext ==
  ASSUME TypeOK, SessionInv, LinkStep
  PROVE  SessionInv'
<1> USE DEF TypeOK, SessionInv, DoneSince, FingerMatched, Running
<1>1. UNCHANGED <<step, verdict, PR>>
  BY DEF LinkStep, sessionVars
<1>3. CASE HandShakeCheck
  BY <1>1, <1>3 DEF HandShakeCheck
<1>4. CASE JudgeStart \/ JudgeTake \/ JudgeMatch \/ PS_Return \/ PS_Timeout
  BY <1>1, <1>4 DEF JudgeStart, JudgeTake, JudgeMatch, PS_Return, PS_Timeout
<1>5. CASE Rx \/ Ignore \/ Overrun
  BY <1>1, <1>5 DEF Rx, RxStore, RxFull, RxDrop, Tim7Load, Tim7Store, Ignore,
     Accept, Overrun, hostVars
<1> QED
  BY <1>3, <1>4, <1>5 DEF LinkStep, Driver

\* by an answer of the module,
LEMMA ModuleStepNext ==
  ASSUME TypeOK, SessionTypeOK, LinkInv, SessionInv, ModuleStep
  PROVE  SessionInv'
<1>1. PICK ok \in BOOLEAN : AnswerWith(ok) /\ UNCHANGED <<step, PR>>
  BY DEF ModuleStep
<1>2. /\ served < cmd /\ UNCHANGED <<pc, cmd, step, PR>>
      /\ verdict' = [verdict EXCEPT ![served + 1] = ok]
  BY <1>1 DEF AnswerWith, Answer, Accept, hostVars
<1>3. served + 1 = cmd
  BY <1>2 DEF TypeOK, LinkInv
<1>4. pc # "idle"
  BY <1>2 DEF TypeOK, LinkInv
<1> QED
  BY <1>2, <1>3, <1>4
  DEF TypeOK, SessionTypeOK, SessionInv, DoneSince, FingerMatched, Running

\* and so by every step.
LEMMA SessionNextInv ==
  ASSUME TypeOK, SessionTypeOK, LinkInv, SessionInv, [SessionNext]_allVars
  PROVE  SessionInv'
<1>1. CASE UNCHANGED allVars
  BY <1>1 DEF allVars, vars, hostVars, sessionVars, SessionInv, DoneSince,
     FingerMatched
<1> QED
  BY <1>1, ShakeHandNext, Press_FRNext, LinkStepNext, ModuleStepNext DEF SessionNext

\* When the module answers in time and no handler keeps receive interrupts
\* pending, press_FR sets PR only if the module itself has answered "done" to
\* the image, the characteristic and the search of this session.
THEOREM OwnMatch ==
  ASSUME Timely, ~RxBlocking
  PROVE  SessionSpec => []FingerMatched
<1> DEFINE Inv == TypeOK /\ SessionTypeOK /\ LinkInv /\ SessionInv
<1>1. SessionInit => Inv
  <2>1. SessionInit => LinkInv
    BY LinkInit DEF SessionInit
  <2>2. SessionInit => SessionInv
    BY DEF SessionInit, Init, SessionInv, DoneSince, FingerMatched, Running
  <2> QED
    BY <2>1, <2>2, SessionTypeInit
<1>2. Inv /\ [SessionNext]_allVars => Inv'
  <2> SUFFICES ASSUME Inv, [SessionNext]_allVars PROVE Inv'
    OBVIOUS
  <2>1. TypeOK'
    BY TypeNext, SessionIsLink
  <2>2. LinkInv'
    BY <2>1, LinkNext, SessionIsLink
  <2>3. SessionTypeOK'
    BY SessionTypeNext
  <2>4. SessionInv'
    BY SessionNextInv
  <2> QED
    BY <2>1, <2>2, <2>3, <2>4
<1>3. Inv => FingerMatched
  BY DEF SessionInv
<1> QED
  BY <1>1, <1>2, <1>3, PTL DEF SessionSpec
=============================================================================

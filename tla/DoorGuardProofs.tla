------------------------- MODULE DoorGuardProofs -------------------------
(* Theorems about DoorGuard, for every keypad, password and number of tries. *)
EXTENDS DoorGuard, TLAPS

USE GuardAssumption DEF GuardAssumption

-----------------------------------------------------------------------------
(* Types. *)

\* The Boolean variables keep their type.
FlagsOK == read_flag \in BOOLEAN /\ tim3 \in BOOLEAN /\ hung \in BOOLEAN
           /\ PR \in BOOLEAN /\ reval \in BOOLEAN

\* The flags of the interrupts stay flags.
LEMMA FlagsNext == FlagsOK /\ [Next]_vars => FlagsOK'
<1> SUFFICES ASSUME FlagsOK, [Next]_vars PROVE FlagsOK'
  OBVIOUS
<1> USE DEF FlagsOK, guardVars, ioVars, LoopEnd, Go, Ring
<1>1. CASE User
  BY <1>1 DEF User, KeySeen, DigitSeen
<1>2. CASE HeadIdle \/ Choose
  BY <1>2 DEF HeadIdle, Choose, ChooseFinger, ChoosePassword, ChooseCard,
     ChooseNothing, Chosen
<1>3. ASSUME NEW ok \in BOOLEAN,
             PS_GetImage(ok) \/ PS_GenChar(ok) \/ PS_HighSpeedSearch(ok) \/ CardRead(ok)
      PROVE  FlagsOK'
  BY <1>3 DEF PS_GetImage, PS_GenChar, PS_HighSpeedSearch, CardRead
<1>4. ASSUME NEW k \in Digits, Digit(k) PROVE FlagsOK'
  BY <1>4 DEF Digit, Store
<1>5. CASE FingerOpen \/ PasswordOpen \/ CardOpen
  BY <1>5 DEF FingerOpen, PasswordOpen, CardOpen, Opens
<1>6. CASE FingerClose \/ PasswordClose \/ CardClose
  BY <1>6 DEF FingerClose, PasswordClose, CardClose, Closes
<1>7. CASE FingerDenied \/ PasswordAccepted \/ PasswordDenied \/ LampOn
  BY <1>7 DEF FingerDenied, PasswordAccepted, PasswordDenied, LampOn
<1>8. CASE CardGivenUp \/ CardEnd \/ AlarmOn \/ AlarmOff
  BY <1>8 DEF CardGivenUp, CardEnd, AlarmOn, AlarmOff
<1>9. CASE Interrupt
  BY <1>9 DEF Interrupt, TIM3_IRQHandler, EXTI0_IRQHandler, EXTI0_BothKeys,
     EXTI2_IRQHandler
<1>10. CASE UNCHANGED vars
  BY <1>10 DEF vars
<1> QED
  BY <1>1, <1>2, <1>3, <1>4, <1>5, <1>6, <1>7, <1>8, <1>9, <1>10 DEF Next, Main

\* The types hold at the beginning,
LEMMA TypeInit == Init => TypeOK
<1>1. Init => FlagsOK
  BY DEF Init, FlagsOK
<1> QED
  BY <1>1 DEF Init, TypeOK, FlagsOK, Waiting, NoGrant, Methods

\* and are kept with the bounds of the loops.
LEMMA TypeNext == TypeOK /\ Bounds /\ [Next]_vars => TypeOK' /\ Bounds'
<1> SUFFICES ASSUME TypeOK, Bounds, [Next]_vars PROVE TypeOK' /\ Bounds'
  OBVIOUS
<1> USE DEF TypeOK, Bounds, At, Waiting, Open, Granted, Methods, NoGrant, guardVars,
        ioVars, LoopEnd, Go, Ring, Bowl_ON, Bowl_OFF, Say
<1>f. FlagsOK'
  BY FlagsNext DEF FlagsOK
<1>1. CASE User
  BY <1>1, <1>f DEF User, KeySeen, DigitSeen, FlagsOK
<1>2. CASE HeadIdle \/ Choose
  <2>1. CASE HeadIdle \/ ChooseNothing \/ ChooseFinger
    BY <2>1, <1>f DEF HeadIdle, ChooseNothing, ChooseFinger, Chosen, FlagsOK
  <2>2. CASE ChooseCard
    BY <2>2, <1>f DEF ChooseCard, Chosen, FlagsOK
  <2>3. CASE ChoosePassword
    <3>1. typed' \in Seq(Digits)
      BY <2>3 DEF ChoosePassword
    <3> QED
      BY <2>3, <3>1, <1>f DEF ChoosePassword, Chosen, FlagsOK
  <2> QED
    BY <1>2, <2>1, <2>2, <2>3 DEF Choose
<1>3. ASSUME NEW ok \in BOOLEAN,
             PS_GetImage(ok) \/ PS_GenChar(ok) \/ PS_HighSpeedSearch(ok)
      PROVE  TypeOK' /\ Bounds'
  BY <1>3, <1>f DEF PS_GetImage, PS_GenChar, PS_HighSpeedSearch, FlagsOK
<1>4. ASSUME NEW ok \in BOOLEAN, CardRead(ok) PROVE TypeOK' /\ Bounds'
  BY <1>4, <1>f DEF CardRead, FlagsOK
<1>5. ASSUME NEW k \in Digits, Digit(k) PROVE TypeOK' /\ Bounds'
  <2>1. typed' = Append(typed, k) /\ passwd' = [passwd EXCEPT ![i] = k]
    BY <1>5 DEF Digit, Store
  <2>2. typed' \in Seq(Digits)
    BY <2>1
  <2>3. passwd' \in [Cells -> Digits]
    BY <2>1
  <2>4. i < PwLen /\ i' = i + 1
    BY <1>5 DEF Digit, Store
  <2> QED
    BY <1>5, <2>2, <2>3, <2>4, <1>f DEF Digit, Store, MoreDigits, FlagsOK
<1>6. CASE FingerOpen \/ PasswordOpen \/ CardOpen
  BY <1>6 DEF FingerOpen, PasswordOpen, CardOpen, Opens, OpenDoor
<1>7. CASE FingerClose \/ PasswordClose \/ CardClose
  BY <1>7, <1>f DEF FingerClose, PasswordClose, CardClose, Closes, CloseDoor, FlagsOK
<1>8. CASE FingerDenied \/ PasswordAccepted \/ PasswordDenied \/ LampOn
  BY <1>8, <1>f DEF FingerDenied, PasswordAccepted, PasswordDenied, LampOn, FlagsOK
<1>9. CASE CardGivenUp \/ CardEnd \/ AlarmOn
  BY <1>9, <1>f DEF CardGivenUp, CardEnd, AlarmOn, FlagsOK
<1>10. CASE AlarmOff
  BY <1>10, <1>f DEF AlarmOff, AlarmWord, FlagsOK
<1>11. CASE Interrupt
  BY <1>11, <1>f DEF Interrupt, TIM3_IRQHandler, EXTI0_IRQHandler, EXTI0_BothKeys,
     EXTI2_IRQHandler, FlagsOK
<1>12. CASE UNCHANGED vars
  BY <1>12 DEF vars
<1> QED
  BY <1>1, <1>2, <1>3, <1>4, <1>5, <1>6, <1>7, <1>8, <1>9, <1>10, <1>11, <1>12
  DEF Next, Main

\* Every variable keeps its type and every loop its bound: no digit is written
\* behind the six bytes of passwd.
THEOREM TypeCorrect == Spec => [](TypeOK /\ Bounds)
<1>1. Init => Bounds
  BY DEF Init, Bounds
<1> QED
  BY TypeInit, <1>1, TypeNext, PTL DEF Spec

-----------------------------------------------------------------------------
(* The invariant. *)

\* The inductive invariant holds at the beginning,
LEMMA GuardInit == Init => GuardInv
<1>1. Init => Bounds /\ DigitsInv /\ ToldInv /\ KeyNotLost
  BY DEF Init, Bounds, DigitsInv, ToldInv, KeyNotLost
<1>2. Init => GrantInv
  BY DEF Init, GrantInv
<1> QED
  BY <1>1, <1>2 DEF Init, GuardInv, Open

\* The actions that count no digit, start no timer and pass no check.
LEMMA QuietSteps ==
  ASSUME TypeOK, TypeOK', Bounds', GuardInv,
         \/ HeadIdle \/ KeySeen \/ DigitSeen \/ ChooseNothing \/ Interrupt
         \/ LampOn \/ AlarmOn \/ AlarmOff
  PROVE  GuardInv'
<1> USE DEF TypeOK, GuardInv, At, guardVars, ioVars, Go, LoopEnd, Bowl_ON, Say, Open
<1>1. UNCHANGED <<i, passwd, PR, reval, typed, grant, servo>>
  BY DEF HeadIdle, KeySeen, DigitSeen, ChooseNothing, Interrupt, LampOn,
     AlarmOn, AlarmOff, TIM3_IRQHandler, EXTI0_IRQHandler, EXTI0_BothKeys,
     EXTI2_IRQHandler
<1>2. \/ UNCHANGED pc
      \/ pc' = "head" /\ pc \in {"head", "menu", "lamp", "alarmOff"}
      \/ pc' = "menu" /\ pc = "head"
      \/ pc' = "typing" /\ pc = "digit"
      \/ {pc, pc'} \subseteq {"alarm", "alarmOff"}
  BY DEF HeadIdle, KeySeen, DigitSeen, ChooseNothing, Interrupt, LampOn,
     AlarmOn, AlarmOff, TIM3_IRQHandler, EXTI0_IRQHandler, EXTI0_BothKeys,
     EXTI2_IRQHandler
<1>3. DigitsInv'
  BY <1>1, <1>2 DEF DigitsInv
<1>4. GrantInv'
  BY <1>1, <1>2 DEF GrantInv
<1>5. ToldInv'
  BY <1>1 DEF ToldInv, GrantInv, HeadIdle, KeySeen, DigitSeen, ChooseNothing,
     Interrupt, LampOn, AlarmOn, AlarmOff, AlarmWord, TIM3_IRQHandler,
     EXTI0_IRQHandler, EXTI0_BothKeys, EXTI2_IRQHandler
<1>6. KeyNotLost'
  BY <1>2 DEF KeyNotLost, HeadIdle, KeySeen, DigitSeen, ChooseNothing,
     Interrupt, LampOn, AlarmOn, AlarmOff, TIM3_IRQHandler,
     EXTI0_IRQHandler, EXTI0_BothKeys, EXTI2_IRQHandler
<1>7. pc' \in Open <=> servo' = "open"
  BY <1>1, <1>2
<1> QED
  BY <1>3, <1>4, <1>5, <1>6, <1>7

\* The choices of the menu and the door itself.
LEMMA DoorSteps ==
  ASSUME TypeOK, TypeOK', Bounds', GuardInv,
         \/ ChooseFinger \/ ChoosePassword \/ ChooseCard
         \/ FingerOpen \/ PasswordOpen \/ CardOpen
         \/ FingerClose \/ PasswordClose \/ CardClose
  PROVE  GuardInv'
<1> USE DEF TypeOK, GuardInv, At, guardVars, ioVars, Go, Bowl_OFF, Say, Open,
        DigitsInv, ToldInv, KeyNotLost
<1>1. CASE ChooseFinger \/ ChooseCard
  BY <1>1 DEF ChooseFinger, ChooseCard, Chosen, GrantInv
<1>2. CASE ChoosePassword
  <2>1. typed' = <<>> /\ Len(typed') = 0 /\ i' = 0 /\ pc' = "digit" /\ tim3'
        /\ pc = "menu" /\ grant' = NoGrant /\ servo' = servo /\ UNCHANGED PR
    BY <1>2 DEF ChoosePassword, Chosen
  <2> QED
    BY <2>1 DEF GrantInv
<1>3. CASE FingerOpen \/ PasswordOpen \/ CardOpen
  BY <1>3 DEF FingerOpen, PasswordOpen, CardOpen, Opens, OpenDoor, GrantInv
<1>4. CASE FingerClose
  <2>1. ~PR' /\ pc = "fingerOpen" /\ pc' = "lamp" /\ servo' = "shut"
        /\ UNCHANGED <<i, passwd, reval, typed, grant>>
    BY <1>4 DEF FingerClose, Closes, CloseDoor
  <2> QED
    BY <2>1 DEF GrantInv, NoGrant
<1>5. CASE PasswordClose \/ CardClose
  BY <1>5 DEF PasswordClose, CardClose, Closes, CloseDoor, GrantInv, NoGrant
<1> QED
  BY <1>1, <1>2, <1>3, <1>4, <1>5

\* The checks.
LEMMA CheckSteps ==
  ASSUME TypeOK, TypeOK', Bounds', GuardInv,
         \/ \E ok \in BOOLEAN : PS_GetImage(ok) \/ PS_GenChar(ok)
                               \/ PS_HighSpeedSearch(ok) \/ CardRead(ok)
         \/ FingerDenied \/ PasswordAccepted \/ PasswordDenied
         \/ CardGivenUp \/ CardEnd
  PROVE  GuardInv'
<1> USE DEF TypeOK, GuardInv, At, guardVars, ioVars, Go, Bowl_ON, Bowl_OFF, Say,
        Open, Ring, ToldInv, KeyNotLost
<1>1. ASSUME NEW ok \in BOOLEAN, PS_GetImage(ok) \/ PS_GenChar(ok) PROVE GuardInv'
  BY <1>1 DEF PS_GetImage, PS_GenChar, GrantInv, DigitsInv
<1>2. ASSUME NEW ok \in BOOLEAN, PS_HighSpeedSearch(ok) PROVE GuardInv'
  <2>1. (PR' <=> ok) /\ grant' = IF ok THEN "finger" ELSE NoGrant
    BY <1>2 DEF PS_HighSpeedSearch
  <2> QED
    BY <1>2, <2>1 DEF PS_HighSpeedSearch, GrantInv, DigitsInv
<1>3. ASSUME NEW ok \in BOOLEAN, CardRead(ok) PROVE GuardInv'
  <2>1. reval' <=> ok
    BY <1>3 DEF CardRead
  <2> QED
    BY <1>3, <2>1 DEF CardRead, GrantInv, DigitsInv
<1>4. CASE FingerDenied \/ PasswordDenied
  BY <1>4 DEF FingerDenied, PasswordDenied, GrantInv, DigitsInv
<1>5. CASE PasswordAccepted
  <2>1. PICK p \in {Password1, Password2} : \A n \in Cells : passwd[n] = p[n + 1]
    BY <1>5 DEF PasswordAccepted, PasswordRight
  <2>2. Len(typed) = PwLen /\ \A n \in Cells : typed[n + 1] = p[n + 1]
    BY <1>5, <2>1 DEF PasswordAccepted, DigitsInv, Cells
  <2>3. \A n \in 1 .. PwLen : typed[n] = p[n]
    <3> SUFFICES ASSUME NEW n \in 1 .. PwLen PROVE typed[n] = p[n]
      OBVIOUS
    <3>1. n - 1 \in Cells /\ (n - 1) + 1 = n
      BY DEF Cells
    <3> QED
      BY <2>2, <3>1
  <2>4. typed = p
    BY <2>2, <2>3
  <2> QED
    BY <1>5, <2>4 DEF PasswordAccepted, GrantInv, DigitsInv, NoGrant
<1>6. CASE CardGivenUp
  BY <1>6 DEF CardGivenUp, GrantInv, DigitsInv
<1>7. CASE CardEnd
  <2>1. /\ pc = "cardEnd" /\ UNCHANGED <<hung, i, passwd, PR, reval, typed, grant, ioVars>>
        /\ (reval /\ pc' = "head") \/ pc' = "alarm"
    BY <1>7 DEF CardEnd, LoopEnd
  <2> QED
    BY <2>1 DEF GrantInv, DigitsInv
<1> QED
  BY <1>1, <1>2, <1>3, <1>4, <1>5, <1>6, <1>7

\* is kept by a digit that is stored in passwd,
LEMMA DigitStep ==
  ASSUME TypeOK, TypeOK', Bounds', GuardInv, NEW k \in Digits, Digit(k)
  PROVE  GuardInv'
<1> USE DEF TypeOK, GuardInv, At, ioVars
<1>1. /\ pc = "typing" /\ pc' \in {"digit", "check"} /\ i' = i + 1 /\ i < PwLen
      /\ passwd' = [passwd EXCEPT ![i] = k] /\ typed' = Append(typed, k)
      /\ UNCHANGED <<hung, PR, reval, grant, servo>> /\ tim3'
      /\ pc' = "check" => i' = PwLen
  BY DEF Digit, Store, MoreDigits, Bounds
<1>2. Len(typed) = i /\ i \in Nat /\ \A n \in 0 .. (i - 1) : passwd[n] = typed[n + 1]
  BY <1>1 DEF DigitsInv
<1>3. Len(typed') = i + 1
  BY <1>1, <1>2
<1>4. ASSUME NEW n \in 0 .. i PROVE passwd'[n] = typed'[n + 1]
  <2>1. CASE n = i
    BY <2>1, <1>1, <1>2 DEF Cells
  <2>2. CASE n \in 0 .. (i - 1)
    <3>1. typed'[n + 1] = typed[n + 1]
      BY <2>2, <1>1, <1>2
    <3>2. passwd'[n] = passwd[n]
      BY <2>2, <1>1, <1>2 DEF Cells
    <3> QED
      BY <3>1, <3>2, <2>2, <1>2
  <2> QED
    BY <2>1, <2>2, <1>2
<1>5. DigitsInv'
  <2>1. i' - 1 = i
    BY <1>1, <1>2
  <2> QED
    BY <2>1, <1>1, <1>3, <1>4 DEF DigitsInv
<1> QED
  BY <1>1, <1>5 DEF GrantInv, ToldInv, KeyNotLost, Open

\* and by every other step.
LEMMA GuardNext ==
  ASSUME TypeOK, TypeOK', Bounds', GuardInv, [Next]_vars
  PROVE  GuardInv'
<1>1. CASE UNCHANGED vars
  BY <1>1 DEF vars, guardVars, ioVars, GuardInv, Bounds, DigitsInv, GrantInv,
     ToldInv, KeyNotLost, Open
<1> QED
  BY <1>1, QuietSteps, DoorSteps, CheckSteps, DigitStep DEF Next, User, Main, Choose

\* The invariant holds in every state of the lock.
LEMMA GuardAlways == Spec => []GuardInv
<1>1. TypeOK /\ Bounds /\ GuardInv /\ [Next]_vars => GuardInv'
  BY TypeNext, GuardNext
<1> QED
  BY TypeCorrect, GuardInit, <1>1, PTL DEF Spec

\* The door is open only after a check of this session, it is shut wherever the
\* lock waits, and a key can always be read again: with any keypad and whenever the
\* interrupts come.
THEOREM Guarded == Spec => [](OpenOnlyGranted /\ ShutWhenWaiting /\ KeyNotLost)
<1>1. TypeOK /\ GuardInv => OpenOnlyGranted /\ ShutWhenWaiting /\ KeyNotLost
  BY DEF TypeOK, GuardInv, OpenOnlyGranted, ShutWhenWaiting, KeyNotLost, Waiting, Open,
     GrantInv, NoGrant
<1> QED
  BY TypeCorrect, GuardAlways, <1>1, PTL

\* A denied attempt ends with "close" as the last word of the lock, although press_FR
\* and Alarm say "open" in between and the handlers of the two keys send words of their
\* own between any two steps.
THEOREM DeniedTold == Spec => []DeniedReadsClose
<1>1. GuardInv => DeniedReadsClose
  BY DEF GuardInv, DeniedReadsClose, ToldInv
<1> QED
  BY GuardAlways, <1>1, PTL

-----------------------------------------------------------------------------
(* The refinement. *)

\* A step of the lock is a step of the policy or changes nothing of it.
LEMMA PolicyNext ==
  ASSUME TypeOK, TypeOK', GuardInv, GuardInv', [Next]_vars
  PROVE  [Policy!Next]_Policy!vars
<1> USE DEF TypeOK, GuardInv, At, guardVars, ioVars, Go, Policy!Next, Policy!vars,
        Granted, Open
<1>1. CASE FingerOpen \/ PasswordOpen \/ CardOpen
  <2>1. Policy!Open
    BY <1>1 DEF FingerOpen, PasswordOpen, CardOpen, Opens, OpenDoor, Policy!Open,
       GrantInv, NoGrant
  <2> QED
    BY <2>1
<1>2. CASE FingerClose \/ PasswordClose \/ CardClose
  <2>1. Policy!Close
    BY <1>2 DEF FingerClose, PasswordClose, CardClose, Closes, CloseDoor, Policy!Close
  <2> QED
    BY <2>1
<1>3. ASSUME NEW ok \in BOOLEAN, PS_HighSpeedSearch(ok)
      PROVE  [Policy!Next]_Policy!vars
  <2>1. CASE ok
    BY <1>3, <2>1 DEF PS_HighSpeedSearch, Policy!Accept, GrantInv, Methods
  <2>2. CASE ~ok
    BY <1>3, <2>2 DEF PS_HighSpeedSearch, GrantInv
  <2> QED
    BY <2>1, <2>2
<1>4. ASSUME NEW ok \in BOOLEAN, CardRead(ok)
      PROVE  [Policy!Next]_Policy!vars
  BY <1>4 DEF CardRead, Policy!Accept, GrantInv, Methods
<1>5. CASE PasswordAccepted
  BY <1>5 DEF PasswordAccepted, Policy!Accept, GrantInv, Methods
<1>6. CASE \/ User \/ HeadIdle \/ Choose \/ Interrupt \/ LampOn \/ AlarmOn \/ AlarmOff
          \/ FingerDenied \/ PasswordDenied \/ CardGivenUp \/ CardEnd
  <2>1. servo' = servo
    BY <1>6 DEF User, KeySeen, DigitSeen, HeadIdle, Choose, ChooseFinger, ChooseCard,
       ChoosePassword, ChooseNothing, Chosen, Bowl_OFF, Bowl_ON, LampOn, AlarmOn, AlarmOff,
       FingerDenied, PasswordDenied, CardGivenUp, CardEnd, Interrupt, TIM3_IRQHandler,
       EXTI0_IRQHandler, EXTI0_BothKeys, EXTI2_IRQHandler
  <2>2. \/ UNCHANGED <<pc, grant>>
        \/ pc' \notin {"judge"} \cup Granted \cup Open /\ pc \notin Granted \cup Open
           /\ (pc = "judge" => grant = NoGrant)
    BY <1>6 DEF User, KeySeen, DigitSeen, HeadIdle, Choose, ChooseFinger, ChooseCard,
       ChoosePassword, ChooseNothing, Chosen, LoopEnd, LampOn, AlarmOn, AlarmOff, Ring,
       FingerDenied, PasswordDenied, CardGivenUp, CardEnd, Interrupt, TIM3_IRQHandler,
       EXTI0_IRQHandler, EXTI0_BothKeys, EXTI2_IRQHandler, GrantInv
  <2> QED
    BY <2>1, <2>2
<1>7. ASSUME NEW k \in Digits, Digit(k) PROVE [Policy!Next]_Policy!vars
  BY <1>7 DEF Digit, Store, GrantInv
<1>8. ASSUME NEW ok \in BOOLEAN, PS_GetImage(ok) \/ PS_GenChar(ok)
      PROVE  [Policy!Next]_Policy!vars
  BY <1>8 DEF PS_GetImage, PS_GenChar, Bowl_ON, GrantInv
<1>9. CASE UNCHANGED vars
  BY <1>9 DEF vars
<1> QED
  BY <1>1, <1>2, <1>3, <1>4, <1>5, <1>6, <1>7, <1>8, <1>9 DEF Next, Main

\* main.c with all its interrupts implements DoorPolicy: a check that has passed
\* opens the door once, and nothing else does.
THEOREM Implements == Spec => DoorPolicySpec
<1>1. Init => Policy!Init
  BY DEF Init, Policy!Init, Granted, Open
<1>2. TypeOK /\ TypeOK' /\ GuardInv /\ GuardInv' /\ [Next]_vars
        => [Policy!Next]_Policy!vars
  BY PolicyNext
<1> QED
  BY TypeCorrect, GuardAlways, <1>1, <1>2, PTL DEF Spec, DoorPolicySpec, Policy!Spec

=============================================================================

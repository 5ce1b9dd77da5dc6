---------------------------- MODULE DoorGuard ----------------------------
(***************************************************************************)
(* The control loop of the lock, stm32/CODE/main.c: the keypad menu, the    *)
(* fingerprint, password and card checks, the servo, the alarm, and the     *)
(* interrupts that run between its steps: TIM3 (the pause between two keys) *)
(* and EXTI0/EXTI2 (the two keys of the board, keyboard.c).                 *)
(*                                                                          *)
(* An action is the code from one point where an interrupt matters to the   *)
(* next.  The answers of the fingerprint module and of the card reader are  *)
(* inputs here; As608Link is about the former.                              *)
(***************************************************************************)
EXTENDS Integers, Sequences

CONSTANTS
  Keys,         \* the keys of the keypad
  One, Two, Three, \* those of the menu
  NoKey,        \* KEY_Fun(0): the key was released before KEY_Scan
  PwLen,        \* length of a password
  Password1, Password2,
  CardTries,    \* how often MFRC522Read is called for one card
  AlarmRounds   \* how often Alarm beeps

ASSUME GuardAssumption ==
  /\ {One, Two, Three} \subseteq Keys /\ NoKey \notin Keys
  /\ One # Two /\ One # Three /\ Two # Three
  /\ PwLen \in Nat \ {0} /\ CardTries \in Nat \ {0} /\ AlarmRounds \in Nat \ {0}
  /\ Password1 \in [1 .. PwLen -> Keys] /\ Password2 \in [1 .. PwLen -> Keys]

VARIABLES
  pc,        \* where main is
  read_flag, \* a key may be read
  tim3,      \* TIM3 is counting
  i,         \* main's loop counter: digits typed, cards tried
  passwd,    \* the buffer of the typed digits
  PR,        \* the fingerprint has matched
  reval,     \* what the last MFRC522Read returned
  rounds,    \* _time of Alarm
  servo,     \* "open" is compare value 195, "shut" is 175
  last,      \* the last word sent on the topic DOOR_STATE
  hung,      \* the program is in the startup file's default handler
  typed,     \* history: the keys counted as digits since '2' was chosen
  grant      \* history: the check passed since the last choice

guardVars == <<i, passwd, PR, reval, rounds, typed, grant>>
ioVars    == <<servo, last>>
vars      == <<pc, read_flag, tim3, hung, guardVars, ioVars>>

NoGrant == "none"
Methods == {"finger", "password", "card"}
Digits  == Keys \cup {NoKey}
Cells   == 0 .. (PwLen - 1)
Waiting == {"head", "digit"}
Open    == {"fingerOpen", "passwordOpen", "cardOpen"}
Granted == {"passwordGranted", "cardGranted"}

TypeOK ==
  /\ pc \in Waiting \cup Open \cup Granted \cup
            {"menu", "image", "genchar", "search", "judge", "check", "card",
             "cardEnd", "typing", "lamp", "alarm", "alarmOff"}
  /\ read_flag \in BOOLEAN /\ tim3 \in BOOLEAN /\ hung \in BOOLEAN
  /\ i \in 0 .. PwLen \cup 0 .. CardTries
  /\ passwd \in [Cells -> Digits]
  /\ PR \in BOOLEAN /\ reval \in BOOLEAN
  /\ rounds \in 0 .. AlarmRounds
  /\ servo \in {"open", "shut"}
  /\ last \in {"open", "close"}
  /\ typed \in Seq(Digits)
  /\ grant \in Methods \cup {NoGrant}

\* After the initialisations and CloseDoor; reval and passwd were never set.
Init ==
  /\ pc = "head" /\ read_flag = TRUE /\ tim3 = TRUE /\ hung = FALSE
  /\ i = 0 /\ passwd \in [Cells -> Digits] /\ PR = FALSE
  /\ reval \in BOOLEAN /\ rounds = 0
  /\ servo = "shut" /\ last = "close"
  /\ typed = <<>> /\ grant = NoGrant

-----------------------------------------------------------------------------
(* The pieces main is made of. *)

At(here) == ~hung /\ pc = here

Say(word)   == last' = word
OpenDoor    == servo' = "open" /\ Say("open")
CloseDoor   == servo' = "shut" /\ Say("close")
Bowl_ON     == Say("open") /\ UNCHANGED servo
Bowl_OFF    == Say("close") /\ UNCHANGED servo

\* The end of the loop body starts TIM3.
LoopEnd_NoTimer == pc' = "head" /\ UNCHANGED <<read_flag, tim3>>
LoopEnd  == pc' = "head" /\ tim3' = TRUE /\ UNCHANGED read_flag
Go(next) == pc' = next /\ UNCHANGED <<read_flag, tim3>>

-----------------------------------------------------------------------------
(* The menu. *)

\* KEY_work sees a key and read_flag allows to read it.
KeySeen ==
  /\ At("head") /\ read_flag
  /\ read_flag' = FALSE
  /\ pc' = "menu"
  /\ UNCHANGED <<tim3, hung, guardVars, ioVars>>

HeadIdle == At("head") /\ LoopEnd /\ UNCHANGED <<hung, guardVars, ioVars>>

\* A session begins.  Every branch calls Bowl_OFF first; where Bowl_ON or
\* Bowl_OFF is followed at once by OpenDoor, the last word is what counts.
Chosen(next) ==
  /\ At("menu")
  /\ Bowl_OFF
  /\ grant' = NoGrant
  /\ pc' = next
  /\ UNCHANGED <<read_flag, hung, passwd, PR, reval, rounds>>

ChooseFinger == Chosen("image") /\ UNCHANGED <<tim3, i, typed>>

ChoosePassword_KeepsCount ==
  /\ Chosen(IF i < PwLen THEN "digit" ELSE "check")
  /\ tim3' = TRUE /\ typed' = <<>> /\ UNCHANGED i
ChoosePassword == Chosen("digit") /\ tim3' = TRUE /\ i' = 0 /\ typed' = <<>>

ChooseCard == Chosen("card") /\ i' = 0 /\ UNCHANGED <<tim3, typed>>

\* Any other key, or none any more.
ChooseNothing == At("menu") /\ LoopEnd /\ UNCHANGED <<hung, guardVars, ioVars>>

\* KEY_Scan and KEY_Fun name the key that is down now.
Choose ==
  \E k \in Digits :
    \/ k = One /\ ChooseFinger
    \/ k = Two /\ ChoosePassword
    \/ k = Three /\ ChooseCard
    \/ k \notin {One, Two, Three} /\ ChooseNothing

-----------------------------------------------------------------------------
(* OpenDoor and CloseDoor, three seconds apart, for each of the checks. *)

Opens(here, next) ==
  At(here) /\ OpenDoor /\ Go(next) /\ UNCHANGED <<hung, guardVars>>

Closes(here, next) ==
  At(here) /\ CloseDoor /\ Go(next)
  /\ UNCHANGED <<hung, i, passwd, reval, rounds, typed, grant>>

FingerOpen    == PR /\ Opens("judge", "fingerOpen")
PasswordOpen  == Opens("passwordGranted", "passwordOpen")
CardOpen      == Opens("cardGranted", "cardOpen")

FingerClose_KeepsPR == Closes("fingerOpen", "lamp") /\ UNCHANGED PR
FingerClose   == Closes("fingerOpen", "lamp") /\ PR' = FALSE
PasswordClose == Closes("passwordOpen", "lamp") /\ UNCHANGED PR
CardClose_Forgotten ==
  At("cardOpen") /\ Go("cardEnd") /\ UNCHANGED <<hung, guardVars, ioVars>>
CardClose     == Closes("cardOpen", "cardEnd") /\ UNCHANGED PR

\* The end of a session with a fingerprint or a password.
LampOn == At("lamp") /\ Bowl_ON /\ LoopEnd /\ UNCHANGED <<hung, guardVars>>

\* Alarm begins.
Ring ==
  rounds' = 0 /\ Go("alarm") /\ UNCHANGED <<hung, i, passwd, PR, reval, typed, grant>>

-----------------------------------------------------------------------------
(* press_FR. *)

PS_GetImage(ok) ==
  /\ At("image")
  /\ \/ ok /\ Bowl_ON /\ Go("genchar")
     \/ ~ok /\ Go("judge") /\ UNCHANGED ioVars
  /\ UNCHANGED <<hung, guardVars>>

PS_GenChar(ok) ==
  /\ At("genchar")
  /\ Go(IF ok THEN "search" ELSE "judge")
  /\ UNCHANGED <<hung, guardVars, ioVars>>

PS_HighSpeedSearch(ok) ==
  /\ At("search")
  /\ PR' = ok /\ grant' = (IF ok THEN "finger" ELSE NoGrant)
  /\ Go("judge")
  /\ UNCHANGED <<hung, i, passwd, reval, rounds, typed, ioVars>>

FingerDenied == At("judge") /\ ~PR /\ Bowl_OFF /\ Ring

-----------------------------------------------------------------------------
(* The password. *)

DigitSeen ==
  /\ At("digit") /\ read_flag
  /\ read_flag' = FALSE
  /\ pc' = "typing"
  /\ UNCHANGED <<tim3, hung, guardVars, ioVars>>

MoreDigits(n) == n < PwLen

\* A key released before KEY_Scan counts as well, as the byte 0.
Store(k) ==
  /\ At("typing")
  /\ passwd' = [passwd EXCEPT ![i] = k]
  /\ typed' = Append(typed, k)
  /\ i' = i + 1
  /\ pc' = (IF MoreDigits(i + 1) THEN "digit" ELSE "check")
  /\ UNCHANGED <<read_flag, hung, PR, reval, rounds, grant, ioVars>>

Digit(k) == Store(k) /\ tim3' = TRUE

\* strncmp with each of the two passwords.
PasswordRight ==
  \E p \in {Password1, Password2} : \A n \in Cells : passwd[n] = p[n + 1]

PasswordAccepted ==
  /\ At("check") /\ PasswordRight
  /\ grant' = "password"
  /\ Go("passwordGranted")
  /\ UNCHANGED <<hung, i, passwd, PR, reval, rounds, typed, ioVars>>

PasswordDenied == At("check") /\ ~PasswordRight /\ Ring /\ UNCHANGED ioVars

-----------------------------------------------------------------------------
(* The card. *)

CardRead(ok) ==
  /\ At("card") /\ i < CardTries
  /\ reval' = ok
  /\ \/ ok /\ grant' = "card" /\ Go("cardGranted") /\ UNCHANGED i
     \/ ~ok /\ i' = i + 1 /\ Go("card") /\ UNCHANGED grant
  /\ UNCHANGED <<hung, passwd, PR, rounds, typed, ioVars>>

CardGivenUp ==
  /\ At("card") /\ i >= CardTries
  /\ Go("cardEnd")
  /\ UNCHANGED <<hung, guardVars, ioVars>>

CardEnd ==
  /\ At("cardEnd")
  /\ \/ reval /\ LoopEnd /\ UNCHANGED <<hung, guardVars>>
     \/ ~reval /\ Ring
  /\ UNCHANGED ioVars

-----------------------------------------------------------------------------
(* Alarm: every round says "open" and then "close". *)

AlarmOn ==
  At("alarm") /\ Bowl_ON /\ Go("alarmOff") /\ UNCHANGED <<hung, guardVars>>

AlarmWord_Open == "open"
AlarmWord == "close"

AlarmOff ==
  /\ At("alarmOff")
  /\ Say(AlarmWord) /\ UNCHANGED servo
  /\ rounds' = rounds + 1
  /\ IF rounds + 1 < AlarmRounds THEN Go("alarm") ELSE LoopEnd
  /\ UNCHANGED <<hung, i, passwd, PR, reval, typed, grant>>

-----------------------------------------------------------------------------
(* Interrupts. *)

TIM3_IRQHandler ==
  /\ ~hung /\ tim3
  /\ read_flag' = TRUE /\ tim3' = FALSE
  /\ UNCHANGED <<pc, hung, guardVars, ioVars>>

\* The close key sends "close"; the servo stays where it is.
EXTI0_IRQHandler ==
  /\ ~hung
  /\ Say("close")
  /\ UNCHANGED <<pc, read_flag, tim3, hung, guardVars, servo>>

\* The key on PE2 falls while EXTI0_IRQHandler runs: "open" is sent as well,
\* and then the pending EXTI2 interrupt is taken.
EXTI0_BothKeys ==
  /\ ~hung
  /\ Say("open")
  /\ hung' = TRUE
  /\ UNCHANGED <<pc, read_flag, tim3, guardVars, servo>>

\* No EXTI2_IRQHandler is linked: the startup file's handler is a branch to
\* itself, with the priority of every other handler but TIM7's.
EXTI2_IRQHandler ==
  /\ ~hung
  /\ hung' = TRUE
  /\ UNCHANGED <<pc, read_flag, tim3, guardVars, ioVars>>

-----------------------------------------------------------------------------
User == KeySeen \/ DigitSeen

Main ==
  \/ HeadIdle \/ Choose
  \/ \E ok \in BOOLEAN :
       PS_GetImage(ok) \/ PS_GenChar(ok) \/ PS_HighSpeedSearch(ok) \/ CardRead(ok)
  \/ FingerOpen \/ FingerDenied \/ FingerClose
  \/ \E k \in Digits : Digit(k)
  \/ PasswordAccepted \/ PasswordDenied \/ PasswordOpen \/ PasswordClose \/ LampOn
  \/ CardOpen \/ CardClose \/ CardGivenUp \/ CardEnd
  \/ AlarmOn \/ AlarmOff

Interrupt == \/ TIM3_IRQHandler \/ EXTI0_IRQHandler
             \/ EXTI0_BothKeys \/ EXTI2_IRQHandler

Next == User \/ Main \/ Interrupt

Spec == Init /\ [][Next]_vars

\* main runs on and TIM3 fires; nobody has to press a key.
Fairness == WF_vars(Main) /\ WF_vars(TIM3_IRQHandler)
FairSpec == Spec /\ Fairness

-----------------------------------------------------------------------------
(* Properties. *)

\* The servo is open only after a check of this session has passed: a match
\* of an earlier session (PR) or digits of an earlier one (passwd, i) do not
\* count.
OpenOnlyGranted ==
  servo = "open" =>
    /\ grant # NoGrant
    /\ grant = "password" => typed \in {Password1, Password2}

\* While the lock waits for a key or a card the door is shut, on every way
\* the branches of the menu can end.
ShutWhenWaiting == pc \in Waiting \cup {"menu", "card", "image"} => servo = "shut"

\* Where main waits for a key, read_flag is set or TIM3 will set it, however
\* its interrupt falls between the assignments of main.
KeyNotLost == pc = "digit" => read_flag \/ tim3

\* After a denied attempt the last word on DOOR_STATE is "close", although
\* Alarm and press_FR say "open" in between.
DeniedReadsClose == pc = "head" /\ ~hung /\ grant = NoGrant => last = "close"

\* The lock implements the policy: a check that has passed opens the door once.
Policy == INSTANCE DoorPolicy
  WITH door <- servo,
       grant <- IF pc \in {"judge"} \cup Granted \cup Open THEN grant ELSE NoGrant

DoorPolicySpec == Policy!Spec

\* After a key has been read another one can be, without anyone's help.
KeysComeAgain == ~read_flag ~> (read_flag \/ hung)

\* An open door is shut again, whatever interrupts come, unless one of them
\* stops the program.
ShutUnlessHung == servo = "open" ~> (servo = "shut" \/ hung)

-----------------------------------------------------------------------------
(* The inductive invariant. *)

\* The loops stay in bounds: passwd is written inside its six bytes.
Bounds ==
  /\ pc \in {"digit", "typing"} => i < PwLen
  /\ pc \in {"alarm", "alarmOff"} => rounds < AlarmRounds

\* The digits counted so far are those of this session, and in passwd.
DigitsInv ==
  /\ pc = "check" => i = PwLen
  /\ pc \in {"digit", "typing", "check"} =>
       Len(typed) = i /\ \A n \in 0 .. (i - 1) : passwd[n] = typed[n + 1]

\* Who has set grant, and where PR is set.
GrantInv ==
  /\ pc \in {"image", "genchar", "search", "digit", "typing", "check", "card"} => grant = NoGrant
  /\ pc = "judge" => grant = (IF PR THEN "finger" ELSE NoGrant)
  /\ PR => pc \in {"judge", "fingerOpen"}
  /\ pc = "fingerOpen" => grant = "finger"
  /\ pc \in {"passwordGranted", "passwordOpen"} =>
       grant = "password" /\ typed \in {Password1, Password2}
  /\ pc \in {"cardGranted", "cardOpen"} => grant = "card" /\ reval
  /\ pc = "card" => i = 0 \/ ~reval
  /\ pc = "cardEnd" => (reval <=> grant # NoGrant)
  /\ pc = "lamp" => grant # NoGrant

ToldInv == pc \in {"head", "menu"} /\ ~hung /\ grant = NoGrant => last = "close"

GuardInv ==
  /\ pc \in Open <=> servo = "open"
  /\ Bounds /\ DigitsInv /\ GrantInv /\ ToldInv /\ KeyNotLost
=============================================================================

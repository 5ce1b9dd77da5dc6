------------------------ MODULE FingerprintSession ------------------------
(***************************************************************************)
(* ShakeHand and press_FR of stm32/CODE/main.c on top of As608Link.         *)
(* ShakeHand greets the module, reads how many fingers it holds and then    *)
(* its parameters, and begins again unless the parameters have come.  A     *)
(* session of press_FR takes an image, makes a characteristic of it and     *)
(* searches the library for it; PR says whether it was found.  The module   *)
(* decides what it answers to each command, and main reads what the link    *)
(* makes of it.                                                             *)
(***************************************************************************)
EXTENDS As608Link

CONSTANT
  Unready   \* bound on the commands up to which PS_ReadSysPara may fail

ASSUME SessionAssumption == Unready \in Nat

VARIABLES
  step,     \* the command of main that is running, or where main is
  verdict,  \* the module's answer to a command is 0x00, done
  PR        \* a finger has been found

sessionVars == <<step, verdict, PR>>
allVars     == <<vars, sessionVars>>

Greeting == {"shake", "count", "para"}
Running  == {"image", "genchar", "search"}

SessionTypeOK ==
  /\ step \in Greeting \cup Running \cup {"ready", "judge"}
  /\ verdict \in [1 .. MaxCmds -> BOOLEAN]
  /\ PR \in BOOLEAN

SessionInit ==
  /\ Init
  /\ step = "shake" /\ verdict = [c \in 1 .. MaxCmds |-> FALSE] /\ PR = FALSE

-----------------------------------------------------------------------------
\* The module makes up its mind about a command when it answers it: it greets
\* back always, and gives its parameters at the latest after Unready commands.
AnswerWith(ok) ==
  /\ Answer
  /\ step = "shake" => ok
  /\ step = "para" => ok \/ served < Unready
  /\ verdict' = [verdict EXCEPT ![served + 1] = ok]

\* data[9] reads as 0x00: the confirmation code of some command, a byte that
\* was never written, or any other byte.
ReadsDone(any) ==
  \/ result \in 1 .. MaxCmds /\ verdict[result]
  \/ result = Zero
  \/ result = Garbage /\ any

\* The command of step here has returned.
Returned(here) == pc = "idle" /\ step = here

Send(next) == PS_Send /\ step' = next /\ UNCHANGED <<verdict, PR>>

\* ShakeHand: the next try of PS_HandShake, 1.2 s after one that has failed.
Retry == pc = "boot" /\ HandShakeSend /\ UNCHANGED sessionVars

\* PS_HandShake has returned 0.  What PS_ValidTempleteNum says is printed and
\* changes nothing; what PS_ReadSysPara says ends ShakeHand or not.
ValidTempleteNum == Returned("shake") /\ Send("count")
ReadSysPara      == Returned("count") /\ Send("para")

Connected(any) ==
  /\ Returned("para") /\ ReadsDone(any)
  /\ step' = "ready"
  /\ UNCHANGED <<vars, verdict, PR>>

ShakeAgain(any) ==
  /\ Returned("para") /\ ~ReadsDone(any)
  /\ HandShakeSend
  /\ step' = "shake"
  /\ UNCHANGED <<verdict, PR>>

ShakeHand ==
  \/ Retry \/ ValidTempleteNum \/ ReadSysPara
  \/ \E any \in BOOLEAN : Connected(any) \/ ShakeAgain(any)

\* main calls press_FR.
GetImage == step = "ready" /\ Send("image")

GenChar(any) == Returned("image") /\ ReadsDone(any) /\ Send("genchar")
HighSpeedSearch(any) == Returned("genchar") /\ ReadsDone(any) /\ Send("search")

\* A failed image or characteristic ends press_FR and leaves PR as it is.
GivesUp(any) ==
  /\ Returned("image") \/ Returned("genchar")
  /\ ~ReadsDone(any)
  /\ step' = "judge"
  /\ UNCHANGED <<vars, verdict, PR>>

Searched(any) ==
  /\ Returned("search")
  /\ PR' = ReadsDone(any)
  /\ step' = "judge"
  /\ UNCHANGED <<vars, verdict>>

\* main opens the door or rings, and forgets the match.
Forget_Not == UNCHANGED PR
Forget == PR' = FALSE

Judge ==
  /\ step = "judge"
  /\ Forget
  /\ step' = "ready"
  /\ UNCHANGED <<vars, verdict>>

-----------------------------------------------------------------------------
Driver == HandShakeCheck \/ JudgeStart \/ JudgeTake \/ JudgeMatch
          \/ PS_Return \/ PS_Timeout

Press_FR ==
  \/ GetImage \/ Judge
  \/ \E any \in BOOLEAN :
       GenChar(any) \/ HighSpeedSearch(any) \/ GivesUp(any) \/ Searched(any)

LinkStep == (Driver \/ Rx \/ Ignore \/ Overrun) /\ UNCHANGED sessionVars

ModuleStep == \E ok \in BOOLEAN : AnswerWith(ok) /\ UNCHANGED <<step, PR>>

SessionNext == ShakeHand \/ Press_FR \/ LinkStep \/ ModuleStep

SessionSpec == SessionInit /\ [][SessionNext]_allVars

-----------------------------------------------------------------------------
(* Properties. *)

\* ShakeHand gets through to its end, although TIM7_Int_Init has left a timer
\* running that marks an empty batch complete and so swallows the first answer,
\* and although the module may leave commands unanswered and refuse its
\* parameters for a time: every round of the outer loop can follow the last one.
ShakeHandSucceeds == <>(step = "ready")

\* When main looks at PR, PR says that the module has answered all three
\* commands of this session, the last three, with "done": a late answer, an
\* older session or a byte left in the buffer does not count as a match.
FingerMatched ==
  step = "judge" /\ PR =>
    cmd >= 3 /\ \A c \in (cmd - 2) .. cmd : verdict[c]

(* The inductive invariant: the commands of the session so far were done. *)
DoneSince(n) == cmd >= n /\ \A c \in (cmd - n + 1) .. (cmd - 1) : verdict[c]

SessionInv ==
  /\ step = "shake" => pc \in {"boot", "shake", "idle"}
  /\ step \in Running \cup {"count", "para"} =>
       pc \in {"sent", "poll", "match", "read", "idle"}
  /\ step \in {"ready", "judge"} => pc = "idle"
  /\ step = "image" => DoneSince(1)
  /\ step = "genchar" => DoneSince(2)
  /\ step = "search" => DoneSince(3)
  /\ step # "judge" => ~PR
  /\ FingerMatched
=============================================================================

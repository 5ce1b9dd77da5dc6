------------------------------ MODULE Enrolment ------------------------------
(***************************************************************************)
(* Add_FR and Del_FR of stm32/CODE/测试单元/Test.c, with Get_Num of            *)
(* keyboard.c, on a fingerprint module that answers in time or not at all.   *)
(* A buffer of the module holds a pair: <<f, NoFinger>> is the characteristic *)
(* of f, <<f, g>> the template made of one of f and one of g.               *)
(***************************************************************************)
EXTENDS Integers, FiniteSets

CONSTANTS
  Fingers, NoFinger,
  Pages,        \* 0 .. PS_max - 1, or some of them with 0
  KeyNumbers,   \* what KEY_Scan may give
  Sums,         \* what an answer with an error has in the place of a number
  TriesWrap,    \* 2^8: i of Add_FR is a u8
  MaxLost,      \* bound on the answers that are lost
  MaxFingers,   \* bound on the fingers that come and go
  MaxCalls      \* bound on the calls of Add_FR and Del_FR

ASSUME EnrolAssumption ==
  /\ NoFinger \notin Fingers /\ 0 \in Pages /\ Pages \subseteq Nat /\ IsFiniteSet(Pages)
  /\ KeyNumbers \subseteq Nat /\ Sums \subseteq Nat
  /\ TriesWrap \in Nat \ (0 .. 5) /\ {MaxLost, MaxFingers, MaxCalls} \subseteq Nat

NoPair == <<NoFinger, NoFinger>>
Pairs  == {NoPair} \cup Fingers \X (Fingers \cup {NoFinger})

VARIABLES
  finger,                \* on the sensor
  image,                 \* ImageBuffer: the finger of the last image
  CharBuffer,            \* CharBuffer1 and 2
  library,               \* what each page holds
  ValidN,
  epc,                   \* the call that comes next, or "main"
  tried,                 \* i of Add_FR
  keyFlag,               \* read_flag of keyboard.c
  missed,                \* history: since ValidN was last read an answer was lost, or
                         \*   ValidN was read from an answer with an error
  lost, fingers, calls   \* so far

enrolVars == <<finger, image, CharBuffer, library, ValidN, epc, tried, keyFlag, missed, lost,
               fingers, calls>>
person  == <<finger, fingers, calls>>
buffers == <<image, CharBuffer>>

EnrolTypeOK ==
  /\ finger \in Fingers \cup {NoFinger} /\ image \in Fingers \cup {NoFinger}
  /\ CharBuffer \in [1 .. 2 -> Pairs] /\ library \in [Pages -> Pairs] /\ ValidN \in Nat
  /\ epc \in {"main", "image1", "char1", "image2", "char2", "match", "merge", "store", "count",
              "delete"}
  /\ tried \in 0 .. TriesWrap - 1 /\ {keyFlag, missed} \subseteq BOOLEAN
  /\ lost \in 0 .. MaxLost /\ fingers \in 0 .. MaxFingers /\ calls \in 0 .. MaxCalls

\* ShakeHand has read ValidN.
EnrolInit ==
  /\ finger = NoFinger /\ image = NoFinger /\ CharBuffer = [n \in 1 .. 2 |-> NoPair]
  /\ library = [page \in Pages |-> NoPair] /\ ValidN = 0 /\ epc = "main" /\ tried = 0
  /\ keyFlag = TRUE /\ missed = FALSE /\ lost = 0 /\ fingers = 0 /\ calls = 0

Stored == {page \in Pages : library[page] # NoPair}

-----------------------------------------------------------------------------
FingerMoves ==
  /\ fingers < MaxFingers /\ fingers' = fingers + 1
  /\ finger' \in (Fingers \cup {NoFinger}) \ {finger}
  /\ UNCHANGED <<buffers, library, ValidN, epc, tried, keyFlag, missed, lost, calls>>

(* An answer of the module is 0x00, another code, or lost.  The command was      *)
(* carried out, not, or either.                                             *)

Answers(code, possible, carried_out) ==
  \/ code = "ok" /\ possible /\ carried_out /\ UNCHANGED <<lost, missed>>
  \/ code = "failed" /\ ~carried_out /\ UNCHANGED <<lost, missed>>
  \/ /\ code = "timeout" /\ (carried_out => possible)
     /\ lost < MaxLost /\ lost' = lost + 1 /\ missed' = TRUE

Codes == {"ok", "failed", "timeout"}

\* Add_FR ends when i is five after a round, otherwise it goes on there.
Round(tries, there) ==
  /\ tried' = tries % TriesWrap
  /\ epc' = IF tried' = 5 THEN "main" ELSE there

Image(n) == IF n = 1 THEN "image1" ELSE "image2"
Char(n)  == IF n = 1 THEN "char1" ELSE "char2"

\* i++ and PS_GetImage.
Counts_FirstOnly(n) == IF n = 1 THEN tried + 1 ELSE tried
Counts(n) == tried + 1

PS_GetImage(n) ==
  /\ epc = Image(n)
  /\ \E code \in Codes, done \in BOOLEAN :
       /\ Answers(code, finger # NoFinger, done)
       /\ image' = IF done THEN finger ELSE image
       /\ IF code = "ok" THEN tried' = Counts(n) % TriesWrap /\ epc' = Char(n)
                         ELSE Round(Counts(n), Image(n))
  /\ UNCHANGED <<person, CharBuffer, library, ValidN, keyFlag>>

PS_GenChar(n) ==
  /\ epc = Char(n)
  /\ \E code \in Codes, done \in BOOLEAN :
       /\ Answers(code, image # NoFinger, done)
       /\ CharBuffer' = IF done THEN [CharBuffer EXCEPT ![n] = <<image, NoFinger>>] ELSE CharBuffer
       /\ IF code = "ok" THEN tried' = 0 /\ epc' = IF n = 1 THEN "image2" ELSE "match"
                         ELSE Round(tried, Image(n))
  /\ UNCHANGED <<person, image, library, ValidN, keyFlag>>

PS_Match ==
  /\ epc = "match" /\ tried' = 0
  /\ \E code \in Codes :
       /\ Answers(code, CharBuffer[1][1] = CharBuffer[2][1], code = "ok")
       /\ epc' = IF code = "ok" THEN "merge" ELSE "image1"
  /\ UNCHANGED <<person, buffers, library, ValidN, keyFlag>>

\* The module merges what is in the two buffers.
AfterMerge_GoesOn(code) == "store"
AfterMerge(code) == IF code = "ok" THEN "store" ELSE "image1"

PS_RegModel ==
  /\ epc = "merge"
  /\ \E code \in Codes, done \in BOOLEAN :
       /\ Answers(code, TRUE, done)
       /\ CharBuffer' = IF done THEN [n \in 1 .. 2 |-> <<CharBuffer[1][1], CharBuffer[2][1]>>]
                                ELSE CharBuffer
       /\ epc' = AfterMerge(code)
  /\ UNCHANGED <<person, image, library, ValidN, tried, keyFlag>>

(* Get_Num: one pass.  A key that is down counts while the file's own flag is    *)
(* set, which nothing sets again; '#' ends the number before it has begun.     *)

Get_Num(n) ==
  \/ n = 0 /\ UNCHANGED keyFlag
  \/ keyFlag /\ keyFlag' = FALSE /\ n \in {IF key = 15 THEN 0 ELSE key : key \in KeyNumbers}

AfterStore_Returns(code) == IF code = "ok" THEN "main" ELSE "image1"
AfterStore(code) == IF code = "ok" THEN "count" ELSE "image1"

PS_StoreChar ==
  /\ epc = "store"
  /\ \E number \in KeyNumbers \cup {0} :
       /\ Get_Num(number)
       /\ IF number \notin Pages
          THEN UNCHANGED <<library, epc, lost, missed>>
          ELSE \E code \in Codes, done \in BOOLEAN :
                 /\ Answers(code, TRUE, done)
                 /\ library' = IF done THEN [library EXCEPT ![number] = CharBuffer[2]] ELSE library
                 /\ epc' = AfterStore(code)
  /\ UNCHANGED <<person, buffers, ValidN, tried>>

\* *ValidN is taken from every answer, whatever its code: one with an error holds the
\* packet's check sum in these bytes.
PS_ValidTempleteNum ==
  /\ epc = "count" /\ epc' = "main"
  /\ \/ ValidN' = Cardinality(Stored) /\ missed' = FALSE /\ UNCHANGED lost
     \/ ValidN' \in Sums /\ missed' = TRUE /\ UNCHANGED lost
     \/ lost < MaxLost /\ lost' = lost + 1 /\ missed' = TRUE /\ UNCHANGED ValidN
  /\ UNCHANGED <<person, buffers, library, tried, keyFlag>>

\* Del_FR's answers 0xFFFF and 0xFF00 do not come from a u8: one page, always.
PS_DeletChar ==
  /\ epc = "delete" /\ epc' = "count"
  /\ \E number \in KeyNumbers \cup {0}, code \in Codes, done \in BOOLEAN :
       /\ Get_Num(number)
       /\ Answers(code, number \in Pages, done)
       /\ library' = IF done THEN [library EXCEPT ![number] = NoPair] ELSE library
  /\ UNCHANGED <<person, buffers, ValidN, tried>>

\* The administrator calls; i holds whatever its place in memory held.
Add_FR ==
  /\ epc = "main" /\ calls < MaxCalls /\ calls' = calls + 1
  /\ epc' = "image1" /\ tried' \in 0 .. TriesWrap - 1
  /\ UNCHANGED <<finger, fingers, buffers, library, ValidN, keyFlag, missed, lost>>

Del_FR ==
  /\ epc = "main" /\ calls < MaxCalls /\ calls' = calls + 1
  /\ epc' = "delete"
  /\ UNCHANGED <<finger, fingers, buffers, library, ValidN, tried, keyFlag, missed, lost>>

EnrolStep ==
  \/ \E n \in 1 .. 2 : PS_GetImage(n) \/ PS_GenChar(n)
  \/ PS_Match \/ PS_RegModel \/ PS_StoreChar \/ PS_ValidTempleteNum \/ PS_DeletChar

EnrolNext == FingerMoves \/ EnrolStep \/ Add_FR \/ Del_FR

-----------------------------------------------------------------------------
(* Properties *)

\* Whatever is put on the sensor between two calls and whichever answer is lost,
\* a stored template was made of two images of one finger.
OneFingerPerTemplate ==
  \A page \in Stored : library[page][1] # NoFinger /\ library[page][1] = library[page][2]

\* ValidN is the number of templates whenever main goes on, however long the calls
\* before were and wherever they gave up, unless since ValidN was last read from an
\* answer without an error an answer was lost or ValidN was read from one with an
\* error: a page that the module has written or emptied is counted.
CountRight == epc = "main" /\ ~missed => ValidN = Cardinality(Stored)

\* The library of the module and what the lock believes of it.
EnrolInv == EnrolTypeOK /\ OneFingerPerTemplate /\ CountRight

\* Add_FR returns after the last finger has gone, whatever i held at first.
EnrolmentEnds == <>[](finger = NoFinger) => []<>(epc = "main")
=============================================================================

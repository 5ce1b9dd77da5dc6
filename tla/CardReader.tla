----------------------------- MODULE CardReader -----------------------------
(***************************************************************************)
(* The card reader: the commands of stm32/CODE/Hardware/MFRC522.c, and       *)
(* MFRC522Read of main.c and MFRC522ADD of Test.c, which string them         *)
(* together.  A number is the card that has it; Mixed is a number no card    *)
(* has: what a failed Anticoll leaves, its own command over the number of    *)
(* the card before.                                                         *)
(*                                                                          *)
(* The cards and the aether are external: a card answers a command that its   *)
(* state allows, goes back to its start on any other, and forgets its state   *)
(* when it leaves the field.                                                *)
(***************************************************************************)
EXTENDS Integers, FiniteSets

CONSTANTS
  Cards,
  KeyedCards,   \* cards whose key for block 4 is card_key0Abuf
  Mixed, None,
  MaxTries,     \* main reads so often before it gives up
  MaxMoves,     \* bound on the cards that come and go
  MaxNoise      \* bound on the answers that are lost or garbled

ASSUME CardAssumption ==
  /\ KeyedCards \subseteq Cards /\ {Mixed, None} \cap Cards = {} /\ Mixed # None
  /\ MaxTries \in Nat \ {0} /\ MaxMoves \in Nat /\ MaxNoise \in Nat

Numbers == Cards \cup {Mixed, None}
Phases  == {"idle", "ready", "active", "open"}

VARIABLES
  field,           \* the cards at the reader
  phase,           \* what each card waits for
  block,           \* the number in block 4 of each card
  cipher,          \* MFCrypto1On: bit 3 of Status2Reg
  card_numberbuf,
  cpc,             \* the command that comes next, or where main is
  adding,          \* MFRC522ADD runs, not MFRC522Read
  tries,           \* i of main
  flag1,           \* what MFRC522Read has returned
  enrolled,        \* history: the cards that MFRC522ADD has written to
  moves, noise     \* so far

cardVars == <<field, phase, block, cipher, card_numberbuf, cpc, adding, tries, flag1, enrolled,
              moves, noise>>
world    == <<field, block, moves>>
progress == <<adding, tries, enrolled>>

Commands == {"request", "anticoll", "select", "auth", "read", "write", "data"}

CardTypeOK ==
  /\ field \subseteq Cards /\ phase \in [Cards -> Phases] /\ block \in [Cards -> Numbers]
  /\ cipher \in BOOLEAN /\ card_numberbuf \in Numbers
  /\ cpc \in Commands \cup {"main", "between", "done"} /\ adding \in BOOLEAN
  /\ tries \in 0 .. MaxTries /\ flag1 \in BOOLEAN
  /\ enrolled \subseteq Cards
  /\ moves \in 0 .. MaxMoves /\ noise \in 0 .. MaxNoise

\* A new card is blank or a copy of the data of another one.
CardInit ==
  /\ field = {} /\ phase = [c \in Cards |-> "idle"]
  /\ block \in [Cards -> {None} \cup Cards] /\ \A c \in Cards : block[c] # c
  /\ cipher = FALSE /\ card_numberbuf = None /\ cpc = "main" /\ adding = FALSE
  /\ tries = 0 /\ flag1 = FALSE /\ enrolled = {} /\ moves = 0 /\ noise = 0

-----------------------------------------------------------------------------
(* Cards come, at most two at a time, and go. *)

CardMoves ==
  /\ moves < MaxMoves /\ moves' = moves + 1
  /\ \E c \in Cards :
       /\ field' = IF c \in field THEN field \ {c} ELSE field \cup {c}
       /\ phase' = [phase EXCEPT ![c] = "idle"]
  /\ Cardinality(field') <= 2
  /\ UNCHANGED <<block, cipher, card_numberbuf, cpc, adding, tries, flag1, enrolled, noise>>

(* MFRC522_ToCard.  The cards in answering answer and wait for next then; the  *)
(* others in the field start again.  Without an answer the timer ends the wait, *)
(* which reads as MI_OK with no bits: every caller must look at the bits.  An    *)
(* answer of two cards, or one that is disturbed, reads as MI_ERR.              *)

Clear == [status |-> "MI_OK", bits |-> "all"]
Nothing == [status |-> "MI_OK", bits |-> "none"]
Error == [status |-> "MI_ERR", bits |-> "none"]

Heard(answering, next) ==
  [c \in Cards |-> IF c \in answering THEN next ELSE IF c \in field THEN "idle" ELSE phase[c]]

MFRC522_ToCard(answering, next, alike, back) ==
  /\ \/ /\ noise' = noise
        /\ phase' = Heard(answering, next)
        /\ back = IF answering = {} THEN Nothing
                  ELSE IF Cardinality(answering) > 1 /\ ~alike THEN Error ELSE Clear
     \/ /\ noise < MaxNoise /\ noise' = noise + 1
        /\ phase' \in {phase, Heard(answering, next)}
        /\ back \in {Nothing, Error}

Backs == {Clear, Nothing, Error}

\* Cards in this phase that understand the reader: in the clear until their sector
\* is open, enciphered from then on.
Hearing(at) == {c \in field : phase[c] = at /\ cipher = (at = "open")}

\* The whole answer has come.
Whole(back) == back.status = "MI_OK" /\ back.bits = "all"

-----------------------------------------------------------------------------
(* The commands.  Both callers give up after a failed Request only. *)

MFRC522_Request ==
  /\ cpc = "request"
  /\ \E back \in Backs :
       /\ MFRC522_ToCard(Hearing("idle"), "ready", TRUE, back)
       /\ cpc' = IF Whole(back) THEN "anticoll" ELSE "done"
  /\ flag1' = FALSE
  /\ UNCHANGED <<world, progress, cipher, card_numberbuf>>

\* The card in the buffer is checked by its fifth byte only.
MFRC522_Anticoll ==
  /\ cpc = "anticoll" /\ cpc' = "select" /\ cipher' = FALSE
  /\ \E back \in Backs :
       LET ready == {c \in field : phase[c] = "ready"}
       IN  /\ MFRC522_ToCard(ready, "ready", FALSE, back)
           /\ card_numberbuf' = IF back = Clear THEN CHOOSE c \in ready : TRUE ELSE Mixed
  /\ UNCHANGED <<world, progress, flag1>>

MFRC522_SelectTag ==
  /\ cpc = "select" /\ cpc' = "auth" /\ cipher' = FALSE
  /\ \E back \in Backs :
       MFRC522_ToCard({c \in field : phase[c] = "ready" /\ c = card_numberbuf}, "active", TRUE, back)
  /\ UNCHANGED <<world, progress, card_numberbuf, flag1>>

\* The chip turns the cipher on if the card has proved that it knows the key.
MFRC522_Auth ==
  /\ cpc = "auth" /\ cpc' = IF adding THEN "write" ELSE "read"
  /\ \E back \in Backs :
       LET right == {c \in Hearing("active") : c \in KeyedCards /\ c = card_numberbuf}
       IN  /\ MFRC522_ToCard(right, "open", TRUE, back)
           /\ cipher' \in {back = Clear, right # {} /\ back # Nothing}
  /\ UNCHANGED <<world, progress, card_numberbuf, flag1>>

\* MFRC522Read compares the four bytes, if they have come.
Same_Unchecked(c) == TRUE
Same(c) == block[c] = card_numberbuf

MFRC522_Read ==
  /\ cpc = "read" /\ cpc' = "done"
  /\ \E back \in Backs :
       /\ MFRC522_ToCard(Hearing("open"), "open", TRUE, back)
       /\ flag1' = (Whole(back) /\ \A c \in Hearing("open") : Same(c))
  /\ UNCHANGED <<world, progress, cipher, card_numberbuf>>

\* The command, and after its acknowledgement the 16 bytes from card_numberbuf on.
MFRC522_Write ==
  /\ cpc = "write"
  /\ \E back \in Backs :
       /\ MFRC522_ToCard(Hearing("open"), "open", TRUE, back)
       /\ cpc' = IF Whole(back) THEN "data" ELSE "done"
  /\ UNCHANGED <<world, progress, cipher, card_numberbuf, flag1>>

\* The card writes although its acknowledgement may be lost, but not what comes
\* to it garbled; one that leaves between the two has been told nothing.
WriteData ==
  /\ cpc = "data" /\ cpc' = "done"
  /\ \E back \in Backs, arrives \in BOOLEAN :
       /\ MFRC522_ToCard(Hearing("open"), "open", TRUE, back)
       /\ back = Clear => arrives
       /\ block' = [c \in Cards |-> IF arrives /\ c \in Hearing("open") 
                              THEN card_numberbuf ELSE block[c]]
       /\ enrolled' = IF arrives THEN enrolled \cup Hearing("open") ELSE enrolled
  /\ UNCHANGED <<field, moves, adding, tries, cipher, card_numberbuf, flag1>>

-----------------------------------------------------------------------------
(* The callers *)

CipherAfterReset_Kept == cipher
CipherAfterReset == FALSE

\* The reset of the chip switches the field off for a moment; a card may or may not
\* notice.
MFRC522_Initializtion ==
  /\ cipher' = CipherAfterReset
  /\ \/ phase' = phase
     \/ phase' = [c \in Cards |-> "idle"]

\* The head of main's loop and the user's '3', or MFRC522ADD, which main calls
\* before its loop: the chip is then as the program before the restart has left it.
Starts(add) ==
  /\ cpc = "main" /\ cpc' = "request" /\ adding' = add /\ tries' = 0 /\ flag1' = FALSE
  /\ IF add THEN UNCHANGED <<phase, cipher>> ELSE MFRC522_Initializtion
  /\ UNCHANGED <<world, card_numberbuf, enrolled, noise>>

\* Ten seconds later, without a reset of the chip.
TriesAgain ==
  /\ cpc = "done" /\ ~adding /\ ~flag1 /\ tries + 1 < MaxTries
  /\ tries' = tries + 1 /\ cpc' = "request"
  /\ UNCHANGED <<world, phase, cipher, card_numberbuf, adding, flag1, enrolled, noise>>

CardDone ==
  /\ cpc = "done" /\ (adding \/ flag1 \/ tries + 1 = MaxTries)
  /\ cpc' = "main" /\ adding' = FALSE /\ tries' = 0 /\ flag1' = FALSE
  /\ UNCHANGED <<world, phase, cipher, card_numberbuf, enrolled, noise>>

ReaderStep ==
  \/ MFRC522_Request \/ MFRC522_Anticoll \/ MFRC522_SelectTag \/ MFRC522_Auth
  \/ MFRC522_Read \/ MFRC522_Write \/ WriteData \/ TriesAgain \/ CardDone

CardNext == CardMoves \/ ReaderStep \/ Starts(TRUE) \/ Starts(FALSE)

-----------------------------------------------------------------------------
(* Properties *)

\* The door is opened, and its number sent as RfidID, only for a card that was at
\* the reader while MFRC522ADD wrote it: not for a blank card, not for a copy of
\* the data of another one, whatever came, went or was garbled meanwhile.
OnlyEnrolledOpen ==
  cpc = "done" /\ flag1 => card_numberbuf \in enrolled /\ block[card_numberbuf] = card_numberbuf

\* The same, and the types.
CardInv == CardTypeOK /\ OnlyEnrolledOpen

\* An enrolled card that stays alone at the reader is accepted again and again,
\* although a read that failed leaves the cipher on until main resets the chip.
EnrolledAccepted ==
  \A c \in KeyedCards :
    <>[](field = {c} /\ c \in enrolled /\ ~adding) => []<>(cpc = "done" /\ flag1)
=============================================================================

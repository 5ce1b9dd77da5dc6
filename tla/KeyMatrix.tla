------------------------------ MODULE KeyMatrix ------------------------------
(***************************************************************************)
(* The keypad: KEY_work, KEY_Scan and KEY_Fun of                            *)
(* stm32/CODE/Hardware/keyboard.c, as main calls them.  A key connects its  *)
(* row to its column.  The rows are pulled up, the columns are driven; keys  *)
(* go down and up between any two of the readings of a row.                 *)
(***************************************************************************)
EXTENDS Integers, FiniteSets, FiniteSetsExt

CONSTANTS
  KeysOfPad,   \* pairs <<row, column>>, each in 1 .. 4
  MaxDown,     \* bound on the keys that are down at once
  MaxChanges   \* bound on the keys that go down or up

ASSUME KeyAssumption ==
  KeysOfPad \subseteq (1 .. 4) \X (1 .. 4) /\ MaxDown \in Nat /\ MaxChanges \in Nat

VARIABLES
  down,       \* the keys that are down
  kpc,        \* where main is
  readLine,   \* the row that is read next
  column,     \* the column that KEY_Scan looks at
  keynumber,  \* Keynumber of KEY_Scan
  touched,    \* history: the keys that were down at some time of this reading
  held,       \* history: those that were down all the time
  bounced,    \* history: one went up and down again during this reading
  changes     \* keys that went down or up so far

keyVars == <<down, kpc, readLine, column, keynumber, touched, held, bounced, changes>>
notes   == <<touched, held, bounced>>

Columns == 1 .. 4

KeyTypeOK ==
  /\ down \subseteq KeysOfPad /\ held \subseteq touched /\ touched \subseteq KeysOfPad
  /\ kpc \in {"idle", "look", "again", "rows", "columns", "done"}
  /\ readLine \in 1 .. 4 /\ column \in Columns /\ keynumber \in 0 .. 22
  /\ bounced \in BOOLEAN /\ changes \in 0 .. MaxChanges

KeyInit ==
  /\ down = {} /\ kpc = "idle" /\ readLine = 1 /\ column = 1 /\ keynumber = 0
  /\ touched = {} /\ held = {} /\ bounced = FALSE /\ changes = 0

-----------------------------------------------------------------------------
(* The keys *)

Changes(keys) ==
  /\ changes < MaxChanges /\ changes' = changes + 1
  /\ down' = keys /\ touched' = touched \cup keys /\ held' = held \cap keys
  /\ bounced' = (bounced \/ (keys \ down) \cap touched # {})
  /\ UNCHANGED <<kpc, readLine, column, keynumber>>

KeyDown == Cardinality(down) < MaxDown /\ \E key \in KeysOfPad \ down : Changes(down \cup {key})
KeyUp == \E key \in down : Changes(down \ {key})

-----------------------------------------------------------------------------
(* The rows.  A row whose keys connect it to a low and to a high column reads  *)
(* as either.                                                               *)

ColumnsAt(row) == {key[2] : key \in {k \in down : k[1] = row}}

\* What the next row may read as while the columns in low are driven low.
ReadsLow(low)  == ColumnsAt(readLine) \cap low # {}
ReadsHigh(low) == ColumnsAt(readLine) = {} \/ ~(ColumnsAt(readLine) \subseteq low)

\* Read_Line1==0 || ... || Read_Line4==0, up to the first row that is low.
AnyLow(low, found, none) ==
  \/ ReadsLow(low) /\ readLine' = 1 /\ found
  \/ /\ ReadsHigh(low) /\ readLine < 4 /\ readLine' = readLine + 1
     /\ UNCHANGED <<kpc, column, keynumber>>
  \/ ReadsHigh(low) /\ readLine = 4 /\ readLine' = 1 /\ none

ScanTo(to) == kpc' = to /\ keynumber' = 0 /\ UNCHANGED column

\* KEY_work; main comes here with read_flag set, until a key is found.
KEY_work ==
  /\ kpc = "idle"
  /\ IF readLine = 1 THEN touched' = down /\ held' = down /\ bounced' = FALSE
                 ELSE UNCHANGED notes
  /\ AnyLow(Columns, ScanTo("look"), ScanTo("idle"))
  /\ UNCHANGED <<down, changes>>

\* KEY_Scan looks with all columns low, and again after 15 ms.
FirstLook ==
  /\ kpc = "look"
  /\ AnyLow(Columns, ScanTo("again"), ScanTo("done"))
  /\ UNCHANGED <<down, notes, changes>>

SecondLook ==
  /\ kpc = "again"
  /\ AnyLow(Columns, ScanTo("rows"), ScanTo("done"))
  /\ UNCHANGED <<down, notes, changes>>

\* Then it reads each row once more; the last one that is low gives the number.
RowNumber_First == IF keynumber = 0 THEN 4 * (readLine - 1) ELSE keynumber
RowNumber == 4 * (readLine - 1)

RowRead ==
  /\ kpc = "rows"
  /\ \/ ReadsLow(Columns) /\ keynumber' = RowNumber
     \/ ReadsHigh(Columns) /\ keynumber' = keynumber
  /\ IF readLine = 4 THEN kpc' = "columns" /\ readLine' = 1
                     ELSE kpc' = kpc /\ readLine' = readLine + 1
  /\ UNCHANGED <<down, column, notes, changes>>

\* The columns that are low while column c is looked at.
Driven_Kept(c) == 1 .. c
Driven(c) == {c}

NextColumn(number) ==
  /\ keynumber' = number
  /\ IF column = 4 THEN kpc' = "done" /\ column' = 1 ELSE kpc' = kpc /\ column' = column + 1

ColumnRead ==
  /\ kpc = "columns"
  /\ AnyLow(Driven(column), NextColumn(keynumber + column), NextColumn(keynumber))
  /\ UNCHANGED <<down, notes, changes>>

KEY_Fun(number) ==
  IF number \in 1 .. 16
  THEN <<"1", "2", "3", "A", "4", "5", "6", "B", "7", "8", "9", "C", "*", "0", "#", "D">>[number]
  ELSE "none"

\* main has used the key and looks for the next one.
KeyTaken ==
  /\ kpc = "done" /\ kpc' = "idle" /\ keynumber' = 0
  /\ touched' = {} /\ held' = {} /\ bounced' = FALSE
  /\ UNCHANGED <<down, readLine, column, changes>>

KeyNext == KeyDown \/ KeyUp \/ KEY_work \/ FirstLook \/ SecondLook \/ RowRead \/ ColumnRead
           \/ KeyTaken

-----------------------------------------------------------------------------
(* Properties *)

\* What the keypad has printed on it.
Printed == << <<"1", "2", "3", "A">>, <<"4", "5", "6", "B">>,
              <<"7", "8", "9", "C">>, <<"*", "0", "#", "D">> >>

\* A single key that is down from KEY_work to the last column is read as the label
\* printed on it.  A single key that comes or goes meanwhile is read as itself, as
\* no key, or, released between its row and its column, as the last key of the row
\* above.  Only one that goes up before its row is read and down again before its
\* column is read as another one still, the key of the first row in its column.
OneKeyReadRight ==
  kpc = "done" =>
    \A key \in KeysOfPad :
      LET label == Printed[key[1]][key[2]]
          above == IF key[1] = 1 THEN "none" ELSE Printed[key[1] - 1][4]
          first == Printed[1][key[2]]
      IN  touched = {key} =>
            /\ KEY_Fun(keynumber) \in {label, above, "none"} \cup (IF bounced THEN {first} ELSE {})
            /\ held = {key} => KEY_Fun(keynumber) = label

\* The numbers of some columns, added up.
Added(columns) ==
  LET part(c) == IF c \in columns THEN c ELSE 0 IN part(1) + part(2) + part(3) + part(4)

\* Keys held down together give the row of the last of them and their columns
\* added up; where a column is added that none of them may pull, or one left out
\* that is alone in its row, the reading is wrong.
HeldKeysAddUp ==
  kpc = "done" /\ touched = held /\ held # {} =>
    LET row     == Max({key[1] : key \in held})
        alone   == {key \in held : \A other \in held \ {key} : other[1] # key[1]}
        certain == {key[2] : key \in alone}
        maybe   == {key[2] : key \in held}
    IN  \E columns \in SUBSET maybe :
          certain \subseteq columns /\ keynumber = 4 * (row - 1) + Added(columns)

\* One key or several: what is read is what these two say, and its types.
KeyInv == KeyTypeOK /\ OneKeyReadRight /\ HeldKeysAddUp
=============================================================================

----------------------------- MODULE BoardProofs -----------------------------
(***************************************************************************)
(* What the parts of Board.tla keep to, for every value of the constants.    *)
(* Each part has an inductive invariant, which its own steps keep; the steps *)
(* of the other parts leave its variables alone.                            *)
(***************************************************************************)
EXTENDS Board, TLAPS, FiniteSetTheorems

-----------------------------------------------------------------------------
(* The delays *)

\* The ticks of one piece, and what the presses may have cost.
Piece == my_ms * ask
Cost  == cuts * my_ms * ask

\* Elapsed, with the presses' cost, covers all but the last n pieces.
Covers(n) == elapsed = total \/ elapsed + Cost + n * Piece >= total

\* How far the present piece is, if no press has come since it began.
Clean ==
  /\ ipc = "off" /\ mpc # "stop"
  /\ mpc \in {"clear", "start", "poll"} => load = Piece - 1
  /\ mpc = "start" => val = 0
  /\ mpc = "poll" =>
       /\ enabled
       /\ flag => Covers(pieces - 1)
       /\ ~flag /\ val # 0 =>
            elapsed = total \/ elapsed + Cost + pieces * Piece >= total + Piece - val

\* The inductive invariant of the delays.
DelayIInv ==
  /\ DelayTypeOK /\ cuts <= presses
  /\ mpc # "idle" => ask \in Asks /\ pieces > 0 /\ total > 0
  /\ mpc \in {"idle", "load", "clear", "start"} /\ ipc = "off" => ~enabled
  /\ mpc = "idle" => Covers(0)
  /\ mpc # "idle" => Covers(pieces)
  /\ mpc # "idle" => Covers(pieces - 1) \/ Clean

\* LOAD can hold a piece of every delay of the main thread.
DelayFits == \A n \in Asks : my_ms * n <= Wrap

\* What DelayAssumption says, one fact at a time.
LEMMA DelayConstants ==
  /\ my_ms \in Nat /\ my_ms > 1 /\ Wrap \in Nat /\ Wrap > 0 /\ HandlerAsk \in Nat
  /\ MaxPieces \in Nat /\ MaxPresses \in Nat
  /\ \A n \in Asks : n \in Nat /\ n > 0
<1>1. my_ms \in Nat /\ my_ms > 1 /\ Wrap \in Nat /\ Wrap > 0 /\ HandlerAsk \in Nat
  BY DelayAssumption
<1>2. MaxPieces \in Nat /\ MaxPresses \in Nat
  BY DelayAssumption
<1>3. \A n \in Asks : n \in Nat /\ n > 0
  BY DelayAssumption
<1> QED
  BY <1>1, <1>2, <1>3

\* Arithmetic: a piece that has run is one piece less to wait for.
LEMMA OnePieceLess ==
  ASSUME NEW e \in Int, NEW t \in Int, NEW c \in Int, NEW p \in Int, NEW q \in Int, NEW r \in Int,
         r = q - p, e = t \/ e + c + q >= t + p
  PROVE  e = t \/ e + c + r >= t
OBVIOUS

\* Nothing has been asked for.
LEMMA DelayInitKeeps == DelayInit => DelayIInv
<1> SUFFICES ASSUME DelayInit PROVE DelayIInv
  OBVIOUS
<1>1. DelayTypeOK
  <2>1. load \in 0 .. (Wrap - 1) /\ val \in 0 .. (Wrap - 1) /\ pieces \in 0 .. MaxPieces
    BY DelayConstants DEF DelayInit
  <2>2. cuts \in 0 .. MaxPresses /\ presses \in 0 .. MaxPresses /\ elapsed \in 0 .. total
    BY DelayConstants DEF DelayInit
  <2> QED
    BY <2>1, <2>2 DEF DelayInit, DelayTypeOK, Steps
<1> QED
  BY <1>1 DEF DelayInit, DelayIInv, Covers

\* The sizes are integers, and a piece has at least two ticks.
LEMMA Pieces ==
  ASSUME DelayTypeOK, mpc # "idle" => ask \in Asks
  PROVE  /\ Piece \in Int /\ Cost \in Int
         /\ \A n \in Int : n * Piece \in Int /\ (n - 1) * Piece = n * Piece - Piece
         /\ mpc # "idle" => Piece > 1
<1>1. my_ms \in Int /\ ask \in Int /\ cuts \in Int /\ my_ms > 1
  BY DelayConstants DEF DelayTypeOK
<1>2. Piece \in Int /\ Cost \in Int
  BY <1>1 DEF Piece, Cost
<1>3. ASSUME NEW n \in Int, NEW p \in Int PROVE n * p \in Int /\ (n - 1) * p = n * p - p
  OBVIOUS
<1>4. ASSUME NEW m \in Int, NEW a \in Int, m > 1, a > 0 PROVE m * a > 1
  BY <1>4
<1>5. mpc # "idle" => ask > 0
  BY DelayConstants
<1> QED
  BY <1>1, <1>2, <1>3, <1>4, <1>5 DEF Piece

\* A tick.
LEMMA TickKeeps == DelayIInv /\ Tick => DelayIInv'
<1> SUFFICES ASSUME DelayIInv, Tick PROVE DelayIInv'
  OBVIOUS
<1>1. DelayTypeOK
  BY DEF DelayIInv
<1>2. /\ enabled /\ val' = IF val = 0 THEN load ELSE val - 1
      /\ flag' = (flag \/ val = 1)
      /\ elapsed' = IF mpc # "idle" /\ elapsed < total THEN elapsed + 1 ELSE elapsed
      /\ load' = load /\ enabled' = enabled /\ mpc' = mpc /\ ask' = ask /\ pieces' = pieces
      /\ total' = total /\ cuts' = cuts /\ ipc' = ipc /\ presses' = presses
  BY DEF Tick, mainVars
<1>3. DelayTypeOK'
  <2>1. val' \in 0 .. (Wrap - 1) /\ flag' \in BOOLEAN
    BY <1>1, <1>2, DelayConstants DEF DelayTypeOK
  <2>2. elapsed' \in 0 .. total'
    BY <1>1, <1>2 DEF DelayTypeOK
  <2> QED
    BY <1>1, <1>2, <2>1, <2>2 DEF DelayTypeOK
<1>4. Piece' = Piece /\ Cost' = Cost
  BY <1>2 DEF Piece, Cost
<1>5. /\ Piece \in Int /\ Cost \in Int
      /\ \A n \in Int : n * Piece \in Int /\ (n - 1) * Piece = n * Piece - Piece
      /\ mpc # "idle" => Piece > 1
  BY <1>1, Pieces DEF DelayIInv
<1>6. /\ elapsed \in Int /\ total \in Int /\ elapsed <= total /\ val \in Int /\ val >= 0
      /\ pieces \in Int
  BY <1>1 DEF DelayTypeOK
<1>7. ASSUME NEW n \in Int, Covers(n) PROVE Covers(n)'
  <2>1. n * Piece \in Int
    BY <1>5
  <2>2. elapsed' = elapsed \/ (elapsed' = elapsed + 1 /\ elapsed < total)
    BY <1>2
  <2> HIDE DEF Piece, Cost
  <2> QED
    BY <1>2, <1>4, <1>5, <1>6, <1>7, <2>1, <2>2 DEF Covers
<1>8. /\ cuts <= presses
      /\ mpc # "idle" => ask \in Asks /\ pieces > 0 /\ total > 0
      /\ mpc \in {"idle", "load", "clear", "start"} /\ ipc = "off" => ~enabled
      /\ mpc = "idle" => Covers(0)
      /\ mpc # "idle" => Covers(pieces)
      /\ mpc # "idle" => Covers(pieces - 1) \/ Clean
  BY DEF DelayIInv
<1>9. Covers(0) => Covers(0)'
  BY <1>7
<1>10. Covers(pieces) => Covers(pieces)'
  BY <1>2, <1>6, <1>7
<1>11. Covers(pieces - 1) => Covers(pieces - 1)'
  BY <1>2, <1>6, <1>7
<1>12. ASSUME Clean, mpc # "idle" PROVE Clean' \/ Covers(pieces - 1)'
  <2>1. mpc = "poll"
    BY <1>2, <1>8, <1>12, <1>1 DEF Clean, DelayTypeOK, Steps
  <2>2. ipc = "off" /\ enabled /\ load = Piece - 1 /\ (flag => Covers(pieces - 1))
        /\ (~flag /\ val # 0 =>
              elapsed = total \/ elapsed + Cost + pieces * Piece >= total + Piece - val)
    BY <1>12, <2>1 DEF Clean
  <2>3. CASE flag
    BY <2>2, <2>3, <1>11
  <2>4. CASE ~flag /\ val = 1
    <3>1. Covers(pieces - 1)'
      <4>1. elapsed = total \/ elapsed + Cost + pieces * Piece >= total + Piece - 1
        BY <2>2, <2>4
      <4>2. elapsed' = total \/ elapsed' + Cost + pieces * Piece >= total + Piece
        BY <4>1, <1>2, <1>5, <1>6, <2>1
      <4>3. (pieces - 1) * Piece = pieces * Piece - Piece /\ pieces * Piece \in Int
        BY <1>5, <1>6
      <4>4. elapsed' \in Int
        BY <1>2, <1>6
      <4>5. elapsed' = total \/ elapsed' + Cost + (pieces - 1) * Piece >= total
        <5> DEFINE p == Piece q == pieces * Piece r == (pieces - 1) * Piece
        <5>1. p \in Int /\ q \in Int /\ r \in Int /\ Cost \in Int
          BY <1>5, <1>6
        <5>2. r = q - p
          BY <4>3
        <5>3. elapsed' = total \/ elapsed' + Cost + q >= total + p
          BY <4>2
        <5> HIDE DEF p, q, r
        <5>4. elapsed' = total \/ elapsed' + Cost + r >= total
          BY <5>1, <5>2, <5>3, <4>4, <1>6, OnePieceLess
        <5> QED
          BY <5>4 DEF r
      <4> QED
        BY <4>5, <1>2, <1>4 DEF Covers
    <3> QED
      BY <3>1
  <2>5. CASE ~flag /\ val # 1
    <3>1. ~flag'
      BY <1>2, <2>5
    <3>2. elapsed' = total \/ elapsed' + Cost + pieces * Piece >= total + Piece - val'
      <4>1. CASE val = 0
        <5>1. elapsed = total \/ elapsed + Cost + pieces * Piece >= total
          BY <1>8, <2>1 DEF Covers
        <5>2. val' = Piece - 1
          BY <4>1, <1>2, <2>2
        <5>3. pieces * Piece \in Int
          BY <1>5, <1>6
        <5> QED
          BY <5>1, <5>2, <5>3, <1>2, <1>5, <1>6, <2>1
      <4>2. CASE val # 0
        <5>1. elapsed = total \/ elapsed + Cost + pieces * Piece >= total + Piece - val
          BY <4>2, <2>2, <2>5
        <5>2. val' = val - 1 /\ pieces * Piece \in Int
          BY <4>2, <1>2, <1>5, <1>6
        <5> QED
          BY <5>1, <5>2, <1>2, <1>5, <1>6, <2>1
      <4> QED
        BY <4>1, <4>2
    <3> QED
      BY <2>1, <2>2, <2>5, <3>1, <3>2, <1>2, <1>4 DEF Clean
  <2> QED
    BY <2>3, <2>4, <2>5
<1> QED
  BY <1>2, <1>3, <1>8, <1>9, <1>10, <1>11, <1>12 DEF DelayIInv

\* What SetLoad leaves in LOAD.
LoadFor(n) == (my_ms * n - 1) % Wrap

\* The access that a context takes next.
LEMMA Accesses ==
  ASSUME NEW here \in Steps, NEW n \in Nat \ {0}, Access(here, n), DelayTypeOK
  PROVE  /\ load' \in 0 .. (Wrap - 1) /\ val' \in 0 .. (Wrap - 1)
         /\ enabled' \in BOOLEAN /\ flag' \in BOOLEAN
         /\ here = "load"  => load' = LoadFor(n) /\ UNCHANGED <<val, enabled, flag>>
         /\ here = "clear" => val' = 0 /\ ~flag' /\ UNCHANGED <<load, enabled>>
         /\ here = "start" => enabled' /\ ~flag' /\ UNCHANGED <<load, val>>
         /\ here = "poll"  => ~flag' /\ UNCHANGED <<load, val, enabled>>
         /\ here = "stop"  => ~enabled' /\ ~flag' /\ UNCHANGED <<load, val>>
<1>1. /\ load \in 0 .. (Wrap - 1) /\ val \in 0 .. (Wrap - 1) /\ enabled \in BOOLEAN /\ flag \in BOOLEAN
  BY DEF DelayTypeOK
<1>2. CASE here = "load" /\ SetLoad(n)
  <2> DEFINE w == my_ms * n - 1
  <2>1. w \in Int
    BY DelayConstants
  <2> HIDE DEF w
  <2>2. w % Wrap \in 0 .. (Wrap - 1)
    BY <2>1, DelayConstants
  <2> QED
    BY <1>1, <1>2, <2>2 DEF SetLoad, w, LoadFor
<1>3. CASE here = "clear" /\ ClearVal
  <2>1. /\ val' = 0 /\ flag' = FALSE /\ load' = load /\ enabled' = enabled
        /\ 0 \in 0 .. (Wrap - 1)
    BY <1>3, DelayConstants DEF ClearVal
  <2> QED
    BY <1>1, <1>3, <2>1
<1>4. CASE here = "start" /\ Start
  BY <1>1, <1>4 DEF Start
<1>5. CASE here = "poll" /\ Poll
  BY <1>1, <1>5 DEF Poll
<1>6. CASE here = "stop" /\ Stop
  BY <1>1, <1>6 DEF Stop
<1>7. \/ here = "load" /\ SetLoad(n)
      \/ here = "clear" /\ ClearVal
      \/ here = "start" /\ Start
      \/ here = "poll" /\ Poll
      \/ here = "stop" /\ Stop
  BY DEF Access
<1> QED
  BY <1>2, <1>3, <1>4, <1>5, <1>6, <1>7

\* The handler of the close key: the press has already paid for what it does to the
\* counter.
LEMMA HandlerKeeps == DelayIInv /\ HandlerStep => DelayIInv'
<1> SUFFICES ASSUME DelayIInv, HandlerStep PROVE DelayIInv'
  OBVIOUS
<1>1. /\ DelayTypeOK /\ cuts <= presses
      /\ mpc # "idle" => ask \in Asks /\ pieces > 0 /\ total > 0
      /\ mpc = "idle" => Covers(0)
      /\ mpc # "idle" => Covers(pieces)
      /\ mpc # "idle" => Covers(pieces - 1) \/ Clean
  BY DEF DelayIInv
<1>2. /\ ipc # "off" /\ Access(ipc, HandlerAsk) /\ ipc' = After(ipc, "off")
      /\ UNCHANGED <<mpc, ask, pieces, total, elapsed, cuts, presses>>
  BY DEF HandlerStep, mainVars, history
<1>3. ipc \in Steps /\ HandlerAsk \in Nat \ {0}
  BY <1>1, <1>2, DelayAssumption DEF DelayTypeOK
<1>4. /\ load' \in 0 .. (Wrap - 1) /\ val' \in 0 .. (Wrap - 1)
      /\ enabled' \in BOOLEAN /\ flag' \in BOOLEAN
      /\ ipc = "stop" => ~enabled'
  BY <1>1, <1>2, <1>3, Accesses
<1>5. ipc' \in Steps \cup {"off"} /\ (ipc' = "off" => ipc = "stop")
  BY <1>2, <1>3 DEF After, Steps
<1>6. DelayTypeOK'
  BY <1>1, <1>2, <1>4, <1>5 DEF DelayTypeOK
<1>7. mpc # "idle" => Covers(pieces - 1)
  BY <1>1, <1>2 DEF Clean
<1>8. /\ Covers(0) => Covers(0)'
      /\ Covers(pieces) => Covers(pieces)'
      /\ Covers(pieces - 1) => Covers(pieces - 1)'
  BY <1>2 DEF Covers, Cost, Piece
<1>9. cuts' <= presses' /\ (mpc' # "idle" => ask' \in Asks /\ pieces' > 0 /\ total' > 0)
  BY <1>1, <1>2
<1>10. ipc' = "off" => ~enabled'
  BY <1>4, <1>5
<1>11. (mpc' = "idle" => Covers(0)') /\ (mpc' # "idle" => Covers(pieces)' /\ Covers(pieces - 1)')
  <2>1. mpc' = mpc
    BY <1>2
  <2>2. CASE mpc = "idle"
    BY <2>1, <2>2, <1>1, <1>8
  <2>3. CASE mpc # "idle"
    BY <2>1, <2>3, <1>1, <1>7, <1>8
  <2> QED
    BY <2>2, <2>3
<1> QED
  BY <1>6, <1>9, <1>10, <1>11 DEF DelayIInv

\* A press costs as much as the present piece, which may be cut short by it.
LEMMA PressKeeps == DelayIInv /\ Press => DelayIInv'
<1> SUFFICES ASSUME DelayIInv, Press PROVE DelayIInv'
  OBVIOUS
<1>1. /\ DelayTypeOK /\ cuts <= presses
      /\ mpc # "idle" => ask \in Asks /\ pieces > 0 /\ total > 0
      /\ mpc = "idle" => Covers(0)
      /\ mpc # "idle" => Covers(pieces)
  BY DEF DelayIInv
<1>2. /\ presses < MaxPresses /\ ipc' = "load" /\ presses' = presses + 1
      /\ cuts' = IF mpc = "idle" THEN cuts ELSE cuts + 1
      /\ UNCHANGED <<load, val, enabled, flag, mpc, ask, pieces, total, elapsed>>
  BY DEF Press, sysTick, mainVars
<1>3. cuts \in Nat /\ cuts <= presses /\ presses \in Nat /\ presses <= MaxPresses
  BY <1>1 DEF DelayTypeOK
<1>4. DelayTypeOK'
  BY <1>1, <1>2, <1>3, DelayConstants DEF DelayTypeOK, Steps
<1>5. mpc = "idle" => Covers(0)'
  BY <1>1, <1>2 DEF Covers, Cost, Piece
<1>6. ASSUME mpc # "idle" PROVE Covers(pieces)' /\ Covers(pieces - 1)'
  <2> DEFINE q == pieces * Piece r == (pieces - 1) * Piece
  <2>1. /\ Piece \in Int /\ Cost \in Int /\ Piece > 1 /\ q \in Int /\ r \in Int /\ r = q - Piece
    BY <1>1, <1>6, Pieces DEF DelayTypeOK
  <2>2. Cost' = Cost + Piece
    <3>1. cuts \in Int /\ my_ms \in Int /\ ask \in Int /\ cuts' = cuts + 1
      BY <1>1, <1>2, <1>6, DelayConstants DEF DelayTypeOK
    <3> QED
      BY <3>1, <1>2 DEF Cost, Piece
  <2>3. Piece' = Piece /\ (pieces * Piece)' = q /\ ((pieces - 1) * Piece)' = r
    BY <1>2 DEF Piece
  <2>4. elapsed = total \/ elapsed + Cost + q >= total
    BY <1>1, <1>6 DEF Covers
  <2>5. elapsed \in Int /\ total \in Int
    BY <1>1 DEF DelayTypeOK
  <2> HIDE DEF q, r
  <2>6. elapsed = total \/ elapsed + (Cost + Piece) + q >= total
    BY <2>1, <2>4, <2>5
  <2>7. elapsed = total \/ elapsed + (Cost + Piece) + r >= total
    BY <2>1, <2>4, <2>5
  <2> QED
    BY <2>2, <2>3, <2>6, <2>7, <1>2 DEF Covers
<1>7. cuts' <= presses' /\ (mpc' # "idle" => ask' \in Asks /\ pieces' > 0 /\ total' > 0)
  BY <1>1, <1>2, <1>3
<1>8. ipc' # "off" /\ mpc' = mpc
  BY <1>2
<1> QED
  BY <1>4, <1>5, <1>6, <1>7, <1>8 DEF DelayIInv

\* The main thread asks for k pieces of n milliseconds; none has run.
LEMMA CallKeeps ==
  ASSUME DelayIInv, NEW n \in Asks, NEW k \in 1 .. MaxPieces, Call(n, k)
  PROVE  DelayIInv'
<1>1. /\ DelayTypeOK /\ cuts <= presses
      /\ mpc \in {"idle", "load", "clear", "start"} /\ ipc = "off" => ~enabled
  BY DEF DelayIInv
<1>2. /\ mpc = "idle" /\ ipc = "off" /\ mpc' = "load" /\ ask' = n /\ pieces' = k
      /\ total' = my_ms * n * k /\ elapsed' = 0 /\ cuts' = 0
      /\ UNCHANGED <<load, val, enabled, flag, ipc, presses>>
  BY DEF Call, sysTick
<1>3. n \in Nat /\ n > 0 /\ my_ms \in Nat /\ my_ms > 1 /\ k \in 1 .. MaxPieces /\ MaxPieces \in Nat
  BY DelayConstants
<1>4. my_ms * n \in Nat /\ my_ms * n > 1
  <2>1. \A m \in Nat, a \in Nat : m > 1 /\ a > 0 => m * a \in Nat /\ m * a > 1
    OBVIOUS
  <2> QED
    BY <1>3, <2>1
<1>5. my_ms * n * k \in Nat /\ my_ms * n * k > 0 /\ my_ms * n * k = k * (my_ms * n)
  <2>1. \A m \in Nat, a \in Nat : m > 1 /\ a > 0 => m * a \in Nat /\ m * a > 0 /\ m * a = a * m
    OBVIOUS
  <2>2. k \in Nat /\ k > 0
    BY <1>3
  <2> QED
    BY <1>4, <2>1, <2>2
<1>6. DelayTypeOK'
  <2>1. total' \in Nat /\ elapsed' \in 0 .. total' /\ ask' \in Nat /\ pieces' \in 0 .. MaxPieces
    BY <1>2, <1>3, <1>5
  <2>2. cuts' \in 0 .. MaxPresses
    BY <1>2, DelayConstants
  <2> QED
    BY <1>1, <1>2, <2>1, <2>2 DEF DelayTypeOK, Steps
<1>7. Covers(pieces)'
  <2>1. Piece' = my_ms * n
    BY <1>2 DEF Piece
  <2>2. Cost' = 0
    <3>1. Cost' = 0 * my_ms * n
      BY <1>2 DEF Cost
    <3> QED
      BY <1>3, <3>1
  <2>3. (pieces * Piece)' = total'
    BY <2>1, <1>2, <1>5
  <2>4. elapsed' + Cost' + (pieces * Piece)' >= total'
    <3>1. \A t \in Nat : 0 + 0 + t >= t
      OBVIOUS
    <3>2. 0 + 0 + total' >= total'
      BY <3>1, <1>2, <1>5
    <3> QED
      BY <3>2, <2>2, <2>3, <1>2
  <2> QED
    BY <2>4 DEF Covers
<1>8. Clean'
  BY <1>2 DEF Clean
<1>9. cuts' <= presses' /\ ask' \in Asks /\ pieces' > 0 /\ total' > 0 /\ ~enabled' /\ mpc' # "idle"
  BY <1>1, <1>2, <1>3, <1>5 DEF DelayTypeOK
<1> QED
  BY <1>6, <1>7, <1>8, <1>9 DEF DelayIInv

\* The main thread takes its next access.  Its LOAD keeps the whole piece because
\* DelayFits.
LEMMA MainKeeps ==
  ASSUME DelayFits, DelayIInv, MainStep
  PROVE  DelayIInv'
<1>1. /\ DelayTypeOK /\ cuts <= presses /\ ask \in Asks /\ pieces > 0 /\ total > 0
      /\ mpc \in {"idle", "load", "clear", "start"} /\ ipc = "off" => ~enabled
      /\ Covers(pieces)
      /\ Covers(pieces - 1) \/ Clean
  BY DEF DelayIInv, MainStep
<1>2. /\ mpc # "idle" /\ ipc = "off" /\ Access(mpc, ask)
      /\ mpc' = After(mpc, IF MorePieces THEN "load" ELSE "idle")
      /\ pieces' = IF mpc = "stop" THEN pieces - 1 ELSE pieces
      /\ UNCHANGED <<ask, total, elapsed, cuts, ipc, presses>>
  BY DEF MainStep, history
<1>3. mpc \in Steps /\ ask \in Nat \ {0} /\ pieces \in 1 .. MaxPieces /\ MaxPieces \in Nat
  <2>1. ask \in Nat \ {0}
    BY <1>1, DelayConstants
  <2>2. pieces \in 1 .. MaxPieces /\ MaxPieces \in Nat
    BY <1>1, DelayConstants DEF DelayTypeOK
  <2> QED
    BY <1>1, <1>2, <2>1, <2>2 DEF DelayTypeOK
<1>4. /\ load' \in 0 .. (Wrap - 1) /\ val' \in 0 .. (Wrap - 1)
      /\ enabled' \in BOOLEAN /\ flag' \in BOOLEAN
      /\ mpc = "load"  => load' = LoadFor(ask) /\ UNCHANGED <<val, enabled, flag>>
      /\ mpc = "clear" => val' = 0 /\ ~flag' /\ UNCHANGED <<load, enabled>>
      /\ mpc = "start" => enabled' /\ ~flag' /\ UNCHANGED <<load, val>>
      /\ mpc = "poll"  => ~flag' /\ UNCHANGED <<load, val, enabled>>
      /\ mpc = "stop"  => ~enabled' /\ ~flag' /\ UNCHANGED <<load, val>>
  BY <1>1, <1>2, <1>3, Accesses
<1>5. /\ mpc' \in Steps \cup {"idle"}
      /\ mpc = "load" => mpc' = "clear"
      /\ mpc = "clear" => mpc' = "start"
      /\ mpc = "start" => mpc' = "poll"
      /\ mpc = "poll" => mpc' = IF Ended THEN "stop" ELSE "poll"
      /\ mpc = "stop" => mpc' = IF MorePieces THEN "load" ELSE "idle"
  BY <1>2, <1>3 DEF After, Steps
<1>6. pieces' \in 0 .. MaxPieces
  BY <1>2, <1>3
<1>7. DelayTypeOK'
  BY <1>1, <1>2, <1>4, <1>5, <1>6 DEF DelayTypeOK
<1>8. LoadFor(ask) = Piece - 1
  <2>1. Piece \in Int /\ Piece > 1 /\ Piece <= Wrap /\ Wrap \in Nat
    BY <1>1, <1>2, Pieces, DelayConstants DEF DelayFits, Piece
  <2>2. LoadFor(ask) = (Piece - 1) % Wrap
    BY DEF LoadFor, Piece
  <2> HIDE DEF Piece
  <2> QED
    BY <2>1, <2>2
<1>9. ASSUME NEW n, Covers(n) PROVE elapsed' = total' \/ elapsed' + Cost' + n * Piece' >= total'
  BY <1>2, <1>9 DEF Covers, Cost, Piece
<1>10. CASE mpc = "stop"
  <2>1. Covers(pieces - 1)
    BY <1>1, <1>10 DEF Clean
  <2>2. Covers(pieces)'
    BY <1>2, <1>9, <1>10, <2>1 DEF Covers
  <2>3. CASE MorePieces
    <3>1. mpc' = "load" /\ pieces' > 0 /\ ~enabled' /\ ipc' = "off"
      BY <1>2, <1>3, <1>4, <1>5, <1>10, <2>3 DEF MorePieces
    <3>2. Clean'
      BY <3>1 DEF Clean
    <3>3. cuts' <= presses' /\ ask' \in Asks /\ total' > 0
      BY <1>1, <1>2
    <3> QED
      BY <1>7, <2>2, <3>1, <3>2, <3>3 DEF DelayIInv
  <2>4. CASE ~MorePieces
    <3>1. mpc' = "idle" /\ pieces' = 0 /\ ~enabled' /\ cuts' <= presses'
      BY <1>1, <1>2, <1>3, <1>4, <1>5, <1>10, <2>4 DEF MorePieces
    <3>2. Covers(0)'
      BY <2>2, <3>1 DEF Covers
    <3> QED
      BY <1>7, <3>1, <3>2 DEF DelayIInv
  <2> QED
    BY <2>3, <2>4
<1>11. CASE mpc # "stop"
  <2>1. /\ pieces' = pieces /\ mpc' # "idle" /\ ask' \in Asks /\ pieces' > 0 /\ total' > 0
        /\ cuts' <= presses'
    BY <1>1, <1>2, <1>3, <1>5, <1>11 DEF Steps
  <2>2. Covers(pieces)'
    BY <1>1, <1>9, <2>1 DEF Covers
  <2>3. Covers(pieces - 1) => Covers(pieces - 1)'
    BY <1>9, <2>1 DEF Covers
  <2>4. mpc' \in {"idle", "load", "clear", "start"} => ~enabled'
    BY <1>1, <1>2, <1>3, <1>4, <1>5, <1>11 DEF Steps
  <2>5. Piece' = Piece
    BY <1>2 DEF Piece
  <2>6. ASSUME Clean PROVE Covers(pieces - 1)' \/ Clean'
    <3>1. CASE mpc = "load"
      BY <1>2, <1>4, <1>5, <1>8, <2>5, <3>1 DEF Clean
    <3>2. CASE mpc = "clear"
      BY <1>2, <1>4, <1>5, <2>5, <2>6, <3>2 DEF Clean
    <3>3. CASE mpc = "start"
      <4>1. /\ mpc' = "poll" /\ ipc' = "off" /\ load' = Piece' - 1 /\ enabled' /\ ~flag' /\ val' = 0
        BY <1>2, <1>4, <1>5, <2>5, <2>6, <3>3 DEF Clean
      <4> QED
        BY <4>1 DEF Clean
    <3>4. CASE mpc = "poll" /\ flag
      BY <2>3, <2>6, <3>4 DEF Clean
    <3>5. CASE mpc = "poll" /\ ~flag
      <4>1. /\ mpc' = "poll" /\ ipc' = "off" /\ load' = load /\ enabled' = enabled
            /\ ~flag' /\ val' = val
        BY <1>2, <1>4, <1>5, <2>6, <3>5 DEF Clean, Ended
      <4>2. /\ load = Piece - 1 /\ enabled
            /\ val # 0 => elapsed = total \/ elapsed + Cost + pieces * Piece >= total + Piece - val
        BY <2>6, <3>5 DEF Clean
      <4>3. elapsed' = elapsed /\ total' = total /\ Cost' = Cost /\ pieces' = pieces
        BY <1>2, <2>1 DEF Cost
      <4> QED
        BY <4>1, <4>2, <4>3, <2>5 DEF Clean
    <3> QED
      BY <1>3, <1>11, <3>1, <3>2, <3>3, <3>4, <3>5 DEF Steps
  <2> QED
    BY <1>1, <1>7, <2>1, <2>2, <2>3, <2>4, <2>6 DEF DelayIInv
<1> QED
  BY <1>10, <1>11

\* Every step of the delays keeps the invariant.
LEMMA DelayKeeps == DelayFits /\ DelayIInv /\ [DelayNext]_delayVars => DelayIInv'
<1> SUFFICES ASSUME DelayFits, DelayIInv, [DelayNext]_delayVars PROVE DelayIInv'
  OBVIOUS
<1>1. CASE UNCHANGED delayVars
  BY <1>1 DEF DelayIInv, DelayTypeOK, Clean, Covers, Cost, Piece, delayVars, sysTick, mainVars,
              history
<1>2. CASE \E n \in Asks, k \in 1 .. MaxPieces : Call(n, k)
  BY <1>2, CallKeeps
<1> QED
  BY <1>1, <1>2, TickKeeps, MainKeeps, PressKeeps, HandlerKeeps DEF DelayNext

\* In the end no piece is left, so the delay was long enough.
LEMMA DelayGood == DelayIInv => DelayInv
<1> SUFFICES ASSUME DelayIInv PROVE DelayInv
  OBVIOUS
<1>1. DelayTypeOK /\ (mpc = "idle" => Covers(0))
  BY DEF DelayIInv
<1>2. ASSUME mpc = "idle" PROVE elapsed + Cost >= total
  <2>1. Cost \in Int /\ Cost >= 0
    <3>1. \A a \in Nat, b \in Nat : a * b \in Nat
      OBVIOUS
    <3>2. cuts \in Nat /\ my_ms \in Nat /\ ask \in Nat
      BY <1>1, DelayConstants DEF DelayTypeOK
    <3>3. cuts * my_ms \in Nat
      BY <3>1, <3>2
    <3>4. cuts * my_ms * ask \in Nat
      BY <3>1, <3>2, <3>3
    <3> QED
      BY <3>4 DEF Cost
  <2>2. 0 * Piece = 0
    BY <1>1, <1>2, DelayConstants DEF DelayTypeOK, Piece
  <2>3. elapsed = total \/ elapsed + Cost + 0 >= total
    BY <1>1, <1>2, <2>2 DEF Covers
  <2>4. elapsed \in Int /\ total \in Int
    BY <1>1 DEF DelayTypeOK
  <2> QED
    BY <2>1, <2>3, <2>4
<1> QED
  BY <1>1, <1>2 DEF DelayInv, LosesOnePiece, Cost

-----------------------------------------------------------------------------
(* The keypad *)

\* The columns that have been looked at.
Looked ==
  IF kpc = "columns" THEN 1 .. (column - 1) ELSE IF kpc = "done" THEN Columns ELSE {}

\* A reading begins with a key that is down, and what it has noted of the keys is true.
NotedInv ==
  /\ kpc # "idle" => touched # {}
  /\ kpc # "idle" \/ readLine # 1 => held \subseteq down /\ down \subseteq touched
  /\ kpc # "columns" => column = 1
  /\ kpc = "done" => readLine = 1

\* The number after the rows and after the columns that have been looked at, for any keys.
NumberInv ==
  /\ kpc = "rows" => keynumber <= 12
  /\ kpc = "columns" => /\ column = 1 => keynumber <= 12
                        /\ column = 2 => keynumber <= 13
                        /\ column = 3 => keynumber <= 15
                        /\ column = 4 => keynumber <= 18

\* No row above the next one has a key that was held, as long as none has read low.
WaitInv == kpc \in {"look", "again"} => \A key \in held : key[1] >= readLine

\* The number of one key that was down at some time, after its row: its row's, its own,
\* or, when its row was missed, none or the first row's.
OneOf(key) ==
  \/ keynumber = 4 * (key[1] - 1)
  \/ key[2] \in Looked /\ keynumber = 4 * (key[1] - 1) + key[2]
  \/ keynumber = 0 /\ (bounced \/ key \notin down)
  \/ key[2] \in Looked /\ keynumber = key[2] /\ bounced

OneInv ==
  \A key \in KeysOfPad : touched = {key} =>
    /\ kpc = "rows" /\ readLine <= key[1] => keynumber = 0
    /\ kpc = "rows" /\ readLine > key[1] => OneOf(key)
    /\ kpc = "columns" => OneOf(key)
    /\ kpc = "done" => keynumber = 0 \/ OneOf(key)

\* Keys that are alone in their row, and the rows and columns of some keys.
Alone(keys) == {key \in keys : \A other \in keys \ {key} : other[1] # key[1]}
Rows(keys) == {key[1] : key \in keys}
ColumnsOf(keys) == {key[2] : key \in keys}

\* Keys that were held: the number is that of the last row so far,
RowsInv ==
  kpc = "rows" /\ touched = held =>
    \/ keynumber = 0 /\ \A row \in Rows(held) : row >= readLine
    \/ \E row \in Rows(held) :
         /\ row < readLine /\ keynumber = 4 * (row - 1)
         /\ \A other \in Rows(held) : other < readLine => other <= row

\* then that of the last row with the columns that were low so far,
HeldInv ==
  kpc \in {"columns", "done"} /\ touched = held =>
    \E columns \in SUBSET (ColumnsOf(held) \cap Looked) :
      /\ ColumnsOf(Alone(held)) \cap Looked \subseteq columns
      /\ keynumber = 4 * (Max(Rows(held)) - 1) + Added(columns)

\* and a key that is alone in its row reads low when its column is looked at.
PassedInv ==
  kpc = "columns" /\ touched = held =>
    \A key \in Alone(held) : key[2] = column => key[1] >= readLine

\* The inductive invariant of the keypad.
KeyIInv ==
  /\ KeyTypeOK /\ NotedInv /\ NumberInv /\ WaitInv /\ OneInv
  /\ RowsInv /\ HeldInv /\ PassedInv

\* What KeyAssumption says of a key and of the bounds.
LEMMA KeyConstants ==
  /\ \A key \in KeysOfPad : key[1] \in 1 .. 4 /\ key[2] \in 1 .. 4
  /\ MaxDown \in Nat /\ MaxChanges \in Nat
<1>1. \A key \in (1 .. 4) \X (1 .. 4) : key[1] \in 1 .. 4 /\ key[2] \in 1 .. 4
  OBVIOUS
<1> QED
  BY <1>1, KeyAssumption

\* The last of some rows is one of them.
LEMMA LastOfRows ==
  ASSUME NEW rows \in SUBSET (1 .. 4), rows # {}
  PROVE  Max(rows) \in rows
<1>1. \A y \in rows : y \in 1 .. 4
  OBVIOUS
<1>2. CASE 4 \in rows
  <2>1. \A y \in rows : 4 >= y
    BY <1>1
  <2> QED
    BY <1>2, <2>1 DEF Max
<1>3. CASE 4 \notin rows /\ 3 \in rows
  <2>1. \A y \in rows : 3 >= y
    BY <1>1, <1>3
  <2> QED
    BY <1>3, <2>1 DEF Max
<1>4. CASE 4 \notin rows /\ 3 \notin rows /\ 2 \in rows
  <2>1. \A y \in rows : 2 >= y
    BY <1>1, <1>4
  <2> QED
    BY <1>4, <2>1 DEF Max
<1>5. CASE 4 \notin rows /\ 3 \notin rows /\ 2 \notin rows
  <2>1. \A y \in rows : y = 1 /\ 1 >= y
    BY <1>1, <1>5
  <2>2. 1 \in rows
    BY <2>1
  <2> QED
    BY <2>1, <2>2 DEF Max
<1> QED
  BY <1>2, <1>3, <1>4, <1>5

\* The row that has none after it is the last of some rows.
LEMMA LastIs ==
  ASSUME NEW rows \in SUBSET (1 .. 4), NEW row \in rows, \A other \in rows : other <= row
  PROVE  Max(rows) = row
<1>1. \A other \in rows : other \in 1 .. 4
  OBVIOUS
<1>2. \A x \in rows : (\A y \in rows : x >= y) => x = row
  BY <1>1
<1>3. \A y \in rows : row >= y
  BY <1>1
<1> QED
  BY <1>2, <1>3 DEF Max

\* What a row reads as when one key is down, or none.
LEMMA OneKeyReads ==
  ASSUME NEW key \in KeysOfPad, down \subseteq {key}, NEW low
  PROVE  /\ ReadsLow(low) => key \in down /\ key[1] = readLine /\ key[2] \in low
         /\ ReadsHigh(low) /\ key[1] = readLine /\ key[2] \in low => key \notin down
<1>1. ASSUME ReadsLow(low) PROVE key \in down /\ key[1] = readLine /\ key[2] \in low
  BY <1>1 DEF ReadsLow, ColumnsAt
<1>2. ASSUME key \in down, key[1] = readLine PROVE ColumnsAt(readLine) = {key[2]}
  BY <1>2 DEF ColumnsAt
<1> QED
  BY <1>1, <1>2 DEF ReadsHigh

\* What a row reads as when all columns are low.
LEMMA AllColumnsRead ==
  ASSUME down \subseteq KeysOfPad
  PROVE  /\ ReadsLow(Columns) => readLine \in Rows(down)
         /\ ReadsHigh(Columns) => readLine \notin Rows(down)
<1>1. ColumnsAt(readLine) \subseteq Columns
  BY KeyConstants DEF ColumnsAt, Columns
<1>2. ColumnsAt(readLine) # {} <=> readLine \in Rows(down)
  BY DEF ColumnsAt, Rows
<1> QED
  BY <1>1, <1>2 DEF ReadsLow, ReadsHigh

\* What it reads as when one column is low.
LEMMA OneColumnReads ==
  ASSUME down \subseteq KeysOfPad, NEW c \in 1 .. 4
  PROVE  /\ ReadsLow({c}) => c \in ColumnsOf(down)
         /\ ReadsHigh({c}) => \A key \in Alone(down) : key[2] = c => key[1] # readLine
<1>1. ASSUME ReadsLow({c}) PROVE c \in ColumnsOf(down)
  BY <1>1 DEF ReadsLow, ColumnsAt, ColumnsOf
<1>2. ASSUME NEW key \in Alone(down), key[2] = c, key[1] = readLine PROVE ~ReadsHigh({c})
  <2>1. key \in down /\ \A other \in down : other[1] = key[1] => other = key
    BY DEF Alone
  <2>2. ColumnsAt(readLine) = {c}
    BY <1>2, <2>1 DEF ColumnsAt
  <2> QED
    BY <2>2 DEF ReadsHigh
<1> QED
  BY <1>1, <1>2

\* A column that is added once more.
LEMMA AddedOne ==
  ASSUME NEW columns \in SUBSET (1 .. 4), NEW c \in 1 .. 4, c \notin columns
  PROVE  Added(columns \cup {c}) = Added(columns) + c /\ Added(columns) \in Nat
<1> DEFINE part(s, k) == IF k \in s THEN k ELSE 0
           more == columns \cup {c}
<1>1. \A s : Added(s) = part(s, 1) + part(s, 2) + part(s, 3) + part(s, 4)
  BY DEF Added
<1>2. \A k \in 1 .. 4 : part(columns, k) \in Nat /\ part(more, k) \in Nat
  OBVIOUS
<1>3. \A k \in 1 .. 4 : part(more, k) = IF k = c THEN part(columns, k) + c ELSE part(columns, k)
  OBVIOUS
<1> HIDE DEF part, more
<1>4. part(more, 1) + part(more, 2) + part(more, 3) + part(more, 4)
        = part(columns, 1) + part(columns, 2) + part(columns, 3) + part(columns, 4) + c
  <2>1. CASE c = 1
    BY <1>2, <1>3, <2>1
  <2>2. CASE c = 2
    BY <1>2, <1>3, <2>2
  <2>3. CASE c = 3
    BY <1>2, <1>3, <2>3
  <2>4. CASE c = 4
    BY <1>2, <1>3, <2>4
  <2> QED
    BY <2>1, <2>2, <2>3, <2>4
<1>5. part(columns, 1) + part(columns, 2) + part(columns, 3) + part(columns, 4) \in Nat
  BY <1>2
<1> QED
  BY <1>1, <1>4, <1>5 DEF more

\* No column adds up to nothing.
LEMMA AddedNone == Added({}) = 0
BY DEF Added

\* No key is down and main has not begun a reading.
LEMMA KeyInitKeeps == KeyInit => KeyIInv
<1> SUFFICES ASSUME KeyInit PROVE KeyIInv
  OBVIOUS
<1>1. /\ down = {} /\ kpc = "idle" /\ readLine = 1 /\ column = 1 /\ keynumber = 0
      /\ touched = {} /\ held = {} /\ changes = 0
  BY DEF KeyInit
<1>2. bounced \in BOOLEAN
  BY Zenon DEF KeyInit
<1>3. KeyTypeOK
  BY <1>1, <1>2, KeyConstants DEF KeyTypeOK, Columns
<1>4. NotedInv /\ NumberInv /\ WaitInv
  BY <1>1 DEF NotedInv, NumberInv, WaitInv
<1>5. OneInv
  BY <1>1 DEF OneInv
<1>6. RowsInv /\ HeldInv /\ PassedInv
  BY <1>1 DEF RowsInv, HeldInv, PassedInv
<1> QED
  BY <1>3, <1>4, <1>5, <1>6 DEF KeyIInv

\* What the invariant says of the key's types, one fact at a time.
LEMMA KeyTypes ==
  ASSUME KeyIInv
  PROVE  /\ down \subseteq KeysOfPad /\ held \subseteq touched /\ touched \subseteq KeysOfPad
         /\ readLine \in 1 .. 4 /\ column \in 1 .. 4 /\ keynumber \in Nat /\ keynumber <= 22
         /\ bounced \in BOOLEAN
         /\ kpc \in {"idle", "look", "again", "rows", "columns", "done"}
BY DEF KeyIInv, KeyTypeOK, Columns

\* A key goes down or up.  If the keys of the reading come out as one, or as those
\* held, they were that before; one that comes back has bounced.
LEMMA ChangesKeeps ==
  ASSUME KeyIInv, NEW keys \in SUBSET KeysOfPad, Changes(keys)
  PROVE  KeyIInv'
<1>1. /\ down' = keys /\ touched' = touched \cup keys /\ held' = held \cap keys
      /\ kpc' = kpc /\ readLine' = readLine /\ column' = column /\ keynumber' = keynumber
      /\ changes < MaxChanges /\ changes' = changes + 1
      /\ bounced' = (bounced \/ (keys \ down) \cap touched # {})
  BY DEF Changes
<1>2. /\ KeyTypeOK /\ NotedInv /\ NumberInv /\ WaitInv /\ OneInv
      /\ RowsInv /\ HeldInv /\ PassedInv
  BY DEF KeyIInv
<1>3. KeyTypeOK'
  <2>1. changes' \in 0 .. MaxChanges
    BY <1>1, <1>2, KeyConstants DEF KeyTypeOK
  <2>2. bounced' \in BOOLEAN
    BY <1>1, <1>2, Zenon DEF KeyTypeOK
  <2> QED
    BY <1>1, <1>2, <2>1, <2>2 DEF KeyTypeOK
<1>4. NotedInv'
  BY <1>1, <1>2 DEF NotedInv
<1>5. NumberInv' /\ WaitInv'
  BY <1>1, <1>2 DEF NumberInv, WaitInv
<1>6. Looked' = Looked
  BY <1>1 DEF Looked
<1>7. OneInv'
  <2> SUFFICES ASSUME NEW key \in KeysOfPad, touched' = {key}, kpc # "idle"
               PROVE  /\ kpc = "rows" /\ readLine <= key[1] => keynumber = 0
                      /\ kpc = "rows" /\ readLine > key[1] => OneOf(key)'
                      /\ kpc = "columns" => OneOf(key)'
                      /\ kpc = "done" => keynumber = 0 \/ OneOf(key)'
    BY <1>1 DEF OneInv
  <2>1. touched = {key}
    BY <1>1, <1>2 DEF NotedInv
  <2>2. bounced => bounced'
    BY <1>1, Zenon
  <2>3. key \in keys /\ key \notin down => bounced'
    <3>1. key \in keys /\ key \notin down => (keys \ down) \cap touched # {}
      BY <2>1
    <3> QED
      BY <1>1, <3>1, Zenon
  <2>4. OneOf(key) => OneOf(key)'
    BY <1>1, <1>6, <2>2, <2>3 DEF OneOf
  <2> QED
    BY <1>2, <2>1, <2>4 DEF OneInv
<1>8. ASSUME kpc # "idle", touched' = held' PROVE held' = held /\ touched = held
  BY <1>1, <1>2, <1>8 DEF KeyTypeOK
<1>9. RowsInv'
  BY <1>1, <1>2, <1>8 DEF RowsInv, Rows
<1>10. HeldInv' /\ PassedInv'
  <2> SUFFICES ASSUME kpc \in {"columns", "done"}, touched' = held' PROVE HeldInv' /\ PassedInv'
    BY <1>1 DEF HeldInv, PassedInv
  <2>1. held' = held /\ touched = held
    BY <1>8
  <2>2. HeldInv /\ PassedInv
    BY <1>2
  <2> QED
    BY <1>1, <1>6, <2>1, <2>2 DEF HeldInv, PassedInv, Alone, Rows, ColumnsOf, Max, Added
<1> QED
  BY <1>3, <1>4, <1>5, <1>7, <1>9, <1>10 DEF KeyIInv

\* KEY_work begins a reading with the first row, and goes on to the next rows or ends.
LEMMA KEY_workKeeps == KeyIInv /\ KEY_work => KeyIInv'
<1> SUFFICES ASSUME KeyIInv, KEY_work PROVE KeyIInv'
  OBVIOUS
<1>1. kpc = "idle" /\ down' = down /\ changes' = changes
  BY DEF KEY_work
<1>2. /\ held' \subseteq down /\ down \subseteq touched' /\ touched' \subseteq KeysOfPad
      /\ bounced' \in BOOLEAN
  <2>1. CASE readLine = 1
    BY <2>1, KeyTypes DEF KEY_work
  <2>2. CASE readLine # 1
    <3>1. touched' = touched /\ held' = held /\ bounced' = bounced
      BY <2>2 DEF KEY_work, notes
    <3> QED
      BY <2>2, <3>1, KeyTypes DEF KeyIInv, NotedInv
  <2> QED
    BY <2>1, <2>2
<1>3. KeyTypeOK /\ column = 1
  BY <1>1 DEF KeyIInv, NotedInv
<1>4. CASE ReadsLow(Columns) /\ readLine' = 1 /\ ScanTo("look")
  <2>1. down # {}
    BY <1>4, AllColumnsRead, KeyTypes DEF Rows
  <2>2. kpc' = "look" /\ keynumber' = 0 /\ column' = column
    BY <1>4 DEF ScanTo
  <2>3. \A key \in held' : key[1] >= 1
    BY <1>2, KeyTypes, KeyConstants
  <2> QED
    BY <1>1, <1>2, <1>3, <1>4, <2>1, <2>2, <2>3
    DEF KeyIInv, KeyTypeOK, NotedInv, NumberInv, WaitInv, OneInv, RowsInv, HeldInv, PassedInv
<1>5. CASE readLine < 4 /\ readLine' = readLine + 1 /\ UNCHANGED <<kpc, column, keynumber>>
  <2>1. readLine' \in 1 .. 4
    BY <1>5, KeyTypes
  <2> QED
    BY <1>1, <1>2, <1>3, <1>5, <2>1
    DEF KeyIInv, KeyTypeOK, NotedInv, NumberInv, WaitInv, OneInv, RowsInv, HeldInv, PassedInv
<1>6. CASE readLine' = 1 /\ ScanTo("idle")
  <2>1. kpc' = "idle" /\ keynumber' = 0 /\ column' = column
    BY <1>6 DEF ScanTo
  <2> QED
    BY <1>1, <1>2, <1>3, <1>6, <2>1
    DEF KeyIInv, KeyTypeOK, NotedInv, NumberInv, WaitInv, OneInv, RowsInv, HeldInv, PassedInv
<1> QED
  BY <1>4, <1>5, <1>6 DEF KEY_work, AnyLow

\* main has taken the key; nothing of the reading is left.
LEMMA KeyTakenKeeps == KeyIInv /\ KeyTaken => KeyIInv'
<1> SUFFICES ASSUME KeyIInv, KeyTaken PROVE KeyIInv'
  OBVIOUS
<1>1. /\ kpc = "done" /\ kpc' = "idle" /\ keynumber' = 0 /\ touched' = {} /\ held' = {}
      /\ down' = down /\ readLine' = readLine /\ column' = column /\ changes' = changes
  BY DEF KeyTaken
<1>2. bounced' \in BOOLEAN
  BY Zenon DEF KeyTaken
<1>3. KeyTypeOK /\ column = 1 /\ readLine = 1
  BY <1>1 DEF KeyIInv, NotedInv
<1>4. KeyTypeOK'
  BY <1>1, <1>2, <1>3 DEF KeyTypeOK
<1>5. NotedInv' /\ NumberInv' /\ WaitInv'
  BY <1>1, <1>3 DEF NotedInv, NumberInv, WaitInv
<1>6. OneInv'
  BY <1>1 DEF OneInv
<1>7. RowsInv' /\ HeldInv' /\ PassedInv'
  BY <1>1 DEF RowsInv, HeldInv, PassedInv
<1> QED
  BY <1>4, <1>5, <1>6, <1>7 DEF KeyIInv

\* KEY_Scan looks whether a row is low at all.  It finds none only if no key was held.
LEMMA LookKeeps ==
  ASSUME KeyIInv, kpc \in {"look", "again"}, NEW to \in {"again", "rows"},
         AnyLow(Columns, ScanTo(to), ScanTo("done")), UNCHANGED <<down, notes, changes>>
  PROVE  KeyIInv'
<1>1. UNCHANGED <<down, touched, held, bounced, changes>>
  BY DEF notes
<1>2. /\ KeyTypeOK /\ NotedInv /\ WaitInv /\ column = 1
      /\ touched # {} /\ held \subseteq down /\ down \subseteq touched
  BY DEF KeyIInv, NotedInv
<1>3. \A key \in KeysOfPad : key[1] \in 1 .. 4
  BY KeyConstants
<1>4. CASE readLine' = 1 /\ ScanTo(to)
  <2>1. kpc' = to /\ keynumber' = 0 /\ column' = column
    BY <1>4 DEF ScanTo
  <2>2. \A key \in held : key[1] >= 1
    BY <1>2, <1>3, KeyTypes
  <2>3. \A row \in Rows(held) : row >= 1
    BY <2>2 DEF Rows
  <2>4. KeyTypeOK' /\ NotedInv' /\ NumberInv' /\ WaitInv'
    BY <1>1, <1>2, <1>4, <2>1, <2>2 DEF KeyTypeOK, NotedInv, NumberInv, WaitInv
  <2>5. OneInv'
    BY <1>3, <1>4, <2>1 DEF OneInv
  <2>6. RowsInv'
    BY <1>1, <1>4, <2>1, <2>3 DEF RowsInv, Rows
  <2>7. HeldInv' /\ PassedInv'
    BY <2>1 DEF HeldInv, PassedInv
  <2> QED
    BY <2>4, <2>5, <2>6, <2>7 DEF KeyIInv
<1>5. ASSUME ReadsHigh(Columns)
      PROVE  \A key \in held : key[1] > readLine
  <2>1. \A key \in held : key[1] # readLine
    BY <1>2, <1>5, AllColumnsRead, KeyTypes DEF Rows
  <2> QED
    BY <1>2, <1>3, <2>1, KeyTypes DEF WaitInv
<1>6. CASE ReadsHigh(Columns) /\ readLine < 4 /\ readLine' = readLine + 1
           /\ UNCHANGED <<kpc, column, keynumber>>
  <2>1. readLine' \in 1 .. 4
    BY <1>6, KeyTypes
  <2>2. \A key \in held : key[1] >= readLine'
    BY <1>2, <1>3, <1>5, <1>6, KeyTypes
  <2> QED
    BY <1>1, <1>2, <1>6, <2>1, <2>2
    DEF KeyIInv, KeyTypeOK, NotedInv, NumberInv, WaitInv, OneInv, RowsInv, HeldInv, PassedInv
<1>7. CASE ReadsHigh(Columns) /\ readLine = 4 /\ readLine' = 1 /\ ScanTo("done")
  <2>1. kpc' = "done" /\ keynumber' = 0 /\ column' = column
    BY <1>7 DEF ScanTo
  <2>2. held = {}
    BY <1>2, <1>3, <1>5, <1>7, KeyTypes
  <2> QED
    BY <1>1, <1>2, <1>7, <2>1, <2>2
    DEF KeyIInv, KeyTypeOK, NotedInv, NumberInv, WaitInv, OneInv, RowsInv, HeldInv, PassedInv
<1> QED
  BY <1>4, <1>6, <1>7 DEF AnyLow

\* A row is read once more: if it is low, the number is the row's.
LEMMA RowReadKeeps == KeyIInv /\ RowRead => KeyIInv'
<1> SUFFICES ASSUME KeyIInv, RowRead PROVE KeyIInv'
  OBVIOUS
<1>1. /\ kpc = "rows" /\ UNCHANGED <<down, column, touched, held, bounced, changes>>
      /\ \/ ReadsLow(Columns) /\ keynumber' = 4 * (readLine - 1)
         \/ ReadsHigh(Columns) /\ keynumber' = keynumber
      /\ readLine = 4 => kpc' = "columns" /\ readLine' = 1
      /\ readLine # 4 => kpc' = kpc /\ readLine' = readLine + 1
  BY DEF RowRead, notes, RowNumber
<1>2. /\ KeyTypeOK /\ NotedInv /\ NumberInv /\ OneInv /\ RowsInv /\ column = 1
      /\ touched # {} /\ held \subseteq down /\ down \subseteq touched
  BY <1>1 DEF KeyIInv, NotedInv
<1>3. readLine \in 1 .. 4 /\ keynumber \in Nat
  BY KeyTypes
<1>4. \A key \in KeysOfPad : key[1] \in 1 .. 4 /\ key[2] \in 1 .. 4
  BY KeyConstants
<1>5. kpc' \in {"rows", "columns"} /\ readLine' \in 1 .. 4
  BY <1>1, <1>3
<1>6. keynumber' \in 0 .. 22 /\ keynumber' <= 12
  BY <1>1, <1>2, <1>3 DEF NumberInv
<1>7. KeyTypeOK' /\ NotedInv' /\ NumberInv' /\ WaitInv'
  BY <1>1, <1>2, <1>5, <1>6 DEF KeyTypeOK, NotedInv, NumberInv, WaitInv
<1>8. OneInv'
  <2> SUFFICES ASSUME NEW key \in KeysOfPad, touched = {key}
               PROVE  /\ kpc' = "rows" /\ readLine' <= key[1] => keynumber' = 0
                      /\ ~(kpc' = "rows" /\ readLine' <= key[1]) =>
                           \/ keynumber' = 4 * (key[1] - 1)
                           \/ keynumber' = 0 /\ (bounced \/ key \notin down)
    <3>1. bounced' = bounced /\ down' = down /\ touched' = touched
      BY <1>1
    <3> QED
      BY <1>3, <1>4, <1>5, <3>1 DEF OneInv, OneOf
  <2>1. key[1] \in 1 .. 4 /\ key[2] \in Columns
    BY <1>4 DEF Columns
  <2>2. /\ ReadsLow(Columns) => key[1] = readLine
        /\ ReadsHigh(Columns) /\ key[1] = readLine => key \notin down
    BY <1>2, <2>1, OneKeyReads
  <2>3. /\ readLine <= key[1] => keynumber = 0
        /\ readLine > key[1] => \/ keynumber = 4 * (key[1] - 1)
                                \/ keynumber = 0 /\ (bounced \/ key \notin down)
    <3>1. Looked = {}
      BY <1>1 DEF Looked
    <3> QED
      BY <1>1, <1>2, <3>1 DEF OneInv, OneOf
  <2>4. /\ kpc' = "rows" /\ readLine' <= key[1] => readLine < key[1]
        /\ ~(kpc' = "rows" /\ readLine' <= key[1]) => readLine >= key[1]
    BY <1>1, <1>3, <2>1
  <2>5. CASE readLine < key[1]
    BY <1>1, <1>3, <2>1, <2>2, <2>3, <2>4, <2>5
  <2>6. CASE readLine = key[1]
    BY <1>1, <1>3, <2>1, <2>2, <2>3, <2>4, <2>6
  <2>7. CASE readLine > key[1]
    BY <1>1, <1>3, <2>1, <2>2, <2>3, <2>4, <2>7
  <2> QED
    BY <1>3, <2>1, <2>5, <2>6, <2>7
<1>9. ASSUME touched = held
      PROVE  \/ keynumber' = 0 /\ \A row \in Rows(held) : row > readLine
             \/ \E row \in Rows(held) :
                  /\ row <= readLine /\ keynumber' = 4 * (row - 1)
                  /\ \A other \in Rows(held) : other <= readLine => other <= row
  <2>1. held = down /\ Rows(held) \subseteq 1 .. 4
    BY <1>2, <1>4, <1>9, KeyTypes DEF Rows
  <2>2. /\ ReadsLow(Columns) => readLine \in Rows(held)
        /\ ReadsHigh(Columns) => readLine \notin Rows(held)
    BY <2>1, AllColumnsRead, KeyTypes
  <2>3. CASE ReadsLow(Columns) /\ keynumber' = 4 * (readLine - 1)
    BY <1>3, <2>2, <2>3
  <2>4. CASE ReadsHigh(Columns) /\ keynumber' = keynumber
    <3>1. CASE keynumber = 0 /\ \A row \in Rows(held) : row >= readLine
      BY <1>3, <2>1, <2>2, <2>4, <3>1
    <3>2. ASSUME NEW row \in Rows(held), row < readLine, keynumber = 4 * (row - 1),
                 \A other \in Rows(held) : other < readLine => other <= row
          PROVE  /\ row <= readLine /\ keynumber' = 4 * (row - 1)
                 /\ \A other \in Rows(held) : other <= readLine => other <= row
      BY <1>3, <2>1, <2>2, <2>4, <3>2
    <3> QED
      BY <1>1, <1>2, <1>9, <3>1, <3>2 DEF RowsInv
  <2> QED
    BY <1>1, <2>3, <2>4
<1>10. CASE readLine # 4
  <2>1. kpc' = "rows" /\ readLine' = readLine + 1
    BY <1>1, <1>10
  <2>2. RowsInv'
    <3> SUFFICES ASSUME touched = held
                 PROVE  \/ keynumber' = 0 /\ \A row \in Rows(held) : row >= readLine'
                        \/ \E row \in Rows(held) :
                             /\ row < readLine' /\ keynumber' = 4 * (row - 1)
                             /\ \A other \in Rows(held) : other < readLine' => other <= row
      BY <1>1 DEF RowsInv, Rows
    <3>1. Rows(held) \subseteq 1 .. 4
      BY <1>4, KeyTypes DEF Rows
    <3>2. \A row \in Rows(held) : /\ row > readLine => row >= readLine'
                                  /\ row <= readLine <=> row < readLine'
      BY <1>3, <2>1, <3>1
    <3> QED
      BY <1>9, <3>2
  <2> QED
    BY <1>7, <1>8, <2>1, <2>2 DEF KeyIInv, HeldInv, PassedInv
<1>11. CASE readLine = 4
  <2>1. kpc' = "columns" /\ readLine' = 1 /\ column' = 1
    BY <1>1, <1>2, <1>11
  <2>2. Looked' = {}
    BY <2>1 DEF Looked
  <2>3. HeldInv'
    <3> SUFFICES ASSUME touched = held
                 PROVE  keynumber' = 4 * (Max(Rows(held)) - 1) + Added({})
      <4>1. touched' = touched /\ held' = held
        BY <1>1
      <4>2. \A s \in SUBSET ({} \cup Looked') : s = {}
        BY <2>2
      <4> QED
        BY <2>2, <4>1 DEF HeldInv, Rows, Max, Added
    <3>1. Rows(held) \in SUBSET (1 .. 4) /\ Rows(held) # {}
      BY <1>2, <1>4, KeyTypes DEF Rows
    <3>2. PICK row \in Rows(held) : /\ keynumber' = 4 * (row - 1)
                                    /\ \A other \in Rows(held) : other <= 4 => other <= row
      BY <1>9, <1>11, <3>1
    <3>3. Max(Rows(held)) = row
      BY <3>1, <3>2, LastIs
    <3>4. row \in 1 .. 4 /\ Added({}) = 0
      BY <3>1, AddedNone
    <3> QED
      BY <3>2, <3>3, <3>4
  <2>4. PassedInv'
    <3>1. \A key \in held : key[1] >= 1
      BY <1>4, KeyTypes
    <3> QED
      BY <1>1, <2>1, <3>1 DEF PassedInv, Alone
  <2> QED
    BY <1>7, <1>8, <2>1, <2>3, <2>4 DEF KeyIInv, RowsInv
<1> QED
  BY <1>10, <1>11

\* The rows are read while one column is low.  With one key they tell whether it is the
\* key's column; with several the column may be one of theirs, and surely is one of a
\* key's that is alone in its row.
LEMMA ColumnReadKeeps == KeyIInv /\ ColumnRead => KeyIInv'
<1> SUFFICES ASSUME KeyIInv, ColumnRead PROVE KeyIInv'
  OBVIOUS
<1>1. kpc = "columns" /\ UNCHANGED <<down, touched, held, bounced, changes>>
  BY DEF ColumnRead, notes
<1>2. /\ KeyTypeOK /\ NotedInv /\ NumberInv /\ OneInv /\ HeldInv /\ PassedInv
      /\ touched # {} /\ held \subseteq down /\ down \subseteq touched /\ down \subseteq KeysOfPad
  BY <1>1, KeyTypes DEF KeyIInv, NotedInv
<1>3. readLine \in 1 .. 4 /\ column \in 1 .. 4 /\ keynumber \in Nat
  BY KeyTypes
<1>4. \A key \in KeysOfPad : key[1] \in 1 .. 4 /\ key[2] \in 1 .. 4
  BY KeyConstants
<1>5. Looked = 1 .. (column - 1)
  BY <1>1 DEF Looked
<1>6. /\ ReadsLow({column}) => column \in ColumnsOf(down)
      /\ ReadsHigh({column}) => \A key \in Alone(down) : key[2] = column => key[1] # readLine
  BY <1>2, <1>3, OneColumnReads
<1>7. CASE ReadsHigh({column}) /\ readLine < 4 /\ readLine' = readLine + 1
           /\ UNCHANGED <<kpc, column, keynumber>>
  <2>1. readLine' \in 1 .. 4 /\ Looked' = Looked
    BY <1>3, <1>7 DEF Looked
  <2>2. KeyTypeOK' /\ NotedInv' /\ NumberInv' /\ WaitInv'
    BY <1>1, <1>2, <1>7, <2>1 DEF KeyTypeOK, NotedInv, NumberInv, WaitInv
  <2>3. OneInv'
    BY <1>1, <1>2, <1>7, <2>1 DEF OneInv, OneOf
  <2>4. HeldInv' /\ RowsInv'
    BY <1>1, <1>2, <1>7, <2>1 DEF HeldInv, RowsInv, Alone, Rows, ColumnsOf, Max, Added
  <2>5. PassedInv'
    <3> SUFFICES ASSUME touched = held, NEW key \in Alone(held), key[2] = column
                 PROVE  key[1] >= readLine'
      BY <1>1, <1>7 DEF PassedInv, Alone
    <3>1. held = down /\ key \in KeysOfPad
      BY <1>2 DEF Alone
    <3>2. key[1] >= readLine /\ key[1] # readLine /\ key[1] \in 1 .. 4
      BY <1>1, <1>2, <1>4, <1>6, <1>7, <3>1 DEF PassedInv
    <3> QED
      BY <1>3, <1>7, <3>2
  <2> QED
    BY <2>2, <2>3, <2>4, <2>5 DEF KeyIInv
<1>8. ASSUME readLine' = 1,
             \/ ReadsLow({column}) /\ NextColumn(keynumber + column)
             \/ ReadsHigh({column}) /\ readLine = 4 /\ NextColumn(keynumber)
      PROVE  KeyIInv'
  <2>1. /\ \/ ReadsLow({column}) /\ keynumber' = keynumber + column
           \/ ReadsHigh({column}) /\ readLine = 4 /\ keynumber' = keynumber
        /\ column = 4 => kpc' = "done" /\ column' = 1
        /\ column # 4 => kpc' = "columns" /\ column' = column + 1
    BY <1>1, <1>8 DEF NextColumn
  <2>2. keynumber' \in Nat /\ keynumber' <= keynumber + column
    BY <1>3, <2>1
  <2>3. Looked' = 1 .. column
    <3>1. CASE column = 4
      BY <2>1, <3>1 DEF Looked, Columns
    <3>2. CASE column # 4
      <4>1. kpc' = "columns" /\ column' - 1 = column
        BY <1>3, <2>1, <3>2
      <4> QED
        BY <4>1 DEF Looked
    <3> QED
      BY <3>1, <3>2
  <2>4. KeyTypeOK' /\ NotedInv' /\ NumberInv' /\ WaitInv'
    <3>1. CASE column = 1
      <4>1. keynumber <= 12
        BY <1>1, <1>2, <3>1 DEF NumberInv
      <4>2. keynumber' <= 13 /\ keynumber' \in 0 .. 22
        BY <1>3, <2>2, <3>1, <4>1
      <4> QED
        BY <1>1, <1>2, <1>8, <2>1, <3>1, <4>2
        DEF KeyTypeOK, NotedInv, NumberInv, WaitInv, Columns
    <3>2. CASE column = 2
      <4>1. keynumber <= 13
        BY <1>1, <1>2, <3>2 DEF NumberInv
      <4>2. keynumber' <= 15 /\ keynumber' \in 0 .. 22
        BY <1>3, <2>2, <3>2, <4>1
      <4> QED
        BY <1>1, <1>2, <1>8, <2>1, <3>2, <4>2
        DEF KeyTypeOK, NotedInv, NumberInv, WaitInv, Columns
    <3>3. CASE column = 3
      <4>1. keynumber <= 15
        BY <1>1, <1>2, <3>3 DEF NumberInv
      <4>2. keynumber' <= 18 /\ keynumber' \in 0 .. 22
        BY <1>3, <2>2, <3>3, <4>1
      <4> QED
        BY <1>1, <1>2, <1>8, <2>1, <3>3, <4>2
        DEF KeyTypeOK, NotedInv, NumberInv, WaitInv, Columns
    <3>4. CASE column = 4
      <4>1. keynumber <= 18
        BY <1>1, <1>2, <3>4 DEF NumberInv
      <4>2. keynumber' <= 22 /\ keynumber' \in 0 .. 22
        BY <1>3, <2>2, <3>4, <4>1
      <4> QED
        BY <1>1, <1>2, <1>8, <2>1, <3>4, <4>2
        DEF KeyTypeOK, NotedInv, NumberInv, WaitInv, Columns
    <3> QED
      BY <1>3, <3>1, <3>2, <3>3, <3>4
  <2>5. OneInv'
    <3> SUFFICES ASSUME NEW key \in KeysOfPad, touched = {key}
                 PROVE  OneOf(key)'
      BY <1>1, <2>1 DEF OneInv
    <3>1. key[1] \in 1 .. 4 /\ key[2] \in 1 .. 4
      BY <1>4
    <3>2. \/ keynumber = 4 * (key[1] - 1)
          \/ key[2] \in 1 .. (column - 1) /\ keynumber = 4 * (key[1] - 1) + key[2]
          \/ keynumber = 0 /\ (bounced \/ key \notin down)
          \/ key[2] \in 1 .. (column - 1) /\ keynumber = key[2] /\ bounced
      BY <1>1, <1>2, <1>5 DEF OneInv, OneOf
    <3>3. ReadsLow({column}) => key \in down /\ key[2] = column
      BY <1>2, OneKeyReads
    <3>4. \/ keynumber' = 4 * (key[1] - 1)
          \/ key[2] \in 1 .. column /\ keynumber' = 4 * (key[1] - 1) + key[2]
          \/ keynumber' = 0 /\ (bounced \/ key \notin down)
          \/ key[2] \in 1 .. column /\ keynumber' = key[2] /\ bounced
      <4>1. key[2] \in 1 .. (column - 1) => key[2] \in 1 .. column /\ key[2] # column
        BY <1>3, <3>1
      <4>2. CASE ReadsLow({column}) /\ keynumber' = keynumber + column
        <5>1. key \in down /\ key[2] = column /\ key[2] \in 1 .. column
          BY <1>3, <3>3, <4>2
        <5>2. keynumber = 4 * (key[1] - 1) \/ (keynumber = 0 /\ bounced)
          BY <3>2, <4>1, <5>1
        <5> QED
          BY <3>1, <4>2, <5>1, <5>2
      <4>3. CASE keynumber' = keynumber
        BY <3>2, <4>1, <4>3
      <4> QED
        BY <2>1, <4>2, <4>3
    <3> QED
      BY <1>1, <2>3, <3>4 DEF OneOf
  <2>6. HeldInv'
    <3> SUFFICES ASSUME touched = held
                 PROVE  \E columns \in SUBSET (ColumnsOf(held) \cap 1 .. column) :
                          /\ ColumnsOf(Alone(held)) \cap 1 .. column \subseteq columns
                          /\ keynumber' = 4 * (Max(Rows(held)) - 1) + Added(columns)
      <4>1. held' = held /\ touched' = touched
        BY <1>1
      <4>2. /\ ColumnsOf(held)' = ColumnsOf(held) /\ ColumnsOf(Alone(held))' = ColumnsOf(Alone(held))
            /\ Max(Rows(held))' = Max(Rows(held))
        BY <4>1 DEF Rows, Max, Alone, ColumnsOf
      <4> QED
        BY <2>3, <4>1, <4>2 DEF HeldInv
    <3>1. held = down /\ held # {}
      BY <1>2
    <3>2. PICK columns \in SUBSET (ColumnsOf(held) \cap 1 .. (column - 1)) :
                 /\ ColumnsOf(Alone(held)) \cap 1 .. (column - 1) \subseteq columns
                 /\ keynumber = 4 * (Max(Rows(held)) - 1) + Added(columns)
      BY <1>1, <1>2, <1>5 DEF HeldInv
    <3>3. 1 .. column = (1 .. (column - 1)) \cup {column} /\ column \notin columns
      BY <1>3, <3>2
    <3>4. CASE ReadsLow({column}) /\ keynumber' = keynumber + column
      <4>1. columns \cup {column} \in SUBSET (ColumnsOf(held) \cap 1 .. column)
        BY <1>6, <3>1, <3>2, <3>3, <3>4
      <4>2. ColumnsOf(Alone(held)) \cap 1 .. column \subseteq columns \cup {column}
        BY <3>2, <3>3
      <4>3. Added(columns \cup {column}) = Added(columns) + column /\ Added(columns) \in Nat
        <5>1. columns \in SUBSET (1 .. 4)
          BY <1>3, <3>2
        <5> QED
          BY <1>3, <3>3, <5>1, AddedOne
      <4>4. Max(Rows(held)) \in 1 .. 4
        <5>1. Rows(held) \in SUBSET (1 .. 4) /\ Rows(held) # {}
          BY <1>2, <1>4, <3>1 DEF Rows
        <5> QED
          BY <5>1, LastOfRows
      <4>5. keynumber' = 4 * (Max(Rows(held)) - 1) + Added(columns \cup {column})
        BY <1>3, <3>2, <3>4, <4>3, <4>4
      <4> QED
        BY <4>1, <4>2, <4>5
    <3>5. CASE ReadsHigh({column}) /\ readLine = 4 /\ keynumber' = keynumber
      <4>1. column \notin ColumnsOf(Alone(held))
        <5> SUFFICES ASSUME NEW key \in Alone(held), key[2] = column PROVE FALSE
          BY DEF ColumnsOf
        <5>1. key \in KeysOfPad
          BY <1>2, <3>1 DEF Alone
        <5>2. key[1] >= 4 /\ key[1] \in 1 .. 4 /\ key[1] # 4
          BY <1>1, <1>2, <1>4, <1>6, <3>1, <3>5, <5>1 DEF PassedInv
        <5> QED
          BY <5>2
      <4>2. columns \in SUBSET (ColumnsOf(held) \cap 1 .. column)
        BY <3>2, <3>3
      <4>3. ColumnsOf(Alone(held)) \cap 1 .. column \subseteq columns
        BY <3>2, <3>3, <4>1
      <4> QED
        BY <3>2, <3>5, <4>2, <4>3
    <3> QED
      BY <2>1, <3>4, <3>5
  <2>7. PassedInv' /\ RowsInv'
    <3>1. \A key \in held : key[1] >= 1
      BY <1>2, <1>4
    <3> QED
      BY <1>1, <1>8, <2>1, <3>1 DEF PassedInv, RowsInv, Alone
  <2> QED
    BY <2>4, <2>5, <2>6, <2>7 DEF KeyIInv
<1> QED
  BY <1>7, <1>8 DEF ColumnRead, AnyLow, Driven

\* Every step of the keypad keeps the invariant.
LEMMA KeyKeeps == KeyIInv /\ [KeyNext]_keyVars => KeyIInv'
<1> SUFFICES ASSUME KeyIInv, [KeyNext]_keyVars PROVE KeyIInv'
  OBVIOUS
<1>1. CASE KeyDown
  <2>1. PICK key \in KeysOfPad \ down : Changes(down \cup {key})
    BY <1>1 DEF KeyDown
  <2> QED
    BY <2>1, KeyTypes, ChangesKeeps
<1>2. CASE KeyUp
  <2>1. PICK key \in down : Changes(down \ {key})
    BY <1>2 DEF KeyUp
  <2> QED
    BY <2>1, KeyTypes, ChangesKeeps
<1>3. CASE FirstLook
  BY <1>3, LookKeeps DEF FirstLook
<1>4. CASE SecondLook
  BY <1>4, LookKeeps DEF SecondLook
<1>5. CASE UNCHANGED keyVars
  <2>1. /\ down' = down /\ kpc' = kpc /\ readLine' = readLine /\ column' = column
        /\ keynumber' = keynumber /\ touched' = touched /\ held' = held
        /\ bounced' = bounced /\ changes' = changes
    BY <1>5 DEF keyVars
  <2>2. KeyTypeOK' = KeyTypeOK
    BY <2>1, Zenon DEF KeyTypeOK
  <2>3. NotedInv' = NotedInv /\ NumberInv' = NumberInv /\ WaitInv' = WaitInv
    BY <2>1, Zenon DEF NotedInv, NumberInv, WaitInv
  <2>4. OneInv' = OneInv
    BY <2>1, Zenon DEF OneInv, OneOf, Looked
  <2>5. RowsInv' = RowsInv /\ PassedInv' = PassedInv
    BY <2>1, Zenon DEF RowsInv, PassedInv, Rows, Alone
  <2>6. HeldInv' = HeldInv
    BY <2>1, Zenon DEF HeldInv, Looked, Alone, Rows, ColumnsOf, Max, Added
  <2> QED
    BY <2>2, <2>3, <2>4, <2>5, <2>6 DEF KeyIInv
<1> QED
  BY <1>1, <1>2, <1>3, <1>4, <1>5, KEY_workKeeps, RowReadKeeps, ColumnReadKeeps,
     KeyTakenKeeps DEF KeyNext

\* The label printed on a key is what KEY_Fun says of its number; a number that stopped
\* at the row is that of the last key of the row above.
LEMMA Labels ==
  ASSUME NEW r \in 1 .. 4
  PROVE  /\ \A c \in 1 .. 4 : KEY_Fun(4 * (r - 1) + c) = Printed[r][c]
         /\ KEY_Fun(4 * (r - 1)) = IF r = 1 THEN "none" ELSE Printed[r - 1][4]
<1>1. CASE r = 1
  BY <1>1 DEF KEY_Fun, Printed
<1>2. CASE r = 2
  BY <1>2 DEF KEY_Fun, Printed
<1>3. CASE r = 3
  BY <1>3 DEF KEY_Fun, Printed
<1>4. CASE r = 4
  BY <1>4 DEF KEY_Fun, Printed
<1> QED
  BY <1>1, <1>2, <1>3, <1>4

\* The labels of the first row.
LEMMA FirstRow == \A c \in 1 .. 4 : KEY_Fun(c) = Printed[1][c]
BY Labels

\* After the last column the invariant says what KeyInv asks for.
LEMMA KeyGood == KeyIInv => KeyInv
<1> SUFFICES ASSUME KeyIInv PROVE KeyInv
  OBVIOUS
<1>1. KeyTypeOK /\ NotedInv /\ OneInv /\ HeldInv
  BY DEF KeyIInv
<1>2. HeldKeysAddUp
  <2> SUFFICES ASSUME kpc = "done", touched = held
               PROVE  \E columns \in SUBSET ColumnsOf(held) :
                        /\ ColumnsOf(Alone(held)) \subseteq columns
                        /\ keynumber = 4 * (Max(Rows(held)) - 1) + Added(columns)
    BY DEF HeldKeysAddUp, ColumnsOf, Alone, Rows
  <2>1. held \subseteq KeysOfPad
    BY KeyTypes
  <2>2. ColumnsOf(held) \subseteq Columns
    BY <2>1, KeyConstants DEF ColumnsOf, Columns
  <2>3. Looked = Columns /\ ColumnsOf(Alone(held)) \subseteq ColumnsOf(held)
    BY DEF Looked, ColumnsOf, Alone
  <2> QED
    BY <1>1, <2>2, <2>3 DEF HeldInv
<1>3. ASSUME kpc = "done", NEW key \in KeysOfPad, touched = {key}, held = {key}
      PROVE  keynumber = 4 * (key[1] - 1) + key[2]
  <2>1. key[1] \in 1 .. 4 /\ key[2] \in 1 .. 4
    BY KeyConstants
  <2>2. Rows(held) = {key[1]} /\ ColumnsOf(held) = {key[2]} /\ Alone(held) = held
    BY <1>3 DEF Rows, ColumnsOf, Alone
  <2>3. PICK columns \in SUBSET ColumnsOf(held) :
          /\ ColumnsOf(Alone(held)) \subseteq columns
          /\ keynumber = 4 * (Max(Rows(held)) - 1) + Added(columns)
    BY <1>2, <1>3 DEF HeldKeysAddUp, ColumnsOf, Alone, Rows
  <2>4. columns = {} \cup {key[2]}
    BY <2>2, <2>3
  <2>5. Added({} \cup {key[2]}) = Added({}) + key[2]
    BY <2>1, AddedOne
  <2>6. Added(columns) = key[2]
    BY <2>1, <2>4, <2>5, AddedNone
  <2>7. Max(Rows(held)) = key[1]
    BY <2>1, <2>2, LastOfRows
  <2> QED
    BY <2>3, <2>6, <2>7
<1>4. OneKeyReadRight
  <2> SUFFICES ASSUME kpc = "done", NEW key \in KeysOfPad, touched = {key}
               PROVE  /\ KEY_Fun(keynumber) \in
                            {Printed[key[1]][key[2]],
                             IF key[1] = 1 THEN "none" ELSE Printed[key[1] - 1][4], "none"}
                              \cup (IF bounced THEN {Printed[1][key[2]]} ELSE {})
                      /\ held = {key} => KEY_Fun(keynumber) = Printed[key[1]][key[2]]
    BY DEF OneKeyReadRight
  <2>1. key[1] \in 1 .. 4 /\ key[2] \in 1 .. 4
    BY KeyConstants
  <2>2. \/ keynumber = 0
        \/ keynumber = 4 * (key[1] - 1)
        \/ keynumber = 4 * (key[1] - 1) + key[2]
        \/ keynumber = key[2] /\ bounced
    BY <1>1 DEF OneInv, OneOf
  <2>3. held = {key} => keynumber = 4 * (key[1] - 1) + key[2]
    BY <1>3
  <2>4. KEY_Fun(0) = "none"
    BY DEF KEY_Fun
  <2>5. /\ KEY_Fun(4 * (key[1] - 1) + key[2]) = Printed[key[1]][key[2]]
        /\ KEY_Fun(4 * (key[1] - 1)) = IF key[1] = 1 THEN "none" ELSE Printed[key[1] - 1][4]
        /\ KEY_Fun(key[2]) = Printed[1][key[2]]
    BY <2>1, Labels, FirstRow
  <2> QED
    BY <2>2, <2>3, <2>4, <2>5
<1> QED
  BY <1>1, <1>2, <1>4 DEF KeyInv

-----------------------------------------------------------------------------
(* The card reader *)

\* A card outside the field is at its start; one whose sector is open is the one that
\* the number in the buffer belongs to, if it belongs to any.
PhaseInv ==
  \A c \in Cards :
    /\ phase[c] # "idle" => c \in field
    /\ phase[c] = "open" /\ card_numberbuf \in Cards => c = card_numberbuf

\* The cipher, once Anticoll has cleared it, is set for a number of a card only.
CipherInv ==
  /\ cpc \in {"select", "auth"} => ~cipher
  /\ cpc \in {"read", "write", "data"} /\ cipher => card_numberbuf \in Cards

\* A card has its own number in block 4 only if it was enrolled.
BlockInv == \A c \in Cards : block[c] = c => c \in enrolled

\* MFRC522Read has returned 1 for an enrolled card.
ReadInv ==
  flag1 => /\ cpc = "done" /\ card_numberbuf \in enrolled
           /\ block[card_numberbuf] = card_numberbuf

\* The inductive invariant of the card reader.
CardIInv == CardTypeOK /\ PhaseInv /\ CipherInv /\ BlockInv /\ ReadInv


\* What CardAssumption says, one fact at a time.
LEMMA CardConstants ==
  /\ KeyedCards \subseteq Cards /\ Mixed \notin Cards /\ None \notin Cards
  /\ MaxTries \in Nat /\ MaxTries > 0 /\ MaxMoves \in Nat /\ MaxNoise \in Nat
<1>1. MaxTries \in Nat /\ MaxTries > 0 /\ MaxMoves \in Nat /\ MaxNoise \in Nat
  BY CardAssumption
<1>2. KeyedCards \subseteq Cards /\ Mixed \notin Cards /\ None \notin Cards
  BY CardAssumption
<1> QED
  BY <1>1, <1>2

\* No card is in the field and none is enrolled.
LEMMA CardInitKeeps == CardInit => CardIInv
<1> SUFFICES ASSUME CardInit PROVE CardIInv
  OBVIOUS
<1>1. 0 \in 0 .. MaxTries /\ 0 \in 0 .. MaxMoves /\ 0 \in 0 .. MaxNoise
  BY CardConstants
<1>2. block \in [Cards -> Numbers] /\ phase \in [Cards -> Phases]
  BY DEF CardInit, Numbers, Phases
<1>3. CardTypeOK
  BY <1>1, <1>2 DEF CardInit, CardTypeOK, Numbers
<1> QED
  BY <1>3 DEF CardInit, CardIInv, PhaseInv, CipherInv, BlockInv, ReadInv

\* An exchange: a card that answers waits for what comes next, any other stays or starts
\* again, and a whole answer comes from cards that have heard the command.
LEMMA Exchanged ==
  ASSUME CardTypeOK, PhaseInv, NEW answering \in SUBSET field, NEW next \in Phases,
         NEW alike \in BOOLEAN, NEW back \in Backs,
         MFRC522_ToCard(answering, next, alike, back)
  PROVE  /\ phase' \in [Cards -> Phases] /\ noise' \in 0 .. MaxNoise
         /\ \A c \in Cards : \/ phase'[c] \in {phase[c], "idle"}
                             \/ c \in answering /\ phase'[c] = next
         /\ \A c \in Cards : phase'[c] # "idle" => c \in field
         /\ back = Clear => answering # {} /\ phase' = Heard(answering, next)
<1>1. phase \in [Cards -> Phases] /\ noise \in Nat /\ noise <= MaxNoise /\ field \subseteq Cards
  BY CardConstants DEF CardTypeOK
<1>2. /\ Heard(answering, next) \in [Cards -> Phases]
      /\ \A c \in Cards : \/ Heard(answering, next)[c] \in {phase[c], "idle"}
                          \/ c \in answering /\ Heard(answering, next)[c] = next
      /\ \A c \in Cards : Heard(answering, next)[c] # "idle" => c \in field
  BY <1>1 DEF Heard, Phases, PhaseInv
<1>3. phase' \in {phase, Heard(answering, next)}
  BY DEF MFRC522_ToCard
<1>4. noise' \in 0 .. MaxNoise
  BY <1>1, CardConstants DEF MFRC522_ToCard
<1>5. Clear # Nothing /\ Clear # Error
  BY DEF Clear, Nothing, Error
<1>6. back = Clear => answering # {} /\ phase' = Heard(answering, next)
  BY <1>5 DEF MFRC522_ToCard
<1> QED
  BY <1>1, <1>2, <1>3, <1>4, <1>6 DEF PhaseInv

\* A whole answer is one that nobody disturbed.
LEMMA WholeIsClear == \A back \in Backs : Whole(back) => back = Clear
BY DEF Backs, Whole, Clear, Nothing, Error

\* What a command leaves that does not touch the number, the blocks or the field.
LEMMA QuietExchange ==
  ASSUME CardIInv, UNCHANGED <<field, block, moves, adding, tries, enrolled, card_numberbuf>>,
         phase' \in [Cards -> Phases], noise' \in 0 .. MaxNoise,
         cipher' \in BOOLEAN, flag1' \in BOOLEAN,
         cpc' \in Commands \cup {"main", "between", "done"},
         \A c \in Cards : phase'[c] # "idle" => c \in field,
         \A c \in Cards : phase'[c] = "open" => phase[c] = "open" \/ c = card_numberbuf
  PROVE  CardTypeOK' /\ PhaseInv' /\ BlockInv'
<1>1. CardTypeOK'
  BY DEF CardIInv, CardTypeOK
<1>2. PhaseInv'
  BY DEF CardIInv, PhaseInv
<1>3. BlockInv'
  BY DEF CardIInv, BlockInv
<1> QED
  BY <1>1, <1>2, <1>3

\* REQA or WUPA: the cards in the field that hear it wait to be told apart.
LEMMA RequestKeeps == CardIInv /\ MFRC522_Request => CardIInv'
<1> SUFFICES ASSUME CardIInv, MFRC522_Request PROVE CardIInv'
  OBVIOUS
<1>1. PICK back \in Backs :
        /\ MFRC522_ToCard(Hearing("idle"), "ready", TRUE, back)
        /\ cpc' = IF Whole(back) THEN "anticoll" ELSE "done"
  BY DEF MFRC522_Request
<1>2. /\ flag1' = FALSE
      /\ UNCHANGED <<field, block, moves, adding, tries, enrolled, cipher, card_numberbuf>>
  BY DEF MFRC522_Request, world, progress
<1>3. CardTypeOK /\ PhaseInv
  BY DEF CardIInv
<1>4. /\ phase' \in [Cards -> Phases] /\ noise' \in 0 .. MaxNoise
      /\ \A c \in Cards : phase'[c] \in {phase[c], "idle"} \/ phase'[c] = "ready"
      /\ \A c \in Cards : phase'[c] # "idle" => c \in field
  BY <1>1, <1>3, Exchanged DEF Hearing, Phases
<1>5. cipher' \in BOOLEAN /\ flag1' \in BOOLEAN /\ cpc' \in {"anticoll", "done"}
  BY <1>1, <1>2, <1>3 DEF CardTypeOK
<1>6. CardTypeOK' /\ PhaseInv' /\ BlockInv'
  BY <1>2, <1>4, <1>5, QuietExchange DEF Commands
<1> QED
  BY <1>2, <1>5, <1>6 DEF CardIInv, CipherInv, ReadInv

\* Anticollision: the cipher is off, and the number in the buffer is a card's or mixed.
LEMMA AnticollKeeps == CardIInv /\ MFRC522_Anticoll => CardIInv'
<1> SUFFICES ASSUME CardIInv, MFRC522_Anticoll PROVE CardIInv'
  OBVIOUS
<1> DEFINE ready == {c \in field : phase[c] = "ready"}
<1>1. PICK back \in Backs :
        /\ MFRC522_ToCard(ready, "ready", FALSE, back)
        /\ card_numberbuf' = IF back = Clear THEN CHOOSE c \in ready : TRUE ELSE Mixed
  BY DEF MFRC522_Anticoll
<1>2. /\ cpc = "anticoll" /\ cpc' = "select" /\ cipher' = FALSE
      /\ UNCHANGED <<field, block, moves, adding, tries, enrolled, flag1>>
  BY DEF MFRC522_Anticoll, world, progress
<1>3. CardTypeOK /\ PhaseInv /\ field \subseteq Cards
  BY DEF CardIInv, CardTypeOK
<1>4. /\ phase' \in [Cards -> Phases] /\ noise' \in 0 .. MaxNoise
      /\ \A c \in Cards : phase'[c] # "idle" => c \in field
      /\ back = Clear => ready # {} /\ phase' = Heard(ready, "ready")
  BY <1>1, <1>3, Exchanged DEF Phases
<1>5. card_numberbuf' \in Cards \cup {Mixed} /\ (card_numberbuf' \in Cards => back = Clear)
  <2>1. ready # {} => (CHOOSE c \in ready : TRUE) \in ready
    OBVIOUS
  <2> QED
    BY <1>1, <1>3, <1>4, <2>1, CardConstants
<1>6. ASSUME NEW c \in Cards, back = Clear PROVE phase'[c] # "open"
  BY <1>3, <1>4, <1>6 DEF Heard, PhaseInv
<1>7. PhaseInv'
  BY <1>2, <1>4, <1>5, <1>6 DEF PhaseInv
<1>8. ~flag1
  BY <1>2 DEF CardIInv, ReadInv
<1>9. CardTypeOK'
  BY <1>2, <1>3, <1>4, <1>5 DEF CardTypeOK, Numbers, Commands
<1>10. BlockInv'
  BY <1>2 DEF CardIInv, BlockInv
<1> QED
  BY <1>2, <1>7, <1>8, <1>9, <1>10 DEF CardIInv, CipherInv, ReadInv

\* The card with the number in the buffer is selected.
LEMMA SelectKeeps == CardIInv /\ MFRC522_SelectTag => CardIInv'
<1> SUFFICES ASSUME CardIInv, MFRC522_SelectTag PROVE CardIInv'
  OBVIOUS
<1> DEFINE called == {c \in field : phase[c] = "ready" /\ c = card_numberbuf}
<1>1. PICK back \in Backs : MFRC522_ToCard(called, "active", TRUE, back)
  BY DEF MFRC522_SelectTag
<1>2. /\ cpc = "select" /\ cpc' = "auth" /\ cipher' = FALSE
      /\ UNCHANGED <<field, block, moves, adding, tries, enrolled, card_numberbuf, flag1>>
  BY DEF MFRC522_SelectTag, world, progress
<1>3. CardTypeOK /\ PhaseInv
  BY DEF CardIInv
<1>4. /\ phase' \in [Cards -> Phases] /\ noise' \in 0 .. MaxNoise
      /\ \A c \in Cards : phase'[c] \in {phase[c], "idle"} \/ phase'[c] = "active"
      /\ \A c \in Cards : phase'[c] # "idle" => c \in field
  BY <1>1, <1>3, Exchanged DEF Phases
<1>5. ~flag1 /\ flag1' \in BOOLEAN
  BY <1>2 DEF CardIInv, ReadInv, CardTypeOK
<1>6. CardTypeOK' /\ PhaseInv' /\ BlockInv'
  BY <1>2, <1>4, <1>5, QuietExchange DEF Commands
<1> QED
  BY <1>2, <1>5, <1>6 DEF CardIInv, CipherInv, ReadInv

\* The selected card, if it knows the key, opens its sector and the cipher is on.
LEMMA AuthKeeps == CardIInv /\ MFRC522_Auth => CardIInv'
<1> SUFFICES ASSUME CardIInv, MFRC522_Auth PROVE CardIInv'
  OBVIOUS
<1> DEFINE right == {c \in Hearing("active") : c \in KeyedCards /\ c = card_numberbuf}
<1>1. PICK back \in Backs :
        /\ MFRC522_ToCard(right, "open", TRUE, back)
        /\ cipher' \in {back = Clear, right # {} /\ back # Nothing}
  BY DEF MFRC522_Auth
<1>2. /\ cpc = "auth" /\ cpc' \in {"write", "read"}
      /\ UNCHANGED <<field, block, moves, adding, tries, enrolled, card_numberbuf, flag1>>
  BY DEF MFRC522_Auth, world, progress
<1>3. CardTypeOK /\ PhaseInv
  BY DEF CardIInv
<1>4. right \in SUBSET field
  BY DEF Hearing
<1>5. /\ phase' \in [Cards -> Phases] /\ noise' \in 0 .. MaxNoise
      /\ \A c \in Cards : phase'[c] \in {phase[c], "idle"} \/ (c \in right /\ phase'[c] = "open")
      /\ \A c \in Cards : phase'[c] # "idle" => c \in field
      /\ back = Clear => right # {}
  <2>1. "open" \in Phases /\ TRUE \in BOOLEAN
    BY DEF Phases
  <2> HIDE DEF right
  <2> QED
    BY <1>1, <1>3, <1>4, <2>1, Exchanged
<1>6. right # {} => card_numberbuf \in Cards
  BY CardConstants
<1>7. \A c \in Cards : phase'[c] = "open" => phase[c] = "open" \/ c = card_numberbuf
  BY <1>5
<1>8. cipher' \in BOOLEAN /\ (cipher' => card_numberbuf \in Cards)
  BY <1>1, <1>5, <1>6
<1>9. ~flag1 /\ flag1' \in BOOLEAN
  BY <1>2 DEF CardIInv, ReadInv, CardTypeOK
<1>10. CardTypeOK' /\ PhaseInv' /\ BlockInv'
  BY <1>2, <1>5, <1>7, <1>8, <1>9, QuietExchange DEF Commands
<1> QED
  BY <1>2, <1>8, <1>9, <1>10 DEF CardIInv, CipherInv, ReadInv

\* Block 4 is read; only an enrolled card's own number counts.
LEMMA ReadKeeps == CardIInv /\ MFRC522_Read => CardIInv'
<1> SUFFICES ASSUME CardIInv, MFRC522_Read PROVE CardIInv'
  OBVIOUS
<1>1. PICK back \in Backs :
        /\ MFRC522_ToCard(Hearing("open"), "open", TRUE, back)
        /\ flag1' = (Whole(back) /\ \A c \in Hearing("open") : Same(c))
  BY DEF MFRC522_Read
<1>2. /\ cpc = "read" /\ cpc' = "done"
      /\ UNCHANGED <<field, block, moves, adding, tries, enrolled, cipher, card_numberbuf>>
  BY DEF MFRC522_Read, world, progress
<1>3. CardTypeOK /\ PhaseInv /\ field \subseteq Cards
  BY DEF CardIInv, CardTypeOK
<1>4. /\ phase' \in [Cards -> Phases] /\ noise' \in 0 .. MaxNoise
      /\ \A c \in Cards : \/ phase'[c] \in {phase[c], "idle"}
                          \/ c \in Hearing("open") /\ phase'[c] = "open"
      /\ \A c \in Cards : phase'[c] # "idle" => c \in field
      /\ back = Clear => Hearing("open") # {}
  BY <1>1, <1>3, Exchanged DEF Hearing, Phases
<1>5. \A c \in Cards : phase'[c] = "open" => phase[c] = "open" \/ c = card_numberbuf
  BY <1>4 DEF Hearing
<1>6. cipher' \in BOOLEAN /\ flag1' \in BOOLEAN
  BY <1>1, <1>2, <1>3 DEF CardTypeOK
<1>7. CardTypeOK' /\ PhaseInv' /\ BlockInv'
  BY <1>2, <1>4, <1>5, <1>6, QuietExchange DEF Commands
<1>8. ASSUME flag1'
      PROVE  card_numberbuf \in enrolled /\ block[card_numberbuf] = card_numberbuf
  <2>1. back = Clear /\ \A c \in Hearing("open") : block[c] = card_numberbuf
    BY <1>1, <1>8, WholeIsClear DEF Same
  <2>2. PICK c \in Hearing("open") : TRUE
    BY <1>4, <2>1
  <2>3. c \in Cards /\ phase[c] = "open" /\ cipher
    BY <1>3, <2>2 DEF Hearing
  <2>4. card_numberbuf \in Cards
    BY <1>2, <2>3 DEF CardIInv, CipherInv
  <2>5. c = card_numberbuf
    BY <1>3, <2>3, <2>4 DEF PhaseInv
  <2> QED
    BY <2>1, <2>2, <2>4, <2>5 DEF CardIInv, BlockInv
<1> QED
  BY <1>2, <1>7, <1>8 DEF CardIInv, CipherInv, ReadInv

\* The first half of a write.
LEMMA WriteKeeps == CardIInv /\ MFRC522_Write => CardIInv'
<1> SUFFICES ASSUME CardIInv, MFRC522_Write PROVE CardIInv'
  OBVIOUS
<1>1. PICK back \in Backs :
        /\ MFRC522_ToCard(Hearing("open"), "open", TRUE, back)
        /\ cpc' = IF Whole(back) THEN "data" ELSE "done"
  BY DEF MFRC522_Write
<1>2. /\ cpc = "write"
      /\ UNCHANGED <<field, block, moves, adding, tries, enrolled, cipher, card_numberbuf, flag1>>
  BY DEF MFRC522_Write, world, progress
<1>3. CardTypeOK /\ PhaseInv
  BY DEF CardIInv
<1>4. /\ phase' \in [Cards -> Phases] /\ noise' \in 0 .. MaxNoise
      /\ \A c \in Cards : \/ phase'[c] \in {phase[c], "idle"}
                          \/ c \in Hearing("open") /\ phase'[c] = "open"
      /\ \A c \in Cards : phase'[c] # "idle" => c \in field
  BY <1>1, <1>3, Exchanged DEF Hearing, Phases
<1>5. \A c \in Cards : phase'[c] = "open" => phase[c] = "open" \/ c = card_numberbuf
  BY <1>4 DEF Hearing
<1>6. cipher' \in BOOLEAN /\ flag1' \in BOOLEAN /\ ~flag1 /\ cpc' \in {"data", "done"}
  BY <1>1, <1>2, <1>3 DEF CardTypeOK, CardIInv, ReadInv
<1>7. CardTypeOK' /\ PhaseInv' /\ BlockInv'
  BY <1>2, <1>4, <1>5, <1>6, QuietExchange DEF Commands
<1> QED
  BY <1>2, <1>6, <1>7 DEF CardIInv, CipherInv, ReadInv

\* The second half: the number goes into the block of the card that is open.
LEMMA DataKeeps == CardIInv /\ WriteData => CardIInv'
<1> SUFFICES ASSUME CardIInv, WriteData PROVE CardIInv'
  OBVIOUS
<1>1. PICK back \in Backs, arrives \in BOOLEAN :
        /\ MFRC522_ToCard(Hearing("open"), "open", TRUE, back)
        /\ block' = [c \in Cards |-> IF arrives /\ c \in Hearing("open")
                                     THEN card_numberbuf ELSE block[c]]
        /\ enrolled' = IF arrives THEN enrolled \cup Hearing("open") ELSE enrolled
  BY DEF WriteData
<1>2. /\ cpc = "data" /\ cpc' = "done"
      /\ UNCHANGED <<field, moves, adding, tries, cipher, card_numberbuf, flag1>>
  BY DEF WriteData
<1>3. CardTypeOK /\ PhaseInv /\ field \subseteq Cards /\ Hearing("open") \subseteq Cards
  BY DEF CardIInv, CardTypeOK, Hearing
<1>4. /\ phase' \in [Cards -> Phases] /\ noise' \in 0 .. MaxNoise
      /\ \A c \in Cards : \/ phase'[c] \in {phase[c], "idle"}
                          \/ c \in Hearing("open") /\ phase'[c] = "open"
      /\ \A c \in Cards : phase'[c] # "idle" => c \in field
  BY <1>1, <1>3, Exchanged DEF Hearing, Phases
<1>5. \A c \in Cards : phase'[c] = "open" => phase[c] = "open"
  BY <1>4 DEF Hearing
<1>6. PhaseInv'
  BY <1>2, <1>3, <1>4, <1>5 DEF PhaseInv
<1>7. block' \in [Cards -> Numbers] /\ enrolled' \subseteq Cards
  BY <1>1, <1>3 DEF CardTypeOK
<1>8. CardTypeOK'
  BY <1>2, <1>3, <1>4, <1>7 DEF CardTypeOK
<1>9. BlockInv'
  BY <1>1 DEF CardIInv, BlockInv
<1>10. ~flag1
  BY <1>2 DEF CardIInv, ReadInv
<1> QED
  BY <1>2, <1>6, <1>8, <1>9, <1>10 DEF CardIInv, CipherInv, ReadInv

\* A user begins a try.
LEMMA StartsKeeps ==
  ASSUME CardIInv, NEW add \in BOOLEAN, Starts(add)
  PROVE  CardIInv'
<1>1. /\ cpc = "main" /\ cpc' = "request" /\ adding' = add /\ tries' = 0 /\ flag1' = FALSE
      /\ UNCHANGED <<field, block, moves, card_numberbuf, enrolled, noise>>
  BY DEF Starts, world
<1>2. CardTypeOK /\ PhaseInv /\ BlockInv
  BY DEF CardIInv
<1>3. /\ phase' \in {phase, [c \in Cards |-> "idle"]}
      /\ cipher' \in {cipher, FALSE}
  BY DEF Starts, MFRC522_Initializtion, CipherAfterReset
<1>4. PhaseInv'
  BY <1>1, <1>2, <1>3 DEF PhaseInv
<1>5. tries' \in 0 .. MaxTries /\ cipher' \in BOOLEAN /\ phase' \in [Cards -> Phases]
  <2>1. tries' \in 0 .. MaxTries
    BY <1>1, CardConstants
  <2>2. cipher' \in BOOLEAN
    BY <1>2, <1>3 DEF CardTypeOK
  <2>3. phase' \in [Cards -> Phases]
    BY <1>2, <1>3 DEF CardTypeOK, Phases
  <2> QED
    BY <2>1, <2>2, <2>3
<1>6. CardTypeOK'
  BY <1>1, <1>2, <1>5 DEF CardTypeOK, Commands
<1> QED
  BY <1>1, <1>2, <1>4, <1>6 DEF CardIInv, CipherInv, BlockInv, ReadInv

\* The caller tries again, or has done.
LEMMA CallerKeeps == CardIInv /\ (TriesAgain \/ CardDone) => CardIInv'
<1> SUFFICES ASSUME CardIInv, TriesAgain \/ CardDone PROVE CardIInv'
  OBVIOUS
<1>1. CardTypeOK /\ PhaseInv /\ BlockInv
  BY DEF CardIInv
<1>2. UNCHANGED <<field, block, moves, phase, cipher, card_numberbuf, enrolled, noise>>
  BY DEF TriesAgain, CardDone, world
<1>3. /\ cpc' \in {"request", "main"} /\ ~flag1' /\ flag1' \in BOOLEAN
      /\ adding' \in BOOLEAN /\ tries' \in 0 .. MaxTries
  <2>1. CASE TriesAgain
    <3>1. tries \in Nat /\ tries + 1 < MaxTries /\ tries' = tries + 1
      BY <1>1, <2>1, CardConstants DEF TriesAgain, CardTypeOK
    <3>2. tries' \in 0 .. MaxTries
      BY <3>1, CardConstants
    <3> QED
      BY <1>1, <2>1, <3>2 DEF TriesAgain, CardTypeOK
  <2>2. CASE CardDone
    <3>1. tries' \in 0 .. MaxTries
      BY <2>2, CardConstants DEF CardDone
    <3> QED
      BY <2>2, <3>1 DEF CardDone
  <2> QED
    BY <2>1, <2>2
<1>4. CardTypeOK'
  BY <1>1, <1>2, <1>3 DEF CardTypeOK, Commands
<1> QED
  BY <1>1, <1>2, <1>3, <1>4 DEF CardIInv, PhaseInv, CipherInv, BlockInv, ReadInv

\* A card comes or goes; one that leaves the field starts over.
LEMMA MoveKeeps == CardIInv /\ CardMoves => CardIInv'
<1> SUFFICES ASSUME CardIInv, CardMoves PROVE CardIInv'
  OBVIOUS
<1>1. CardTypeOK /\ PhaseInv
  BY DEF CardIInv
<1>2. PICK c \in Cards :
        /\ field' = IF c \in field THEN field \ {c} ELSE field \cup {c}
        /\ phase' = [phase EXCEPT ![c] = "idle"]
  BY DEF CardMoves
<1>3. /\ moves < MaxMoves /\ moves' = moves + 1
      /\ UNCHANGED <<block, cipher, card_numberbuf, cpc, adding, tries, flag1, enrolled, noise>>
  BY DEF CardMoves
<1>4. moves' \in 0 .. MaxMoves
  BY <1>1, <1>3, CardConstants DEF CardTypeOK
<1>5. phase' \in [Cards -> Phases] /\ field' \subseteq Cards
  BY <1>1, <1>2 DEF CardTypeOK, Phases
<1>6. CardTypeOK'
  BY <1>1, <1>3, <1>4, <1>5 DEF CardTypeOK
<1>7. PhaseInv'
  BY <1>1, <1>2, <1>3 DEF PhaseInv, CardTypeOK
<1> QED
  BY <1>3, <1>6, <1>7 DEF CardIInv, CipherInv, BlockInv, ReadInv

\* Every step of the reader keeps the invariant.
LEMMA CardKeeps == CardIInv /\ [CardNext]_cardVars => CardIInv'
<1> SUFFICES ASSUME CardIInv, [CardNext]_cardVars PROVE CardIInv'
  OBVIOUS
<1>1. CASE UNCHANGED cardVars
  BY <1>1 DEF CardIInv, CardTypeOK, PhaseInv, CipherInv, BlockInv, ReadInv, cardVars
<1>2. CASE Starts(TRUE) \/ Starts(FALSE)
  BY <1>2, StartsKeeps
<1> QED
  BY <1>1, <1>2, RequestKeeps, AnticollKeeps, SelectKeeps, AuthKeeps, ReadKeeps, WriteKeeps,
     DataKeeps, CallerKeeps, MoveKeeps DEF CardNext, ReaderStep

\* The invariant says what CardInv asks for.
LEMMA CardGood == CardIInv => CardInv
BY DEF CardIInv, ReadInv, CardInv, OnlyEnrolledOpen

-----------------------------------------------------------------------------
(* The enrolment of fingers *)

\* A template is of one finger.
OneFinger(pair) == pair[1] \in Fingers /\ pair[2] = pair[1]

\* What the buffers hold where Add_FR has got to.
BuffersInv ==
  /\ epc \in {"image2", "char2", "match"} => CharBuffer[1][1] # NoFinger
  /\ epc = "match" => CharBuffer[2][1] # NoFinger
  /\ epc = "merge" => CharBuffer[1][1] # NoFinger /\ CharBuffer[1][1] = CharBuffer[2][1]
  /\ epc = "store" => OneFinger(CharBuffer[2])

\* A page is empty or holds a template of one finger.
LibraryInv == \A page \in Pages : library[page] = NoPair \/ OneFinger(library[page])

\* ValidN is the number of templates, unless an answer was lost, the last count came with
\* an error or a count is due.
CountInv == ~missed /\ epc # "count" => ValidN = Cardinality(Stored)

\* The inductive invariant of the enrolment.
EnrolIInv == EnrolTypeOK /\ BuffersInv /\ LibraryInv /\ CountInv

\* What EnrolAssumption says, one fact at a time.
LEMMA EnrolConstants ==
  /\ NoFinger \notin Fingers /\ 0 \in Pages /\ Pages \subseteq Nat /\ IsFiniteSet(Pages)
  /\ KeyNumbers \subseteq Nat /\ Sums \subseteq Nat /\ TriesWrap \in Nat /\ TriesWrap > 5
  /\ MaxLost \in Nat /\ MaxFingers \in Nat /\ MaxCalls \in Nat
<1>1. TriesWrap \in Nat /\ TriesWrap > 5
  BY EnrolAssumption
<1>2. MaxLost \in Nat /\ MaxFingers \in Nat /\ MaxCalls \in Nat
  BY EnrolAssumption
<1> QED
  BY <1>1, <1>2, EnrolAssumption

\* The pages that are in use can be counted.
LEMMA StoredCounted == IsFiniteSet(Stored) /\ Cardinality(Stored) \in Nat
<1>1. Stored \subseteq Pages
  BY DEF Stored
<1>2. IsFiniteSet(Stored)
  BY <1>1, EnrolConstants, FS_Subset
<1> QED
  BY <1>2, FS_CardinalityType

\* What a pair of fingers is made of.
LEMMA PairsKnown ==
  /\ NoPair \in Pairs /\ NoPair[1] = NoFinger /\ NoPair[2] = NoFinger
  /\ \A pair \in Pairs : pair[1] \in Fingers \cup {NoFinger} /\ pair[2] \in Fingers \cup {NoFinger}
  /\ \A pair \in Pairs : pair[1] # NoFinger => pair \in Fingers \X (Fingers \cup {NoFinger})
  /\ \A f \in Fingers, g \in Fingers \cup {NoFinger} :
       <<f, g>> \in Pairs /\ <<f, g>>[1] = f /\ <<f, g>>[2] = g
BY DEF Pairs, NoPair

\* The library is empty and ValidN is 0.
LEMMA EnrolInitKeeps == EnrolInit => EnrolIInv
<1> SUFFICES ASSUME EnrolInit PROVE EnrolIInv
  OBVIOUS
<1>1. EnrolTypeOK
  <2>1. tried \in 0 .. TriesWrap - 1 /\ lost \in 0 .. MaxLost /\ fingers \in 0 .. MaxFingers
        /\ calls \in 0 .. MaxCalls /\ ValidN \in Nat
    BY EnrolConstants DEF EnrolInit
  <2>2. CharBuffer \in [1 .. 2 -> Pairs] /\ library \in [Pages -> Pairs]
    BY PairsKnown DEF EnrolInit
  <2> QED
    BY <2>1, <2>2 DEF EnrolInit, EnrolTypeOK
<1>2. Stored = {}
  BY DEF EnrolInit, Stored
<1>3. Cardinality(Stored) = 0
  BY <1>2, FS_EmptySet
<1> QED
  BY <1>1, <1>3 DEF EnrolInit, EnrolIInv, BuffersInv, LibraryInv, CountInv

\* What an answer of the module leaves.
LEMMA Answered ==
  ASSUME NEW code, NEW possible, NEW done \in BOOLEAN, Answers(code, possible, done), EnrolTypeOK
  PROVE  /\ lost' \in 0 .. MaxLost /\ missed' \in BOOLEAN
         /\ ~missed' => ~missed /\ (done <=> code = "ok")
         /\ code = "ok" => done
         /\ code = "failed" => ~done
         /\ done => possible
<1>1. lost \in Nat /\ lost <= MaxLost /\ missed \in BOOLEAN
  BY EnrolConstants DEF EnrolTypeOK
<1>2. CASE code = "ok" /\ possible /\ done /\ UNCHANGED <<lost, missed>>
  BY <1>1, <1>2, EnrolConstants
<1>3. CASE code = "failed" /\ ~done /\ UNCHANGED <<lost, missed>>
  BY <1>1, <1>3, EnrolConstants
<1>4. CASE /\ code = "timeout" /\ (done => possible)
           /\ lost < MaxLost /\ lost' = lost + 1 /\ missed' = TRUE
  BY <1>1, <1>4, EnrolConstants
<1> QED
  BY <1>2, <1>3, <1>4 DEF Answers

\* A round ends Add_FR or goes back to where it began.
LEMMA Rounded ==
  ASSUME NEW i \in Nat, NEW there, Round(i, there)
  PROVE  tried' \in 0 .. TriesWrap - 1 /\ epc' \in {"main", there}
BY EnrolConstants DEF Round

\* The library is not changed, and no answer about it is awaited.
LEMMA CountKept ==
  ASSUME EnrolIInv, ~missed' => ~missed, library' = library, ValidN' = ValidN, epc # "count"
  PROVE  LibraryInv' /\ CountInv'
<1>1. Stored' = Stored
  BY DEF Stored
<1> QED
  BY <1>1 DEF EnrolIInv, LibraryInv, CountInv

\* An image is taken, or not.
LEMMA ImageKeeps ==
  ASSUME EnrolIInv, NEW n \in 1 .. 2, PS_GetImage(n)
  PROVE  EnrolIInv'
<1>1. PICK code \in Codes, done \in BOOLEAN :
        /\ Answers(code, finger # NoFinger, done)
        /\ image' = IF done THEN finger ELSE image
        /\ IF code = "ok" THEN tried' = Counts(n) % TriesWrap /\ epc' = Char(n)
                          ELSE Round(Counts(n), Image(n))
  BY DEF PS_GetImage
<1>2. /\ epc = Image(n)
      /\ UNCHANGED <<finger, fingers, calls, CharBuffer, library, ValidN, keyFlag>>
  BY DEF PS_GetImage, person
<1>3. EnrolTypeOK /\ BuffersInv
  BY DEF EnrolIInv
<1>4. /\ lost' \in 0 .. MaxLost /\ missed' \in BOOLEAN /\ (~missed' => ~missed)
  BY <1>1, <1>3, Answered
<1>5. Counts(n) \in Nat
  BY <1>3, EnrolConstants DEF EnrolTypeOK, Counts
<1>6. tried' \in 0 .. TriesWrap - 1 /\ epc' \in {"main", Char(n), Image(n)}
  <2>1. CASE code = "ok"
    BY <1>1, <1>5, <2>1, EnrolConstants
  <2>2. CASE code # "ok"
    BY <1>1, <1>5, <2>2, Rounded
  <2> QED
    BY <2>1, <2>2
<1>7. epc # "count" /\ epc' \in {"main", "char1", "image1", "char2", "image2"}
      /\ (epc' \in {"char2", "image2"} => epc = "image2")
  BY <1>2, <1>6 DEF Image, Char
<1>8. EnrolTypeOK'
  BY <1>1, <1>2, <1>3, <1>4, <1>6, <1>7 DEF EnrolTypeOK
<1>9. BuffersInv'
  BY <1>2, <1>3, <1>7 DEF BuffersInv
<1> QED
  BY <1>2, <1>4, <1>7, <1>8, <1>9, CountKept DEF EnrolIInv

\* The characteristic of an image replaces one of the two buffers.
LEMMA CharKeeps ==
  ASSUME EnrolIInv, NEW n \in 1 .. 2, PS_GenChar(n)
  PROVE  EnrolIInv'
<1>1. PICK code \in Codes, done \in BOOLEAN :
        /\ Answers(code, image # NoFinger, done)
        /\ CharBuffer' = IF done THEN [CharBuffer EXCEPT ![n] = <<image, NoFinger>>] ELSE CharBuffer
        /\ IF code = "ok" THEN tried' = 0 /\ epc' = IF n = 1 THEN "image2" ELSE "match"
                          ELSE Round(tried, Image(n))
  BY DEF PS_GenChar
<1>2. /\ epc = Char(n)
      /\ UNCHANGED <<finger, fingers, calls, image, library, ValidN, keyFlag>>
  BY DEF PS_GenChar, person
<1>3. EnrolTypeOK /\ BuffersInv
  BY DEF EnrolIInv
<1>4. /\ lost' \in 0 .. MaxLost /\ missed' \in BOOLEAN /\ (~missed' => ~missed)
      /\ code = "ok" => done
      /\ done => image # NoFinger
  BY <1>1, <1>3, Answered
<1>5. tried' \in 0 .. TriesWrap - 1 /\ tried \in Nat
  <2>1. tried \in Nat
    BY <1>3, EnrolConstants DEF EnrolTypeOK
  <2>2. CASE code = "ok"
    BY <1>1, <2>1, <2>2, EnrolConstants
  <2>3. CASE code # "ok"
    BY <1>1, <2>1, <2>3, Rounded
  <2> QED
    BY <2>1, <2>2, <2>3
<1>6. /\ code = "ok" /\ n = 1 => epc' = "image2"
      /\ code = "ok" /\ n = 2 => epc' = "match"
      /\ code # "ok" /\ n = 1 => epc' \in {"main", "image1"}
      /\ code # "ok" /\ n = 2 => epc' \in {"main", "image2"}
  BY <1>1, <1>5, Rounded DEF Image
<1>7. /\ n = 1 => epc = "char1"
      /\ n = 2 => epc = "char2" /\ CharBuffer[1][1] # NoFinger
  BY <1>2, <1>3 DEF Char, BuffersInv
<1>8. CharBuffer \in [1 .. 2 -> Pairs] /\ image \in Fingers \cup {NoFinger}
  BY <1>3 DEF EnrolTypeOK
<1>9. /\ CharBuffer' \in [1 .. 2 -> Pairs]
      /\ code = "ok" => CharBuffer'[n][1] = image
      /\ \A k \in 1 .. 2 : k # n => CharBuffer'[k] = CharBuffer[k]
  <2>1. CASE ~done
    BY <1>1, <1>4, <1>8, <2>1
  <2>2. CASE done
    <3>1. <<image, NoFinger>> \in Pairs /\ <<image, NoFinger>>[1] = image
      BY <1>4, <1>8, <2>2, PairsKnown
    <3> QED
      BY <1>1, <1>8, <2>2, <3>1
  <2> QED
    BY <2>1, <2>2
<1>10. EnrolTypeOK'
  BY <1>2, <1>3, <1>4, <1>5, <1>6, <1>9 DEF EnrolTypeOK
<1>11. BuffersInv'
  <2>1. CASE code = "ok" /\ n = 1
    BY <1>4, <1>6, <1>9, <2>1 DEF BuffersInv
  <2>2. CASE code = "ok" /\ n = 2
    BY <1>4, <1>6, <1>7, <1>9, <2>2 DEF BuffersInv
  <2>3. CASE code # "ok" /\ n = 1
    BY <1>6, <2>3 DEF BuffersInv
  <2>4. CASE code # "ok" /\ n = 2
    BY <1>6, <1>7, <1>9, <2>4 DEF BuffersInv
  <2> QED
    BY <2>1, <2>2, <2>3, <2>4
<1> QED
  BY <1>2, <1>4, <1>7, <1>10, <1>11, CountKept DEF EnrolIInv

\* Only equal characteristics go on to be merged.
LEMMA MatchKeeps == EnrolIInv /\ PS_Match => EnrolIInv'
<1> SUFFICES ASSUME EnrolIInv, PS_Match PROVE EnrolIInv'
  OBVIOUS
<1>1. PICK code \in Codes :
        /\ Answers(code, CharBuffer[1][1] = CharBuffer[2][1], code = "ok")
        /\ epc' = IF code = "ok" THEN "merge" ELSE "image1"
  BY DEF PS_Match
<1>2. /\ epc = "match" /\ tried' = 0
      /\ UNCHANGED <<finger, fingers, calls, image, CharBuffer, library, ValidN, keyFlag>>
  BY DEF PS_Match, person, buffers
<1>3. EnrolTypeOK /\ BuffersInv
  BY DEF EnrolIInv
<1>4. /\ lost' \in 0 .. MaxLost /\ missed' \in BOOLEAN /\ (~missed' => ~missed)
      /\ code = "ok" => CharBuffer[1][1] = CharBuffer[2][1]
  BY <1>1, <1>3, Answered
<1>5. 0 \in 0 .. TriesWrap - 1
  BY EnrolConstants
<1>6. EnrolTypeOK'
  BY <1>1, <1>2, <1>3, <1>4, <1>5 DEF EnrolTypeOK
<1>7. BuffersInv'
  BY <1>1, <1>2, <1>3, <1>4 DEF BuffersInv
<1> QED
  BY <1>2, <1>4, <1>6, <1>7, CountKept DEF EnrolIInv

\* The template made of the two is of one finger.
LEMMA MergeKeeps == EnrolIInv /\ PS_RegModel => EnrolIInv'
<1> SUFFICES ASSUME EnrolIInv, PS_RegModel PROVE EnrolIInv'
  OBVIOUS
<1> DEFINE template == <<CharBuffer[1][1], CharBuffer[2][1]>>
<1>1. PICK code \in Codes, done \in BOOLEAN :
        /\ Answers(code, TRUE, done)
        /\ CharBuffer' = IF done THEN [n \in 1 .. 2 |-> template] ELSE CharBuffer
        /\ epc' = AfterMerge(code)
  BY DEF PS_RegModel
<1>2. /\ epc = "merge"
      /\ UNCHANGED <<finger, fingers, calls, image, library, ValidN, tried, keyFlag>>
  BY DEF PS_RegModel, person
<1>3. EnrolTypeOK /\ BuffersInv
  BY DEF EnrolIInv
<1>4. /\ lost' \in 0 .. MaxLost /\ missed' \in BOOLEAN /\ (~missed' => ~missed)
      /\ code = "ok" => done
  BY <1>1, <1>3, Answered
<1>5. CharBuffer[1] \in Pairs /\ CharBuffer[2] \in Pairs /\ CharBuffer \in [1 .. 2 -> Pairs]
  BY <1>3 DEF EnrolTypeOK
<1>6. CharBuffer[1][1] \in Fingers /\ CharBuffer[2][1] = CharBuffer[1][1]
  BY <1>2, <1>3, <1>5, PairsKnown DEF BuffersInv
<1>7. template \in Pairs /\ OneFinger(template)
  BY <1>6, PairsKnown DEF OneFinger
<1>8. CharBuffer' \in [1 .. 2 -> Pairs] /\ (done => OneFinger(CharBuffer'[2]))
  <2> HIDE DEF template
  <2> QED
    BY <1>1, <1>5, <1>7
<1>9. epc' \in {"store", "image1"} /\ (epc' = "store" => code = "ok")
  BY <1>1 DEF AfterMerge
<1>10. EnrolTypeOK'
  BY <1>2, <1>3, <1>4, <1>8, <1>9 DEF EnrolTypeOK
<1>11. BuffersInv'
  BY <1>4, <1>8, <1>9 DEF BuffersInv
<1> QED
  BY <1>2, <1>4, <1>10, <1>11, CountKept DEF EnrolIInv

\* Get_Num leaves a Boolean in the keypad's flag.
LEMMA KeyRead ==
  ASSUME NEW n, Get_Num(n), EnrolTypeOK
  PROVE  keyFlag' \in BOOLEAN
BY DEF Get_Num, EnrolTypeOK

\* A template of one finger goes to a page; ValidN is wrong until it is counted.
LEMMA StoreKeeps == EnrolIInv /\ PS_StoreChar => EnrolIInv'
<1> SUFFICES ASSUME EnrolIInv, PS_StoreChar PROVE EnrolIInv'
  OBVIOUS
<1>1. /\ epc = "store"
      /\ UNCHANGED <<finger, fingers, calls, image, CharBuffer, ValidN, tried>>
  BY DEF PS_StoreChar, person, buffers
<1>2. EnrolTypeOK /\ BuffersInv /\ LibraryInv
  BY DEF EnrolIInv
<1>3. PICK number \in KeyNumbers \cup {0} :
        /\ Get_Num(number)
        /\ IF number \notin Pages
           THEN UNCHANGED <<library, epc, lost, missed>>
           ELSE \E code \in Codes, done \in BOOLEAN :
                  /\ Answers(code, TRUE, done)
                  /\ library' = IF done THEN [library EXCEPT ![number] = CharBuffer[2]]
                                ELSE library
                  /\ epc' = AfterStore(code)
  BY DEF PS_StoreChar
<1>4. keyFlag' \in BOOLEAN
  BY <1>2, <1>3, KeyRead
<1>5. CASE number \notin Pages
  <2>1. UNCHANGED <<library, epc, lost, missed>>
    BY <1>3, <1>5
  <2>2. EnrolTypeOK'
    BY <1>1, <1>2, <1>4, <2>1 DEF EnrolTypeOK
  <2>3. BuffersInv'
    BY <1>1, <1>2, <2>1 DEF BuffersInv
  <2> QED
    BY <1>1, <2>1, <2>2, <2>3, CountKept DEF EnrolIInv
<1>6. CASE number \in Pages
  <2>1. PICK code \in Codes, done \in BOOLEAN :
          /\ Answers(code, TRUE, done)
          /\ library' = IF done THEN [library EXCEPT ![number] = CharBuffer[2]] ELSE library
          /\ epc' = AfterStore(code)
    BY <1>3, <1>6
  <2>2. /\ lost' \in 0 .. MaxLost /\ missed' \in BOOLEAN
        /\ ~missed' => ~missed /\ (done <=> code = "ok")
    BY <1>2, <2>1, Answered
  <2>3. /\ library \in [Pages -> Pairs] /\ CharBuffer[2] \in Pairs /\ OneFinger(CharBuffer[2])
    BY <1>1, <1>2 DEF EnrolTypeOK, BuffersInv
  <2>4. /\ library' \in [Pages -> Pairs]
        /\ \A page \in Pages : library'[page] \in {library[page], CharBuffer[2]}
    BY <1>6, <2>1, <2>3
  <2>5. epc' \in {"count", "image1"} /\ (epc' = "count" <=> code = "ok")
    BY <2>1 DEF AfterStore
  <2>6. EnrolTypeOK'
    BY <1>1, <1>2, <1>4, <2>2, <2>4, <2>5 DEF EnrolTypeOK
  <2>7. BuffersInv'
    BY <2>5 DEF BuffersInv
  <2>8. LibraryInv'
    BY <1>2, <2>3, <2>4 DEF LibraryInv
  <2>9. CountInv'
    <3>1. CASE ~missed' /\ epc' # "count"
      <4>1. library' = library /\ ~missed
        BY <2>1, <2>2, <2>5, <3>1
      <4> QED
        BY <1>1, <2>2, <4>1, CountKept
    <3> QED
      BY <3>1 DEF CountInv
  <2> QED
    BY <2>6, <2>7, <2>8, <2>9 DEF EnrolIInv
<1> QED
  BY <1>5, <1>6

\* ValidN is read, from an answer with an error too, or the answer is lost.
LEMMA CountKeeps == EnrolIInv /\ PS_ValidTempleteNum => EnrolIInv'
<1> SUFFICES ASSUME EnrolIInv, PS_ValidTempleteNum PROVE EnrolIInv'
  OBVIOUS
<1>1. /\ epc = "count" /\ epc' = "main"
      /\ UNCHANGED <<finger, fingers, calls, image, CharBuffer, library, tried, keyFlag>>
  BY DEF PS_ValidTempleteNum, person, buffers
<1>2. EnrolTypeOK /\ LibraryInv
  BY DEF EnrolIInv
<1>3. Stored' = Stored /\ Cardinality(Stored) \in Nat
  BY <1>1, StoredCounted DEF Stored
<1>4. CASE ValidN' = Cardinality(Stored) /\ missed' = FALSE /\ UNCHANGED lost
  <2>1. EnrolTypeOK'
    BY <1>1, <1>2, <1>3, <1>4 DEF EnrolTypeOK
  <2> QED
    BY <1>1, <1>2, <1>3, <1>4, <2>1 DEF EnrolIInv, BuffersInv, LibraryInv, CountInv
<1>5. CASE lost < MaxLost /\ lost' = lost + 1 /\ missed' = TRUE /\ UNCHANGED ValidN
  <2>1. lost' \in 0 .. MaxLost
    BY <1>2, <1>5, EnrolConstants DEF EnrolTypeOK
  <2>2. EnrolTypeOK'
    BY <1>1, <1>2, <1>5, <2>1 DEF EnrolTypeOK
  <2> QED
    BY <1>1, <1>2, <1>5, <2>2 DEF EnrolIInv, BuffersInv, LibraryInv, CountInv
<1>6. CASE ValidN' \in Sums /\ missed' = TRUE /\ UNCHANGED lost
  <2>1. EnrolTypeOK'
    BY <1>1, <1>2, <1>6, EnrolConstants DEF EnrolTypeOK
  <2> QED
    BY <1>1, <1>2, <1>6, <2>1 DEF EnrolIInv, BuffersInv, LibraryInv, CountInv
<1> QED
  BY <1>4, <1>5, <1>6 DEF PS_ValidTempleteNum

\* A page is emptied, whatever the answer says.
LEMMA DeleteKeeps == EnrolIInv /\ PS_DeletChar => EnrolIInv'
<1> SUFFICES ASSUME EnrolIInv, PS_DeletChar PROVE EnrolIInv'
  OBVIOUS
<1>1. /\ epc = "delete" /\ epc' = "count"
      /\ UNCHANGED <<finger, fingers, calls, image, CharBuffer, ValidN, tried>>
  BY DEF PS_DeletChar, person, buffers
<1>2. EnrolTypeOK /\ LibraryInv
  BY DEF EnrolIInv
<1>3. PICK number \in KeyNumbers \cup {0}, code \in Codes, done \in BOOLEAN :
        /\ Get_Num(number)
        /\ Answers(code, number \in Pages, done)
        /\ library' = IF done THEN [library EXCEPT ![number] = NoPair] ELSE library
  BY DEF PS_DeletChar
<1>4. keyFlag' \in BOOLEAN /\ lost' \in 0 .. MaxLost /\ missed' \in BOOLEAN
      /\ (done => number \in Pages)
  BY <1>2, <1>3, KeyRead, Answered
<1>5. library \in [Pages -> Pairs] /\ NoPair \in Pairs
  BY <1>2, PairsKnown DEF EnrolTypeOK
<1>6. /\ library' \in [Pages -> Pairs]
      /\ \A page \in Pages : library'[page] \in {library[page], NoPair}
  BY <1>3, <1>4, <1>5
<1>7. EnrolTypeOK'
  BY <1>1, <1>2, <1>4, <1>6 DEF EnrolTypeOK
<1>8. LibraryInv'
  BY <1>2, <1>6 DEF LibraryInv
<1> QED
  BY <1>1, <1>7, <1>8 DEF EnrolIInv, BuffersInv, CountInv

\* The administrator and the finger: nothing of the module changes.
LEMMA OutsideKeeps == EnrolIInv /\ (FingerMoves \/ Add_FR \/ Del_FR) => EnrolIInv'
<1> SUFFICES ASSUME EnrolIInv, FingerMoves \/ Add_FR \/ Del_FR PROVE EnrolIInv'
  OBVIOUS
<1>1. EnrolTypeOK /\ BuffersInv
  BY DEF EnrolIInv
<1>2. UNCHANGED <<image, CharBuffer, library, ValidN, keyFlag, missed, lost>>
  BY DEF FingerMoves, Add_FR, Del_FR, buffers
<1>3. CASE FingerMoves
  <2>1. /\ fingers < MaxFingers /\ fingers' = fingers + 1 /\ finger' \in Fingers \cup {NoFinger}
        /\ UNCHANGED <<epc, tried, calls>>
    BY <1>3 DEF FingerMoves
  <2>2. fingers' \in 0 .. MaxFingers
    BY <1>1, <2>1, EnrolConstants DEF EnrolTypeOK
  <2>3. EnrolTypeOK'
    BY <1>1, <1>2, <2>1, <2>2 DEF EnrolTypeOK
  <2>4. BuffersInv'
    BY <1>1, <1>2, <2>1 DEF BuffersInv
  <2>5. LibraryInv' /\ CountInv'
    BY <1>2, <2>1 DEF EnrolIInv, LibraryInv, CountInv, Stored
  <2> QED
    BY <2>3, <2>4, <2>5 DEF EnrolIInv
<1>4. CASE Add_FR \/ Del_FR
  <2>1. /\ epc = "main" /\ calls < MaxCalls /\ calls' = calls + 1 /\ epc' \in {"image1", "delete"}
        /\ tried' \in 0 .. TriesWrap - 1 \/ tried' = tried
        /\ UNCHANGED <<finger, fingers>>
    BY <1>4 DEF Add_FR, Del_FR
  <2>2. calls' \in 0 .. MaxCalls
    BY <1>1, <2>1, EnrolConstants DEF EnrolTypeOK
  <2>3. EnrolTypeOK'
    BY <1>1, <1>2, <2>1, <2>2 DEF EnrolTypeOK
  <2>4. BuffersInv'
    BY <2>1 DEF BuffersInv
  <2> QED
    BY <1>2, <2>1, <2>3, <2>4, CountKept DEF EnrolIInv
<1> QED
  BY <1>3, <1>4

\* Every step of the enrolment keeps the invariant.
LEMMA EnrolKeeps == EnrolIInv /\ [EnrolNext]_enrolVars => EnrolIInv'
<1> SUFFICES ASSUME EnrolIInv, [EnrolNext]_enrolVars PROVE EnrolIInv'
  OBVIOUS
<1>1. CASE UNCHANGED enrolVars
  BY <1>1 DEF EnrolIInv, EnrolTypeOK, BuffersInv, LibraryInv, CountInv, Stored, enrolVars
<1>2. CASE \E n \in 1 .. 2 : PS_GetImage(n) \/ PS_GenChar(n)
  BY <1>2, ImageKeeps, CharKeeps
<1> QED
  BY <1>1, <1>2, MatchKeeps, MergeKeeps, StoreKeeps, CountKeeps, DeleteKeeps, OutsideKeeps
     DEF EnrolNext, EnrolStep

\* The invariant says what EnrolInv asks for.
LEMMA EnrolGood == EnrolIInv => EnrolInv
<1> SUFFICES ASSUME EnrolIInv PROVE EnrolInv
  OBVIOUS
<1>1. OneFingerPerTemplate
  BY EnrolConstants DEF EnrolIInv, LibraryInv, OneFinger, OneFingerPerTemplate, Stored
<1>2. CountRight
  BY DEF EnrolIInv, CountInv, CountRight
<1> QED
  BY <1>1, <1>2 DEF EnrolInv, EnrolIInv

-----------------------------------------------------------------------------
(* The Bluetooth line *)

\* What BleAssumption says, one fact at a time: the commands are made of bytes that the
\* receiver knows.
LEMMA BleConstants ==
  /\ RxSize \in Nat /\ RxSize > 1 /\ MaxMeanwhile \in Nat /\ MaxSends \in Nat
  /\ CR \in RxBytes /\ LF \in RxBytes
  /\ \A word \in Words : word \in Seq(RxBytes)
<1>1. MaxMeanwhile \in Nat /\ MaxSends \in Nat
  BY BleAssumption
<1>2. \A word \in Words : word \in Seq(Range(word))
  BY BleAssumption
<1>3. CR \in RxBytes /\ LF \in RxBytes
  BY DEF RxBytes
<1>4. ASSUME NEW word \in Words PROVE Range(word) \subseteq RxBytes
  BY DEF RxBytes
<1>5. ASSUME NEW word \in Words PROVE word \in Seq(RxBytes)
  <2> DEFINE letters == Range(word)
  <2>1. word \in Seq(letters) /\ letters \subseteq RxBytes
    BY <1>2, <1>4
  <2> HIDE DEF letters
  <2> QED
    BY <2>1
<1>6. RxSize \in Nat /\ RxSize > 1
  <2>1. RxSize \in Nat
    BY BleAssumption
  <2>2. UNLOCK \in Words /\ \A word \in Words : Len(word) \in 1 .. RxSize - 1
    BY BleAssumption DEF Words
  <2>3. Len(UNLOCK) \in 1 .. RxSize - 1
    BY <2>2
  <2> QED
    BY <2>1, <2>3
<1> QED
  BY <1>1, <1>3, <1>5, <1>6

\* Nothing has been sent.
LEMMA BleInitKeeps == BleInit => BleTypeOK
<1> SUFFICES ASSUME BleInit PROVE BleTypeOK
  OBVIOUS
<1>1. USART_RX_BUF \in [0 .. RxSize - 1 -> RxBytes \cup {Nul}] /\ count \in 0 .. RxSize - 1
  BY BleConstants DEF BleInit, Empty
<1>2. sent \in [Words -> 0 .. MaxSends] /\ obeyed \in [Words -> Nat]
  BY BleConstants DEF BleInit, Zero
<1>3. line \in Seq(RxBytes) /\ meanwhile \in 0 .. MaxMeanwhile
  BY BleConstants DEF BleInit
<1> QED
  BY <1>1, <1>2, <1>3 DEF BleInit, BleTypeOK

\* The phone sends a word, and may send its line end.
LEMMA SendKeeps == BleTypeOK /\ SendWord => BleTypeOK'
<1> SUFFICES ASSUME BleTypeOK, SendWord PROVE BleTypeOK'
  OBVIOUS
<1>1. PICK word \in Words, end \in {<<>>, <<CR, LF>>} :
        line' = line \o word \o end /\ sent' = [sent EXCEPT ![word] = @ + 1]
  BY DEF SendWord
<1>2. line' \in Seq(RxBytes)
  <2>1. word \in Seq(RxBytes) /\ line \in Seq(RxBytes)
    BY BleConstants DEF BleTypeOK
  <2>2. <<>> \in Seq(RxBytes) /\ <<CR, LF>> \in Seq(RxBytes)
    <3>1. CR \in RxBytes /\ LF \in RxBytes
      BY BleConstants
    <3> QED
      BY <3>1
  <2>3. end \in Seq(RxBytes)
    BY <2>2
  <2>4. line \o word \in Seq(RxBytes)
    BY <2>1
  <2> QED
    BY <1>1, <2>3, <2>4
<1>3. sent' \in [Words -> 0 .. MaxSends]
  <2>1. sent \in [Words -> 0 .. MaxSends] /\ sent[UNLOCK] + sent[LOCK] < MaxSends
    BY DEF BleTypeOK, SendWord, Total
  <2>2. \A w \in Words : sent[w] \in Nat
    BY <2>1, BleConstants
  <2>3. word = UNLOCK \/ word = LOCK
    BY DEF Words
  <2>4. UNLOCK \in Words /\ LOCK \in Words
    BY DEF Words
  <2>5. sent[word] + 1 \in 0 .. MaxSends
    BY <2>1, <2>2, <2>3, <2>4, BleConstants
  <2> QED
    BY <1>1, <2>1, <2>5
<1>4. calm' \in BOOLEAN /\ UNCHANGED <<rx, BLE_RX_FLAG, bpc, turning, meanwhile, obeyed>>
  BY DEF SendWord
<1> QED
  BY <1>2, <1>3, <1>4 DEF BleTypeOK, rx

\* The handler takes a byte: in the last place it goes back to the first.
LEMMA ByteKeeps == BleTypeOK /\ USART3_IRQHandler => BleTypeOK'
<1> SUFFICES ASSUME BleTypeOK, USART3_IRQHandler PROVE BleTypeOK'
  OBVIOUS
<1> DEFINE byte == Head(line)
<1>1. /\ line # <<>> /\ line' = Tail(line) /\ Received(byte) /\ BLE_RX_FLAG' = TRUE
      /\ UNCHANGED <<bpc, turning, sent, obeyed, calm>>
  BY DEF USART3_IRQHandler
<1>2. line \in Seq(RxBytes)
  BY DEF BleTypeOK
<1>3. line' \in Seq(RxBytes) /\ byte \in RxBytes
  BY <1>1, <1>2
<1>4. meanwhile' \in 0 .. MaxMeanwhile
  BY BleConstants DEF USART3_IRQHandler, BleTypeOK
<1>5. /\ USART_RX_BUF' \in [0 .. RxSize - 1 -> RxBytes \cup {Nul}] /\ count' \in 0 .. RxSize - 1
      /\ gotCR' \in BOOLEAN /\ deaf' \in BOOLEAN
  <2> HIDE DEF byte
  <2>1. /\ USART_RX_BUF \in [0 .. RxSize - 1 -> RxBytes \cup {Nul}] /\ count \in 0 .. RxSize - 1
        /\ gotCR \in BOOLEAN /\ deaf \in BOOLEAN /\ 0 \in 0 .. RxSize - 1
    BY BleConstants DEF BleTypeOK
  <2>2. CASE RxStored(byte) /\ UNCHANGED <<gotCR, deaf>>
    <3>1. (count + 1) % RxSize \in 0 .. RxSize - 1
      BY <2>1, BleConstants
    <3>2. count' \in 0 .. RxSize - 1
      BY <2>2, <3>1 DEF RxStored
    <3>3. USART_RX_BUF' \in [0 .. RxSize - 1 -> RxBytes \cup {Nul}]
      BY <1>3, <2>1, <2>2 DEF RxStored
    <3> QED
      BY <2>1, <2>2, <3>2, <3>3
  <2>3. CASE deaf /\ UNCHANGED rx
    BY <2>1, <2>3 DEF rx
  <2>4. CASE StaZero /\ UNCHANGED USART_RX_BUF
    BY <2>1, <2>4 DEF StaZero
  <2>5. CASE deaf' = TRUE /\ UNCHANGED <<USART_RX_BUF, count, gotCR>>
    BY <2>1, <2>5
  <2>6. CASE gotCR' = TRUE /\ UNCHANGED <<USART_RX_BUF, count, deaf>>
    BY <2>1, <2>6
  <2> QED
    BY <1>1, <2>2, <2>3, <2>4, <2>5, <2>6 DEF Received
<1> QED
  BY <1>1, <1>3, <1>4, <1>5 DEF BleTypeOK

\* BleUnlockTest takes its next statement.
LEMMA TestKeeps == BleTypeOK /\ BleUnlockTest => BleTypeOK'
<1> SUFFICES ASSUME BleTypeOK, BleUnlockTest PROVE BleTypeOK'
  OBVIOUS
<1>1. /\ 0 \in 0 .. RxSize - 1 /\ 0 \in 0 .. MaxMeanwhile
      /\ Empty \in [0 .. RxSize - 1 -> RxBytes \cup {Nul}]
  BY BleConstants DEF Empty
<1>2. CASE Recognised
  <2>1. bpc' = "turn" /\ turning' \in Words /\ calm' \in BOOLEAN
        /\ UNCHANGED <<line, rx, BLE_RX_FLAG, meanwhile, sent, obeyed>>
    BY <1>2 DEF Recognised
  <2> QED
    BY <2>1 DEF BleTypeOK, rx
<1>3. CASE TIM_SetCompare3
  <2>1. obeyed' = [obeyed EXCEPT ![turning] = obeyed[turning] + 1] /\ bpc' = "clear"
        /\ UNCHANGED <<line, rx, BLE_RX_FLAG, turning, meanwhile, sent, calm>>
    BY <1>3 DEF TIM_SetCompare3
  <2>2. obeyed \in [Words -> Nat]
    BY DEF BleTypeOK
  <2>3. obeyed' \in [Words -> Nat]
    <3>1. \A word \in Words : obeyed'[word] \in Nat
      BY <2>1, <2>2
    <3> QED
      BY <2>1, <2>2, <3>1
  <2> QED
    BY <2>1, <2>3 DEF BleTypeOK, rx
<1>4. CASE memset
  BY <1>1, <1>4 DEF memset, Cleared, BleTypeOK
<1>5. CASE ClearsSta
  BY <1>1, <1>5 DEF ClearsSta, StaAfter, StaZero, BleTypeOK
<1>6. CASE ClearsFlag
  BY <1>1, <1>6 DEF ClearsFlag, BleTypeOK, rx
<1> QED
  BY <1>2, <1>3, <1>4, <1>5, <1>6 DEF BleUnlockTest

\* The inductive invariant of the Bluetooth line.  The line brings CR and LF together, so
\* the length never goes back to zero on a buffer that is not cleared;
LineEnds ==
  /\ \A n \in DOMAIN line : line[n] = CR => n + 1 \in DOMAIN line /\ line[n + 1] = LF
  /\ gotCR /\ ~deaf => line # <<>> /\ line[1] = LF

\* BleUnlockTest knows which word it obeys;
Turning ==
  /\ bpc \in {"turn", "clear", "sta"} => turning \in Words
  /\ bpc = "loop" => meanwhile = 0

\* the telling bytes of a word stand where the word has them, if the buffer has ended
\* in front of or behind them, and no Nul is in front of its end, or anywhere;
Full == \A p \in 0 .. RxSize - 1 : USART_RX_BUF[p] # Nul

Filled(i) ==
  \/ Full
  \/ /\ \A p \in 0 .. count - 1 : USART_RX_BUF[p] # Nul
     /\ \A p \in count .. i : USART_RX_BUF[p] = Nul

\* while a word is obeyed, what comes goes behind those places, in time for the length
\* to be cleared before it goes back to the first place;
Beyond(i) ==
  \/ i < count /\ count <= Len(turning) + meanwhile
  \/ count = 0 /\ meanwhile = MaxMeanwhile

\* and a word that is in the buffer, half of its telling bytes still on the line or both
\* received, or that is recognised, was sent and is not obeyed yet, and so are those whose
\* telling bytes are on the line.
Half(word, i) ==
  /\ count = i /\ USART_RX_BUF[i - 1] = word[i] /\ ~gotCR /\ ~deaf
  /\ line # <<>> /\ line[1] = word[i + 1]
Both(word, i) == USART_RX_BUF[i - 1] = word[i] /\ USART_RX_BUF[i] = word[i + 1]
Pending(word, i) ==
  \/ bpc \in {"loop", "flag"} /\ ~Full /\ (Half(word, i) \/ Both(word, i))
  \/ bpc = "turn" /\ turning = word

Marks(s, word, i) ==
  {n \in 1 .. Len(s) - 1 : s[n] = word[i] /\ s[n + 1] = word[i + 1]}

Counted(word, i) ==
  /\ bpc \in {"loop", "flag"} => Filled(i)
  /\ bpc \in {"turn", "clear", "sta"} => Beyond(i)
  /\ bpc = "sta" => \A p \in 0 .. i : USART_RX_BUF[p] = Nul
  /\ Cardinality(Marks(line, word, i)) + obeyed[word] <= sent[word]
  /\ Pending(word, i) => Cardinality(Marks(line, word, i)) + obeyed[word] < sent[word]

BleIInv ==
  /\ BleTypeOK /\ LineEnds /\ Turning
  /\ \A word \in Words : \A i \in 1 .. Len(word) - 1 : Telling(word, i) => Counted(word, i)

\* The bytes of a word are no line ends and no Nul, and each word fits in the buffer with
\* what comes meanwhile.
LEMMA Letters ==
  ASSUME NEW word \in Words
  PROVE  /\ word \in Seq(RxBytes) /\ Len(word) \in Nat /\ Len(word) + MaxMeanwhile <= RxSize
         /\ Len(word) >= 1 /\ Len(word) < RxSize
         /\ \A n \in 1 .. Len(word) :
              word[n] \in RxBytes /\ word[n] # CR /\ word[n] # LF /\ word[n] # Nul
<1>1. word \in Seq(RxBytes) /\ Len(word) \in Nat
  BY BleConstants
<1>2. Len(word) \in 1 .. RxSize - 1 /\ Len(word) + MaxMeanwhile <= RxSize /\ RxSize \in Nat
  BY BleAssumption
<1>3. CR \notin Range(word) /\ LF \notin Range(word) /\ Nul \notin RxBytes
  BY WordsAssumption, BleAssumption
<1>4. ASSUME NEW n \in 1 .. Len(word)
      PROVE  word[n] \in RxBytes /\ word[n] # CR /\ word[n] # LF /\ word[n] # Nul
  <2>1. word[n] \in RxBytes /\ n \in DOMAIN word
    BY <1>1
  <2>2. word[n] \in Range(word)
    BY <2>1 DEF Range
  <2> QED
    BY <1>3, <2>1, <2>2
<1> QED
  BY <1>1, <1>2, <1>4

\* The counts and the length of what is obeyed are numbers.
LEMMA SentNat ==
  ASSUME BleTypeOK, NEW word \in Words
  PROVE  sent[word] \in Nat /\ obeyed[word] \in Nat
<1>1. sent[word] \in 0 .. MaxSends /\ obeyed[word] \in Nat
  BY DEF BleTypeOK
<1> QED
  BY <1>1, BleConstants

LEMMA TurningLength == BleTypeOK => Len(turning) \in Nat
<1>1. \A word \in Words : Len(word) \in Nat
  BY Letters
<1>2. Len(<<>>) \in Nat
  OBVIOUS
<1> QED
  BY <1>1, <1>2 DEF BleTypeOK

\* What is on the line can be counted.
LEMMA MarksCounted ==
  ASSUME NEW s \in Seq(RxBytes), NEW word, NEW i
  PROVE  IsFiniteSet(Marks(s, word, i)) /\ Cardinality(Marks(s, word, i)) \in Nat
<1>1. Len(s) \in Nat
  OBVIOUS
<1>2. IsFiniteSet(1 .. Len(s) - 1)
  BY <1>1, FS_Interval
<1>3. Marks(s, word, i) \in SUBSET (1 .. Len(s) - 1)
  BY DEF Marks
<1>4. IsFiniteSet(Marks(s, word, i))
  BY <1>2, <1>3, FS_Subset
<1> QED
  BY <1>4, FS_CardinalityType

\* A byte that is taken off the line takes the pair with it that it begins.
LEMMA MarksTaken ==
  ASSUME NEW s \in Seq(RxBytes), s # <<>>, NEW word, NEW i
  PROVE  /\ Cardinality(Marks(Tail(s), word, i)) <= Cardinality(Marks(s, word, i))
         /\ 1 \in Marks(s, word, i) =>
              Cardinality(Marks(Tail(s), word, i)) < Cardinality(Marks(s, word, i))
<1> DEFINE t == Tail(s)
           here == Marks(s, word, i)
           rest == here \ {1}
           left == Marks(t, word, i)
           f == [n \in left |-> n + 1]
<1>1. t \in Seq(RxBytes) /\ Len(s) \in Nat /\ Len(t) = Len(s) - 1 /\ \A n \in 1 .. Len(t) : t[n] = s[n + 1]
  OBVIOUS
<1>2. IsFiniteSet(here) /\ Cardinality(here) \in Nat /\ Cardinality(left) \in Nat
  BY <1>1, MarksCounted
<1>3. \A n \in left : n \in Nat /\ n + 1 \in rest
  BY <1>1 DEF Marks
<1> HIDE DEF t, here, left
<1>4. IsFiniteSet(rest) /\ Cardinality(rest) = (IF 1 \in here THEN Cardinality(here) - 1 ELSE Cardinality(here))
  BY <1>2, FS_RemoveElement
<1> HIDE DEF rest
<1>5. f \in [left -> rest]
  BY <1>3
<1>6. \A n, k \in left : f[n] = f[k] => n = k
  BY <1>3
<1> HIDE DEF f
<1>7. f \in Injection(left, rest)
  BY <1>5, <1>6 DEF Injection, IsInjective
<1>8. Cardinality(left) <= Cardinality(rest)
  BY <1>4, <1>7, FS_Injection
<1> QED
  BY <1>2, <1>4, <1>8 DEF t, here, left

\* The line with a word and its line end behind it.
LEMMA Joined ==
  ASSUME NEW s \in Seq(RxBytes), NEW v \in Seq(RxBytes), NEW end \in Seq(RxBytes),
         NEW t, t = s \o v \o end
  PROVE  /\ t \in Seq(RxBytes) /\ Len(t) = Len(s) + Len(v) + Len(end)
         /\ \A n \in 1 .. Len(s) : t[n] = s[n]
         /\ \A n \in 1 .. Len(v) : t[n + Len(s)] = v[n]
         /\ \A n \in 1 .. Len(end) : t[n + (Len(s) + Len(v))] = end[n]
<1> DEFINE u == s \o v
<1>1. /\ u \in Seq(RxBytes) /\ Len(u) = Len(s) + Len(v) /\ Len(s) \in Nat /\ Len(v) \in Nat
      /\ (\A n \in 1 .. Len(s) : u[n] = s[n]) /\ \A n \in 1 .. Len(v) : u[n + Len(s)] = v[n]
  OBVIOUS
<1>2. t = u \o end
  OBVIOUS
<1> HIDE DEF u
<1>3. u \in Seq(RxBytes) /\ end \in Seq(RxBytes)
  BY <1>1
<1>4. /\ t \in Seq(RxBytes) /\ Len(t) = Len(u) + Len(end) /\ Len(end) \in Nat
      /\ (\A n \in 1 .. Len(u) : t[n] = u[n])
      /\ \A n \in 1 .. Len(end) : t[n + Len(u)] = end[n]
  BY <1>2, <1>3
<1>5. ASSUME NEW n \in 1 .. Len(s) PROVE t[n] = s[n]
  <2>1. n \in 1 .. Len(u)
    BY <1>1
  <2> QED
    BY <1>1, <1>4, <2>1
<1>6. ASSUME NEW n \in 1 .. Len(v) PROVE t[n + Len(s)] = v[n]
  <2>1. n + Len(s) \in 1 .. Len(u)
    BY <1>1
  <2> QED
    BY <1>1, <1>4, <2>1
<1> QED
  BY <1>1, <1>4, <1>5, <1>6

\* A word's line end has none of a word's bytes, and its CR stands before its LF.
LEMMA LineEnd ==
  ASSUME NEW end \in {<<>>, <<CR, LF>>}
  PROVE  /\ end \in Seq(RxBytes) /\ Len(end) \in Nat
         /\ \A n \in 1 .. Len(end) : end[n] \in {CR, LF}
         /\ \A n \in 1 .. Len(end) : end[n] = CR => n + 1 \in 1 .. Len(end) /\ end[n + 1] = LF
<1>1. CR \in RxBytes /\ LF \in RxBytes /\ CR # LF
  BY BleConstants, BleAssumption
<1>2. CASE end = <<>>
  BY <1>2
<1>3. CASE end = <<CR, LF>>
  BY <1>1, <1>3
<1> QED
  BY <1>2, <1>3

\* A word that is sent adds its own pair at most, and none of another word.
LEMMA MarksSent ==
  ASSUME NEW s \in Seq(RxBytes), NEW v \in Words, NEW end \in {<<>>, <<CR, LF>>},
         NEW t, t = s \o v \o end,
         NEW word \in Words, NEW i \in 1 .. Len(word) - 1, Telling(word, i)
  PROVE  Cardinality(Marks(t, word, i)) <=
           Cardinality(Marks(s, word, i)) + (IF v = word THEN 1 ELSE 0)
<1> DEFINE k == Len(s)
           m == Len(v)
           here == Marks(s, word, i)
           more == IF v = word THEN here \cup {k + i} ELSE here
           there == Marks(t, word, i)
<1>1. /\ v \in Seq(RxBytes) /\ end \in Seq(RxBytes) /\ m \in Nat /\ m >= 1 /\ k \in Nat
      /\ Len(end) \in Nat
      /\ i \in Nat /\ i >= 1 /\ i + 1 \in 1 .. Len(word) /\ i \in 1 .. Len(word)
  <2>1. end \in Seq(RxBytes) /\ Len(end) \in Nat
    BY LineEnd
  <2>2. v \in Seq(RxBytes) /\ m \in Nat /\ m >= 1 /\ Len(word) \in Nat
    BY Letters
  <2>3. i \in Nat /\ i >= 1 /\ i + 1 \in 1 .. Len(word) /\ i \in 1 .. Len(word)
    BY <2>2
  <2>4. k \in Nat
    OBVIOUS
  <2> QED
    BY <2>1, <2>2, <2>3, <2>4
<1>2. \A n \in 1 .. Len(end) : end[n] # word[i] /\ end[n] # word[i + 1]
  BY <1>1, Letters, LineEnd
<1>3. /\ t \in Seq(RxBytes) /\ Len(t) = k + m + Len(end)
      /\ (\A n \in 1 .. k : t[n] = s[n]) /\ (\A n \in 1 .. m : t[n + k] = v[n])
      /\ \A n \in 1 .. Len(end) : t[n + (k + m)] = end[n]
  BY <1>1, Joined
<1> HIDE DEF k, m
<1>4. ASSUME NEW n \in 1 .. Len(t) - 1, n + 1 > k + m, t[n + 1] = word[i + 1] PROVE FALSE
  <2> DEFINE p == n + 1 - (k + m)
  <2>1. p \in 1 .. Len(end) /\ p + (k + m) = n + 1
    BY <1>1, <1>3, <1>4
  <2> HIDE DEF p
  <2>2. t[p + (k + m)] = end[p]
    BY <1>3, <2>1
  <2> QED
    BY <1>2, <1>4, <2>1, <2>2
<1>5. ASSUME NEW n \in there PROVE n \in more
  <2>1. /\ n \in 1 .. Len(t) - 1 /\ n \in Nat /\ n >= 1 /\ n + 1 <= k + m
        /\ t[n] = word[i] /\ t[n + 1] = word[i + 1]
    <3>1. n \in 1 .. Len(t) - 1 /\ t[n] = word[i] /\ t[n + 1] = word[i + 1]
      BY <1>5 DEF Marks
    <3>2. n \in Nat /\ n >= 1
      BY <3>1
    <3>3. ~(n + 1 > k + m)
      BY <1>4, <3>1
    <3> QED
      BY <1>1, <3>1, <3>2, <3>3
  <2>2. CASE n + 1 <= k
    <3>1. n \in 1 .. k /\ n + 1 \in 1 .. k /\ n \in 1 .. k - 1
      BY <1>1, <2>1, <2>2
    <3>2. n \in here
      BY <1>3, <2>1, <3>1 DEF Marks, k
    <3> QED
      BY <3>2
  <2>3. CASE n = k
    <3>1. t[1 + k] = v[1] /\ 1 + k = n + 1
      BY <1>1, <1>3, <2>1, <2>3
    <3> QED
      BY <2>1, <3>1 DEF Telling
  <2>4. CASE n > k
    <3> DEFINE p == n - k
    <3>1. p \in 1 .. m /\ p + 1 \in 1 .. m /\ p \in 1 .. m - 1 /\ p + k = n /\ (p + 1) + k = n + 1
      BY <1>1, <2>1, <2>4
    <3> HIDE DEF p
    <3>2. v[p] = word[i] /\ v[p + 1] = word[i + 1]
      BY <1>3, <2>1, <3>1
    <3>3. v = word /\ p = i
      BY <3>1, <3>2 DEF Telling, m
    <3> QED
      BY <1>1, <3>1, <3>3
  <2> QED
    BY <1>1, <2>1, <2>2, <2>3, <2>4
<1>6. IsFiniteSet(here) /\ Cardinality(here) \in Nat /\ Cardinality(there) \in Nat
  BY <1>3, MarksCounted
<1> HIDE DEF here, there
<1>7. IsFiniteSet(more) /\ Cardinality(more) <= Cardinality(here) + (IF v = word THEN 1 ELSE 0)
  <2>1. CASE v # word
    BY <1>6, <2>1
  <2>2. CASE v = word
    <3> DEFINE last == k + i
    <3>1. more = here \cup {last}
      BY <2>2
    <3> HIDE DEF more, last
    <3>2. /\ IsFiniteSet(here \cup {last})
          /\ Cardinality(here \cup {last}) = IF last \in here THEN Cardinality(here) ELSE Cardinality(here) + 1
      BY <1>6, FS_AddElement
    <3>3. IsFiniteSet(here \cup {last}) /\ Cardinality(here \cup {last}) <= Cardinality(here) + 1
      BY <1>6, <3>2
    <3> QED
      BY <2>2, <3>1, <3>3
  <2> QED
    BY <2>1, <2>2
<1> HIDE DEF more
<1>8. Cardinality(there) <= Cardinality(more) /\ Cardinality(more) \in Nat
  <2>1. there \in SUBSET more
    BY <1>5
  <2> QED
    BY <1>7, <2>1, FS_Subset, FS_CardinalityType
<1>9. Cardinality(there) <= Cardinality(here) + (IF v = word THEN 1 ELSE 0)
  BY <1>6, <1>7, <1>8
<1> QED
  BY <1>9 DEF there, here

\* The phone sends a word: it is counted, and it does not complete a pair that is half
\* received.
LEMMA SendCounts == BleIInv /\ SendWord => BleIInv'
<1> SUFFICES ASSUME BleIInv, SendWord PROVE BleIInv'
  OBVIOUS
<1>1. PICK v \in Words, end \in {<<>>, <<CR, LF>>} :
        line' = line \o v \o end /\ sent' = [sent EXCEPT ![v] = sent[v] + 1]
  BY DEF SendWord
<1>2. UNCHANGED <<USART_RX_BUF, count, gotCR, deaf, bpc, turning, meanwhile, obeyed>>
  BY DEF SendWord, rx
<1>3. /\ BleTypeOK /\ BleTypeOK' /\ line \in Seq(RxBytes)
      /\ sent \in [Words -> 0 .. MaxSends] /\ obeyed \in [Words -> Nat]
  BY SendKeeps DEF BleIInv, BleTypeOK
<1> DEFINE k == Len(line)
           m == Len(v)
           t == line \o v \o end
<1>4. v \in Seq(RxBytes) /\ end \in Seq(RxBytes) /\ k \in Nat /\ m \in Nat /\ m >= 1 /\ Len(end) \in Nat
  <2>1. end \in Seq(RxBytes) /\ Len(end) \in Nat
    BY LineEnd
  <2>2. v \in Seq(RxBytes) /\ m \in Nat /\ m >= 1
    BY Letters
  <2> QED
    BY <1>3, <2>1, <2>2
<1>5. /\ t \in Seq(RxBytes) /\ Len(t) = k + m + Len(end) /\ DOMAIN t = 1 .. Len(t)
      /\ (\A n \in 1 .. k : t[n] = line[n]) /\ (\A n \in 1 .. m : t[n + k] = v[n])
      /\ \A n \in 1 .. Len(end) : t[n + (k + m)] = end[n]
  BY <1>3, <1>4, Joined
<1>6. (line = <<>> => k = 0) /\ (line # <<>> => k >= 1) /\ DOMAIN line = 1 .. k
  BY <1>3
<1>7. line' = t
  BY <1>1
<1> HIDE DEF k, m, t
<1>8. line' # <<>> /\ (line # <<>> => line'[1] = line[1]) /\ (line = <<>> => line'[1] = v[1])
  <2>1. t # <<>>
    BY <1>4, <1>5
  <2>2. line # <<>> => t[1] = line[1]
    BY <1>4, <1>5, <1>6
  <2>3. line = <<>> => t[1 + 0] = v[1]
    BY <1>4, <1>5, <1>6
  <2> QED
    BY <1>7, <2>1, <2>2, <2>3
<1>9. LineEnds'
  <2>1. ASSUME NEW n \in DOMAIN t, t[n] = CR PROVE n + 1 \in DOMAIN t /\ t[n + 1] = LF
    <3>1. n \in Nat /\ n >= 1 /\ n <= k + m + Len(end)
      BY <1>4, <1>5
    <3>2. CASE n <= k
      <4>1. n \in 1 .. k /\ line[n] = CR
        BY <1>4, <1>5, <2>1, <3>1, <3>2
      <4>2. n + 1 \in 1 .. k /\ line[n + 1] = LF
        BY <1>6, <4>1 DEF BleIInv, LineEnds
      <4> QED
        BY <1>4, <1>5, <4>2
    <3>3. CASE n > k /\ n <= k + m
      <4> DEFINE p == n - k
      <4>1. p \in 1 .. m /\ p + k = n
        BY <1>4, <3>1, <3>3
      <4> HIDE DEF p
      <4>2. v[p] = CR
        BY <1>5, <2>1, <4>1
      <4> QED
        BY <4>1, <4>2, Letters DEF m
    <3>4. CASE n > k + m
      <4> DEFINE p == n - (k + m)
                 l == Len(end)
      <4>1. p \in 1 .. Len(end) /\ p + (k + m) = n /\ (p + 1) + (k + m) = n + 1
        <5>1. l \in Nat /\ n \in Nat /\ n <= k + m + l /\ k \in Nat /\ m \in Nat /\ n > k + m
          BY <1>4, <3>1, <3>4
        <5> HIDE DEF l
        <5>2. p \in 1 .. l /\ p + (k + m) = n /\ (p + 1) + (k + m) = n + 1
          BY <5>1
        <5> QED
          BY <5>2 DEF l
      <4> HIDE DEF p
      <4>2. end[p] = CR
        BY <1>5, <2>1, <4>1
      <4>3. p + 1 \in 1 .. Len(end) /\ end[p + 1] = LF
        BY <4>1, <4>2, LineEnd
      <4>4. t[(p + 1) + (k + m)] = LF
        BY <1>5, <4>3
      <4>5. n + 1 \in 1 .. Len(t)
        BY <1>4, <1>5, <3>1, <4>1, <4>3
      <4> QED
        BY <1>5, <4>1, <4>4, <4>5
    <3> QED
      BY <1>4, <3>1, <3>2, <3>3, <3>4
  <2>2. gotCR' /\ ~deaf' => line' # <<>> /\ line'[1] = LF
    BY <1>2, <1>8 DEF BleIInv, LineEnds
  <2> QED
    BY <1>7, <2>1, <2>2 DEF LineEnds
<1>10. Turning'
  BY <1>2 DEF BleIInv, Turning
<1>11. ASSUME NEW word \in Words, NEW i \in 1 .. Len(word) - 1, Telling(word, i)
       PROVE  Counted(word, i)'
  <2> DEFINE was == Cardinality(Marks(line, word, i))
             is == Cardinality(Marks(line', word, i))
  <2>1. Counted(word, i)
    BY <1>11 DEF BleIInv
  <2>2. is <= was + (IF v = word THEN 1 ELSE 0)
    <3>1. Cardinality(Marks(t, word, i)) <= was + (IF v = word THEN 1 ELSE 0)
      BY <1>3, <1>11, MarksSent DEF t
    <3> QED
      BY <1>7, <3>1
  <2>3. was \in Nat /\ is \in Nat
    BY <1>3, <1>5, <1>7, MarksCounted
  <2>4. sent'[word] = sent[word] + (IF v = word THEN 1 ELSE 0) /\ sent[word] \in Nat /\ obeyed[word] \in Nat
        /\ obeyed'[word] = obeyed[word]
    <3>1. sent[word] \in 0 .. MaxSends
      BY <1>3
    <3>2. sent[word] \in Nat
      BY <3>1, BleConstants
    <3>3. sent'[word] = sent[word] + (IF v = word THEN 1 ELSE 0)
      BY <1>1, <1>3
    <3> QED
      BY <1>2, <1>3, <3>2, <3>3
  <2>5. Pending(word, i)' => Pending(word, i)
    <3>1. Half(word, i)' => Half(word, i)
      <4>1. v[1] # word[i + 1]
        BY <1>11 DEF Telling
      <4> QED
        BY <1>2, <1>8, <4>1 DEF Half
    <3>2. Both(word, i)' => Both(word, i)
      BY <1>2 DEF Both
    <3> QED
      BY <1>2, <3>1, <3>2 DEF Pending, Full
  <2>6. was + obeyed[word] <= sent[word] /\ (Pending(word, i) => was + obeyed[word] < sent[word])
    BY <2>1 DEF Counted
  <2> HIDE DEF was, is
  <2>7. is + obeyed'[word] <= sent'[word] /\ (Pending(word, i)' => is + obeyed'[word] < sent'[word])
    BY <2>2, <2>3, <2>4, <2>5, <2>6
  <2> QED
    BY <1>2, <2>1, <2>7 DEF Counted, Filled, Full, Beyond, is
<1> QED
  BY <1>3, <1>9, <1>10, <1>11 DEF BleIInv

\* A byte that is stored: the others stay, and behind the last place the length is zero.
LEMMA ByteStored ==
  ASSUME BleTypeOK, NEW byte \in RxBytes, RxStored(byte)
  PROVE  /\ USART_RX_BUF'[count] = byte /\ byte # Nul /\ count \in 0 .. RxSize - 1
         /\ \A p \in 0 .. RxSize - 1 : p # count => USART_RX_BUF'[p] = USART_RX_BUF[p]
         /\ count + 1 < RxSize => count' = count + 1
         /\ count + 1 >= RxSize => count' = 0 /\ count = RxSize - 1
<1>1. USART_RX_BUF \in [0 .. RxSize - 1 -> RxBytes \cup {Nul}] /\ count \in 0 .. RxSize - 1 /\ byte # Nul
  BY BleAssumption DEF BleTypeOK
<1>2. count' = (count + 1) % RxSize /\ USART_RX_BUF' = [USART_RX_BUF EXCEPT ![count] = byte]
  BY DEF RxStored
<1>3. CASE count + 1 < RxSize
  BY <1>1, <1>2, <1>3, BleConstants
<1>4. CASE count + 1 >= RxSize
  <2>1. count = RxSize - 1 /\ count + 1 = RxSize
    BY <1>1, <1>4, BleConstants
  <2>2. RxSize % RxSize = 0
    BY BleConstants
  <2> QED
    BY <1>1, <1>2, <2>1, <2>2, BleConstants
<1> QED
  BY <1>1, <1>3, <1>4, BleConstants

\* A byte that is taken leaves the line ends whole.
LEMMA ByteLineEnds ==
  ASSUME BleTypeOK, LineEnds, USART3_IRQHandler
  PROVE  LineEnds' /\ ~(~deaf /\ gotCR /\ Head(line) # LF)
<1>1. line # <<>> /\ line' = Tail(line) /\ Received(Head(line)) /\ Head(line) = line[1]
  BY DEF USART3_IRQHandler, BleTypeOK
<1>2. /\ line \in Seq(RxBytes) /\ Len(line) \in Nat /\ Len(line') = Len(line) - 1
      /\ DOMAIN line = 1 .. Len(line) /\ DOMAIN line' = 1 .. Len(line')
      /\ (\A n \in 1 .. Len(line') : line'[n] = line[n + 1])
  BY <1>1 DEF BleTypeOK
<1>3. ~(~deaf /\ gotCR /\ line[1] # LF)
  BY DEF LineEnds
<1>4. ASSUME NEW n \in DOMAIN line', line'[n] = CR PROVE n + 1 \in DOMAIN line' /\ line'[n + 1] = LF
  <2>1. n + 1 \in DOMAIN line /\ line[n + 1] = CR
    BY <1>2, <1>4
  <2>2. (n + 1) + 1 \in DOMAIN line /\ line[(n + 1) + 1] = LF
    BY <2>1 DEF LineEnds
  <2>3. n + 1 \in 1 .. Len(line')
    BY <1>2, <1>4, <2>2
  <2> QED
    BY <1>2, <2>2, <2>3
<1>5. ASSUME gotCR' /\ ~deaf' PROVE line' # <<>> /\ line'[1] = LF
  <2>1. ~deaf /\ ~gotCR /\ line[1] = CR
    <3>1. CASE deaf /\ UNCHANGED rx
      BY <1>5, <3>1 DEF rx
    <3>2. CASE ~deaf /\ gotCR /\ Head(line) # LF
      BY <1>1, <1>3, <3>2
    <3>3. CASE deaf' = TRUE
      BY <1>5, <3>3
    <3>4. CASE ~deaf /\ ~gotCR /\ Head(line) = CR
      BY <1>1, <3>4
    <3>5. CASE ~gotCR /\ UNCHANGED gotCR
      BY <1>5, <3>5
    <3> QED
      BY <1>1, <3>1, <3>2, <3>3, <3>4, <3>5 DEF Received
  <2>2. 1 \in DOMAIN line
    BY <1>1, <1>2
  <2>3. 1 + 1 \in DOMAIN line /\ line[1 + 1] = LF
    BY <2>1, <2>2 DEF LineEnds
  <2>4. 1 \in 1 .. Len(line')
    BY <1>2, <2>3
  <2> QED
    BY <1>2, <2>3, <2>4
<1> QED
  BY <1>1, <1>3, <1>4, <1>5 DEF LineEnds

\* A byte that is not stored completes no pair.
LEMMA StillCounts ==
  ASSUME BleTypeOK, USART3_IRQHandler, UNCHANGED <<USART_RX_BUF, count>>, deaf' \/ gotCR',
         NEW word \in Words, NEW i \in 1 .. Len(word) - 1, Counted(word, i)
  PROVE  Counted(word, i)'
<1> DEFINE was == Cardinality(Marks(line, word, i))
           is == Cardinality(Marks(line', word, i))
<1>1. /\ line # <<>> /\ line' = Tail(line) /\ line \in Seq(RxBytes) /\ line' \in Seq(RxBytes)
      /\ UNCHANGED <<bpc, turning, sent, obeyed>>
  BY DEF USART3_IRQHandler, BleTypeOK
<1>2. is <= was /\ is \in Nat /\ was \in Nat
  BY <1>1, MarksTaken, MarksCounted
<1>3. was + obeyed[word] <= sent[word] /\ (Pending(word, i) => was + obeyed[word] < sent[word])
  BY DEF Counted
<1>4. Pending(word, i)' => Pending(word, i)
  <2>1. ~Half(word, i)'
    BY DEF Half
  <2>2. Both(word, i)' => Both(word, i)
    BY DEF Both
  <2> QED
    BY <1>1, <2>1, <2>2 DEF Pending, Full
<1>5. obeyed[word] \in Nat /\ sent[word] \in Nat
  BY SentNat
<1>6. bpc \in {"turn", "clear", "sta"} => Beyond(i)'
  <2>1. ASSUME bpc \in {"turn", "clear", "sta"} PROVE Beyond(i)'
    <3>1. meanwhile < MaxMeanwhile /\ meanwhile' = meanwhile + 1 /\ meanwhile \in Nat /\ MaxMeanwhile \in Nat
      BY <2>1, BleConstants DEF USART3_IRQHandler, BleTypeOK
    <3>2. i < count /\ count <= Len(turning) + meanwhile
      BY <2>1, <3>1 DEF Counted, Beyond
    <3>3. Len(turning) \in Nat /\ count \in Nat
      BY TurningLength, BleConstants DEF BleTypeOK
    <3> QED
      BY <1>1, <3>1, <3>2, <3>3 DEF Beyond
  <2> QED
    BY <2>1
<1> HIDE DEF was, is
<1>7. is + obeyed[word] <= sent[word] /\ (Pending(word, i)' => is + obeyed[word] < sent[word])
  BY <1>2, <1>3, <1>4, <1>5
<1> QED
  BY <1>1, <1>6, <1>7 DEF Counted, Filled, Full, is

\* A byte that is stored completes a pair only with a byte of the line in front of it, and
\* goes behind the pair while a word is obeyed.
LEMMA StoredCounts ==
  ASSUME BleTypeOK, Turning, USART3_IRQHandler, RxStored(line[1]),
         ~deaf, ~gotCR, UNCHANGED <<gotCR, deaf>>,
         NEW word \in Words, NEW i \in 1 .. Len(word) - 1, Telling(word, i), Counted(word, i)
  PROVE  Counted(word, i)'
<1> DEFINE here == Marks(line, word, i)
           was == Cardinality(here)
           is == Cardinality(Marks(line', word, i))
           byte == line[1]
           next == USART_RX_BUF'
<1>1. /\ line # <<>> /\ line' = Tail(line) /\ line \in Seq(RxBytes) /\ line' \in Seq(RxBytes)
      /\ byte \in RxBytes /\ Len(line) \in Nat /\ Len(line') = Len(line) - 1
      /\ (\A n \in 1 .. Len(line') : line'[n] = line[n + 1])
  BY DEF USART3_IRQHandler, BleTypeOK
<1>2. UNCHANGED <<bpc, turning, sent, obeyed>>
  BY DEF USART3_IRQHandler
<1>3. /\ is <= was /\ (1 \in here => is < was) /\ is \in Nat /\ was \in Nat
      /\ obeyed[word] \in Nat /\ sent[word] \in Nat
  BY <1>1, MarksTaken, MarksCounted, SentNat
<1>4. was + obeyed[word] <= sent[word] /\ (Pending(word, i) => was + obeyed[word] < sent[word])
  BY DEF Counted
<1>5. /\ next[count] = byte /\ byte # Nul /\ count \in 0 .. RxSize - 1
      /\ (\A p \in 0 .. RxSize - 1 : p # count => next[p] = USART_RX_BUF[p])
      /\ (count + 1 < RxSize => count' = count + 1)
      /\ (count + 1 >= RxSize => count' = 0 /\ count = RxSize - 1)
  BY <1>1, ByteStored
<1>6. /\ i \in Nat /\ i >= 1 /\ i \in 1 .. Len(word) /\ i + 1 \in 1 .. Len(word) /\ i < RxSize
      /\ i \in 0 .. RxSize - 1 /\ i - 1 \in 0 .. RxSize - 1 /\ RxSize \in Nat
      /\ word[i] # Nul /\ word[i + 1] # Nul /\ count \in Nat
  <2>1. Len(word) \in Nat /\ Len(word) < RxSize /\ RxSize \in Nat
    BY Letters, BleConstants
  <2>2. i \in 1 .. Len(word) /\ i + 1 \in 1 .. Len(word) /\ i \in Nat /\ i >= 1
    BY <2>1
  <2> QED
    BY <1>5, <2>1, <2>2, Letters
<1> HIDE DEF byte, next, was, is, here
<1>7. Full => Full'
  BY <1>5, <1>6 DEF Full, next
<1>8. ASSUME Filled(i), ~Full' PROVE /\ count' = count + 1 /\ ~Full /\ Filled(i)'
                                     /\ \A p \in count .. i : USART_RX_BUF[p] = Nul
  <2>1. /\ \A p \in 0 .. count - 1 : USART_RX_BUF[p] # Nul
        /\ \A p \in count .. i : USART_RX_BUF[p] = Nul
    BY <1>7, <1>8 DEF Filled
  <2>2. \A p \in 0 .. count : next[p] # Nul
    <3>1. ASSUME NEW p \in 0 .. count, p # count PROVE next[p] # Nul
      <4>1. p \in 0 .. count - 1 /\ p \in 0 .. RxSize - 1
        BY <1>5, <1>6, <3>1
      <4> QED
        BY <1>5, <2>1, <3>1, <4>1
    <3> QED
      BY <1>5, <3>1
  <2>3. count' = count + 1
    <3>1. SUFFICES ASSUME count = RxSize - 1 PROVE FALSE
      BY <1>5, <1>6
    <3> QED
      BY <1>8, <2>2, <3>1 DEF Full, next
  <2>4. \A p \in count + 1 .. i : next[p] = Nul
    <3>1. ASSUME NEW p \in count + 1 .. i PROVE next[p] = Nul
      <4>1. p \in count .. i /\ p # count /\ p \in 0 .. RxSize - 1
        BY <1>6
      <4> QED
        BY <1>5, <2>1, <4>1
    <3> QED
      BY <3>1
  <2>5. (count + 1) - 1 = count
    BY <1>6
  <2>6. Filled(i)'
    BY <2>2, <2>3, <2>4, <2>5 DEF Filled, next
  <2> QED
    BY <1>7, <1>8, <2>1, <2>3, <2>6
<1>9. Filled(i) => Filled(i)'
  BY <1>8 DEF Filled
<1>10. ASSUME bpc \in {"turn", "clear", "sta"}
       PROVE  i < count /\ Beyond(i)'
  <2>1. /\ meanwhile < MaxMeanwhile /\ meanwhile' = meanwhile + 1 /\ meanwhile \in Nat
        /\ MaxMeanwhile \in Nat
    BY <1>10, BleConstants DEF USART3_IRQHandler, BleTypeOK
  <2>2. i < count /\ count <= Len(turning) + meanwhile
    BY <1>10, <2>1 DEF Counted, Beyond
  <2>3. Len(turning) \in Nat /\ Len(turning) + MaxMeanwhile <= RxSize
    BY <1>10, Letters DEF Turning
  <2>4. CASE count + 1 < RxSize
    BY <1>2, <1>5, <1>6, <2>1, <2>2, <2>3, <2>4 DEF Beyond
  <2>5. CASE count + 1 >= RxSize
    <3>1. count' = 0 /\ meanwhile' = MaxMeanwhile
      BY <1>5, <1>6, <2>1, <2>2, <2>3, <2>5
    <3> QED
      BY <2>2, <3>1 DEF Beyond
  <2> QED
    BY <1>6, <2>4, <2>5
<1>11. bpc = "sta" => \A p \in 0 .. i : next[p] = Nul
  <2>1. ASSUME bpc = "sta", NEW p \in 0 .. i PROVE next[p] = Nul
    <3>1. p # count /\ p \in 0 .. RxSize - 1
      BY <1>6, <1>10, <2>1
    <3>2. USART_RX_BUF[p] = Nul
      BY <2>1 DEF Counted
    <3> QED
      BY <1>5, <3>1, <3>2
  <2> QED
    BY <2>1
<1>12. ASSUME Pending(word, i)' PROVE Pending(word, i) \/ 1 \in here
  <2>1. CASE bpc = "turn"
    BY <1>2, <1>12, <2>1 DEF Pending
  <2>2. CASE bpc \in {"loop", "flag"}
    <3>1. ~Full' /\ Filled(i)
      BY <1>2, <1>12, <2>2 DEF Pending, Counted
    <3>2. count' = count + 1 /\ ~Full /\ \A p \in count .. i : USART_RX_BUF[p] = Nul
      BY <1>8, <3>1
    <3>3. CASE Half(word, i)'
      <4>1. count = i - 1 /\ next[i - 1] = word[i] /\ line' # <<>> /\ line'[1] = word[i + 1]
        BY <1>6, <3>2, <3>3 DEF Half, next
      <4>2. line[1] = word[i]
        BY <1>5, <4>1 DEF byte
      <4>3. 1 \in 1 .. Len(line') /\ 1 \in 1 .. Len(line) - 1 /\ line'[1] = line[1 + 1]
        BY <1>1, <4>1
      <4> QED
        BY <4>1, <4>2, <4>3 DEF Marks, here
    <3>4. CASE Both(word, i)'
      <4>1. next[i - 1] = word[i] /\ next[i] = word[i + 1]
        BY <3>4 DEF Both, next
      <4>2. CASE count = i
        <5>1. USART_RX_BUF[i - 1] = word[i] /\ line[1] = word[i + 1]
          BY <1>5, <1>6, <4>1, <4>2 DEF byte
        <5>2. Half(word, i)
          BY <1>1, <4>2, <5>1 DEF Half
        <5> QED
          BY <2>2, <3>2, <5>2 DEF Pending
      <4>3. CASE count < i
        <5>1. i # count /\ i \in count .. i
          BY <1>6, <4>3
        <5>2. next[i] = Nul
          BY <1>5, <1>6, <3>2, <5>1
        <5> QED
          BY <1>6, <4>1, <5>2
      <4>4. CASE count > i
        <5>1. i # count /\ i - 1 # count
          BY <1>6, <4>4
        <5>2. Both(word, i)
          BY <1>5, <1>6, <4>1, <5>1 DEF Both
        <5> QED
          BY <2>2, <3>2, <5>2 DEF Pending
      <4> QED
        BY <1>6, <4>2, <4>3, <4>4
    <3> QED
      BY <1>2, <1>12, <2>2, <3>3, <3>4 DEF Pending
  <2> QED
    BY <1>2, <1>12, <2>1, <2>2 DEF Pending
<1>13. is + obeyed[word] <= sent[word] /\ (Pending(word, i)' => is + obeyed[word] < sent[word])
  BY <1>3, <1>4, <1>12
<1> QED
  BY <1>2, <1>9, <1>10, <1>11, <1>13 DEF Counted, is, next

\* The handler takes a byte.
LEMMA ByteCounts == BleIInv /\ USART3_IRQHandler => BleIInv'
<1> SUFFICES ASSUME BleIInv, USART3_IRQHandler PROVE BleIInv'
  OBVIOUS
<1>1. BleTypeOK /\ BleTypeOK' /\ LineEnds /\ LineEnds' /\ ~(~deaf /\ gotCR /\ Head(line) # LF) /\ Turning
  BY ByteKeeps, ByteLineEnds DEF BleIInv
<1>2. Received(Head(line)) /\ Head(line) = line[1] /\ UNCHANGED <<bpc, turning>>
      /\ (bpc = "loop" => meanwhile' = 0)
  BY DEF USART3_IRQHandler, BleTypeOK
<1>3. Turning'
  BY <1>1, <1>2 DEF Turning
<1>4. ASSUME NEW word \in Words, NEW i \in 1 .. Len(word) - 1, Telling(word, i)
      PROVE  Counted(word, i)'
  <2>1. Counted(word, i)
    BY <1>4 DEF BleIInv
  <2>2. CASE deaf /\ UNCHANGED rx
    <3>1. deaf' \/ gotCR'
      BY <2>2 DEF rx
    <3>2. UNCHANGED <<USART_RX_BUF, count>>
      BY <2>2 DEF rx
    <3> QED
      BY <1>1, <2>1, <3>1, <3>2, StillCounts
  <2>3. CASE deaf' = TRUE /\ UNCHANGED <<USART_RX_BUF, count, gotCR>>
    <3>1. UNCHANGED <<USART_RX_BUF, count>> /\ (deaf' \/ gotCR')
      BY <2>3
    <3> QED
      BY <1>1, <2>1, <3>1, StillCounts
  <2>4. CASE gotCR' = TRUE /\ UNCHANGED <<USART_RX_BUF, count, deaf>>
    <3>1. UNCHANGED <<USART_RX_BUF, count>> /\ (deaf' \/ gotCR')
      BY <2>4
    <3> QED
      BY <1>1, <2>1, <3>1, StillCounts
  <2>5. CASE ~deaf /\ ~gotCR /\ RxStored(line[1]) /\ UNCHANGED <<gotCR, deaf>>
    BY <1>1, <1>4, <2>1, <2>5, StoredCounts
  <2> QED
    BY <1>1, <1>2, <2>2, <2>3, <2>4, <2>5 DEF Received
<1> QED
  BY <1>1, <1>3, <1>4 DEF BleIInv

\* A word is recognised in a buffer that ends behind it: its telling bytes are both there,
\* and the length is beyond them.
LEMMA RecognisedCounts == BleIInv /\ Recognised => BleIInv'
<1> SUFFICES ASSUME BleIInv, Recognised PROVE BleIInv'
  OBVIOUS
<1>1. BleTypeOK /\ BleTypeOK' /\ LineEnds /\ Turning
  BY TestKeeps DEF BleIInv, BleUnlockTest
<1>2. /\ bpc = "loop" /\ bpc' = "turn" /\ turning' \in Words /\ Compares(turning')
      /\ UNCHANGED <<line, USART_RX_BUF, count, gotCR, deaf, meanwhile, sent, obeyed>>
  BY DEF Recognised, rx
<1>3. LineEnds' /\ Turning'
  BY <1>1, <1>2 DEF LineEnds, Turning
<1> DEFINE v == turning'
           size == Len(v)
<1>4. /\ size \in Nat /\ size < RxSize /\ size >= 1 /\ RxSize \in Nat /\ count \in Nat /\ meanwhile = 0
      /\ \A n \in 1 .. size : v[n] # Nul
  BY <1>1, <1>2, Letters, BleConstants DEF Turning, BleTypeOK
<1>5. USART_RX_BUF[size] = Nul /\ \A n \in 1 .. size : USART_RX_BUF[n - 1] = v[n]
  BY <1>2 DEF Compares
<1> HIDE DEF v, size
<1>6. ~Full
  BY <1>4, <1>5 DEF Full
<1>7. ASSUME NEW word \in Words, NEW i \in 1 .. Len(word) - 1, Telling(word, i)
      PROVE  Counted(word, i)'
  <2>1. Counted(word, i) /\ i \in Nat /\ i >= 1 /\ i + 1 <= size
    BY <1>2, <1>4, <1>7 DEF BleIInv, Telling, v, size
  <2>2. /\ \A p \in 0 .. count - 1 : USART_RX_BUF[p] # Nul
        /\ \A p \in count .. i : USART_RX_BUF[p] = Nul
    BY <1>2, <1>6, <2>1 DEF Counted, Filled
  <2>3. i < count
    <3>1. SUFFICES ASSUME count <= i PROVE FALSE
      BY <1>4, <2>1
    <3>2. USART_RX_BUF[count] = Nul
      BY <1>4, <2>1, <2>2, <3>1
    <3>3. count + 1 \in 1 .. size /\ (count + 1) - 1 = count
      BY <1>4, <2>1, <3>1
    <3>4. USART_RX_BUF[count] = v[count + 1]
      BY <1>5, <3>3
    <3> QED
      BY <1>4, <3>2, <3>3, <3>4
  <2>4. count <= size
    <3>1. SUFFICES ASSUME count > size PROVE FALSE
      BY <1>4
    <3>2. size \in 0 .. count - 1
      BY <1>4, <3>1
    <3> QED
      BY <1>5, <2>2, <3>2
  <2>5. Beyond(i)'
    BY <1>2, <1>4, <2>1, <2>3, <2>4 DEF Beyond, size, v
  <2>6. turning' = word => Pending(word, i)
    <3>1. SUFFICES ASSUME v = word PROVE Pending(word, i)
      BY DEF v
    <3>2. i \in 1 .. size /\ i + 1 \in 1 .. size /\ (i + 1) - 1 = i
      BY <1>4, <2>1
    <3>3. USART_RX_BUF[i - 1] = word[i] /\ USART_RX_BUF[i] = word[i + 1]
      BY <1>5, <3>1, <3>2
    <3> QED
      BY <1>2, <1>6, <3>3 DEF Pending, Both
  <2>7. Pending(word, i)' => Pending(word, i)
    BY <1>2, <2>6 DEF Pending
  <2> QED
    BY <1>2, <2>1, <2>5, <2>7 DEF Counted
<1> QED
  BY <1>1, <1>3, <1>7 DEF BleIInv

\* The word is obeyed: it was sent, and its count is still one short.
LEMMA ObeyCounts == BleIInv /\ TIM_SetCompare3 => BleIInv'
<1> SUFFICES ASSUME BleIInv, TIM_SetCompare3 PROVE BleIInv'
  OBVIOUS
<1>1. BleTypeOK /\ BleTypeOK' /\ LineEnds /\ Turning
  BY TestKeeps DEF BleIInv, BleUnlockTest
<1>2. /\ bpc = "turn" /\ bpc' = "clear" /\ obeyed' = [obeyed EXCEPT ![turning] = obeyed[turning] + 1]
      /\ UNCHANGED <<line, USART_RX_BUF, count, gotCR, deaf, turning, meanwhile, sent>>
  BY DEF TIM_SetCompare3, rx
<1>3. LineEnds' /\ Turning'
  BY <1>1, <1>2 DEF LineEnds, Turning
<1>4. ASSUME NEW word \in Words, NEW i \in 1 .. Len(word) - 1, Telling(word, i)
      PROVE  Counted(word, i)'
  <2> DEFINE was == Cardinality(Marks(line, word, i))
  <2>1. Counted(word, i)
    BY <1>4 DEF BleIInv
  <2>2. was \in Nat /\ obeyed[word] \in Nat /\ sent[word] \in Nat
    BY <1>1, SentNat, MarksCounted DEF BleTypeOK
  <2>3. was + obeyed[word] <= sent[word] /\ (turning = word => was + obeyed[word] < sent[word])
    BY <1>2, <2>1 DEF Counted, Pending
  <2>4. obeyed'[word] = (IF turning = word THEN obeyed[word] + 1 ELSE obeyed[word])
    BY <1>1, <1>2 DEF BleTypeOK
  <2> HIDE DEF was
  <2>5. was + obeyed'[word] <= sent[word]
    BY <2>2, <2>3, <2>4
  <2>6. ~Pending(word, i)'
    BY <1>2 DEF Pending
  <2> QED
    BY <1>2, <2>1, <2>5, <2>6 DEF Counted, Beyond, was
<1> QED
  BY <1>1, <1>3, <1>4 DEF BleIInv

\* The buffer is cleared, then the length, then the flag.
LEMMA ClearCounts == BleIInv /\ (memset \/ ClearsSta \/ ClearsFlag) => BleIInv'
<1> SUFFICES ASSUME BleIInv, memset \/ ClearsSta \/ ClearsFlag PROVE BleIInv'
  OBVIOUS
<1>1. BleTypeOK /\ BleTypeOK' /\ LineEnds /\ Turning
  BY TestKeeps DEF BleIInv, BleUnlockTest
<1>2. UNCHANGED <<line, sent, obeyed>>
  BY DEF memset, ClearsSta, ClearsFlag
<1>3. LineEnds' /\ Turning'
  <2>1. CASE memset
    BY <1>1, <1>2, <2>1 DEF memset, LineEnds, Turning
  <2>2. CASE ClearsSta
    BY <1>1, <1>2, <2>2 DEF ClearsSta, StaAfter, StaZero, LineEnds, Turning
  <2>3. CASE ClearsFlag
    BY <1>1, <1>2, <2>3 DEF ClearsFlag, rx, LineEnds, Turning
  <2> QED
    BY <2>1, <2>2, <2>3
<1>4. ASSUME NEW word \in Words, NEW i \in 1 .. Len(word) - 1, Telling(word, i)
      PROVE  Counted(word, i)'
  <2>1. Counted(word, i)
    BY <1>4 DEF BleIInv
  <2>2. i \in 1 .. Len(word) /\ i \in Nat /\ i >= 1 /\ i < RxSize /\ RxSize \in Nat /\ word[i + 1] # Nul
    <3>1. Len(word) \in Nat /\ Len(word) < RxSize /\ RxSize \in Nat
      BY Letters, BleConstants
    <3>2. i \in 1 .. Len(word) /\ i + 1 \in 1 .. Len(word)
      BY <3>1
    <3> QED
      BY <3>1, <3>2, Letters
  <2>3. CASE memset
    <3>1. /\ bpc = "clear" /\ bpc' = "sta" /\ USART_RX_BUF' = Empty
          /\ UNCHANGED <<count, turning, meanwhile>>
      BY <2>3 DEF memset, Cleared
    <3>2. \A p \in 0 .. i : USART_RX_BUF'[p] = Nul
      BY <2>2, <3>1 DEF Empty
    <3> QED
      BY <1>2, <2>1, <3>1, <3>2 DEF Counted, Pending, Beyond
  <2>4. CASE ClearsSta
    <3>1. /\ bpc = "sta" /\ bpc' = "flag" /\ count' = 0
          /\ UNCHANGED <<USART_RX_BUF, turning, meanwhile>>
      BY <2>4 DEF ClearsSta, StaAfter, StaZero
    <3>2. \A p \in 0 .. i : USART_RX_BUF'[p] = Nul
      BY <2>1, <3>1 DEF Counted
    <3>3. Filled(i)'
      BY <3>1, <3>2 DEF Filled
    <3>4. ~Half(word, i)' /\ ~Both(word, i)'
      BY <2>2, <3>1, <3>2 DEF Half, Both
    <3> QED
      BY <1>2, <2>1, <3>1, <3>3, <3>4 DEF Counted, Pending
  <2>5. CASE ClearsFlag
    <3>1. bpc = "flag" /\ bpc' = "loop" /\ UNCHANGED <<USART_RX_BUF, count, gotCR, deaf>>
      BY <2>5 DEF ClearsFlag, rx
    <3> QED
      BY <1>2, <2>1, <3>1 DEF Counted, Pending, Filled, Full, Half, Both
  <2> QED
    BY <2>3, <2>4, <2>5
<1> QED
  BY <1>1, <1>3, <1>4 DEF BleIInv

\* Nothing is on the line, and the buffer is empty.
LEMMA BleInitCounts == BleInit => BleIInv
<1> SUFFICES ASSUME BleInit PROVE BleIInv
  OBVIOUS
<1>1. BleTypeOK /\ LineEnds /\ Turning
  BY BleInitKeeps DEF BleInit, LineEnds, Turning
<1>2. ASSUME NEW word \in Words, NEW i \in 1 .. Len(word) - 1 PROVE Counted(word, i)
  <2>1. i \in 1 .. Len(word) /\ i \in Nat /\ i >= 1 /\ i < RxSize /\ RxSize \in Nat /\ word[i + 1] # Nul
    <3>1. Len(word) \in Nat /\ Len(word) < RxSize /\ RxSize \in Nat
      BY Letters, BleConstants
    <3>2. i \in 1 .. Len(word) /\ i + 1 \in 1 .. Len(word)
      BY <3>1
    <3> QED
      BY <3>1, <3>2, Letters
  <2>2. count = 0 /\ bpc = "loop" /\ line = <<>> /\ \A p \in 0 .. i : USART_RX_BUF[p] = Nul
    BY <2>1 DEF BleInit, Empty
  <2>3. Filled(i) /\ ~Pending(word, i)
    BY <2>1, <2>2 DEF Filled, Pending, Half, Both
  <2>4. Marks(line, word, i) = {} /\ Cardinality({}) = 0
    BY <2>2, FS_EmptySet DEF Marks
  <2>5. obeyed[word] = 0 /\ sent[word] = 0
    BY DEF BleInit, Zero
  <2>6. Cardinality(Marks(line, word, i)) + obeyed[word] <= sent[word]
    BY <2>4, <2>5
  <2> QED
    BY <2>2, <2>3, <2>6 DEF Counted
<1> QED
  BY <1>1, <1>2 DEF BleIInv

\* Every step of the Bluetooth line keeps the inductive invariant,
LEMMA BleCounts == BleIInv /\ [BleNext]_bleVars => BleIInv'
<1>1. BleIInv /\ UNCHANGED bleVars => BleIInv'
  BY DEF BleIInv, BleTypeOK, LineEnds, Turning, Counted, Filled, Full, Beyond, Pending, Half, Both,
         bleVars, rx
<1> QED
  BY <1>1, SendCounts, ByteCounts, RecognisedCounts, ObeyCounts, ClearCounts DEF BleNext, BleUnlockTest

\* and from it no word is obeyed more often than it was sent.
LEMMA BleGood == BleIInv => BleInv
<1> SUFFICES ASSUME BleIInv PROVE BleInv
  OBVIOUS
<1>1. ASSUME NEW word \in Words PROVE obeyed[word] <= sent[word]
  <2>1. PICK i \in 1 .. Len(word) - 1 : Telling(word, i)
    BY WordsAssumption
  <2> DEFINE was == Cardinality(Marks(line, word, i))
  <2>2. was + obeyed[word] <= sent[word]
    BY <2>1 DEF BleIInv, Counted
  <2>3. was \in Nat /\ obeyed[word] \in Nat /\ sent[word] \in Nat
    BY MarksCounted, SentNat DEF BleIInv, BleTypeOK
  <2> HIDE DEF was
  <2> QED
    BY <2>2, <2>3
<1> QED
  BY <1>1 DEF BleInv, BleIInv, ObeysWhatWasSent

-----------------------------------------------------------------------------
(* The board *)

\* A step of the board is a step of one part, and the others stutter.
LEMMA OnePartSteps ==
  [Next]_vars => /\ [DelayNext]_delayVars /\ [KeyNext]_keyVars /\ [CardNext]_cardVars
                 /\ [BleNext]_bleVars /\ [EnrolNext]_enrolVars
BY DEF Next, On, vars

\* Where a press falls between two accesses to the counter does not matter: it takes
\* at most one of delay_s's pieces away, and without one a delay of delay.c is as long
\* as main has asked for.  LOAD has to hold the piece: for delay_ms(800) it does not.
THEOREM Delays == ASSUME DelayFits PROVE Spec => []DelayInv
<1>1. Init => DelayIInv
  BY DelayInitKeeps DEF Init
<1>2. DelayIInv /\ [Next]_vars => DelayIInv'
  BY OnePartSteps, DelayKeeps
<1> QED
  BY <1>1, <1>2, DelayGood, PTL DEF Spec

\* One key is read as its label, or, when it comes or goes meanwhile, as no key or the
\* last one of the row above; several are read as their last row and their columns
\* added up (keyboard.c).
THEOREM Keys == Spec => []KeyInv
<1>1. Init => KeyIInv
  BY KeyInitKeeps DEF Init
<1>2. KeyIInv /\ [Next]_vars => KeyIInv'
  BY OnePartSteps, KeyKeeps
<1> QED
  BY <1>1, <1>2, KeyGood, PTL DEF Spec

\* The door opens for enrolled cards only, whatever cards come into the field and leave
\* it between two commands, collide and lose their answers (MFRC522.c).
THEOREM CardsOpen == Spec => []CardInv
<1>1. Init => CardIInv
  BY CardInitKeeps DEF Init
<1>2. CardIInv /\ [Next]_vars => CardIInv'
  BY OnePartSteps, CardKeeps
<1> QED
  BY <1>1, <1>2, CardGood, PTL DEF Spec

\* No template is ever made of two fingers, and ValidN is right unless an answer was
\* lost, whatever fingers come and go between the images (Add_FR and Del_FR).
THEOREM Enrolments == Spec => []EnrolInv
<1>1. Init => EnrolIInv
  BY EnrolInitKeeps DEF Init
<1>2. EnrolIInv /\ [Next]_vars => EnrolIInv'
  BY OnePartSteps, EnrolKeeps
<1> QED
  BY <1>1, <1>2, EnrolGood, PTL DEF Spec

\* The lock obeys no word more often than the phone sent it, with bytes of the next words and
\* line ends coming between any two statements of BleUnlockTest.
THEOREM Bluetooth == Spec => []BleInv
<1>1. Init => BleIInv
  BY BleInitCounts DEF Init
<1>2. BleIInv /\ [Next]_vars => BleIInv'
  BY OnePartSteps, BleCounts
<1> QED
  BY <1>1, <1>2, BleGood, PTL DEF Spec
=============================================================================

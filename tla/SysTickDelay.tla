--------------------------- MODULE SysTickDelay ---------------------------
(***************************************************************************)
(* delay_ms and delay_s of stm32/CODE/Hardware/delay.c.  There is one       *)
(* SysTick counter; the main thread waits on it, and so does the handler of *)
(* the close key (keyboard.c), which may come between any two of its        *)
(* accesses.  The other handlers do not use it.                             *)
(*                                                                          *)
(* SysTick->CTRL |= 1 and &= ~1 are a read and a write each, but they change *)
(* bit 0 only and the handler leaves it as the write will find it or         *)
(* overwrite it, so each is one step here.                                   *)
(***************************************************************************)
EXTENDS Integers

CONSTANTS
  my_ms,      \* ticks of the counter in a millisecond
  Wrap,       \* 2^24: LOAD keeps the remainder
  Asks,       \* the arguments of delay_ms in the main thread
  MaxPieces,  \* delay_s calls delay_ms so many times at most
  HandlerAsk, \* the argument of delay_ms in the handler
  MaxPresses  \* bound on the presses of the key

ASSUME DelayAssumption ==
  /\ my_ms \in Nat \ {0, 1} /\ Wrap \in Nat \ {0}
  /\ HandlerAsk \in Nat \ {0} /\ my_ms * HandlerAsk <= Wrap
  /\ Asks \subseteq Nat \ {0}
  /\ MaxPieces \in Nat \ {0} /\ MaxPresses \in Nat

VARIABLES
  load, val,      \* the registers LOAD and VAL
  enabled, flag,  \* bits 0 and 16 of CTRL
  mpc, ipc,       \* where the main thread and the handler are in delay_ms
  ask,            \* argument of the main thread's delay_ms
  pieces,         \* how often delay_s still calls it
  total,          \* history: the ticks main has asked for
  elapsed,        \* history: the ticks it has got, up to total
  cuts,           \* history: presses taken meanwhile
  presses         \* presses so far

sysTick   == <<load, val, enabled, flag>>
mainVars  == <<mpc, ask, pieces>>
history   == <<total, elapsed, cuts>>
delayVars == <<sysTick, mainVars, history, ipc, presses>>

Steps == {"load", "clear", "start", "poll", "stop"}

DelayTypeOK ==
  /\ load \in 0 .. (Wrap - 1) /\ val \in 0 .. (Wrap - 1)
  /\ enabled \in BOOLEAN /\ flag \in BOOLEAN
  /\ mpc \in Steps \cup {"idle"} /\ ipc \in Steps \cup {"off"}
  /\ ask \in Nat /\ pieces \in 0 .. MaxPieces
  /\ total \in Nat /\ elapsed \in 0 .. total
  /\ cuts \in 0 .. MaxPresses /\ presses \in 0 .. MaxPresses

DelayInit ==
  /\ load = 0 /\ val = 0 /\ enabled = FALSE /\ flag = FALSE
  /\ mpc = "idle" /\ ipc = "off" /\ ask = 0 /\ pieces = 0
  /\ total = 0 /\ elapsed = 0 /\ cuts = 0 /\ presses = 0

-----------------------------------------------------------------------------
(* The counter.  From 0 it reloads; when it comes from 1 to 0 it sets flag. *)

Tick ==
  /\ enabled
  /\ val' = IF val = 0 THEN load ELSE val - 1
  /\ flag' = (flag \/ val = 1)
  /\ elapsed' = IF mpc # "idle" /\ elapsed < total THEN elapsed + 1 ELSE elapsed
  /\ UNCHANGED <<load, enabled, mainVars, total, cuts, ipc, presses>>

-----------------------------------------------------------------------------
(* delay_ms(n): what each access does to the counter, and the next one. *)

SetLoad(n) == load' = (my_ms * n - 1) % Wrap /\ UNCHANGED <<val, enabled, flag>>

\* A write to VAL clears the counter and the flag.
ClearVal_Not == UNCHANGED sysTick
ClearVal == val' = 0 /\ flag' = FALSE /\ UNCHANGED <<load, enabled>>

Start == enabled' = TRUE /\ flag' = FALSE /\ UNCHANGED <<load, val>>

\* Reading CTRL clears the flag.
Poll == flag' = FALSE /\ UNCHANGED <<load, val, enabled>>

\* The loop ends when the flag is set or somebody has stopped the counter.
Ended_FlagOnly == flag
Ended == flag \/ ~enabled

Stop == enabled' = FALSE /\ flag' = FALSE /\ UNCHANGED <<load, val>>

Access(here, n) ==
  \/ here = "load"  /\ SetLoad(n)
  \/ here = "clear" /\ ClearVal
  \/ here = "start" /\ Start
  \/ here = "poll"  /\ Poll
  \/ here = "stop"  /\ Stop

After(here, last) ==
  CASE here = "load"  -> "clear"
    [] here = "clear" -> "start"
    [] here = "start" -> "poll"
    [] here = "poll"  -> IF Ended THEN "stop" ELSE "poll"
    [] here = "stop"  -> last

-----------------------------------------------------------------------------
(* The main thread: delay_s(k / 2), or delay_ms with k = 1. *)

Call(n, k) ==
  /\ mpc = "idle" /\ ipc = "off"
  /\ mpc' = "load" /\ ask' = n /\ pieces' = k
  /\ total' = my_ms * n * k /\ elapsed' = 0 /\ cuts' = 0
  /\ UNCHANGED <<sysTick, ipc, presses>>

MorePieces == pieces > 1

MainStep ==
  /\ mpc # "idle" /\ ipc = "off"
  /\ Access(mpc, ask)
  /\ mpc' = After(mpc, IF MorePieces THEN "load" ELSE "idle")
  /\ pieces' = IF mpc = "stop" THEN pieces - 1 ELSE pieces
  /\ UNCHANGED <<ask, history, ipc, presses>>

(* EXTI0_IRQHandler: delay_ms(15) while the main thread stands still. *)

Press ==
  /\ ipc = "off" /\ presses < MaxPresses
  /\ ipc' = "load" /\ presses' = presses + 1
  /\ cuts' = IF mpc = "idle" THEN cuts ELSE cuts + 1
  /\ UNCHANGED <<sysTick, mainVars, total, elapsed>>

HandlerStep ==
  /\ ipc # "off"
  /\ Access(ipc, HandlerAsk)
  /\ ipc' = After(ipc, "off")
  /\ UNCHANGED <<mainVars, history, presses>>

DelayNext ==
  \/ Tick \/ MainStep \/ Press \/ HandlerStep
  \/ \E n \in Asks, k \in 1 .. MaxPieces : Call(n, k)

-----------------------------------------------------------------------------
(* Properties. *)

\* Wherever the key falls between two accesses to the counter, a press takes
\* away at most one of the pieces delay_s is made of; without one the delay is
\* as long as main has asked for.
LosesOnePiece == mpc = "idle" => elapsed + cuts * my_ms * ask >= total

\* The same, and the types.
DelayInv == DelayTypeOK /\ LosesOnePiece

\* A delay ends, although the handler stops the counter main waits for.
DelayEnds == mpc # "idle" ~> mpc = "idle"
=============================================================================

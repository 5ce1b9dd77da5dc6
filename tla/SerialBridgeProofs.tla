------------------------- MODULE SerialBridgeProofs -------------------------
(***************************************************************************)
(* Proofs about SerialBridge: the words that are published, and the relay, *)
(* with presses of the close key inside frames, a receive buffer of any     *)
(* size, and outages of the broker.                                         *)
(***************************************************************************)
EXTENDS SerialBridge, TLAPS, SequenceTheorems, FiniteSetTheorems

\* What of the frames is still to be sent: the handler of the close key goes first.
Rest == IF irq = "send" THEN iout ELSE out

\* What the Wemos has, and everything that is on its way.
Got  == Reading \o rx
Line == Got \o Rest

\* The handler sends as long as it has something to send.
SendInv == irq = "send" <=> iout # <<>>

\* The words that are shown, and the words that have got to the Wemos behind them, are
\* words the lock has sent, each once and in that order.
Fits(f, g, sh, se, got) ==
  /\ f \in [DOMAIN sh -> DOMAIN se] /\ g \in [WordEnds(got) -> DOMAIN se]
  /\ \A n \in DOMAIN sh : sh[n] = se[f[n]]
  /\ \A n \in WordEnds(got) : WordEnded[got[n]] = se[g[n]]
  /\ \A n, k \in DOMAIN sh : n < k => f[n] < f[k]
  /\ \A n, k \in WordEnds(got) : n < k => g[n] < g[k]
  /\ \A n \in DOMAIN sh, k \in WordEnds(got) : f[n] < g[k]
Kept(sh, se, got) == \E f, g : Fits(f, g, sh, se, got)
OrderInv == Kept(shown, sent, Got)

\* The last word that has begun to leave the lock.
LastWord(w, rest, se) ==
  IF WordEnds(rest) # {} THEN \E n \in WordEnds(rest) : rest[n] = Halves[w][2]
  ELSE se # <<>> /\ Last(se) = w

\* Its frame is on its way, at the beginning or behind a ':', and no other behind it.
Coming(w, s) ==
  \E p \in DOMAIN s :
    /\ p + 4 <= Len(s)
    /\ s[p] = "sta" /\ s[p + 1] = "te" /\ s[p + 2] = Halves[w][1] /\ s[p + 3] = Halves[w][2]
    /\ s[p + 4] = ":"
    /\ p = 1 \/ s[p - 1] = ":"
    /\ \A q \in DOMAIN s : s[q] = "sta" => q <= p

Over(s) == \A n \in DOMAIN s : s[n] # "sta"

SyncInv ==
  synced =>
    /\ irq # "off" => out = <<>>
    /\ \E w \in Words : LastWord(w, Rest, sent) /\ (Coming(w, Line) \/ (Over(Line) /\ relay = w))

BridgeIInv == TypeOK /\ SendInv /\ OrderInv /\ SyncInv

-----------------------------------------------------------------------------
(* Sequences and frames *)

\* A sequence, with another behind it.
LEMMA Cat ==
  ASSUME NEW S, NEW s \in Seq(S), NEW t \in Seq(S)
  PROVE  /\ s \o t \in Seq(S) /\ Len(s \o t) = Len(s) + Len(t)
         /\ DOMAIN (s \o t) = 1 .. Len(s) + Len(t)
         /\ \A n \in 1 .. Len(s) : (s \o t)[n] = s[n]
         /\ \A n \in Len(s) + 1 .. Len(s) + Len(t) : (s \o t)[n] = t[n - Len(s)]
         /\ \A n \in 1 .. Len(t) : (s \o t)[n + Len(s)] = t[n]
OBVIOUS

\* The first element moves from one sequence to the end of the other.
LEMMA MovesOn ==
  ASSUME NEW S, NEW s \in Seq(S), NEW t \in Seq(S), t # <<>>
  PROVE  Append(s, Head(t)) \o Tail(t) = s \o t
<1>1. Head(t) \in S /\ Tail(t) \in Seq(S) /\ Head(t) = t[1] /\ Len(t) \in Nat /\ Len(t) > 0
  OBVIOUS
<1>2. <<Head(t)>> \in Seq(S)
  BY <1>1
<1>3. Append(s, Head(t)) = s \o <<Head(t)>>
  BY <1>1, AppendIsConcat
<1>4. t = <<Head(t)>> \o Tail(t)
  <2>1. Tail(t) = SubSeq(t, 2, Len(t))
    BY TailIsSubSeq
  <2>2. SubSeq(t, 1, Len(t)) = <<t[1]>> \o SubSeq(t, 2, Len(t))
    <3>1. 1 \in 1 .. Len(t) /\ Len(t) \in 1 .. Len(t)
      BY <1>1
    <3>2. SubSeq(t, 1, Len(t)) = <<t[1]>> \o SubSeq(t, 1 + 1, Len(t))
      BY <3>1, SubSeqRecursiveFirst
    <3> QED
      BY <3>2
  <2> QED
    BY <1>1, <2>1, <2>2, SubSeqFull
<1>5. (s \o <<Head(t)>>) \o Tail(t) = s \o (<<Head(t)>> \o Tail(t))
  BY <1>1, <1>2, ConcatAssociative
<1> QED
  BY <1>3, <1>4, <1>5

\* A sequence is one of its elements.
LEMMA RangeSeq ==
  ASSUME NEW S, NEW s \in Seq(S)
  PROVE  s \in Seq(Range(s))
<1>1. DOMAIN s = 1 .. Len(s) /\ Len(s) \in Nat /\ s \in [1 .. Len(s) -> S]
  OBVIOUS
<1>2. \A n \in 1 .. Len(s) : s[n] \in Range(s)
  BY <1>1 DEF Range
<1>3. s \in [1 .. Len(s) -> Range(s)]
  BY <1>1, <1>2
<1> QED
  BY <1>1, <1>3

\* What is in a frame.
LEMMA Frames ==
  /\ DOMAIN Frame = {"open", "close", "nums", "debug", "plain"}
  /\ Frame["open"] = <<"sta", "te", "op", "en", ":", ":">>
  /\ Frame["close"] = <<"sta", "te", "clo", "se", ":", ":">>
  /\ Frame["nums"] = <<"fp-nums", "n", ":", ":">>
  /\ Frame["debug"] = <<"mqtt_debug", "text", ":">>
  /\ Frame["plain"] = <<"text">>
BY DEF Frame

\* A frame is a sequence of tokens, with the last half of one word at most.
LEMMA FrameTokens ==
  ASSUME NEW k \in DOMAIN Frame
  PROVE  /\ Frame[k] \in Seq(Tokens) /\ Len(Frame[k]) \in 1 .. 6
         /\ \A m, n \in WordEnds(Frame[k]) : m = n
<1>1. Len(Frame[k]) \in 1 .. 6 /\ DOMAIN Frame[k] = 1 .. Len(Frame[k])
      /\ Frame[k] \in Seq(Range(Frame[k]))
  <2>1. CASE k = "open"
    <3> DEFINE f == <<"sta", "te", "op", "en", ":", ":">>
    <3>1. Len(f) = 6 /\ DOMAIN f = 1 .. 6 /\ f \in Seq({"sta", "te", "op", "en", ":"})
      OBVIOUS
    <3> HIDE DEF f
    <3>2. f \in Seq(Range(f))
      BY <3>1, RangeSeq
    <3> QED
      BY <2>1, <3>1, <3>2, Frames DEF f
  <2>2. CASE k = "close"
    <3> DEFINE f == <<"sta", "te", "clo", "se", ":", ":">>
    <3>1. Len(f) = 6 /\ DOMAIN f = 1 .. 6 /\ f \in Seq({"sta", "te", "clo", "se", ":"})
      OBVIOUS
    <3> HIDE DEF f
    <3>2. f \in Seq(Range(f))
      BY <3>1, RangeSeq
    <3> QED
      BY <2>2, <3>1, <3>2, Frames DEF f
  <2>3. CASE k = "nums"
    <3> DEFINE f == <<"fp-nums", "n", ":", ":">>
    <3>1. Len(f) = 4 /\ DOMAIN f = 1 .. 4 /\ f \in Seq({"fp-nums", "n", ":"})
      OBVIOUS
    <3> HIDE DEF f
    <3>2. f \in Seq(Range(f))
      BY <3>1, RangeSeq
    <3> QED
      BY <2>3, <3>1, <3>2, Frames DEF f
  <2>4. CASE k = "debug"
    <3> DEFINE f == <<"mqtt_debug", "text", ":">>
    <3>1. Len(f) = 3 /\ DOMAIN f = 1 .. 3 /\ f \in Seq({"mqtt_debug", "text", ":"})
      OBVIOUS
    <3> HIDE DEF f
    <3>2. f \in Seq(Range(f))
      BY <3>1, RangeSeq
    <3> QED
      BY <2>4, <3>1, <3>2, Frames DEF f
  <2>5. CASE k = "plain"
    <3> DEFINE f == <<"text">>
    <3>1. Len(f) = 1 /\ DOMAIN f = 1 .. 1 /\ f \in Seq({"text"})
      OBVIOUS
    <3> HIDE DEF f
    <3>2. f \in Seq(Range(f))
      BY <3>1, RangeSeq
    <3> QED
      BY <2>5, <3>1, <3>2, Frames DEF f
  <2> QED
    BY <2>1, <2>2, <2>3, <2>4, <2>5, Frames
<1>2. Range(Frame[k]) \subseteq Tokens
  BY DEF Tokens
<1>3. Frame[k] \in Seq(Tokens)
  <2>1. \A n \in 1 .. Len(Frame[k]) : Frame[k][n] \in Tokens
    BY <1>1, <1>2 DEF Range
  <2> QED
    BY <1>1, <2>1
<1>4. DOMAIN WordEnded = {"en", "se"}
  BY DEF WordEnded
<1>5. ASSUME NEW m \in WordEnds(Frame[k]), NEW n \in WordEnds(Frame[k]) PROVE m = n
  <2>1. m \in 1 .. Len(Frame[k]) /\ n \in 1 .. Len(Frame[k])
        /\ Frame[k][m] \in {"en", "se"} /\ Frame[k][n] \in {"en", "se"}
    BY <1>1, <1>4 DEF WordEnds
  <2>2. CASE k = "open"
    <3>1. m \in {1, 2, 3, 4, 5, 6} /\ n \in {1, 2, 3, 4, 5, 6}
      BY <2>1, <2>2, Frames
    <3>2. m = 4 /\ n = 4
      BY <2>1, <2>2, <3>1, Frames
    <3> QED
      BY <3>2
  <2>3. CASE k = "close"
    <3>1. m \in {1, 2, 3, 4, 5, 6} /\ n \in {1, 2, 3, 4, 5, 6}
      BY <2>1, <2>3, Frames
    <3>2. m = 4 /\ n = 4
      BY <2>1, <2>3, <3>1, Frames
    <3> QED
      BY <3>2
  <2>4. CASE k = "nums" \/ k = "debug" \/ k = "plain"
    <3>1. m \in {1, 2, 3, 4}
      BY <2>1, <2>4, Frames
    <3> QED
      BY <2>1, <2>4, <3>1, Frames
  <2> QED
    BY <2>2, <2>3, <2>4, Frames
<1> QED
  BY <1>1, <1>3, <1>5

\* What is left of a frame.
LEMMA Rests ==
  /\ <<>> \in SubFrames /\ \A k \in DOMAIN Frame : Frame[k] \in SubFrames
  /\ \A s \in SubFrames :
       /\ s \in Seq(Tokens)
       /\ \A m, n \in WordEnds(s) : m = n
       /\ s # <<>> => Tail(s) \in SubFrames /\ Head(s) \in Tokens
<1>1. \A k \in DOMAIN Frame : Frame[k] \in SubFrames
  <2> SUFFICES ASSUME NEW k \in DOMAIN Frame PROVE Frame[k] \in SubFrames
    OBVIOUS
  <2>1. From(k, 1) = Frame[k]
    BY FrameTokens, SubSeqFull DEF From
  <2>2. 1 \in 1 .. 7
    OBVIOUS
  <2> QED
    BY <2>1, <2>2 DEF SubFrames
<1>2. <<>> \in SubFrames
  <2>1. "plain" \in DOMAIN Frame /\ Len(Frame["plain"]) = 1
    BY Frames
  <2>2. From("plain", 2) = <<>>
    BY <2>1, SubSeqEmpty DEF From
  <2>3. 2 \in 1 .. 7
    OBVIOUS
  <2>4. From("plain", 2) \in SubFrames
    BY <2>1, <2>3 DEF SubFrames
  <2> QED
    BY <2>2, <2>4
<1>3. ASSUME NEW s \in SubFrames
      PROVE  /\ s \in Seq(Tokens) /\ (\A m, n \in WordEnds(s) : m = n)
             /\ s # <<>> => Tail(s) \in SubFrames /\ Head(s) \in Tokens
  <2>1. PICK k \in DOMAIN Frame, n \in 1 .. 7 : s = SubSeq(Frame[k], n, Len(Frame[k]))
    BY DEF SubFrames, From
  <2> DEFINE f == Frame[k]
             l == Len(f)
  <2>2. f \in Seq(Tokens) /\ l \in 1 .. 6 /\ \A i, j \in WordEnds(f) : i = j
    BY FrameTokens
  <2> HIDE DEF f
  <2>3. \A i \in n .. l : f[i] \in Tokens
    BY <2>2, ElementOfSeq
  <2>4. /\ s \in Seq(Tokens) /\ Len(s) = (IF n <= l THEN l - n + 1 ELSE 0)
        /\ \A i \in 1 .. l - n + 1 : s[i] = f[n + i - 1]
    BY <2>1, <2>2, <2>3, SubSeqProperties DEF f
  <2>5. ASSUME NEW i \in WordEnds(s), NEW j \in WordEnds(s) PROVE i = j
    <3>1. i \in 1 .. Len(s) /\ j \in 1 .. Len(s)
      BY <2>4 DEF WordEnds
    <3>2. n + i - 1 \in 1 .. l /\ n + j - 1 \in 1 .. l /\ s[i] = f[n + i - 1] /\ s[j] = f[n + j - 1]
      BY <2>2, <2>4, <3>1
    <3>3. n + i - 1 \in WordEnds(f) /\ n + j - 1 \in WordEnds(f)
      BY <2>2, <3>2 DEF WordEnds
    <3>4. n + i - 1 = n + j - 1
      BY <2>2, <3>3
    <3> QED
      BY <3>1, <3>4
  <2>6. ASSUME s # <<>> PROVE Tail(s) \in SubFrames /\ Head(s) \in Tokens
    <3>1. n <= l
      <4>1. Len(s) > 0
        BY <2>4, <2>6
      <4> QED
        BY <2>2, <2>4, <4>1
    <3>2. n \in 1 .. l /\ l \in n .. l /\ n + 1 \in 1 .. 7
      <4> HIDE DEF l
      <4>1. n \in Nat /\ n >= 1 /\ l \in Nat /\ l <= 6
        BY <2>2
      <4> QED
        BY <3>1, <4>1
    <3>3. Head(s) = f[n] /\ Tail(s) = SubSeq(f, n + 1, l)
      BY <2>1, <2>2, <3>2, HeadTailOfSubSeq DEF f
    <3>4. Head(s) \in Tokens
      BY <2>3, <3>2, <3>3
    <3>5. From(k, n + 1) \in SubFrames
      BY <3>2 DEF SubFrames
    <3>6. From(k, n + 1) = SubSeq(f, n + 1, l)
      BY DEF From, f
    <3> QED
      BY <3>3, <3>4, <3>5, <3>6
  <2> QED
    BY <2>4, <2>5, <2>6
<1> QED
  BY <1>1, <1>2, <1>3

-----------------------------------------------------------------------------
(* Types *)

\* The two words, by their last halves.
LEMMA WordTypes ==
  /\ DOMAIN WordEnded = {"en", "se"} /\ WordEnded["en"] = "open" /\ WordEnded["se"] = "close"
  /\ \A t \in DOMAIN WordEnded : WordEnded[t] \in Words
  /\ Words \subseteq DOMAIN Frame
BY Frames DEF WordEnded, Words

\* The assumptions on the constants, one by one.
LEMMA BridgeConstants ==
  /\ Kinds \subseteq DOMAIN Frame /\ RxSize \in Nat /\ RxSize > 0
  /\ MaxFrames \in Nat /\ MaxPresses \in Nat /\ MaxOutages \in Nat /\ MaxCommands \in Nat
<1>1. Kinds \subseteq DOMAIN Frame
  BY BridgeAssumption
<1>2. RxSize \in Nat \ {0}
  BY BridgeAssumption
<1>3. {MaxFrames, MaxPresses, MaxOutages, MaxCommands} \subseteq Nat
  BY BridgeAssumption
<1> QED
  BY <1>1, <1>2, <1>3

\* A byte that leaves is a token that is stored within the buffer, or dropped.
LEMMA EmitTypes ==
  ASSUME TypeOK, NEW token \in Tokens, Emit(token)
  PROVE  /\ sent' \in Seq(Words) /\ rx' \in Seq(Tokens) /\ Len(rx') <= RxSize
         /\ synced' \in BOOLEAN
<1>1. sent \in Seq(Words) /\ rx \in Seq(Tokens) /\ Len(rx) \in Nat /\ Len(rx) <= RxSize
      /\ RxSize \in Nat /\ synced \in BOOLEAN
  BY BridgeConstants DEF TypeOK
<1>2. sent' \in Seq(Words)
  <2>1. CASE token \in DOMAIN WordEnded
    BY <1>1, <2>1, WordTypes, AppendProperties DEF Emit
  <2>2. CASE token \notin DOMAIN WordEnded
    BY <1>1, <2>2 DEF Emit
  <2> QED
    BY <2>1, <2>2
<1>3. rx' \in Seq(Tokens) /\ Len(rx') <= RxSize
  <2>1. CASE HasRoom
    <3>1. rx' = Append(rx, token) /\ Len(rx) < RxSize
      BY <2>1 DEF Emit, HasRoom
    <3>2. rx' \in Seq(Tokens) /\ Len(rx') = Len(rx) + 1
      BY <1>1, <3>1, AppendProperties
    <3> QED
      BY <1>1, <3>1, <3>2
  <2>2. CASE ~HasRoom
    BY <1>1, <2>2 DEF Emit
  <2> QED
    BY <2>1, <2>2
<1>4. synced' \in BOOLEAN
  BY <1>1 DEF Emit
<1> QED
  BY <1>2, <1>3, <1>4

\* A bound that is spent stays a number.
LEMMA SpendTypes ==
  ASSUME TypeOK, NEW what \in {"frames", "presses", "outages", "commands"}, Spend(what)
  PROVE  budget' \in [{"frames", "presses", "outages", "commands"} -> Nat]
<1>1. budget[what] \in Nat /\ budget[what] - 1 \in Nat
  BY DEF TypeOK, Spend
<1> QED
  BY <1>1 DEF TypeOK, Spend

\* The types and SendInv hold at the beginning,
LEMMA TypeInit == Init => TypeOK /\ SendInv
<1> SUFFICES ASSUME Init PROVE TypeOK /\ SendInv
  OBVIOUS
<1>1. <<>> \in SubFrames /\ <<>> \in Seq(Tokens) /\ <<>> \in Seq(Tokens \ {":"}) /\ <<>> \in Seq(Words)
  BY Rests
<1>2. Len(rx) <= RxSize
  <2>1. Len(<<>>) = 0
    OBVIOUS
  <2> QED
    BY <2>1, BridgeConstants DEF Init
<1>3. kind \in DOMAIN Frame
  BY Frames DEF Init
<1>4. budget \in [{"frames", "presses", "outages", "commands"} -> Nat]
  BY BridgeConstants DEF Init
<1>5. relay \in Words
  BY DEF Init, Words
<1> QED
  BY <1>1, <1>2, <1>3, <1>4, <1>5 DEF Init, TypeOK, SendInv

\* and are kept by the bytes of the lock,
LEMMA TypeSender ==
  ASSUME TypeOK, SendInv, Sender
  PROVE  TypeOK' /\ SendInv'
<1>1. CASE MainEmit
  <2>1. out \in SubFrames /\ out # <<>>
    BY <1>1 DEF TypeOK, MainEmit
  <2>2. Head(out) \in Tokens /\ Tail(out) \in SubFrames
    BY <2>1, Rests
  <2>3. Emit(Head(out)) /\ out' = Tail(out) /\ UNCHANGED <<kind, irq, iout, bridgeVars, budget>>
    BY <1>1 DEF MainEmit
  <2>4. sent' \in Seq(Words) /\ rx' \in Seq(Tokens) /\ Len(rx') <= RxSize /\ synced' \in BOOLEAN
    BY <2>2, <2>3, EmitTypes
  <2> QED
    BY <2>2, <2>3, <2>4 DEF TypeOK, SendInv, bridgeVars
<1>2. CASE PressSend
  <2>1. Frame["close"] \in SubFrames /\ Frame["close"] # <<>>
    <3>1. "close" \in DOMAIN Frame
      BY Frames
    <3>2. Len(Frame["close"]) \in 1 .. 6
      BY <3>1, FrameTokens
    <3>3. Frame["close"] # <<>>
      BY <3>2
    <3> QED
      BY <3>1, <3>3, Rests
  <2>2. synced' \in BOOLEAN
    BY <1>2 DEF PressSend, SendBegins, TypeOK, Words, FrameBoundary
  <2>3. irq' = "send" /\ iout' = Frame["close"]
        /\ UNCHANGED <<out, kind, rx, sent, bridgeVars, budget>>
    BY <1>2 DEF PressSend
  <2> QED
    BY <2>1, <2>2, <2>3 DEF TypeOK, SendInv, bridgeVars
<1>3. CASE PressEmit
  <2>1. iout \in SubFrames /\ iout # <<>>
    BY <1>3 DEF TypeOK, PressEmit, SendInv
  <2>2. Head(iout) \in Tokens /\ Tail(iout) \in SubFrames
    BY <2>1, Rests
  <2>3. /\ Emit(Head(iout)) /\ iout' = Tail(iout)
        /\ irq' = (IF Tail(iout) = <<>> THEN "off" ELSE "send")
        /\ UNCHANGED <<out, kind, bridgeVars, budget>>
    BY <1>3 DEF PressEmit
  <2>4. sent' \in Seq(Words) /\ rx' \in Seq(Tokens) /\ Len(rx') <= RxSize /\ synced' \in BOOLEAN
    BY <2>2, <2>3, EmitTypes
  <2> QED
    BY <2>2, <2>3, <2>4 DEF TypeOK, SendInv, bridgeVars
<1> QED
  BY <1>1, <1>2, <1>3 DEF Sender

\* by the steps of the bridge,
LEMMA TypeWemos ==
  ASSUME TypeOK, SendInv, Wemos
  PROVE  TypeOK' /\ SendInv'
<1>1. CASE Subscribe
  BY <1>1 DEF Subscribe, TypeOK, SendInv, lockSide, lockVars
<1>2. CASE Connect
  BY <1>2 DEF Connect, Connected, TypeOK, SendInv, lockSide, lockVars
<1>3. CASE ClientLoop
  <2>1. inbox' \in Seq(Words) /\ relay' \in Words /\ synced' \in BOOLEAN
    <3>1. CASE inbox = <<>>
      BY <1>3, <3>1 DEF ClientLoop, Callback, TypeOK
    <3>2. CASE inbox # <<>>
      <4>1. inbox' = Tail(inbox) /\ relay' = Head(inbox) /\ synced' = FALSE
        BY <1>3, <3>2 DEF ClientLoop, Callback
      <4>2. inbox \in Seq(Words)
        BY DEF TypeOK
      <4>3. Tail(inbox) \in Seq(Words) /\ Head(inbox) \in Words
        BY <3>2, <4>2, HeadTailProperties
      <4> QED
        BY <4>1, <4>3
    <3> QED
      BY <3>1, <3>2
  <2>2. part' \in Seq(Tokens \ {":"}) /\ wpc' \in {"setup", "connect", "loop", "read"}
    <3>1. <<>> \in Seq(Tokens \ {":"})
      BY EmptySeq
    <3> QED
      BY <1>3, <3>1 DEF ClientLoop, Begun, TypeOK
  <2>3. UNCHANGED <<lockSide, rx, link, subscribed, shown>>
    BY <1>3 DEF ClientLoop
  <2> QED
    BY <2>1, <2>2, <2>3 DEF TypeOK, SendInv, lockSide, lockVars
<1>4. CASE ReadToken
  <2>1. rx \in Seq(Tokens) /\ rx # <<>> /\ Head(rx) # ":" /\ part \in Seq(Tokens \ {":"})
        /\ Len(rx) <= RxSize
    BY <1>4 DEF ReadToken, TypeOK
  <2>2. Head(rx) \in Tokens /\ Tail(rx) \in Seq(Tokens) /\ Len(Tail(rx)) = Len(rx) - 1
        /\ Len(rx) \in Nat
    BY <2>1, HeadTailProperties
  <2>3. part' = Append(part, Head(rx)) /\ rx' = Tail(rx)
        /\ UNCHANGED <<lockSide, wpc, link, subscribed, inbox, relay, shown, synced>>
    BY <1>4 DEF ReadToken
  <2>4. Head(rx) \in Tokens \ {":"}
    BY <2>1, <2>2
  <2>5. part' \in Seq(Tokens \ {":"})
    BY <2>1, <2>3, <2>4, AppendProperties
  <2>6. Len(rx') <= RxSize
    BY <2>1, <2>2, <2>3, BridgeConstants
  <2> QED
    BY <2>2, <2>3, <2>5, <2>6 DEF TypeOK, SendInv, lockSide, lockVars
<1>5. CASE ServeFrame
  <2>1. rx \in Seq(Tokens) /\ rx # <<>> /\ Len(rx) <= RxSize
    BY <1>5 DEF ServeFrame, TypeOK
  <2>2. Tail(rx) \in Seq(Tokens) /\ Len(Tail(rx)) = Len(rx) - 1 /\ Len(rx) \in Nat
    BY <2>1, HeadTailProperties
  <2>3. rx' = Tail(rx) /\ wpc' = "connect"
        /\ UNCHANGED <<lockSide, part, link, subscribed, inbox, synced>>
    BY <1>5 DEF ServeFrame
  <2>4. relay' \in Words
    <3>1. relay \in Words /\ Switch
      BY <1>5 DEF TypeOK, ServeFrame
    <3> QED
      BY <3>1 DEF Switch
  <2>5. shown' \in Seq(Words)
    <3>1. shown \in Seq(Words) /\ Show
      BY <1>5 DEF TypeOK, ServeFrame
    <3>2. CASE UNCHANGED shown
      BY <3>1, <3>2
    <3>3. ASSUME ~UNCHANGED shown PROVE shown' \in Seq(Words)
      <4>1. /\ \E w \in Words : Message = Halves[w]
            /\ shown' = Append(shown, CHOOSE w \in Words : Message = Halves[w])
        BY <3>1, <3>3 DEF Show
      <4>2. (CHOOSE w \in Words : Message = Halves[w]) \in Words
        BY <4>1
      <4> QED
        BY <3>1, <4>1, <4>2, AppendProperties
    <3> QED
      BY <3>2, <3>3
  <2>6. Len(rx') <= RxSize
    BY <2>1, <2>2, <2>3, BridgeConstants
  <2> QED
    BY <2>2, <2>3, <2>4, <2>5, <2>6 DEF TypeOK, SendInv, lockSide, lockVars
<1>6. CASE Dry
  BY <1>6 DEF Dry, TypeOK, SendInv, lockSide, lockVars
<1> QED
  BY <1>1, <1>2, <1>3, <1>4, <1>5, <1>6 DEF Wemos

\* by what begins a frame, presses the key, cuts the connection or sends a command,
LEMMA TypeEnv ==
  ASSUME TypeOK, SendInv, Env
  PROVE  TypeOK' /\ SendInv'
<1>1. ASSUME NEW k \in Kinds, BeginFrame(k) PROVE TypeOK' /\ SendInv'
  <2>1. k \in DOMAIN Frame
    BY BridgeConstants
  <2>2. Frame[k] \in SubFrames
    BY <2>1, Rests
  <2>3. synced' \in BOOLEAN
    BY <1>1 DEF BeginFrame, SendBegins, TypeOK, FrameBoundary
  <2>4. budget' \in [{"frames", "presses", "outages", "commands"} -> Nat]
    BY <1>1, SpendTypes DEF BeginFrame
  <2>5. out' = Frame[k] /\ kind' = k /\ UNCHANGED <<irq, iout, rx, sent, bridgeVars>>
    BY <1>1 DEF BeginFrame
  <2> QED
    BY <2>1, <2>2, <2>3, <2>4, <2>5 DEF TypeOK, SendInv, bridgeVars
<1>2. CASE Press
  <2>1. budget' \in [{"frames", "presses", "outages", "commands"} -> Nat]
    BY <1>2, SpendTypes DEF Press
  <2>2. synced' \in BOOLEAN
    BY <1>2 DEF Press, TypeOK
  <2>3. irq = "off" /\ irq' = "pause" /\ UNCHANGED <<out, kind, iout, rx, sent, bridgeVars>>
    BY <1>2 DEF Press
  <2> QED
    BY <2>1, <2>2, <2>3 DEF TypeOK, SendInv, bridgeVars
<1>3. CASE LinkDrop
  <2>1. budget' \in [{"frames", "presses", "outages", "commands"} -> Nat]
    BY <1>3, SpendTypes DEF LinkDrop
  <2>2. <<>> \in Seq(Words)
    BY EmptySeq
  <2> QED
    BY <1>3, <2>1, <2>2 DEF LinkDrop, TypeOK, SendInv, lockVars
<1>4. ASSUME NEW w \in Words, PhoneSend(w) PROVE TypeOK' /\ SendInv'
  <2>1. budget' \in [{"frames", "presses", "outages", "commands"} -> Nat]
    BY <1>4, SpendTypes DEF PhoneSend
  <2>2. inbox' \in Seq(Words)
    BY <1>4, AppendProperties DEF PhoneSend, TypeOK
  <2>3. UNCHANGED <<lockVars, wpc, part, link, subscribed, relay, shown, rx, sent, synced>>
    BY <1>4 DEF PhoneSend
  <2> QED
    BY <2>1, <2>2, <2>3 DEF TypeOK, SendInv, lockVars
<1> QED
  BY <1>1, <1>2, <1>3, <1>4 DEF Env

\* and so by every step.
LEMMA TypeNext ==
  ASSUME TypeOK, SendInv, [Next]_vars
  PROVE  TypeOK' /\ SendInv'
<1>1. CASE UNCHANGED vars
  BY <1>1 DEF vars, lockVars, bridgeVars, TypeOK, SendInv
<1> QED
  BY <1>1, TypeSender, TypeWemos, TypeEnv DEF Next

-----------------------------------------------------------------------------
(* The order of the words *)

\* A token that is not stored.
LEMMA KeptDropped ==
  ASSUME NEW sh \in Seq(Words), NEW se \in Seq(Words), NEW got \in Seq(Tokens), NEW w \in Words,
         Kept(sh, se, got)
  PROVE  Kept(sh, Append(se, w), got)
<1>1. PICK f, g : Fits(f, g, sh, se, got)
  BY DEF Kept
<1> DEFINE se2 == Append(se, w)
<1>2. DOMAIN se = 1 .. Len(se) /\ DOMAIN se2 = 1 .. Len(se) + 1 /\ Len(se) \in Nat
      /\ \A n \in DOMAIN se : se2[n] = se[n]
  BY AppendProperties
<1> HIDE DEF se2
<1>3. DOMAIN se \subseteq DOMAIN se2
  BY <1>2
<1>4. f \in [DOMAIN sh -> DOMAIN se2] /\ g \in [WordEnds(got) -> DOMAIN se2]
      /\ (\A n \in DOMAIN sh : f[n] \in DOMAIN se) /\ \A n \in WordEnds(got) : g[n] \in DOMAIN se
  BY <1>1, <1>3 DEF Fits
<1>5. Fits(f, g, sh, se2, got)
  BY <1>1, <1>2, <1>4 DEF Fits
<1> QED
  BY <1>5 DEF Kept, se2

\* A token that is stored behind what the Wemos has got.
LEMMA KeptStored ==
  ASSUME NEW sh \in Seq(Words), NEW se \in Seq(Words), NEW got \in Seq(Tokens), NEW t \in Tokens,
         Kept(sh, se, got)
  PROVE  Kept(sh, IF t \in DOMAIN WordEnded THEN Append(se, WordEnded[t]) ELSE se, Append(got, t))
<1>1. PICK f, g : Fits(f, g, sh, se, got)
  BY DEF Kept
<1> DEFINE got2 == Append(got, t)
           l == Len(got)
<1>2. l \in Nat /\ DOMAIN got = 1 .. l /\ got2 \in Seq(Tokens) /\ Len(got2) = l + 1
      /\ got2[l + 1] = t /\ \A n \in 1 .. l : got2[n] = got[n]
  BY AppendProperties
<1>3. DOMAIN got2 = 1 .. l + 1
  BY <1>2
<1> HIDE DEF got2, l
<1>4. CASE t \notin DOMAIN WordEnded
  <2>1. WordEnds(got2) = WordEnds(got)
    BY <1>2, <1>3, <1>4 DEF WordEnds
  <2>2. \A n \in WordEnds(got) : got2[n] = got[n]
    BY <1>2 DEF WordEnds
  <2>3. Fits(f, g, sh, se, got2)
    BY <1>1, <2>1, <2>2 DEF Fits
  <2> QED
    BY <1>4, <2>3 DEF Kept, got2
<1>5. CASE t \in DOMAIN WordEnded
  <2> DEFINE se2 == Append(se, WordEnded[t])
             m == Len(se)
             g2 == [n \in WordEnds(got2) |-> IF n = l + 1 THEN m + 1 ELSE g[n]]
  <2>1. m \in Nat /\ DOMAIN se = 1 .. m /\ DOMAIN se2 = 1 .. m + 1 /\ se2[m + 1] = WordEnded[t]
        /\ \A n \in DOMAIN se : se2[n] = se[n]
    BY <1>5, WordTypes, AppendProperties
  <2>2. WordEnds(got2) = WordEnds(got) \cup {l + 1} /\ WordEnds(got) \subseteq 1 .. l
    BY <1>2, <1>3, <1>5 DEF WordEnds
  <2>3. g2 \in [WordEnds(got2) -> 1 .. m + 1]
        /\ g2[l + 1] = m + 1 /\ \A n \in WordEnds(got) : g2[n] = g[n] /\ g[n] \in 1 .. m
    <3>1. \A n \in WordEnds(got) : g[n] \in 1 .. m /\ n # l + 1
      BY <1>1, <1>2, <2>1, <2>2 DEF Fits
    <3>2. m + 1 \in 1 .. m + 1 /\ 1 .. m \subseteq 1 .. m + 1
      BY <2>1
    <3> HIDE DEF se2, m
    <3> QED
      BY <2>2, <3>1, <3>2
  <2> HIDE DEF se2, m, g2
  <2>4. f \in [DOMAIN sh -> DOMAIN se2] /\ \A n \in DOMAIN sh : f[n] \in 1 .. m /\ se2[f[n]] = sh[n]
    <3>1. 1 .. m \subseteq 1 .. m + 1
      BY <2>1
    <3> QED
      BY <1>1, <2>1, <3>1 DEF Fits
  <2>5. \A n \in WordEnds(got2) : WordEnded[got2[n]] = se2[g2[n]]
    <3>1. WordEnded[got2[l + 1]] = se2[g2[l + 1]]
      BY <1>2, <2>1, <2>3
    <3>2. ASSUME NEW n \in WordEnds(got) PROVE WordEnded[got2[n]] = se2[g2[n]]
      <4>1. got2[n] = got[n] /\ g2[n] = g[n] /\ se2[g[n]] = se[g[n]]
        BY <1>2, <2>1, <2>2, <2>3
      <4> QED
        BY <1>1, <4>1 DEF Fits
    <3> QED
      BY <2>2, <3>1, <3>2
  <2>6. ASSUME NEW n \in WordEnds(got2), NEW k \in WordEnds(got2), n < k PROVE g2[n] < g2[k]
    <3>1. n \in WordEnds(got) /\ n \in 1 .. l
      BY <1>2, <2>2, <2>6
    <3>2. CASE k = l + 1
      BY <2>1, <2>3, <3>1, <3>2
    <3>3. CASE k \in WordEnds(got)
      BY <1>1, <2>3, <2>6, <3>1, <3>3 DEF Fits
    <3> QED
      BY <2>2, <3>2, <3>3
  <2>7. ASSUME NEW n \in DOMAIN sh, NEW k \in WordEnds(got2) PROVE f[n] < g2[k]
    <3>1. CASE k = l + 1
      BY <2>1, <2>3, <2>4, <3>1
    <3>2. CASE k \in WordEnds(got)
      BY <1>1, <2>3, <3>2 DEF Fits
    <3> QED
      BY <2>2, <3>1, <3>2
  <2>8. Fits(f, g2, sh, se2, got2)
    BY <1>1, <2>1, <2>3, <2>4, <2>5, <2>6, <2>7 DEF Fits
  <2> QED
    BY <1>5, <2>8 DEF Kept, se2, got2
<1> QED
  BY <1>4, <1>5

\* What is read and not shown.
LEMMA KeptForgotten ==
  ASSUME NEW sh \in Seq(Words), NEW se \in Seq(Words), NEW s \in Seq(Tokens), NEW t \in Seq(Tokens),
         Kept(sh, se, s \o t)
  PROVE  Kept(sh, se, t)
<1>1. PICK f, g : Fits(f, g, sh, se, s \o t)
  BY DEF Kept
<1> DEFINE u == s \o t
           l == Len(s)
           h == [n \in WordEnds(t) |-> g[n + l]]
<1>2. l \in Nat /\ Len(t) \in Nat /\ DOMAIN t = 1 .. Len(t) /\ DOMAIN u = 1 .. l + Len(t)
      /\ \A n \in 1 .. Len(t) : u[n + l] = t[n]
  BY Cat
<1> HIDE DEF u, l
<1>3. \A n \in WordEnds(t) : n + l \in WordEnds(u) /\ u[n + l] = t[n] /\ n \in Nat
  BY <1>2 DEF WordEnds
<1>4. h \in [WordEnds(t) -> DOMAIN se] /\ \A n \in WordEnds(t) : h[n] = g[n + l]
  BY <1>1, <1>3 DEF Fits, u
<1> HIDE DEF h
<1>5. \A n \in WordEnds(t) : WordEnded[t[n]] = se[h[n]]
  BY <1>1, <1>3, <1>4, ZenonT(60) DEF Fits, u
<1>6. \A n, k \in WordEnds(t) : n < k => h[n] < h[k]
  <2> SUFFICES ASSUME NEW n \in WordEnds(t), NEW k \in WordEnds(t), n < k PROVE h[n] < h[k]
    OBVIOUS
  <2>1. n + l < k + l
    BY <1>2, <1>3
  <2> QED
    BY <1>1, <1>3, <1>4, <2>1 DEF Fits, u
<1>7. \A n \in DOMAIN sh, k \in WordEnds(t) : f[n] < h[k]
  BY <1>1, <1>3, <1>4 DEF Fits, u
<1>8. Fits(f, h, sh, se, t)
  BY <1>1, <1>4, <1>5, <1>6, <1>7 DEF Fits
<1> QED
  BY <1>8 DEF Kept

\* What is read and shown.
LEMMA KeptShown ==
  ASSUME NEW sh \in Seq(Words), NEW se \in Seq(Words), NEW s \in Seq(Tokens), NEW t \in Seq(Tokens),
         NEW i \in WordEnds(s), NEW w \in Words, w = WordEnded[s[i]],
         Kept(sh, se, s \o t)
  PROVE  Kept(Append(sh, w), se, t)
<1>1. PICK f, g : Fits(f, g, sh, se, s \o t)
  BY DEF Kept
<1> DEFINE u == s \o t
           l == Len(s)
           m == Len(sh)
           sh2 == Append(sh, w)
           h == [n \in WordEnds(t) |-> g[n + l]]
           e == [n \in 1 .. m + 1 |-> IF n = m + 1 THEN g[i] ELSE f[n]]
<1>2. l \in Nat /\ Len(t) \in Nat /\ DOMAIN t = 1 .. Len(t) /\ DOMAIN u = 1 .. l + Len(t)
      /\ DOMAIN s = 1 .. l
      /\ (\A n \in 1 .. Len(t) : u[n + l] = t[n]) /\ \A n \in 1 .. l : u[n] = s[n]
  BY Cat
<1>3. m \in Nat /\ DOMAIN sh = 1 .. m /\ DOMAIN sh2 = 1 .. m + 1 /\ sh2[m + 1] = w
      /\ \A n \in 1 .. m : sh2[n] = sh[n]
  BY AppendProperties
<1> HIDE DEF u, l, m, sh2
<1>4. \A n \in WordEnds(t) : n + l \in WordEnds(u) /\ u[n + l] = t[n] /\ n \in Nat /\ n >= 1
  BY <1>2 DEF WordEnds
<1>5. i \in WordEnds(u) /\ u[i] = s[i] /\ i \in 1 .. l
  <2>1. i \in 1 .. l /\ s[i] \in DOMAIN WordEnded
    BY <1>2 DEF WordEnds
  <2> QED
    BY <1>2, <2>1 DEF WordEnds
<1>6. h \in [WordEnds(t) -> DOMAIN se] /\ \A n \in WordEnds(t) : h[n] = g[n + l]
  BY <1>1, <1>4 DEF Fits, u
<1>7. g[i] \in DOMAIN se /\ se[g[i]] = w /\ \A n \in DOMAIN sh : f[n] \in DOMAIN se /\ f[n] < g[i]
  BY <1>1, <1>5 DEF Fits, u
<1>8. e \in [DOMAIN sh2 -> DOMAIN se] /\ e[m + 1] = g[i] /\ \A n \in 1 .. m : e[n] = f[n]
  <2>1. \A n \in 1 .. m : n # m + 1
    BY <1>3
  <2>2. m + 1 \in 1 .. m + 1 /\ \A n \in 1 .. m + 1 : n = m + 1 \/ n \in 1 .. m
    BY <1>3
  <2>3. \A n \in 1 .. m : n \in 1 .. m + 1
    BY <1>3
  <2> QED
    BY <1>3, <1>7, <2>1, <2>2, <2>3
<1> HIDE DEF e, h
<1>9. \A n \in DOMAIN sh2 : n = m + 1 \/ n \in 1 .. m
  BY <1>3
<1>10. \A n \in DOMAIN sh2 : sh2[n] = se[e[n]]
  BY <1>1, <1>3, <1>7, <1>8, <1>9 DEF Fits
<1>11. \A n \in WordEnds(t) : WordEnded[t[n]] = se[h[n]]
  BY <1>1, <1>4, <1>6, ZenonT(60) DEF Fits, u
<1>12. ASSUME NEW n \in DOMAIN sh2, NEW k \in DOMAIN sh2, n < k PROVE e[n] < e[k]
  <2>1. n \in 1 .. m
    BY <1>3, <1>12
  <2>2. CASE k = m + 1
    BY <1>3, <1>7, <1>8, <2>1, <2>2
  <2>3. CASE k \in 1 .. m
    BY <1>1, <1>3, <1>8, <1>12, <2>1, <2>3 DEF Fits
  <2> QED
    BY <1>9, <2>2, <2>3
<1>13. ASSUME NEW n \in WordEnds(t), NEW k \in WordEnds(t), n < k PROVE h[n] < h[k]
  <2>1. n + l < k + l
    BY <1>2, <1>4, <1>13
  <2> QED
    BY <1>1, <1>4, <1>6, <2>1 DEF Fits, u
<1>14. ASSUME NEW n \in DOMAIN sh2, NEW k \in WordEnds(t) PROVE e[n] < h[k]
  <2>1. CASE n = m + 1
    <3>1. i < k + l
      BY <1>2, <1>4, <1>5
    <3>2. g[i] < g[k + l]
      BY <1>1, <1>4, <1>5, <3>1 DEF Fits, u
    <3> QED
      BY <1>6, <1>8, <2>1, <3>2
  <2>2. CASE n \in 1 .. m
    BY <1>1, <1>3, <1>4, <1>6, <1>8, <2>2 DEF Fits, u
  <2> QED
    BY <1>9, <2>1, <2>2
<1>15. Fits(e, h, sh2, se, t)
  BY <1>6, <1>8, <1>10, <1>11, <1>12, <1>13, <1>14 DEF Fits
<1> QED
  BY <1>15 DEF Kept, sh2

\* What the Wemos has and what is on its way are tokens.
LEMMA GotTypes ==
  ASSUME TypeOK
  PROVE  /\ Reading \in Seq(Tokens) /\ rx \in Seq(Tokens) /\ part \in Seq(Tokens)
         /\ Got \in Seq(Tokens) /\ shown \in Seq(Words) /\ sent \in Seq(Words)
         /\ Rest \in Seq(Tokens) /\ Line \in Seq(Tokens)
<1>1. part \in Seq(Tokens) /\ rx \in Seq(Tokens) /\ shown \in Seq(Words) /\ sent \in Seq(Words)
  <2>1. part \in Seq(Tokens \ {":"}) /\ Tokens \ {":"} \subseteq Tokens
    BY DEF TypeOK
  <2>2. part \in Seq(Tokens)
    BY <2>1, SeqMonotonic
  <2> QED
    BY <2>2 DEF TypeOK
<1>2. Reading \in Seq(Tokens)
  BY <1>1, EmptySeq DEF Reading
<1>3. Got \in Seq(Tokens)
  BY <1>1, <1>2, Cat DEF Got
<1>4. Rest \in Seq(Tokens)
  BY Rests DEF TypeOK, Rest
<1>5. Line \in Seq(Tokens)
  BY <1>3, <1>4, Cat DEF Line
<1> QED
  BY <1>1, <1>2, <1>3, <1>4, <1>5

\* What a byte adds to the Wemos' side.
LEMMA EmitGot ==
  ASSUME TypeOK, NEW token \in Tokens, Emit(token), UNCHANGED bridgeVars
  PROVE  Got' = IF HasRoom THEN Append(Got, token) ELSE Got
<1>1. Reading' = Reading
  BY DEF Reading, bridgeVars
<1>2. Reading \in Seq(Tokens) /\ rx \in Seq(Tokens) /\ <<token>> \in Seq(Tokens)
  BY GotTypes
<1>3. CASE HasRoom
  <2>1. Got' = Reading \o Append(rx, token)
    BY <1>1, <1>3 DEF Emit, Got
  <2>2. Append(rx, token) = rx \o <<token>> /\ Append(Got, token) = Got \o <<token>>
    <3>1. Got \in Seq(Tokens)
      BY GotTypes
    <3> QED
      BY <1>2, <3>1, AppendIsConcat
  <2>3. (Reading \o rx) \o <<token>> = Reading \o (rx \o <<token>>)
    BY <1>2, ConcatAssociative
  <2> QED
    BY <1>3, <2>1, <2>2, <2>3 DEF Got
<1>4. CASE ~HasRoom
  BY <1>1, <1>4 DEF Emit, Got
<1> QED
  BY <1>3, <1>4

\* A byte of the lock, stored or dropped, keeps the order of the words.
LEMMA EmitOrder ==
  ASSUME TypeOK, OrderInv, NEW token \in Tokens, Emit(token), UNCHANGED bridgeVars
  PROVE  OrderInv'
<1>1. shown \in Seq(Words) /\ sent \in Seq(Words) /\ Got \in Seq(Tokens) /\ shown' = shown
  BY GotTypes DEF bridgeVars
<1>2. sent' = IF token \in DOMAIN WordEnded THEN Append(sent, WordEnded[token]) ELSE sent
  BY DEF Emit
<1>3. Got' = IF HasRoom THEN Append(Got, token) ELSE Got
  BY EmitGot
<1>4. Kept(shown, sent, Got)
  BY DEF OrderInv
<1>5. CASE HasRoom
  BY <1>1, <1>2, <1>3, <1>4, <1>5, KeptStored DEF OrderInv
<1>6. CASE ~HasRoom /\ token \in DOMAIN WordEnded
  BY <1>1, <1>2, <1>3, <1>4, <1>6, KeptDropped, WordTypes DEF OrderInv
<1>7. CASE ~HasRoom /\ token \notin DOMAIN WordEnded
  BY <1>1, <1>2, <1>3, <1>4, <1>7 DEF OrderInv
<1> QED
  BY <1>5, <1>6, <1>7

\* loop reads a byte: nothing is in another place than before.
LEMMA ReadGot ==
  ASSUME TypeOK, wpc = "read", rx # <<>>
  PROVE  Append(part, Head(rx)) \o Tail(rx) = Got
<1>1. part \in Seq(Tokens) /\ rx \in Seq(Tokens)
  BY GotTypes
<1> QED
  BY <1>1, MovesOn DEF Got, Reading

\* Which frames switch, and which are shown.
LEMMA HalvesOf ==
  /\ Halves["open"] = <<"op", "en">> /\ Halves["close"] = <<"clo", "se">>
  /\ Words = {"open", "close"}
BY DEF Halves, Words

\* A frame that is published ends with the second half of its word.
LEMMA ShownFrame ==
  ASSUME TypeOK, OnTopic, NEW w \in Words, Message = Halves[w]
  PROVE  4 \in WordEnds(part) /\ WordEnded[part[4]] = w
<1>1. part \in Seq(Tokens) /\ Len(part) \in Nat /\ Len(part) >= 2 /\ DOMAIN part = 1 .. Len(part)
  BY GotTypes DEF OnTopic
<1>2. \A i \in 3 .. Len(part) : part[i] \in Tokens
  BY <1>1, ElementOfSeq
<1>3. /\ Len(Message) = (IF 3 <= Len(part) THEN Len(part) - 3 + 1 ELSE 0)
      /\ \A i \in 1 .. Len(part) - 3 + 1 : Message[i] = part[3 + i - 1]
  BY <1>1, <1>2, SubSeqProperties DEF Message
<1>4. Len(Message) = 2 /\ Message[2] = Halves[w][2]
  BY HalvesOf
<1>5. Len(part) = 4
  <2> DEFINE l == Len(part)
             m == Len(Message)
  <2>1. l \in Nat /\ m = (IF 3 <= l THEN l - 3 + 1 ELSE 0) /\ m = 2
    BY <1>1, <1>3, <1>4
  <2> HIDE DEF l, m
  <2>2. l = 4
    BY <2>1
  <2> QED
    BY <2>2 DEF l
<1>6. part[4] = Halves[w][2]
  BY <1>3, <1>4, <1>5
<1>7. Halves[w][2] \in DOMAIN WordEnded /\ WordEnded[Halves[w][2]] = w
  BY HalvesOf, WordTypes
<1> QED
  BY <1>1, <1>5, <1>6, <1>7 DEF WordEnds

\* The end of a frame, published or not, keeps the order of the words.
LEMMA ServeOrder ==
  ASSUME TypeOK, OrderInv, ServeFrame, TypeOK'
  PROVE  OrderInv'
<1> DEFINE a == Append(part, Head(rx))
           t == Tail(rx)
<1>1. wpc = "read" /\ rx # <<>> /\ wpc' = "connect" /\ rx' = t /\ sent' = sent
  BY DEF ServeFrame, lockSide
<1>2. part \in Seq(Tokens) /\ rx \in Seq(Tokens) /\ shown \in Seq(Words) /\ sent \in Seq(Words)
  BY GotTypes
<1>3. Head(rx) \in Tokens /\ t \in Seq(Tokens)
  BY <1>1, <1>2, HeadTailProperties
<1>4. a \in Seq(Tokens) /\ Len(a) = Len(part) + 1 /\ Len(part) \in Nat
      /\ \A n \in 1 .. Len(part) : a[n] = part[n]
  BY <1>2, <1>3, AppendProperties
<1>5. a \o t = Got /\ Got' = t
  <2>1. a \o t = Got
    BY <1>1, ReadGot
  <2>2. Got' = rx'
    <3>1. rx' \in Seq(Tokens) /\ Reading' = <<>>
      BY <1>1, <1>3 DEF Reading
    <3> QED
      BY <3>1, ConcatEmptySeq DEF Got
  <2> QED
    BY <1>1, <2>1, <2>2
<1> HIDE DEF a, t
<1>6. Kept(shown, sent, a \o t)
  BY <1>5 DEF OrderInv
<1>7. CASE shown' = shown
  BY <1>1, <1>2, <1>3, <1>4, <1>5, <1>6, <1>7, KeptForgotten DEF OrderInv
<1>8. CASE shown' # shown
  <2>1. PICK w \in Words : OnTopic /\ Message = Halves[w] /\ shown' = Append(shown, w)
    <3>1. OnTopic /\ (\E w \in Words : Message = Halves[w])
          /\ shown' = Append(shown, CHOOSE w \in Words : Message = Halves[w])
      BY <1>8 DEF ServeFrame, Show
    <3> QED
      BY <3>1
  <2>2. 4 \in WordEnds(part) /\ WordEnded[part[4]] = w
    BY <2>1, ShownFrame
  <2>3. 4 \in WordEnds(a) /\ a[4] = part[4]
    <3>1. 4 \in 1 .. Len(part) /\ part[4] \in DOMAIN WordEnded
      BY <1>2, <2>2 DEF WordEnds
    <3>2. DOMAIN a = 1 .. Len(part) + 1
      BY <1>4
    <3> QED
      BY <1>4, <3>1, <3>2 DEF WordEnds
  <2>4. Kept(Append(shown, w), sent, t)
    <3>1. w = WordEnded[a[4]]
      BY <2>2, <2>3
    <3> QED
      BY <1>2, <1>3, <1>4, <1>6, <2>3, <3>1, KeptShown
  <2> QED
    BY <1>1, <1>5, <2>1, <2>4 DEF OrderInv
<1> QED
  BY <1>7, <1>8

\* Steps that move no word keep their order.
LEMMA OrderSame ==
  ASSUME OrderInv, Got' = Got, UNCHANGED <<shown, sent>>
  PROVE  OrderInv'
BY DEF OrderInv

\* The order holds at the beginning,
LEMMA OrderInit == Init => OrderInv
<1> SUFFICES ASSUME Init PROVE OrderInv
  OBVIOUS
<1>1. Got = <<>> /\ shown = <<>> /\ sent = <<>>
  BY ConcatEmptySeq DEF Init, Got, Reading
<1> DEFINE f == [n \in {} |-> n]
<1>2. DOMAIN <<>> = {} /\ WordEnds(<<>>) = {}
  BY DEF WordEnds
<1>3. f \in [{} -> {}]
  OBVIOUS
<1> HIDE DEF f
<1>4. Fits(f, f, <<>>, <<>>, <<>>)
  BY <1>2, <1>3 DEF Fits
<1> QED
  BY <1>1, <1>4 DEF OrderInv, Kept

\* and is kept by every step.
LEMMA OrderNext ==
  ASSUME TypeOK, SendInv, OrderInv, [Next]_vars
  PROVE  OrderInv'
<1>0. TypeOK'
  BY TypeNext
<1>1. CASE MainEmit
  <2>1. Head(out) \in Tokens
    BY <1>1, Rests DEF TypeOK, MainEmit
  <2> QED
    BY <1>1, <2>1, EmitOrder DEF MainEmit
<1>2. CASE PressEmit
  <2>1. Head(iout) \in Tokens
    BY <1>2, Rests DEF TypeOK, PressEmit, SendInv
  <2> QED
    BY <1>2, <2>1, EmitOrder DEF PressEmit
<1>3. CASE PressSend
  BY <1>3, OrderSame DEF PressSend, bridgeVars, Got, Reading
<1>4. CASE Subscribe
  BY <1>4, OrderSame DEF Subscribe, lockSide, Got, Reading
<1>5. CASE Connect
  BY <1>5, OrderSame DEF Connect, lockSide, Got, Reading
<1>6. CASE ClientLoop
  <2>1. Reading = <<>> /\ Reading' = <<>> /\ UNCHANGED <<rx, shown, sent>>
    BY <1>6 DEF ClientLoop, Begun, Reading, lockSide
  <2> QED
    BY <2>1, OrderSame DEF Got
<1>7. CASE ReadToken
  <2>1. wpc = "read" /\ wpc' = "read" /\ rx # <<>> /\ part' = Append(part, Head(rx))
        /\ rx' = Tail(rx) /\ UNCHANGED <<shown, sent>>
    BY <1>7 DEF ReadToken, lockSide
  <2>2. Got' = Got
    BY <2>1, ReadGot DEF Got, Reading
  <2> QED
    BY <2>1, <2>2, OrderSame
<1>8. CASE ServeFrame
  BY <1>0, <1>8, ServeOrder
<1>9. CASE Dry
  <2>1. wpc = "read" /\ rx = <<>> /\ rx' = <<>> /\ wpc' = "connect" /\ UNCHANGED <<shown, sent>>
    BY <1>9 DEF Dry, lockSide
  <2>2. Got = part \o <<>> /\ Got' = <<>>
    <3>1. Reading = part /\ Reading' = <<>>
      BY <2>1 DEF Reading
    <3>2. <<>> \o <<>> = <<>>
      BY ConcatEmptySeq, EmptySeq
    <3> QED
      BY <2>1, <3>1, <3>2 DEF Got
  <2>3. part \in Seq(Tokens) /\ <<>> \in Seq(Tokens) /\ shown \in Seq(Words) /\ sent \in Seq(Words)
    BY GotTypes, EmptySeq
  <2>4. Kept(shown, sent, part \o <<>>)
    BY <2>2 DEF OrderInv
  <2>5. Kept(shown, sent, <<>>)
    BY <2>3, <2>4, KeptForgotten
  <2> QED
    BY <2>1, <2>2, <2>5 DEF OrderInv
<1>10. ASSUME NEW k \in Kinds, BeginFrame(k) PROVE OrderInv'
  BY <1>10, OrderSame DEF BeginFrame, bridgeVars, Got, Reading
<1>11. CASE Press
  BY <1>11, OrderSame DEF Press, bridgeVars, Got, Reading
<1>12. CASE LinkDrop
  BY <1>12, OrderSame DEF LinkDrop, Got, Reading
<1>13. ASSUME NEW w \in Words, PhoneSend(w) PROVE OrderInv'
  BY <1>13, OrderSame DEF PhoneSend, Got, Reading
<1>14. CASE UNCHANGED vars
  BY <1>14, OrderSame DEF vars, bridgeVars, Got, Reading
<1> QED
  BY <1>1, <1>2, <1>3, <1>4, <1>5, <1>6, <1>7, <1>8, <1>9, <1>10, <1>11, <1>12, <1>13, <1>14
  DEF Next, Sender, Wemos, Env

-----------------------------------------------------------------------------
(* The word on its way *)

\* What is behind a frame without the topic's first half does not matter.
LEMMA ComingBehind ==
  ASSUME NEW S, NEW s \in Seq(S), NEW t \in Seq(S), NEW w, Over(t)
  PROVE  /\ Coming(w, s) => Coming(w, s \o t)
         /\ Over(s) => Over(s \o t)
<1> DEFINE u == s \o t
           l == Len(s)
<1>1. l \in Nat /\ Len(t) \in Nat /\ DOMAIN s = 1 .. l /\ DOMAIN t = 1 .. Len(t)
      /\ Len(u) = l + Len(t) /\ DOMAIN u = 1 .. l + Len(t)
      /\ (\A n \in 1 .. l : u[n] = s[n])
      /\ \A n \in l + 1 .. l + Len(t) : u[n] = t[n - l]
  BY Cat
<1> HIDE DEF u
<1>2. ASSUME NEW n \in DOMAIN u, u[n] = "sta" PROVE n \in 1 .. l /\ s[n] = "sta"
  <2>1. CASE n <= l
    <3>1. n \in 1 .. l
      BY <1>1, <2>1
    <3> QED
      BY <1>1, <1>2, <3>1
  <2>2. CASE n > l
    <3>1. n \in l + 1 .. l + Len(t) /\ n - l \in DOMAIN t
      BY <1>1, <2>2
    <3> QED
      BY <1>1, <1>2, <3>1 DEF Over
  <2> QED
    BY <1>1, <2>1, <2>2
<1>3. ASSUME Coming(w, s) PROVE Coming(w, u)
  <2>1. PICK p \in 1 .. l :
          /\ p + 4 <= l
          /\ s[p] = "sta" /\ s[p + 1] = "te" /\ s[p + 2] = Halves[w][1] /\ s[p + 3] = Halves[w][2]
          /\ s[p + 4] = ":"
          /\ p = 1 \/ s[p - 1] = ":"
          /\ \A q \in DOMAIN s : s[q] = "sta" => q <= p
    BY <1>1, <1>3 DEF Coming
  <2>2. /\ p \in 1 .. l /\ p + 1 \in 1 .. l /\ p + 2 \in 1 .. l /\ p + 3 \in 1 .. l /\ p + 4 \in 1 .. l
        /\ p = 1 \/ p - 1 \in 1 .. l
    BY <1>1, <2>1
  <2>3. /\ u[p] = "sta" /\ u[p + 1] = "te" /\ u[p + 2] = Halves[w][1] /\ u[p + 3] = Halves[w][2]
        /\ u[p + 4] = ":"
        /\ p = 1 \/ u[p - 1] = ":"
    BY <1>1, <2>1, <2>2
  <2>4. p \in DOMAIN u /\ p + 4 <= Len(u)
    BY <1>1, <2>2
  <2>5. \A q \in DOMAIN u : u[q] = "sta" => q <= p
    BY <1>1, <1>2, <2>1
  <2> QED
    BY <2>3, <2>4, <2>5 DEF Coming
<1>4. Over(s) => Over(u)
  BY <1>1, <1>2 DEF Over
<1> QED
  BY <1>3, <1>4 DEF u

\* A frame with a word behind a ':', or behind nothing.
LEMMA ComingNow ==
  ASSUME NEW s \in Seq(Tokens), NEW w \in Words,
         s = <<>> \/ s[Len(s)] = ":"
  PROVE  Coming(w, s \o Frame[w])
<1> DEFINE t == Frame[w]
           u == s \o t
           l == Len(s)
           p == l + 1
<1>1. t \in Seq(Tokens) /\ Len(t) = 6 /\ t[1] = "sta" /\ t[2] = "te"
      /\ t[3] = Halves[w][1] /\ t[4] = Halves[w][2] /\ t[5] = ":" /\ t[6] = ":"
  <2>1. t \in Seq(Tokens)
    BY WordTypes, FrameTokens
  <2>2. CASE w = "open"
    BY <2>1, <2>2, Frames, HalvesOf
  <2>3. CASE w = "close"
    BY <2>1, <2>3, Frames, HalvesOf
  <2> QED
    BY <2>2, <2>3, HalvesOf
<1>2. \A n \in 2 .. 6 : t[n] # "sta"
  <2>1. Halves[w][1] # "sta" /\ Halves[w][2] # "sta"
    BY HalvesOf
  <2>2. \A n \in 2 .. 6 : n = 2 \/ n = 3 \/ n = 4 \/ n = 5 \/ n = 6
    OBVIOUS
  <2> HIDE DEF t
  <2> QED
    BY <1>1, <2>1, <2>2
<1> HIDE DEF t
<1>3. l \in Nat /\ Len(u) = l + 6 /\ DOMAIN u = 1 .. l + 6
      /\ (\A n \in 1 .. l : u[n] = s[n])
      /\ (\A n \in l + 1 .. l + 6 : u[n] = t[n - l])
      /\ \A n \in 1 .. 6 : u[n + l] = t[n]
  <2>1. t \in Seq(Tokens)
    BY <1>1
  <2>2. /\ Len(u) = l + Len(t) /\ DOMAIN u = 1 .. l + Len(t)
        /\ \A n \in 1 .. l : u[n] = s[n]
        /\ \A n \in l + 1 .. l + Len(t) : u[n] = t[n - l]
        /\ \A n \in 1 .. Len(t) : u[n + l] = t[n]
    BY <2>1, Cat
  <2>3. l \in Nat
    OBVIOUS
  <2> HIDE DEF u, l
  <2> QED
    BY <1>1, <2>2, <2>3
<1> HIDE DEF u
<1>4. u[1 + l] = "sta" /\ u[2 + l] = "te" /\ u[3 + l] = Halves[w][1] /\ u[4 + l] = Halves[w][2]
      /\ u[5 + l] = ":"
  BY <1>1, <1>3
<1>5. 1 + l = p /\ 2 + l = p + 1 /\ 3 + l = p + 2 /\ 4 + l = p + 3 /\ 5 + l = p + 4
      /\ p \in 1 .. l + 6 /\ p + 4 <= l + 6 /\ p - 1 = l
  BY <1>3
<1>6. p = 1 \/ u[p - 1] = ":"
  <2>1. CASE s = <<>>
    BY <2>1, <1>5
  <2>2. CASE s # <<>> /\ s[l] = ":"
    <3>1. l \in 1 .. l
      BY <1>3, <2>2
    <3> QED
      BY <1>3, <1>5, <2>2, <3>1
  <2> QED
    BY <2>1, <2>2
<1>7. ASSUME NEW q \in DOMAIN u, u[q] = "sta" PROVE q <= p
  <2>1. q \in Nat /\ q <= l + 6
    BY <1>3
  <2>2. CASE q > p
    <3>1. q \in l + 1 .. l + 6 /\ q - l \in 2 .. 6
      BY <1>3, <1>5, <2>1, <2>2
    <3>2. u[q] = t[q - l]
      BY <1>3, <3>1
    <3> QED
      BY <1>2, <1>7, <3>1, <3>2
  <2> QED
    BY <1>3, <2>1, <2>2
<1> HIDE DEF p
<1>8. Coming(w, u)
  BY <1>3, <1>4, <1>5, <1>6, <1>7 DEF Coming
<1> QED
  BY <1>8 DEF u, t

\* The frame of a word, up to its ':'.
IsWord(w, s) ==
  Len(s) = 4 /\ s[1] = "sta" /\ s[2] = "te" /\ s[3] = Halves[w][1] /\ s[4] = Halves[w][2]

\* The end of a frame is a token.
LEMMA ColonToken == ":" \in Tokens
<1>1. "debug" \in DOMAIN Frame /\ Frame["debug"][3] = ":" /\ 3 \in DOMAIN Frame["debug"]
  BY Frames
<1>2. ":" \in Range(Frame["debug"])
  BY <1>1 DEF Range
<1> QED
  BY <1>1, <1>2 DEF Tokens

\* What is in front of what is still to be read: a frame that loop reads as it is, or
\* nothing that matters.
LEMMA ComingAfter ==
  ASSUME NEW s \in Seq(Tokens \ {":"}), NEW t \in Seq(Tokens), NEW w \in Words,
         Coming(w, (s \o <<":">>) \o t)
  PROVE  \/ Coming(w, t)
         \/ Over(t) /\ IsWord(w, s)
<1> DEFINE a == s \o <<":">>
           u == a \o t
           l == Len(s)
<1>0. ":" \in Tokens
  BY ColonToken
<1>1. l \in Nat /\ s \in Seq(Tokens) /\ DOMAIN s = 1 .. l /\ \A n \in 1 .. l : s[n] # ":"
  <2>1. Tokens \ {":"} \subseteq Tokens
    OBVIOUS
  <2>2. s \in Seq(Tokens)
    BY <2>1, SeqMonotonic
  <2>3. \A n \in 1 .. Len(s) : s[n] \in Tokens \ {":"}
    BY ElementOfSeq
  <2> QED
    BY <2>2, <2>3
<1>2. a \in Seq(Tokens) /\ Len(a) = l + 1 /\ a[l + 1] = ":" /\ \A n \in 1 .. l : a[n] = s[n]
  <2>1. a = Append(s, ":")
    BY <1>0, <1>1, AppendIsConcat
  <2> QED
    BY <1>0, <1>1, <2>1, AppendProperties
<1> HIDE DEF a
<1>3. Len(t) \in Nat /\ DOMAIN t = 1 .. Len(t) /\ Len(u) = l + 1 + Len(t) /\ DOMAIN u = 1 .. l + 1 + Len(t)
      /\ (\A n \in 1 .. l + 1 : u[n] = a[n])
      /\ (\A n \in l + 2 .. l + 1 + Len(t) : u[n] = t[n - (l + 1)])
      /\ \A n \in 1 .. Len(t) : u[n + (l + 1)] = t[n]
  <2>0. a \in Seq(Tokens)
    BY <1>2
  <2>1. /\ Len(u) = Len(a) + Len(t) /\ DOMAIN u = 1 .. Len(a) + Len(t)
        /\ \A n \in 1 .. Len(a) : u[n] = a[n]
        /\ \A n \in Len(a) + 1 .. Len(a) + Len(t) : u[n] = t[n - Len(a)]
        /\ \A n \in 1 .. Len(t) : u[n + Len(a)] = t[n]
    BY <2>0, Cat
  <2>2. (l + 1) + 1 = l + 2 /\ Len(t) \in Nat /\ DOMAIN t = 1 .. Len(t)
    BY <1>1
  <2> QED
    BY <1>2, <2>1, <2>2
<1>4. PICK p \in DOMAIN u :
        /\ p + 4 <= Len(u)
        /\ u[p] = "sta" /\ u[p + 1] = "te" /\ u[p + 2] = Halves[w][1] /\ u[p + 3] = Halves[w][2]
        /\ u[p + 4] = ":"
        /\ p = 1 \/ u[p - 1] = ":"
        /\ \A q \in DOMAIN u : u[q] = "sta" => q <= p
  <2>1. Coming(w, u)
    BY DEF u, a
  <2> HIDE DEF u
  <2> QED
    BY <2>1 DEF Coming
<1> HIDE DEF u, l
<1>5. \A n \in 1 .. l : u[n] # ":"
  BY <1>1, <1>2, <1>3
<1>6. u[l + 1] = ":"
  BY <1>1, <1>2, <1>3
<1>7. CASE p > l + 1
  <2> DEFINE r == p - (l + 1)
  <2>1. r \in 1 .. Len(t) /\ r + 4 <= Len(t) /\ p = r + (l + 1) /\ p + 1 = (r + 1) + (l + 1)
        /\ p + 2 = (r + 2) + (l + 1) /\ p + 3 = (r + 3) + (l + 1) /\ p + 4 = (r + 4) + (l + 1)
        /\ p - 1 = (r - 1) + (l + 1)
    <3> DEFINE k == Len(t)
    <3>1. p \in Nat /\ l \in Nat /\ k \in Nat /\ p + 4 <= l + 1 + k
      <4>1. p \in 1 .. l + 1 + k /\ k \in Nat /\ p + 4 <= l + 1 + k
        BY <1>3, <1>4
      <4> QED
        BY <1>1, <4>1
    <3> HIDE DEF k
    <3>2. r \in Nat /\ r >= 1 /\ r + 4 <= k
      BY <1>7, <3>1
    <3>3. p = r + (l + 1)
      BY <3>1
    <3>4. r \in 1 .. k
      BY <3>1, <3>2
    <3> HIDE DEF r
    <3>5. /\ p + 1 = (r + 1) + (l + 1) /\ p + 2 = (r + 2) + (l + 1)
          /\ p + 3 = (r + 3) + (l + 1) /\ p + 4 = (r + 4) + (l + 1)
          /\ p - 1 = (r - 1) + (l + 1)
      BY <3>1, <3>2, <3>3
    <3> QED
      BY <3>2, <3>3, <3>4, <3>5 DEF k
  <2> HIDE DEF r
  <2>2. r + 1 \in 1 .. Len(t) /\ r + 2 \in 1 .. Len(t) /\ r + 3 \in 1 .. Len(t) /\ r + 4 \in 1 .. Len(t)
    BY <1>3, <2>1
  <2>3. /\ t[r] = "sta" /\ t[r + 1] = "te" /\ t[r + 2] = Halves[w][1] /\ t[r + 3] = Halves[w][2]
        /\ t[r + 4] = ":"
    BY <1>3, <1>4, <2>1, <2>2
  <2>4. r = 1 \/ t[r - 1] = ":"
    <3>1. CASE r # 1
      <4>1. r - 1 \in 1 .. Len(t) /\ p # 1
        BY <1>1, <1>3, <1>7, <2>1, <3>1
      <4> QED
        BY <1>3, <1>4, <2>1, <4>1
    <3> QED
      BY <3>1
  <2>5. ASSUME NEW q \in DOMAIN t, t[q] = "sta" PROVE q <= r
    <3>1. q \in 1 .. Len(t) /\ q + (l + 1) \in DOMAIN u
      BY <1>1, <1>3
    <3>2. u[q + (l + 1)] = "sta"
      BY <1>3, <2>5, <3>1
    <3>3. q + (l + 1) <= p
      BY <1>4, <3>1, <3>2
    <3> QED
      BY <1>1, <1>3, <2>1, <3>1, <3>3
  <2>6. Coming(w, t)
    BY <1>3, <2>1, <2>3, <2>4, <2>5 DEF Coming
  <2> QED
    BY <2>6
<1>8. CASE p <= l + 1
  <2>1. p = 1
    <3>1. CASE p # 1
      <4>1. p - 1 \in 1 .. l
        BY <1>1, <1>3, <1>8, <3>1
      <4> QED
        BY <1>4, <1>5, <3>1, <4>1
    <3> QED
      BY <3>1
  <2>2. /\ u[1] = "sta" /\ u[2] = "te" /\ u[3] = Halves[w][1] /\ u[4] = Halves[w][2]
        /\ u[5] = ":" /\ 5 <= Len(u)
    BY <1>4, <2>1
  <2>3. Halves[w][1] # ":" /\ Halves[w][2] # ":"
    BY HalvesOf
  <2>4. l = 4
    <3>1. l + 1 # 1 /\ l + 1 # 2 /\ l + 1 # 3 /\ l + 1 # 4
      BY <1>6, <2>2, <2>3
    <3>2. 5 \notin 1 .. l
      BY <1>5, <2>2
    <3> QED
      BY <1>1, <3>1, <3>2
  <2>5. s[1] = "sta" /\ s[2] = "te" /\ s[3] = Halves[w][1] /\ s[4] = Halves[w][2]
    <3>1. \A n \in 1 .. 4 : u[n] = s[n]
      BY <1>2, <1>3, <2>4
    <3>2. 1 \in 1 .. 4 /\ 2 \in 1 .. 4 /\ 3 \in 1 .. 4 /\ 4 \in 1 .. 4
      OBVIOUS
    <3> QED
      BY <2>2, <3>1, <3>2
  <2>6. IsWord(w, s)
    BY <2>4, <2>5 DEF IsWord, l
  <2>7. Over(t)
    <3>1. ASSUME NEW n \in DOMAIN t, t[n] = "sta" PROVE FALSE
      <4>1. n + (l + 1) \in DOMAIN u /\ u[n + (l + 1)] = "sta" /\ n + (l + 1) > 1
        BY <1>1, <1>3, <3>1
      <4> QED
        BY <1>4, <2>1, <4>1
    <3> QED
      BY <3>1 DEF Over
  <2> QED
    BY <2>6, <2>7
<1> QED
  BY <1>1, <1>3, <1>7, <1>8

\* The last word is the same one before and after its last half has left.
LEMMA LastMoves ==
  ASSUME NEW rest \in SubFrames, rest # <<>>, NEW se \in Seq(Words), NEW w \in Words,
         LastWord(w, rest, se)
  PROVE  LastWord(w, Tail(rest),
           IF Head(rest) \in DOMAIN WordEnded THEN Append(se, WordEnded[Head(rest)]) ELSE se)
<1> DEFINE h == Head(rest)
           r == Tail(rest)
<1>1. rest \in Seq(Tokens) /\ \A m, n \in WordEnds(rest) : m = n
  BY Rests
<1>2. h = rest[1] /\ Len(rest) \in Nat /\ Len(rest) > 0 /\ Len(r) = Len(rest) - 1
      /\ DOMAIN r = 1 .. Len(r) /\ DOMAIN rest = 1 .. Len(rest)
      /\ \A n \in 1 .. Len(r) : r[n] = rest[n + 1]
  BY <1>1, HeadTailProperties, LenProperties
<1> HIDE DEF h, r
<1>3. \A n \in WordEnds(r) : n + 1 \in WordEnds(rest) /\ n + 1 # 1
  BY <1>2 DEF WordEnds
<1>4. CASE h \in DOMAIN WordEnded
  <2>1. 1 \in WordEnds(rest)
    BY <1>2, <1>4 DEF WordEnds
  <2>2. h = Halves[w][2]
    BY <1>1, <1>2, <2>1 DEF LastWord
  <2>3. WordEnded[h] = w
    BY <2>2, WordTypes, HalvesOf
  <2>4. WordEnds(r) = {}
    BY <1>1, <1>3, <2>1
  <2>5. Append(se, w) # <<>> /\ Last(Append(se, w)) = w
    BY AppendProperties DEF Last
  <2> QED
    BY <1>4, <2>3, <2>4, <2>5 DEF LastWord, h, r
<1>5. CASE h \notin DOMAIN WordEnded
  <2>1. CASE WordEnds(rest) # {}
    <3>1. PICK n \in WordEnds(rest) : rest[n] = Halves[w][2]
      BY <2>1 DEF LastWord
    <3>2. n # 1 /\ n \in 1 .. Len(rest)
      BY <1>2, <1>5 DEF WordEnds
    <3>3. n - 1 \in 1 .. Len(r) /\ (n - 1) + 1 = n
      BY <1>2, <3>2
    <3>4. r[n - 1] = rest[n]
      BY <1>2, <3>3
    <3>5. n - 1 \in WordEnds(r)
      BY <1>2, <3>3, <3>4 DEF WordEnds
    <3> QED
      BY <1>5, <3>1, <3>4, <3>5 DEF LastWord, h, r
  <2>2. CASE WordEnds(rest) = {}
    <3>1. WordEnds(r) = {}
      BY <1>3, <2>2
    <3> QED
      BY <1>5, <2>2, <3>1 DEF LastWord, h, r
  <2> QED
    BY <2>1, <2>2
<1> QED
  BY <1>4, <1>5

\* The last word, and where its frame is, or what it has done.
Settled(w, rest, se, ln, rel) ==
  LastWord(w, rest, se) /\ (Coming(w, ln) \/ (Over(ln) /\ rel = w))

\* A byte of the lock that is stored leaves the last word where it is.
LEMMA EmitSync ==
  ASSUME TypeOK, Rest # <<>>, Emit(Head(Rest)), Rest' = Tail(Rest), synced', UNCHANGED bridgeVars,
         NEW w \in Words, Settled(w, Rest, sent, Line, relay)
  PROVE  Settled(w, Rest', sent', Line', relay')
<1>1. Rest \in SubFrames /\ Got \in Seq(Tokens) /\ Rest \in Seq(Tokens) /\ sent \in Seq(Words)
  BY GotTypes DEF TypeOK, Rest
<1>2. Head(Rest) \in Tokens /\ HasRoom
  BY <1>1, Rests DEF Emit
<1>3. Got' = Append(Got, Head(Rest))
  BY <1>2, EmitGot
<1>4. Line' = Line
  BY <1>1, <1>3, MovesOn DEF Line
<1>5. LastWord(w, Rest', sent')
  BY <1>1, LastMoves DEF Emit, Settled
<1> QED
  BY <1>4, <1>5 DEF Settled, bridgeVars

\* Steps that move no byte and leave the relay alone keep SyncInv.
LEMMA SameSync ==
  ASSUME SyncInv, synced' => synced, Line' = Line, Rest' = Rest,
         UNCHANGED <<irq, out, sent, relay>>
  PROVE  SyncInv'
BY DEF SyncInv

\* A frame is begun at the end of another one, or when the Wemos waits for none.
LEMMA BeginSync ==
  ASSUME TypeOK, NEW w \in Words, FrameBoundary, Rest' = Frame[w], UNCHANGED <<rx, bridgeVars>>
  PROVE  Settled(w, Rest', sent', Line', relay')
<1>1. Got \in Seq(Tokens) /\ Got' = Got /\ rx \in Seq(Tokens) /\ Reading \in Seq(Tokens)
  BY GotTypes DEF Got, Reading, bridgeVars
<1>2. Got = <<>> \/ Got[Len(Got)] = ":"
  <2>1. CASE rx = <<>>
    <3>1. Reading = <<>>
      BY <2>1 DEF FrameBoundary, Reading
    <3> QED
      BY <2>1, <3>1, ConcatEmptySeq, EmptySeq DEF Got
  <2>2. CASE rx # <<>>
    <3>1. rx[Len(rx)] = ":" /\ Len(rx) \in Nat /\ Len(rx) > 0
      BY <1>1, <2>2, EmptySeq DEF FrameBoundary, Last
    <3>2. /\ Len(Got) = Len(Reading) + Len(rx)
          /\ \A n \in 1 .. Len(rx) : Got[n + Len(Reading)] = rx[n]
      BY <1>1, Cat DEF Got
    <3>3. Len(rx) \in 1 .. Len(rx) /\ Len(Reading) \in Nat
      BY <1>1, <3>1
    <3>4. Got[Len(rx) + Len(Reading)] = ":"
      BY <3>1, <3>2, <3>3
    <3>5. Len(rx) + Len(Reading) = Len(Got)
      BY <3>1, <3>2, <3>3
    <3> QED
      BY <3>4, <3>5
  <2> QED
    BY <2>1, <2>2
<1>3. Coming(w, Line')
  BY <1>1, <1>2, ComingNow DEF Line
<1>4. LastWord(w, Frame[w], sent')
  <2>1. 4 \in WordEnds(Frame[w]) /\ Frame[w][4] = Halves[w][2]
    <3>1. CASE w = "open"
      BY <3>1, Frames, HalvesOf, WordTypes DEF WordEnds
    <3>2. CASE w = "close"
      BY <3>2, Frames, HalvesOf, WordTypes DEF WordEnds
    <3> QED
      BY <3>1, <3>2, HalvesOf
  <2> QED
    BY <2>1 DEF LastWord
<1> QED
  BY <1>3, <1>4 DEF Settled

\* Other frames have nothing of the topic in them.
LEMMA OtherFrames ==
  ASSUME NEW k \in DOMAIN Frame, k \notin Words
  PROVE  Over(Frame[k]) /\ WordEnds(Frame[k]) = {}
<1>1. k = "nums" \/ k = "debug" \/ k = "plain"
  BY Frames, HalvesOf
<1>2. DOMAIN Frame[k] \subseteq {1, 2, 3, 4}
  BY <1>1, Frames
<1>3. \A n \in DOMAIN Frame[k] : Frame[k][n] \notin {"sta", "en", "se"}
  BY <1>1, <1>2, Frames
<1> QED
  BY <1>3, WordTypes DEF Over, WordEnds

\* The bytes of the lock keep SyncInv,
LEMMA SenderSync ==
  ASSUME TypeOK, SendInv, SyncInv, Sender
  PROVE  SyncInv'
<1>1. CASE MainEmit
  <2>1. irq = "off" /\ irq' = "off" /\ Rest = out /\ Rest' = Tail(out) /\ Rest # <<>>
        /\ Emit(Head(Rest)) /\ UNCHANGED bridgeVars
    BY <1>1 DEF MainEmit, Rest
  <2>2. SUFFICES ASSUME synced' PROVE \E w \in Words : Settled(w, Rest', sent', Line', relay')
    BY <2>1, <2>2 DEF SyncInv, Settled
  <2>3. synced
    BY <2>1, <2>2 DEF Emit
  <2>4. PICK w \in Words : Settled(w, Rest, sent, Line, relay)
    BY <2>3 DEF SyncInv, Settled
  <2> QED
    BY <2>1, <2>2, <2>4, EmitSync
<1>2. CASE PressSend
  <2>1. irq = "pause" /\ irq' = "send" /\ Rest' = Frame["close"] /\ out' = out
        /\ UNCHANGED <<rx, bridgeVars>> /\ SendBegins("close")
    BY <1>2 DEF PressSend, Rest
  <2>2. synced' = (FrameBoundary /\ out = <<>>) /\ "close" \in Words
    BY <2>1 DEF SendBegins, Words
  <2>3. SUFFICES ASSUME synced' PROVE out' = <<>> /\ \E w \in Words : Settled(w, Rest', sent', Line', relay')
    BY <2>3 DEF SyncInv, Settled
  <2>4. Settled("close", Rest', sent', Line', relay')
    BY <2>1, <2>2, <2>3, BeginSync
  <2> QED
    BY <2>1, <2>2, <2>3, <2>4
<1>3. CASE PressEmit
  <2>1. irq = "send" /\ Rest = iout /\ Rest # <<>> /\ Emit(Head(Rest)) /\ UNCHANGED bridgeVars
        /\ out' = out /\ iout' = Tail(iout) /\ irq' = (IF Tail(iout) = <<>> THEN "off" ELSE "send")
    BY <1>3 DEF PressEmit, Rest, SendInv
  <2>2. SUFFICES ASSUME synced'
                 PROVE out' = <<>> /\ \E w \in Words : Settled(w, Rest', sent', Line', relay')
    BY <2>2 DEF SyncInv, Settled
  <2>3. synced
    BY <2>1, <2>2 DEF Emit
  <2>4. out = <<>>
    BY <2>1, <2>3 DEF SyncInv
  <2>5. Rest' = Tail(Rest)
    BY <2>1, <2>4 DEF Rest
  <2>6. PICK w \in Words : Settled(w, Rest, sent, Line, relay)
    BY <2>3 DEF SyncInv, Settled
  <2>7. Settled(w, Rest', sent', Line', relay')
    BY <2>1, <2>2, <2>5, <2>6, EmitSync
  <2> QED
    BY <2>1, <2>4, <2>7
<1> QED
  BY <1>1, <1>2, <1>3 DEF Sender

\* The frame of the word, when loop has it, switches the relay.
LEMMA WordMeant ==
  ASSUME TypeOK, NEW w \in Words, IsWord(w, part), Switch
  PROVE  relay' = w
<1> DEFINE S == Tokens \cup {"op", "en", "clo", "se"}
<1>1. part \in Seq(S)
  <2>1. part \in Seq(Tokens) /\ Tokens \subseteq S
    BY GotTypes
  <2> HIDE DEF S
  <2> QED
    BY <2>1, SeqMonotonic
<1>2. Halves[w] \in Seq(S) /\ Len(Halves[w]) = 2
  <2>1. CASE w = "open"
    BY <2>1, HalvesOf
  <2>2. CASE w = "close"
    BY <2>2, HalvesOf
  <2> QED
    BY <2>1, <2>2, HalvesOf
<1> HIDE DEF S
<1>3. OnTopic /\ Message = Halves[w]
  <2>1. Len(part) = 4 /\ part[1] = "sta" /\ part[2] = "te"
        /\ part[3] = Halves[w][1] /\ part[4] = Halves[w][2]
    BY DEF IsWord
  <2>2. OnTopic
    BY <2>1 DEF OnTopic
  <2>3. \A i \in 3 .. 4 : part[i] \in S
    <3>1. \A i \in 1 .. Len(part) : part[i] \in S
      BY <1>1, ElementOfSeq
    <3>2. \A i \in 3 .. 4 : i \in 1 .. 4
      OBVIOUS
    <3> QED
      BY <2>1, <3>1, <3>2
  <2>4. /\ SubSeq(part, 3, 4) \in Seq(S) /\ Len(SubSeq(part, 3, 4)) = 2
        /\ \A i \in 1 .. 2 : SubSeq(part, 3, 4)[i] = part[3 + i - 1]
    BY <2>3, SubSeqProperties
  <2> DEFINE mess == SubSeq(part, 3, 4)
  <2> HIDE DEF mess
  <2>5. mess[1] = part[3] /\ mess[2] = part[4]
    <3>1. 1 \in 1 .. 2 /\ 2 \in 1 .. 2 /\ 3 + 1 - 1 = 3 /\ 3 + 2 - 1 = 4
      OBVIOUS
    <3>2. \A i \in 1 .. 2 : mess[i] = part[3 + i - 1]
      BY <2>4 DEF mess
    <3>3. mess[1] = part[3 + 1 - 1] /\ mess[2] = part[3 + 2 - 1]
      BY <3>1, <3>2
    <3> QED
      BY <3>1, <3>3
  <2>6. mess \in Seq(S) /\ Len(mess) = 2
    BY <2>4 DEF mess
  <2>7. \A i \in 1 .. Len(mess) : mess[i] = Halves[w][i]
    <3>1. \A i \in 1 .. 2 : i = 1 \/ i = 2
      OBVIOUS
    <3> QED
      BY <2>1, <2>5, <2>6, <3>1
  <2>8. mess = Halves[w]
    BY <1>2, <2>6, <2>7, SeqEqual
  <2> QED
    BY <2>1, <2>2, <2>8 DEF Message, mess
<1>4. Means(w)
  BY <1>3 DEF Means, IsPrefix
<1>5. ASSUME NEW v \in Words, Means(v) PROVE v = w
  <2> DEFINE Parts == {"op", "en", "clo", "se"}
  <2>1. /\ Halves[v] \in Seq(Parts) /\ Len(Halves[v]) = 2
        /\ Halves[w] \in Seq(Parts) /\ Len(Halves[w]) = 2
    <3>1. CASE v = "open" /\ w = "open"
      BY <3>1, HalvesOf
    <3>2. CASE v = "open" /\ w = "close"
      BY <3>2, HalvesOf
    <3>3. CASE v = "close" /\ w = "open"
      BY <3>3, HalvesOf
    <3>4. CASE v = "close" /\ w = "close"
      BY <3>4, HalvesOf
    <3> QED
      BY <3>1, <3>2, <3>3, <3>4, HalvesOf
  <2> HIDE DEF Parts
  <2>2. SubSeq(Halves[v], 1, Len(Halves[v])) = Halves[v] /\ SubSeq(Halves[w], 1, Len(Halves[w])) = Halves[w]
    BY <2>1, SubSeqFull
  <2>3. Halves[v] = Halves[w]
    BY <1>3, <1>5, <2>1, <2>2 DEF Means, IsPrefix
  <2>4. Halves["open"][1] # Halves["close"][1]
    BY HalvesOf
  <2> QED
    BY <2>3, <2>4, HalvesOf
<1>6. (CHOOSE v \in Words : Means(v)) = w
  BY <1>4, <1>5
<1> QED
  BY <1>3, <1>4, <1>6 DEF Switch

\* What loop has read is in front of the ':' it serves, and is gone after it.
LEMMA ServeLine ==
  ASSUME TypeOK, ServeFrame
  PROVE  /\ Tail(rx) \o Rest \in Seq(Tokens)
         /\ Line = (part \o <<":">>) \o (Tail(rx) \o Rest)
         /\ Line' = Tail(rx) \o Rest
<1>1. wpc = "read" /\ rx # <<>> /\ Head(rx) = ":" /\ wpc' = "connect" /\ rx' = Tail(rx)
      /\ UNCHANGED lockVars
  BY DEF ServeFrame, lockSide
<1>2. part \in Seq(Tokens) /\ rx \in Seq(Tokens) /\ Rest \in Seq(Tokens)
  BY GotTypes
<1>3. Tail(rx) \in Seq(Tokens) /\ ":" \in Tokens
  BY <1>1, <1>2, HeadTailProperties, ColonToken
<1>4. Tail(rx) \o Rest \in Seq(Tokens)
  BY <1>2, <1>3, Cat
<1>5. Line' = Tail(rx) \o Rest
  <2>1. Rest' = Rest
    BY <1>1 DEF Rest, lockVars
  <2>2. Reading' = <<>> /\ <<>> \o Tail(rx) = Tail(rx)
    BY <1>1, <1>3, ConcatEmptySeq DEF Reading
  <2> QED
    BY <1>1, <2>1, <2>2 DEF Line, Got
<1>6. Line = (part \o <<":">>) \o (Tail(rx) \o Rest)
  <2>1. Append(part, Head(rx)) \o Tail(rx) = Got
    BY <1>1, ReadGot
  <2>2. Append(part, ":") = part \o <<":">> /\ part \o <<":">> \in Seq(Tokens)
    BY <1>2, <1>3, AppendIsConcat, AppendProperties
  <2> DEFINE a == part \o <<":">>
             b == Tail(rx)
             c == Rest
  <2>3. a \in Seq(Tokens) /\ b \in Seq(Tokens) /\ c \in Seq(Tokens)
    BY <1>2, <1>3, <2>2
  <2>4. Line = (a \o b) \o c
    BY <1>1, <2>1, <2>2 DEF Line
  <2> HIDE DEF a, b, c
  <2>5. (a \o b) \o c = a \o (b \o c)
    BY <2>3, ConcatAssociative, SMTT(30)
  <2> QED
    BY <2>4, <2>5 DEF a, b, c
<1> QED
  BY <1>4, <1>5, <1>6

\* When it gives up, all that is left of the line is what it has read.
LEMMA DryLine ==
  ASSUME TypeOK, Dry, Rest = <<>>
  PROVE  Line = part /\ Line' = <<>>
<1>1. wpc = "read" /\ rx = <<>> /\ rx' = <<>> /\ wpc' = "connect" /\ UNCHANGED lockVars
  BY DEF Dry, lockSide
<1>2. part \in Seq(Tokens)
  BY GotTypes
<1>3. Got = part
  BY <1>1, <1>2, ConcatEmptySeq DEF Got, Reading
<1>4. Line = part
  BY <1>2, <1>3, ConcatEmptySeq DEF Line
<1>5. Rest' = <<>> /\ Reading' = <<>>
  BY <1>1 DEF Rest, lockVars, Reading
<1>6. <<>> \o <<>> = <<>>
  BY ConcatEmptySeq, EmptySeq
<1> QED
  BY <1>1, <1>4, <1>5, <1>6 DEF Line, Got

\* so does the frame that loop has read up to its ':': it is the last word's and switches
\* the relay, or is in front of it, or behind it and of another topic,
LEMMA ServeSync ==
  ASSUME TypeOK, SyncInv, ServeFrame
  PROVE  SyncInv'
<1>1. wpc = "read" /\ rx # <<>> /\ Head(rx) = ":" /\ wpc' = "connect" /\ rx' = Tail(rx)
      /\ UNCHANGED <<lockVars, sent, synced>> /\ Switch
  BY DEF ServeFrame, lockSide
<1>2. SUFFICES ASSUME synced PROVE SyncInv'
  BY <1>1 DEF SyncInv
<1>3. PICK w \in Words : Settled(w, Rest, sent, Line, relay)
  BY <1>2 DEF SyncInv, Settled
<1>4. (irq # "off" => out = <<>>)
  BY <1>2 DEF SyncInv
<1> DEFINE t == Tail(rx) \o Rest
<1>5. part \in Seq(Tokens) /\ part \in Seq(Tokens \ {":"}) /\ rx \in Seq(Tokens) /\ Rest \in Seq(Tokens)
      /\ Tail(rx) \in Seq(Tokens) /\ ":" \in Tokens
  <2>1. rx \in Seq(Tokens) /\ part \in Seq(Tokens) /\ Rest \in Seq(Tokens)
    BY GotTypes
  <2>2. Tail(rx) \in Seq(Tokens) /\ Head(rx) \in Tokens
    BY <1>1, <2>1, HeadTailProperties
  <2> QED
    BY <1>1, <2>1, <2>2 DEF TypeOK
<1>6. t \in Seq(Tokens) /\ Line = (part \o <<":">>) \o t /\ Line' = t
  BY ServeLine
<1>7. Rest' = Rest
  BY <1>1 DEF Rest, lockVars
<1> HIDE DEF t
<1>9. LastWord(w, Rest', sent')
  BY <1>1, <1>3, <1>7 DEF Settled
<1>10. CASE Coming(w, Line)
  <2>1. Coming(w, t) \/ (Over(t) /\ IsWord(w, part))
    BY <1>5, <1>6, <1>10, ComingAfter
  <2>2. CASE Coming(w, t)
    BY <1>1, <1>4, <1>6, <1>9, <2>2 DEF SyncInv, lockVars
  <2>3. CASE Over(t) /\ IsWord(w, part)
    <3>1. relay' = w
      BY <1>1, <2>3, WordMeant
    <3> QED
      BY <1>1, <1>4, <1>6, <1>9, <2>3, <3>1 DEF SyncInv, lockVars
  <2> QED
    BY <2>1, <2>2, <2>3
<1>11. CASE Over(Line) /\ relay = w
  <2> DEFINE a == part \o <<":">>
  <2>1. a \in Seq(Tokens) /\ Len(a) = Len(part) + 1 /\ Len(part) \in Nat
        /\ \A n \in 1 .. Len(part) : a[n] = part[n]
    <3>1. a = Append(part, ":")
      BY <1>5, AppendIsConcat
    <3> QED
      BY <1>5, <3>1, AppendProperties
  <2> HIDE DEF a
  <2>2. /\ DOMAIN Line = 1 .. Len(a) + Len(t) /\ Len(t) \in Nat /\ DOMAIN t = 1 .. Len(t)
        /\ \A n \in 1 .. Len(a) : Line[n] = a[n]
        /\ \A n \in 1 .. Len(t) : Line[n + Len(a)] = t[n]
    <3> DEFINE u == a \o t
    <3>0. a \in Seq(Tokens)
      BY <2>1
    <3>1. /\ DOMAIN u = 1 .. Len(a) + Len(t) /\ Len(t) \in Nat /\ DOMAIN t = 1 .. Len(t)
          /\ \A n \in 1 .. Len(a) : u[n] = a[n]
          /\ \A n \in 1 .. Len(t) : u[n + Len(a)] = t[n]
      BY <1>6, <3>0, Cat
    <3> HIDE DEF u
    <3>2. Line = u
      BY <1>6 DEF u, a
    <3> QED
      BY <3>1, <3>2
  <2>3. Over(t)
    <3>1. ASSUME NEW n \in DOMAIN t PROVE t[n] # "sta"
      <4>1. n + Len(a) \in DOMAIN Line /\ Line[n + Len(a)] = t[n]
        <5>1. Len(a) \in Nat
          BY <2>1
        <5> QED
          BY <2>2, <5>1
      <4> QED
        BY <1>11, <4>1 DEF Over
    <3> QED
      BY <3>1 DEF Over
  <2>4. ~OnTopic
    <3>1. ASSUME OnTopic PROVE FALSE
      <4>1. 1 \in 1 .. Len(part) /\ part[1] = "sta"
        BY <2>1, <3>1 DEF OnTopic
      <4>2. 1 \in DOMAIN Line /\ Line[1] = part[1]
        BY <2>1, <2>2, <4>1
      <4> QED
        BY <1>11, <4>1, <4>2 DEF Over
    <3> QED
      BY <3>1
  <2>5. relay' = relay
    BY <1>1, <2>4 DEF Switch
  <2> QED
    BY <1>1, <1>4, <1>6, <1>9, <1>11, <2>3, <2>5 DEF SyncInv, lockVars
<1> QED
  BY <1>3, <1>10, <1>11 DEF Settled

\* A frame without its ':' is not that of a word in time.
LEMMA DrySync ==
  ASSUME TypeOK, SyncInv, Dry
  PROVE  SyncInv'
<1>1. /\ wpc = "read" /\ rx = <<>> /\ rx' = <<>> /\ Silent /\ wpc' = "connect"
      /\ UNCHANGED <<lockVars, sent, synced, relay>>
  BY DEF Dry, lockSide
<1>2. SUFFICES ASSUME synced PROVE SyncInv'
  BY <1>1 DEF SyncInv
<1>3. PICK w \in Words : Settled(w, Rest, sent, Line, relay)
  BY <1>2 DEF SyncInv, Settled
<1>4. Rest = <<>> /\ out = <<>>
  BY <1>1, <1>2 DEF SyncInv, Silent, Rest
<1>5. part \in Seq(Tokens) /\ part \in Seq(Tokens \ {":"})
  BY GotTypes DEF TypeOK
<1>6. Line = part /\ Line' = <<>>
  BY <1>4, DryLine
<1>7. ~Coming(w, Line)
  <2>1. ASSUME NEW p \in DOMAIN part, p + 4 <= Len(part), part[p + 4] = ":" PROVE FALSE
    <3>1. p + 4 \in 1 .. Len(part)
      BY <1>5, <2>1
    <3>2. part[p + 4] \in Tokens \ {":"}
      BY <1>5, <3>1, ElementOfSeq
    <3> QED
      BY <2>1, <3>2
  <2> QED
    BY <1>6, <2>1 DEF Coming
<1>8. relay = w /\ LastWord(w, Rest, sent)
  BY <1>3, <1>7 DEF Settled
<1>9. Rest' = Rest
  BY <1>1 DEF Rest, lockVars
<1>10. Over(<<>>)
  BY DEF Over
<1> QED
  BY <1>1, <1>4, <1>6, <1>8, <1>9, <1>10 DEF SyncInv, lockVars

\* so do the other steps of the bridge: a command of the phone ends synced,
LEMMA WemosSync ==
  ASSUME TypeOK, SyncInv, Wemos
  PROVE  SyncInv'
<1>1. CASE Subscribe
  BY <1>1, SameSync DEF Subscribe, lockSide, lockVars, Line, Got, Reading, Rest
<1>2. CASE Connect
  BY <1>2, SameSync DEF Connect, lockSide, lockVars, Line, Got, Reading, Rest
<1>3. CASE ClientLoop
  <2>1. Reading = <<>> /\ Reading' = <<>> /\ UNCHANGED <<rx, lockSide>>
    BY <1>3 DEF ClientLoop, Begun, Reading
  <2>2. CASE inbox = <<>>
    <3>1. UNCHANGED <<relay, synced>>
      BY <1>3, <2>2 DEF ClientLoop, Callback
    <3> QED
      BY <2>1, <3>1, SameSync DEF lockSide, lockVars, Line, Got, Rest
  <2>3. CASE inbox # <<>>
    <3>1. synced' = FALSE
      BY <1>3, <2>3 DEF ClientLoop, Callback
    <3> QED
      BY <3>1 DEF SyncInv
  <2> QED
    BY <2>2, <2>3
<1>4. CASE ReadToken
  <2>1. wpc = "read" /\ wpc' = "read" /\ rx # <<>> /\ part' = Append(part, Head(rx))
        /\ rx' = Tail(rx) /\ UNCHANGED <<lockSide, relay, synced>>
    BY <1>4 DEF ReadToken
  <2>2. Got' = Got
    BY <2>1, ReadGot DEF Got, Reading
  <2> QED
    BY <2>1, <2>2, SameSync DEF lockSide, lockVars, Line, Rest
<1> QED
  BY <1>1, <1>2, <1>3, <1>4, ServeSync, DrySync DEF Wemos

\* and so do frames that are begun, presses, outages and commands.
LEMMA EnvSync ==
  ASSUME TypeOK, SendInv, SyncInv, Env
  PROVE  SyncInv'
<1>1. ASSUME NEW k \in Kinds, BeginFrame(k) PROVE SyncInv'
  <2>1. /\ irq = "off" /\ irq' = "off" /\ out = <<>> /\ Rest = <<>> /\ Rest' = Frame[k]
        /\ UNCHANGED <<rx, sent, bridgeVars>> /\ SendBegins(k) /\ k \in DOMAIN Frame
    BY <1>1, BridgeConstants DEF BeginFrame, Rest
  <2>2. CASE k \in Words
    <3>1. SUFFICES ASSUME synced' PROVE \E w \in Words : Settled(w, Rest', sent', Line', relay')
      BY <2>1, <3>1 DEF SyncInv, Settled
    <3>2. FrameBoundary
      BY <2>1, <2>2, <3>1 DEF SendBegins
    <3> QED
      BY <2>1, <2>2, <3>2, BeginSync
  <2>3. CASE k \notin Words
    <3>1. SUFFICES ASSUME synced' PROVE \E w \in Words : Settled(w, Rest', sent', Line', relay')
      BY <2>1, <3>1 DEF SyncInv, Settled
    <3>2. synced
      BY <2>1, <2>3, <3>1 DEF SendBegins
    <3>3. PICK w \in Words : Settled(w, Rest, sent, Line, relay)
      BY <3>2 DEF SyncInv, Settled
    <3>4. Over(Frame[k]) /\ WordEnds(Frame[k]) = {} /\ Frame[k] \in Seq(Tokens)
      BY <2>1, <2>3, OtherFrames, FrameTokens
    <3>5. WordEnds(<<>>) = {}
      BY DEF WordEnds
    <3>6. LastWord(w, Rest', sent')
      BY <2>1, <3>3, <3>4, <3>5 DEF LastWord, Settled
    <3>7. Line = Got /\ Got \in Seq(Tokens)
      BY <2>1, GotTypes, ConcatEmptySeq DEF Line
    <3>8. Line' = Got \o Frame[k]
      BY <2>1 DEF Line, Got, Reading, bridgeVars
    <3>9. Coming(w, Line') \/ (Over(Line') /\ relay' = w)
      <4>1. relay' = relay
        BY <2>1 DEF bridgeVars
      <4>2. CASE Coming(w, Line)
        BY <3>4, <3>7, <3>8, <4>2, ComingBehind
      <4>3. CASE Over(Line) /\ relay = w
        BY <3>4, <3>7, <3>8, <4>1, <4>3, ComingBehind
      <4> QED
        BY <3>3, <4>2, <4>3 DEF Settled
    <3> QED
      BY <3>6, <3>9 DEF Settled
  <2> QED
    BY <2>2, <2>3
<1>2. CASE Press
  <2>1. irq = "off" /\ irq' = "pause" /\ synced' = (synced /\ out = <<>>) /\ Rest' = Rest
        /\ out' = out /\ UNCHANGED <<rx, sent, bridgeVars>>
    BY <1>2 DEF Press, Rest
  <2>2. Line' = Line /\ relay' = relay
    BY <2>1 DEF Line, Got, Reading, bridgeVars
  <2> QED
    BY <2>1, <2>2 DEF SyncInv
<1>3. CASE LinkDrop
  BY <1>3, SameSync DEF LinkDrop, lockVars, Line, Got, Reading, Rest
<1>4. ASSUME NEW w \in Words, PhoneSend(w) PROVE SyncInv'
  BY <1>4, SameSync DEF PhoneSend, lockVars, Line, Got, Reading, Rest
<1> QED
  BY <1>1, <1>2, <1>3, <1>4 DEF Env

-----------------------------------------------------------------------------
(* The words in a string of tokens *)

\* A set and another that is moved behind it.
LEMMA MovedBehind ==
  ASSUME NEW A, NEW B \in SUBSET Nat, NEW l \in Nat, IsFiniteSet(A), IsFiniteSet(B),
         NEW C, \A n \in B : n + l \in C, \A c \in C : \E n \in B : c = n + l, A \cap C = {}
  PROVE  IsFiniteSet(A \cup C) /\ Cardinality(A \cup C) = Cardinality(A) + Cardinality(B)
<1> DEFINE f == [n \in B |-> n + l]
<1>1. f \in [B -> C] /\ (\A n, k \in B : f[n] = f[k] => n = k) /\ \A c \in C : \E n \in B : f[n] = c
  OBVIOUS
<1> HIDE DEF f
<1>2. ExistsBijection(B, C)
  BY <1>1 DEF ExistsBijection, Bijection, Injection, Surjection, IsInjective
<1>3. IsFiniteSet(C) /\ Cardinality(C) = Cardinality(B)
  BY <1>2, FS_Bijection
<1>4. Cardinality(A \cap C) = 0 /\ Cardinality(A) \in Nat /\ Cardinality(B) \in Nat
  BY FS_EmptySet, FS_CardinalityType
<1> HIDE DEF f
<1>5. /\ IsFiniteSet(A \cup C)
      /\ Cardinality(A \cup C) = Cardinality(A) + Cardinality(C) - Cardinality(A \cap C)
  BY <1>3, FS_Union
<1> QED
  BY <1>3, <1>4, <1>5

\* How many of a set are up to p.
Rank(E, p) == Cardinality({q \in E : q <= p})

LEMMA RankRises ==
  ASSUME NEW E \in SUBSET Nat, IsFiniteSet(E), NEW p \in E, NEW q \in E, p < q
  PROVE  Rank(E, p) # Rank(E, q)
<1> DEFINE below == {r \in E : r <= p}
           upto == {r \in E : r <= q}
<1>1. below \in SUBSET upto /\ q \in upto /\ q \notin below /\ upto \in SUBSET E
  <2>1. p \in Nat /\ q \in Nat
    OBVIOUS
  <2>2. \A r \in E : r \in Nat /\ (r <= p => r <= q)
    BY <2>1
  <2>3. q <= q /\ ~(q <= p)
    BY <2>1
  <2> QED
    BY <2>2, <2>3
<1> HIDE DEF below, upto
<1>2. IsFiniteSet(upto)
  BY <1>1, FS_Subset
<1>3. Cardinality(below) = Cardinality(upto) => upto = below
  BY <1>1, <1>2, FS_Subset
<1> QED
  BY <1>1, <1>3 DEF Rank, below, upto

\* The ranks are the numbers up to the size of the set, each of one element.
LEMMA Ranks ==
  ASSUME NEW E \in SUBSET Nat, IsFiniteSet(E)
  PROVE  /\ Cardinality(E) \in Nat
         /\ \A p, q \in E : Rank(E, p) = Rank(E, q) => p = q
         /\ \A k \in 1 .. Cardinality(E) : \E p \in E : Rank(E, p) = k
<1> DEFINE c == Cardinality(E)
           f == [p \in E |-> Rank(E, p)]
<1>1. c \in Nat
  BY FS_CardinalityType
<1>2. ASSUME NEW p \in E, NEW q \in E, Rank(E, p) = Rank(E, q) PROVE p = q
  <2>1. p \in Nat /\ q \in Nat
    OBVIOUS
  <2>2. ~(p < q) /\ ~(q < p)
    BY <1>2, RankRises
  <2> QED
    BY <2>1, <2>2
<1>3. ASSUME NEW p \in E PROVE Rank(E, p) \in 1 .. c
  <2> DEFINE upto == {r \in E : r <= p}
  <2>1. upto \in SUBSET E /\ p \in upto
    OBVIOUS
  <2> HIDE DEF upto
  <2>2. IsFiniteSet(upto) /\ Cardinality(upto) <= c /\ Cardinality(upto) \in Nat
    BY <2>1, FS_Subset, FS_CardinalityType
  <2>3. Cardinality(upto) # 0
    BY <2>1, <2>2, FS_EmptySet
  <2>4. Cardinality(upto) \in 1 .. c
    BY <1>1, <2>2, <2>3
  <2> QED
    BY <2>4 DEF Rank, upto
<1> DEFINE ns == 1 .. c
<1>4. IsFiniteSet(ns) /\ Cardinality(ns) = c
  BY <1>1, FS_Interval
<1>5. f \in [E -> ns] /\ \A p \in E : f[p] = Rank(E, p)
  BY <1>3
<1> HIDE DEF f, c, ns
<1>6. f \in Injection(E, ns)
  BY <1>2, <1>5 DEF Injection, IsInjective
<1>7. f \in Surjection(E, ns)
  BY <1>4, <1>6, FS_Injection DEF c
<1>8. \A k \in ns : \E p \in E : f[p] = k
  BY <1>7 DEF Surjection
<1> QED
  BY <1>1, <1>2, <1>5, <1>8 DEF ns, c

\* The places where words end are finitely many.
LEMMA EndsOf ==
  ASSUME NEW s \in Seq(Tokens)
  PROVE  /\ WordEnds(s) \in SUBSET Nat /\ IsFiniteSet(WordEnds(s))
         /\ Cardinality(WordEnds(s)) \in Nat /\ \A n \in WordEnds(s) : n \in 1 .. Len(s)
<1>1. Len(s) \in Nat /\ DOMAIN s = 1 .. Len(s)
  OBVIOUS
<1>2. WordEnds(s) \in SUBSET (1 .. Len(s))
  BY <1>1 DEF WordEnds
<1>3. IsFiniteSet(1 .. Len(s))
  BY <1>1, FS_Interval
<1>4. IsFiniteSet(WordEnds(s))
  BY <1>2, <1>3, FS_Subset
<1>5. \A n \in 1 .. Len(s) : n \in Nat
  BY <1>1
<1> QED
  BY <1>2, <1>4, <1>5, FS_CardinalityType

\* The place of rank k is the k-th.
LEMMA EndAt ==
  ASSUME NEW s \in Seq(Tokens), NEW n \in WordEnds(s), NEW k, Rank(WordEnds(s), n) = k
  PROVE  EndOf(s, k) = n
<1> DEFINE E == WordEnds(s)
<1>1. E \in SUBSET Nat /\ IsFiniteSet(E) /\ n \in E
  BY EndsOf
<1> HIDE DEF E
<1>2. \A p \in E : Rank(E, p) = k => p = n
  BY <1>1, Ranks DEF E
<1>3. EndOf(s, k) = CHOOSE p \in E : Rank(E, p) = k
  BY DEF EndOf, Rank, E
<1> QED
  BY <1>1, <1>2, <1>3 DEF E

LEMMA EndExists ==
  ASSUME NEW s \in Seq(Tokens), NEW k \in 1 .. Cardinality(WordEnds(s))
  PROVE  EndOf(s, k) \in WordEnds(s) /\ Rank(WordEnds(s), EndOf(s, k)) = k
<1>1. PICK n \in WordEnds(s) : Rank(WordEnds(s), n) = k
  BY EndsOf, Ranks
<1>2. EndOf(s, k) = n
  BY <1>1, EndAt
<1> QED
  BY <1>1, <1>2

\* They are words.
LEMMA WordsInType ==
  ASSUME NEW s \in Seq(Tokens)
  PROVE  /\ WordsIn(s) \in Seq(Words) /\ Len(WordsIn(s)) = Cardinality(WordEnds(s))
         /\ \A k \in 1 .. Cardinality(WordEnds(s)) : WordsIn(s)[k] = WordEnded[s[EndOf(s, k)]]
<1> DEFINE c == Cardinality(WordEnds(s))
<1>1. c \in Nat
  BY EndsOf
<1>2. ASSUME NEW k \in 1 .. c PROVE WordEnded[s[EndOf(s, k)]] \in Words
  <2>1. s[EndOf(s, k)] \in DOMAIN WordEnded
    BY EndExists DEF WordEnds
  <2> QED
    BY <2>1, WordTypes
<1>3. WordsIn(s) = [k \in 1 .. c |-> WordEnded[s[EndOf(s, k)]]]
  BY DEF WordsIn
<1> DEFINE g(k) == WordEnded[s[EndOf(s, k)]]
<1> HIDE DEF c, g
<1>4. WordsIn(s) = [k \in 1 .. c |-> g(k)] /\ \A k \in 1 .. c : g(k) \in Words
  BY <1>2, <1>3 DEF g
<1>5. WordsIn(s) \in Seq(Words) /\ Len(WordsIn(s)) = c /\ \A k \in 1 .. c : WordsIn(s)[k] = g(k)
  BY <1>1, <1>4
<1> QED
  BY <1>5 DEF c, g

\* The words of two strings, one behind the other, are the words of the one and then
\* those of the other.
LEMMA WordsJoined ==
  ASSUME NEW s \in Seq(Tokens), NEW t \in Seq(Tokens), NEW u, u = s \o t
  PROVE  WordsIn(u) = WordsIn(s) \o WordsIn(t)
<1> DEFINE A == WordEnds(s)
           B == WordEnds(t)
           E == WordEnds(u)
           l == Len(s)
           c == Cardinality(A)
           d == Cardinality(B)
           C == {n + l : n \in B}
<1>1. /\ u \in Seq(Tokens) /\ DOMAIN u = 1 .. l + Len(t) /\ DOMAIN s = 1 .. l /\ DOMAIN t = 1 .. Len(t)
      /\ l \in Nat /\ Len(t) \in Nat
      /\ (\A n \in 1 .. l : u[n] = s[n]) /\ \A n \in 1 .. Len(t) : u[n + l] = t[n]
  BY Cat
<1>2. /\ A \in SUBSET Nat /\ IsFiniteSet(A) /\ c \in Nat /\ \A n \in A : n \in 1 .. l
      /\ B \in SUBSET Nat /\ IsFiniteSet(B) /\ d \in Nat /\ \A n \in B : n \in 1 .. Len(t)
      /\ E \in SUBSET Nat /\ IsFiniteSet(E) /\ Cardinality(E) \in Nat
  BY <1>1, EndsOf
<1>3. (\A n \in A : n \in E /\ u[n] = s[n]) /\ \A n \in B : n + l \in E /\ u[n + l] = t[n]
  <2>1. ASSUME NEW n \in A PROVE n \in E /\ u[n] = s[n]
    <3>1. n \in 1 .. l /\ n \in 1 .. l + Len(t)
      BY <1>1, <1>2
    <3> QED
      BY <1>1, <3>1 DEF WordEnds
  <2>2. ASSUME NEW n \in B PROVE n + l \in E /\ u[n + l] = t[n]
    <3>1. n \in 1 .. Len(t) /\ n + l \in 1 .. l + Len(t)
      BY <1>1, <1>2
    <3> QED
      BY <1>1, <3>1 DEF WordEnds
  <2> QED
    BY <2>1, <2>2
<1>4. \A m \in E : m \in A \/ m \in C
  <2>1. ASSUME NEW m \in E PROVE m \in A \/ m \in C
    <3>1. m \in 1 .. l + Len(t) /\ u[m] \in DOMAIN WordEnded
      BY <1>1 DEF WordEnds
    <3>2. CASE m <= l
      <4>1. m \in 1 .. l
        BY <1>1, <3>1, <3>2
      <4> QED
        BY <1>1, <3>1, <4>1 DEF WordEnds
    <3>3. CASE m > l
      <4> DEFINE n == m - l
      <4>1. n \in 1 .. Len(t) /\ n + l = m
        BY <1>1, <3>1, <3>3
      <4> HIDE DEF n
      <4>2. n \in B
        BY <1>1, <3>1, <4>1 DEF WordEnds
      <4> QED
        BY <4>1, <4>2
    <3> QED
      BY <1>1, <3>1, <3>2, <3>3
  <2> QED
    BY <2>1
<1>5. E = A \cup C
  BY <1>3, <1>4
<1> HIDE DEF A, B, E, l, c, d
<1>6. \A n \in B : n + l > l /\ n \in Nat /\ n >= 1
  BY <1>1, <1>2
<1>7. Cardinality(E) = c + d
  <2>1. A \cap C = {}
    BY <1>1, <1>2, <1>6
  <2>2. (\A n \in B : n + l \in C) /\ \A m \in C : \E n \in B : m = n + l
    OBVIOUS
  <2> HIDE DEF C
  <2>3. B \in SUBSET Nat /\ l \in Nat /\ IsFiniteSet(A) /\ IsFiniteSet(B)
    BY <1>1, <1>2
  <2>4. Cardinality(A \cup C) = Cardinality(A) + Cardinality(B)
    BY <2>1, <2>2, <2>3, MovedBehind, ZenonT(60)
  <2> QED
    BY <1>5, <2>4 DEF c, d
<1>8. ASSUME NEW n \in A PROVE Rank(E, n) = Rank(A, n)
  <2>1. {m \in E : m <= n} = {m \in A : m <= n}
    BY <1>1, <1>2, <1>5, <1>6
  <2> QED
    BY <2>1 DEF Rank
<1>9. ASSUME NEW n \in B PROVE Rank(E, n + l) = c + Rank(B, n)
  <2> DEFINE below == {m \in B : m <= n}
             D == {m + l : m \in below}
             upto == {m \in E : m <= n + l}
  <2>1. below \in SUBSET Nat /\ IsFiniteSet(below)
    <3>1. below \in SUBSET B
      OBVIOUS
    <3> QED
      BY <1>2, <3>1, FS_Subset
  <2>2. upto = A \cup D
    <3>1. \A m \in A : m \in E /\ m <= n + l
      BY <1>1, <1>2, <1>3, <1>6
    <3>2. \A m \in below : m + l \in E /\ m + l <= n + l
      BY <1>1, <1>2, <1>3, <1>6
    <3>3. ASSUME NEW m \in E, m <= n + l PROVE m \in A \/ m \in D
      <4>1. CASE m \in A
        BY <4>1
      <4>2. CASE m \in C
        <5>1. PICK p \in B : m = p + l
          BY <4>2
        <5>2. p <= n
          BY <1>1, <1>6, <3>3, <5>1
        <5> QED
          BY <5>1, <5>2
      <4> QED
        BY <1>4, <4>1, <4>2
    <3> QED
      BY <3>1, <3>2, <3>3
  <2>3. A \cap D = {}
    BY <1>1, <1>2, <1>6
  <2> HIDE DEF upto, below
  <2>4. Cardinality(A \cup D) = Cardinality(A) + Cardinality(below)
    <3>1. (\A m \in below : m + l \in D) /\ \A p \in D : \E m \in below : p = m + l
      OBVIOUS
    <3> HIDE DEF D
    <3>2. below \in SUBSET Nat /\ l \in Nat /\ IsFiniteSet(A) /\ IsFiniteSet(below)
      BY <1>1, <1>2, <2>1
    <3> QED
      BY <2>3, <3>1, <3>2, MovedBehind, ZenonT(60)
  <2> QED
    BY <2>2, <2>4 DEF Rank, upto, below, c
<1>10. /\ WordsIn(s) \in Seq(Words) /\ Len(WordsIn(s)) = c
       /\ WordsIn(t) \in Seq(Words) /\ Len(WordsIn(t)) = d
       /\ WordsIn(u) \in Seq(Words) /\ Len(WordsIn(u)) = c + d
       /\ \A k \in 1 .. c : WordsIn(s)[k] = WordEnded[s[EndOf(s, k)]]
       /\ \A k \in 1 .. d : WordsIn(t)[k] = WordEnded[t[EndOf(t, k)]]
       /\ \A k \in 1 .. c + d : WordsIn(u)[k] = WordEnded[u[EndOf(u, k)]]
  BY <1>1, <1>7, WordsInType DEF A, B, E, c, d
<1>11. ASSUME NEW k \in 1 .. c PROVE WordsIn(u)[k] = WordsIn(s)[k]
  <2> DEFINE n == EndOf(s, k)
  <2>1. n \in A /\ Rank(A, n) = k
    BY EndExists DEF A, c
  <2> HIDE DEF n
  <2>2. n \in E /\ Rank(E, n) = k /\ u[n] = s[n]
    BY <1>3, <1>8, <2>1
  <2>3. EndOf(u, k) = n
    BY <1>1, <2>2, EndAt DEF E
  <2>4. k \in 1 .. c + d
    BY <1>2
  <2>5. WordsIn(u)[k] = WordEnded[u[n]]
    BY <1>10, <2>3, <2>4
  <2>6. WordsIn(s)[k] = WordEnded[s[n]]
    BY <1>10 DEF n
  <2> QED
    BY <2>2, <2>5, <2>6
<1>12. ASSUME NEW k \in 1 .. d PROVE WordsIn(u)[k + c] = WordsIn(t)[k]
  <2> DEFINE n == EndOf(t, k)
             m == n + l
  <2>1. n \in B /\ Rank(B, n) = k
    BY EndExists DEF B, d
  <2> HIDE DEF n
  <2>2. m \in E /\ Rank(E, m) = c + k /\ u[m] = t[n] /\ c + k = k + c
    <3>1. m \in E /\ u[m] = t[n]
      BY <1>3, <2>1
    <3>2. Rank(E, m) = c + k
      BY <1>9, <2>1
    <3>3. c + k = k + c
      BY <1>2
    <3> QED
      BY <3>1, <3>2, <3>3
  <2> HIDE DEF m
  <2>3. EndOf(u, k + c) = m
    BY <1>1, <2>2, EndAt DEF E
  <2>4. k + c \in 1 .. c + d
    BY <1>2
  <2>5. WordsIn(u)[k + c] = WordEnded[u[m]]
    BY <1>10, <2>3, <2>4
  <2>6. WordsIn(t)[k] = WordEnded[t[n]]
    BY <1>10 DEF n
  <2> QED
    BY <2>2, <2>5, <2>6
<1> DEFINE v == WordsIn(s) \o WordsIn(t)
           w == WordsIn(u)
<1>13. /\ v \in Seq(Words) /\ Len(v) = c + d /\ (\A k \in 1 .. c : v[k] = WordsIn(s)[k])
       /\ \A k \in 1 .. d : v[k + c] = WordsIn(t)[k]
  <2> DEFINE x == WordsIn(s)
             y == WordsIn(t)
  <2>1. x \in Seq(Words) /\ y \in Seq(Words)
    BY <1>10
  <2> HIDE DEF x, y
  <2>2. /\ x \o y \in Seq(Words) /\ Len(x \o y) = Len(x) + Len(y)
        /\ (\A k \in 1 .. Len(x) : (x \o y)[k] = x[k]) /\ \A k \in 1 .. Len(y) : (x \o y)[k + Len(x)] = y[k]
    BY <2>1, Cat
  <2> QED
    BY <1>10, <2>2 DEF x, y
<1>14. w \in Seq(Words) /\ Len(w) = c + d /\ (\A k \in 1 .. c : w[k] = WordsIn(s)[k])
       /\ \A k \in 1 .. d : w[k + c] = WordsIn(t)[k]
  BY <1>10, <1>11, <1>12
<1> HIDE DEF v, w
<1>15. \A k \in 1 .. Len(w) : w[k] = v[k]
  <2>1. ASSUME NEW k \in 1 .. c + d PROVE w[k] = v[k]
    <3>1. CASE k <= c
      <4>1. k \in 1 .. c
        BY <1>2, <3>1
      <4> QED
        BY <1>13, <1>14, <4>1
    <3>2. CASE k > c
      <4> DEFINE j == k - c
      <4>1. j \in 1 .. d /\ j + c = k
        BY <1>2, <3>2
      <4> HIDE DEF j
      <4> QED
        BY <1>13, <1>14, <4>1
    <3> QED
      BY <1>2, <3>1, <3>2
  <2> QED
    BY <1>14, <2>1
<1>16. w = v
  BY <1>13, <1>14, <1>15, SeqEqual
<1> QED
  BY <1>16 DEF v, w

\* A string without the end of a word has no words, and one with the end of one has that.
LEMMA WordsNone ==
  ASSUME NEW s \in Seq(Tokens), WordEnds(s) = {}
  PROVE  WordsIn(s) = <<>>
<1>1. Cardinality(WordEnds(s)) = 0
  BY FS_EmptySet
<1>2. WordsIn(s) \in Seq(Words) /\ Len(WordsIn(s)) = 0
  BY <1>1, WordsInType
<1> QED
  BY <1>2, EmptySeq

LEMMA WordsOne ==
  ASSUME NEW s \in Seq(Tokens), NEW n, WordEnds(s) = {n}
  PROVE  WordsIn(s) = <<WordEnded[s[n]]>>
<1>1. Cardinality({n}) = 1
  BY FS_Singleton
<1>2. Cardinality(WordEnds(s)) = 1 /\ 1 \in 1 .. 1
  BY <1>1
<1>3. EndOf(s, 1) \in WordEnds(s)
  BY <1>2, EndExists
<1>4. /\ WordsIn(s) \in Seq(Words) /\ Len(WordsIn(s)) = 1
      /\ \A k \in 1 .. 1 : WordsIn(s)[k] = WordEnded[s[EndOf(s, k)]]
  BY <1>2, WordsInType
<1>5. WordsIn(s)[1] = WordEnded[s[n]] /\ WordsIn(s) \in Seq(Words) /\ Len(WordsIn(s)) = 1
  BY <1>2, <1>3, <1>4
<1> QED
  BY <1>5

-----------------------------------------------------------------------------
(* The line as a channel *)

\* The close key's handler does not run, and there is room for what main sends.
Calm == irq = "off" /\ (out # <<>> => HasRoom)

\* Then each word on the line ends a frame of its own, at the beginning or behind a ':'.
Framed(s) ==
  \A p \in WordEnds(s) :
    /\ p >= 4 /\ s[p - 3] = "sta" /\ s[p - 2] = "te"
    /\ \E w \in Words : s[p - 1] = Halves[w][1] /\ s[p] = Halves[w][2]
    /\ p + 1 <= Len(s) /\ s[p + 1] = ":"
    /\ p = 4 \/ s[p - 4] = ":"
Ended(s) == s = <<>> \/ s[Len(s)] = ":"

CalmInv == Framed(Line) /\ (kind # "plain" => Ended(Line))

\* A line stays so with more behind it that ends no word of its own,
LEMMA FramedOther ==
  ASSUME NEW s \in Seq(Tokens), NEW t \in Seq(Tokens), Framed(s), WordEnds(t) = {}, NEW u, u = s \o t
  PROVE  Framed(u)
<1> DEFINE l == Len(s)
<1>1. /\ l \in Nat /\ Len(t) \in Nat /\ Len(u) = l + Len(t) /\ DOMAIN u = 1 .. l + Len(t)
      /\ DOMAIN s = 1 .. l /\ DOMAIN t = 1 .. Len(t)
      /\ (\A n \in 1 .. l : u[n] = s[n]) /\ \A n \in 1 .. Len(t) : u[n + l] = t[n]
  BY Cat
<1> HIDE DEF l
<1>2. SUFFICES ASSUME NEW p \in WordEnds(u)
               PROVE  /\ p >= 4 /\ u[p - 3] = "sta" /\ u[p - 2] = "te"
                      /\ \E w \in Words : u[p - 1] = Halves[w][1] /\ u[p] = Halves[w][2]
                      /\ p + 1 <= Len(u) /\ u[p + 1] = ":"
                      /\ p = 4 \/ u[p - 4] = ":"
  BY DEF Framed
<1>3. p \in 1 .. l + Len(t) /\ u[p] \in DOMAIN WordEnded
  BY <1>1, <1>2 DEF WordEnds
<1>4. p <= l
  <2>1. SUFFICES ASSUME p > l PROVE FALSE
    BY <1>1, <1>3
  <2> DEFINE n == p - l
  <2>2. n \in 1 .. Len(t) /\ n + l = p
    BY <1>1, <1>3, <2>1
  <2> HIDE DEF n
  <2>3. n \in WordEnds(t)
    BY <1>1, <1>3, <2>2 DEF WordEnds
  <2> QED
    BY <2>3
<1>5. p \in 1 .. l /\ p \in WordEnds(s)
  <2>1. p \in 1 .. l
    BY <1>1, <1>3, <1>4
  <2> QED
    BY <1>1, <1>3, <2>1 DEF WordEnds
<1>6. /\ p >= 4 /\ s[p - 3] = "sta" /\ s[p - 2] = "te"
      /\ \E w \in Words : s[p - 1] = Halves[w][1] /\ s[p] = Halves[w][2]
      /\ p + 1 <= l /\ s[p + 1] = ":"
      /\ p = 4 \/ s[p - 4] = ":"
  BY <1>5 DEF Framed, l
<1>7. /\ p - 3 \in 1 .. l /\ p - 2 \in 1 .. l /\ p - 1 \in 1 .. l /\ p + 1 \in 1 .. l
      /\ p # 4 => p - 4 \in 1 .. l
  BY <1>1, <1>5, <1>6
<1>8. p + 1 <= Len(u)
  BY <1>1, <1>7
<1> QED
  BY <1>1, <1>5, <1>6, <1>7, <1>8

\* and with the frame of a word, if it ends with a ':';
LEMMA FramedWord ==
  ASSUME NEW s \in Seq(Tokens), NEW v \in Words, Framed(s), Ended(s), NEW u, u = s \o Frame[v]
  PROVE  Framed(u)
<1> DEFINE l == Len(s)
           t == Frame[v]
<1>1. /\ t \in Seq(Tokens) /\ Len(t) = 6 /\ t[1] = "sta" /\ t[2] = "te" /\ t[3] = Halves[v][1]
      /\ t[4] = Halves[v][2] /\ t[5] = ":" /\ WordEnds(t) = {4}
  <2>1. t \in Seq(Tokens) /\ \A m, n \in WordEnds(t) : m = n
    BY FrameTokens, WordTypes
  <2>2. /\ Len(t) = 6 /\ t[1] = "sta" /\ t[2] = "te" /\ t[3] = Halves[v][1]
        /\ t[4] = Halves[v][2] /\ t[5] = ":" /\ 4 \in WordEnds(t)
    <3>1. CASE v = "open"
      BY <3>1, Frames, HalvesOf, WordTypes DEF WordEnds
    <3>2. CASE v = "close"
      BY <3>2, Frames, HalvesOf, WordTypes DEF WordEnds
    <3> QED
      BY <3>1, <3>2, HalvesOf
  <2> QED
    BY <2>1, <2>2
<1> HIDE DEF t
<1>2. /\ l \in Nat /\ Len(u) = l + 6 /\ DOMAIN u = 1 .. l + 6
      /\ DOMAIN s = 1 .. l /\ DOMAIN t = 1 .. 6
      /\ (\A n \in 1 .. l : u[n] = s[n]) /\ \A n \in 1 .. 6 : u[n + l] = t[n]
  <2>1. s \in Seq(Tokens) /\ t \in Seq(Tokens) /\ u = s \o t
    BY <1>1 DEF t
  <2>2. /\ l \in Nat /\ Len(u) = l + Len(t) /\ DOMAIN u = 1 .. l + Len(t)
        /\ DOMAIN s = 1 .. l /\ DOMAIN t = 1 .. Len(t)
        /\ (\A n \in 1 .. l : u[n] = s[n]) /\ \A n \in 1 .. Len(t) : u[n + l] = t[n]
    BY <2>1, Cat
  <2> QED
    BY <1>1, <2>2
<1>3. Ended(s) => l = 0 \/ (l \in 1 .. l /\ s[l] = ":")
  <2>1. s # <<>> => l \in 1 .. l
    BY EmptySeq
  <2> QED
    BY <1>2, <2>1 DEF Ended
<1> HIDE DEF l
<1>4. SUFFICES ASSUME NEW p \in WordEnds(u)
               PROVE  /\ p >= 4 /\ u[p - 3] = "sta" /\ u[p - 2] = "te"
                      /\ \E w \in Words : u[p - 1] = Halves[w][1] /\ u[p] = Halves[w][2]
                      /\ p + 1 <= Len(u) /\ u[p + 1] = ":"
                      /\ p = 4 \/ u[p - 4] = ":"
  BY DEF Framed
<1>5. p \in 1 .. l + 6 /\ u[p] \in DOMAIN WordEnded
  BY <1>2, <1>4 DEF WordEnds
<1>6. CASE p <= l
  <2>1. p \in 1 .. l /\ p \in WordEnds(s)
    <3>1. p \in 1 .. l
      BY <1>2, <1>5, <1>6
    <3> QED
      BY <1>2, <1>5, <3>1 DEF WordEnds
  <2>2. /\ p >= 4 /\ s[p - 3] = "sta" /\ s[p - 2] = "te"
        /\ \E w \in Words : s[p - 1] = Halves[w][1] /\ s[p] = Halves[w][2]
        /\ p + 1 <= l /\ s[p + 1] = ":"
        /\ p = 4 \/ s[p - 4] = ":"
    BY <2>1 DEF Framed, l
  <2>3. /\ p - 3 \in 1 .. l /\ p - 2 \in 1 .. l /\ p - 1 \in 1 .. l /\ p + 1 \in 1 .. l
        /\ p # 4 => p - 4 \in 1 .. l
    BY <1>2, <2>1, <2>2
  <2>4. p + 1 <= Len(u)
    BY <1>2, <2>3
  <2> QED
    BY <1>2, <2>1, <2>2, <2>3, <2>4
<1>7. CASE p > l
  <2> DEFINE n == p - l
  <2>1. n \in 1 .. 6 /\ n + l = p
    <3>1. l \in Nat /\ p \in 1 .. l + 6 /\ p > l
      BY <1>2, <1>5, <1>7
    <3> QED
      BY <3>1
  <2> HIDE DEF n
  <2>2. n = 4
    BY <1>1, <1>2, <1>5, <2>1 DEF WordEnds
  <2>3. u[1 + l] = t[1] /\ u[2 + l] = t[2] /\ u[3 + l] = t[3] /\ u[4 + l] = t[4] /\ u[5 + l] = t[5]
    <3>1. 1 \in 1 .. 6 /\ 2 \in 1 .. 6 /\ 3 \in 1 .. 6 /\ 4 \in 1 .. 6 /\ 5 \in 1 .. 6
      OBVIOUS
    <3>2. \A m \in 1 .. 6 : u[m + l] = t[m]
      BY <1>2
    <3> QED
      BY <3>1, <3>2
  <2>4. /\ p = 4 + l /\ p - 3 = 1 + l /\ p - 2 = 2 + l /\ p - 1 = 3 + l /\ p + 1 = 5 + l
        /\ p - 4 = l /\ p >= 4 /\ p + 1 <= Len(u)
    BY <1>2, <2>1, <2>2
  <2>5. p = 4 \/ u[p - 4] = ":"
    BY <1>2, <1>3, <2>4
  <2>6. /\ u[p - 3] = "sta" /\ u[p - 2] = "te" /\ u[p - 1] = Halves[v][1]
        /\ u[p] = Halves[v][2] /\ u[p + 1] = ":"
    BY <1>1, <2>3, <2>4
  <2>7. \E w \in Words : u[p - 1] = Halves[w][1] /\ u[p] = Halves[w][2]
    BY <2>6
  <2>8. p >= 4 /\ p + 1 <= Len(u)
    BY <2>4
  <2> QED
    BY <2>5, <2>6, <2>7, <2>8
<1>8. p <= l \/ p > l
  BY <1>2, <1>5
<1> QED
  BY <1>6, <1>7, <1>8

\* and so does what is behind a ':'.
LEMMA FramedAfter ==
  ASSUME NEW a \in Seq(Tokens), NEW t \in Seq(Tokens), a # <<>>, a[Len(a)] = ":",
         NEW u, u = a \o t
  PROVE  (Framed(u) => Framed(t)) /\ (Ended(u) => Ended(t))
<1> DEFINE l == Len(a)
           k == Len(t)
<1>1. /\ l \in Nat /\ l >= 1 /\ k \in Nat /\ Len(u) = l + k /\ DOMAIN u = 1 .. l + k
      /\ DOMAIN t = 1 .. k
      /\ (\A n \in 1 .. l : u[n] = a[n]) /\ \A n \in 1 .. k : u[n + l] = t[n]
  <2>1. l \in Nat /\ l >= 1
    BY EmptySeq
  <2> QED
    BY <2>1, Cat
<1>2. u[l] = ":" /\ \A w \in Words : Halves[w][1] # ":" /\ Halves[w][2] # ":"
  BY <1>1, HalvesOf
<1>3. ASSUME Framed(u), NEW p \in WordEnds(t)
      PROVE  /\ p >= 4 /\ t[p - 3] = "sta" /\ t[p - 2] = "te"
             /\ \E w \in Words : t[p - 1] = Halves[w][1] /\ t[p] = Halves[w][2]
             /\ p + 1 <= k /\ t[p + 1] = ":"
             /\ p = 4 \/ t[p - 4] = ":"
  <2> DEFINE q == p + l
  <2>1. p \in 1 .. k /\ q \in 1 .. l + k /\ u[q] = t[p] /\ t[p] \in DOMAIN WordEnded
    BY <1>1, <1>3 DEF WordEnds
  <2>2. q \in WordEnds(u)
    BY <1>1, <2>1 DEF WordEnds
  <2>3. /\ u[q - 3] = "sta" /\ u[q - 2] = "te"
        /\ \E w \in Words : u[q - 1] = Halves[w][1] /\ u[q] = Halves[w][2]
        /\ q + 1 <= l + k /\ u[q + 1] = ":"
        /\ q = 4 \/ u[q - 4] = ":"
    BY <1>1, <1>3, <2>2 DEF Framed
  <2>4. q - 1 # l /\ q - 2 # l /\ q - 3 # l
    BY <1>2, <2>3
  <2> HIDE DEF k, l
  <2>5. p >= 4 /\ p + 1 <= k /\ p \in Nat
    BY <1>1, <2>1, <2>3, <2>4
  <2>6. /\ p - 3 \in 1 .. k /\ p - 2 \in 1 .. k /\ p - 1 \in 1 .. k /\ p + 1 \in 1 .. k
        /\ (p - 3) + l = q - 3 /\ (p - 2) + l = q - 2 /\ (p - 1) + l = q - 1 /\ (p + 1) + l = q + 1
    BY <1>1, <2>5
  <2>7. p # 4 => p - 4 \in 1 .. k /\ (p - 4) + l = q - 4 /\ q # 4
    BY <1>1, <2>5
  <2> HIDE DEF q
  <2>8. p = 4 \/ t[p - 4] = ":"
    BY <1>1, <2>3, <2>7
  <2>9. t[p - 3] = "sta" /\ t[p - 2] = "te" /\ t[p + 1] = ":" /\ t[p - 1] = u[q - 1]
    BY <1>1, <2>3, <2>6
  <2> QED
    BY <2>1, <2>3, <2>5, <2>8, <2>9
<1>4. ASSUME Ended(u), t # <<>> PROVE t[k] = ":"
  <2>1. k >= 1 /\ k \in 1 .. k
    BY <1>1, <1>4, EmptySeq
  <2>2. u # <<>> /\ u[l + k] = ":" /\ u[k + l] = t[k]
    <3>1. u # <<>>
      BY <1>1, <2>1
    <3> QED
      BY <1>1, <1>4, <2>1, <3>1 DEF Ended
  <2>3. k + l = l + k
    BY <1>1
  <2> QED
    BY <2>2, <2>3
<1> QED
  BY <1>3, <1>4 DEF Framed, Ended

\* A frame that ends a word is that word's, and nothing else of what loop has read.
LEMMA PartWord ==
  ASSUME TypeOK, NEW t \in Seq(Tokens), NEW u, u = (part \o <<":">>) \o t, Framed(u),
         NEW n \in WordEnds(part)
  PROVE  n = 4 /\ \E w \in Words : IsWord(w, part) /\ WordEnded[part[4]] = w
<1> DEFINE a == part \o <<":">>
           l == Len(part)
           k == Len(t)
<1>1. /\ part \in Seq(Tokens) /\ part \in Seq(Tokens \ {":"}) /\ ":" \in Tokens
      /\ DOMAIN part = 1 .. l /\ l \in Nat
  <2>1. part \in Seq(Tokens)
    BY GotTypes
  <2>2. ":" \in Tokens
    BY ColonToken
  <2> QED
    BY <2>1, <2>2 DEF TypeOK
<1>2. a \in Seq(Tokens) /\ Len(a) = l + 1 /\ a[l + 1] = ":" /\ \A m \in 1 .. l : a[m] = part[m]
  <2>1. a = Append(part, ":")
    BY <1>1, AppendIsConcat
  <2> QED
    BY <1>1, <2>1, AppendProperties
<1> HIDE DEF a
<1>3. u = a \o t
  BY DEF a
<1>4. /\ DOMAIN u = 1 .. Len(a) + k /\ k \in Nat /\ \A m \in 1 .. Len(a) : u[m] = a[m]
  BY <1>2, <1>3, Cat
<1> HIDE DEF l, k
<1>5. (\A m \in 1 .. l : u[m] = part[m] /\ part[m] # ":" /\ m \in 1 .. l + 1 + k) /\ u[l + 1] = ":"
  <2>1. ASSUME NEW m \in 1 .. l PROVE u[m] = part[m] /\ part[m] # ":" /\ m \in 1 .. l + 1 + k
    <3>1. m \in 1 .. Len(a) /\ m \in 1 .. l + 1 + k
      BY <1>1, <1>2, <1>4
    <3>2. part[m] \in Tokens \ {":"}
      BY <1>1, ElementOfSeq DEF l
    <3> QED
      BY <1>2, <1>4, <3>1, <3>2
  <2>2. l + 1 \in 1 .. Len(a)
    BY <1>1, <1>2
  <2> QED
    BY <1>2, <1>4, <2>1, <2>2
<1>6. n \in 1 .. l /\ part[n] \in DOMAIN WordEnded
  BY <1>1 DEF WordEnds
<1>7. n \in WordEnds(u)
  <2>1. n \in DOMAIN u
    BY <1>2, <1>4, <1>5, <1>6
  <2> QED
    BY <1>5, <1>6, <2>1 DEF WordEnds
<1>8. /\ n >= 4 /\ u[n - 3] = "sta" /\ u[n - 2] = "te" /\ u[n + 1] = ":"
      /\ \E w \in Words : u[n - 1] = Halves[w][1] /\ u[n] = Halves[w][2]
      /\ n = 4 \/ u[n - 4] = ":"
  BY <1>7 DEF Framed
<1>9. n = 4
  <2>1. n # 4 => n - 4 \in 1 .. l
    BY <1>1, <1>6, <1>8
  <2> QED
    BY <1>5, <1>8, <2>1
<1>10. l = 4
  <2>1. l > n => n + 1 \in 1 .. l
    BY <1>1, <1>6
  <2>2. ~(l > n)
    BY <1>5, <1>8, <2>1
  <2> QED
    BY <1>1, <1>6, <1>9, <2>2
<1>11. PICK w \in Words : u[n - 1] = Halves[w][1] /\ u[n] = Halves[w][2]
  BY <1>8
<1>12. u[1] = "sta" /\ u[2] = "te" /\ u[3] = Halves[w][1] /\ u[4] = Halves[w][2]
  <2>1. 4 - 3 = 1 /\ 4 - 2 = 2 /\ 4 - 1 = 3
    OBVIOUS
  <2> QED
    BY <1>8, <1>9, <1>11, <2>1
<1>13. u[1] = part[1] /\ u[2] = part[2] /\ u[3] = part[3] /\ u[4] = part[4]
  <2>1. 1 \in 1 .. 4 /\ 2 \in 1 .. 4 /\ 3 \in 1 .. 4 /\ 4 \in 1 .. 4
    OBVIOUS
  <2> QED
    BY <1>5, <1>10, <2>1
<1>14. IsWord(w, part)
  BY <1>10, <1>12, <1>13 DEF IsWord, l
<1>15. WordEnded[part[4]] = w
  <2>1. part[4] = Halves[w][2]
    BY <1>12, <1>13
  <2>2. WordEnded[Halves[w][2]] = w
    <3>1. Halves["open"][2] = "en" /\ Halves["close"][2] = "se"
      BY HalvesOf
    <3> QED
      BY <3>1, HalvesOf, WordTypes
  <2> QED
    BY <2>1, <2>2
<1> QED
  BY <1>9, <1>14, <1>15

\* Nothing else switches.
LEMMA SwitchWord ==
  ASSUME TypeOK, Switch, WordEnds(part) = {}
  PROVE  relay' = relay
<1>1. SUFFICES ASSUME OnTopic, NEW w \in Words, Means(w) PROVE FALSE
  BY DEF Switch
<1> DEFINE l == Len(part)
           m == Len(Message)
<1>2. part \in Seq(Tokens) /\ l \in Nat /\ l >= 2 /\ DOMAIN part = 1 .. l
  BY <1>1, GotTypes DEF OnTopic
<1>3. \A i \in 3 .. l : part[i] \in Tokens
  BY <1>2, ElementOfSeq
<1>4. /\ Message \in Seq(Tokens) /\ m = (IF 3 <= l THEN l - 3 + 1 ELSE 0)
      /\ \A i \in 1 .. l - 3 + 1 : Message[i] = part[3 + i - 1]
  BY <1>2, <1>3, SubSeqProperties DEF Message
<1>5. Halves[w] = SubSeq(Message, 1, 2) /\ 2 <= m
  <2> DEFINE Parts == {"op", "en", "clo", "se"}
             h == Halves[w]
  <2>1. h \in Seq(Parts) /\ Len(h) = 2
    <3>1. CASE w = "open"
      BY <3>1, HalvesOf
    <3>2. CASE w = "close"
      BY <3>2, HalvesOf
    <3> QED
      BY <3>1, <3>2, HalvesOf
  <2> HIDE DEF Parts, h
  <2>2. Len(h) <= m /\ SubSeq(h, 1, Len(h)) = SubSeq(Message, 1, Len(h))
    BY <1>1 DEF Means, IsPrefix, h
  <2>3. SubSeq(h, 1, Len(h)) = h
    BY <2>1, SubSeqFull
  <2> QED
    BY <2>1, <2>2, <2>3 DEF h
<1>6. l >= 4 /\ 2 \in 1 .. l - 3 + 1 /\ 4 \in 1 .. l
  <2> HIDE DEF l, m
  <2> QED
    BY <1>2, <1>4, <1>5
<1>7. Message[2] = part[4]
  <2>1. 3 + 2 - 1 = 4
    OBVIOUS
  <2> QED
    BY <1>4, <1>6, <2>1
<1>8. SubSeq(Message, 1, 2)[2] = Message[2]
  <2>1. \A i \in 1 .. 2 : Message[i] \in Tokens
    <3>1. \A i \in 1 .. m : Message[i] \in Tokens
      BY <1>4, ElementOfSeq
    <3>2. \A i \in 1 .. 2 : i \in 1 .. m
      BY <1>4, <1>5
    <3> QED
      BY <3>1, <3>2
  <2>2. \A i \in 1 .. 2 - 1 + 1 : SubSeq(Message, 1, 2)[i] = Message[1 + i - 1]
    BY <2>1, SubSeqProperties
  <2>3. 2 \in 1 .. 2 - 1 + 1 /\ 1 + 2 - 1 = 2
    OBVIOUS
  <2> QED
    BY <2>2, <2>3
<1>9. part[4] = Halves[w][2]
  BY <1>5, <1>7, <1>8
<1>10. Halves[w][2] \in DOMAIN WordEnded
  BY HalvesOf, WordTypes
<1>11. 4 \in WordEnds(part)
  BY <1>2, <1>6, <1>9, <1>10 DEF WordEnds
<1> QED
  BY <1>11

\* What a calm step does for the channel.
ChannelStep == CalmInv' /\ [Channel!Next]_(Channel!vars)

\* The channel's queue is what the line holds.
LEMMA QueueLine ==
  /\ irq = "off" => Queue = WordsIn(Line)
  /\ irq' = "off" => Queue' = WordsIn(Line')
<1>1. irq = "off" => Reading \o rx \o out = Line
  BY DEF Line, Got, Rest
<1>2. irq' = "off" => Reading' \o rx' \o out' = Line'
  BY DEF Line, Got, Rest
<1> QED
  BY <1>1, <1>2 DEF Queue

\* A step that leaves the line and the relay alone is none of the channel,
LEMMA StepSame ==
  ASSUME CalmInv, irq = "off", irq' = "off", Line' = Line, kind' = kind, relay' = relay
  PROVE  ChannelStep
<1>1. Queue' = Queue
  BY QueueLine
<1>2. CalmInv'
  BY DEF CalmInv
<1> QED
  BY <1>1, <1>2 DEF ChannelStep, Channel!vars

\* and a byte that is stored goes from one part of the line to the next.
LEMMA StepEmit ==
  ASSUME TypeOK, CalmInv, Calm, MainEmit
  PROVE  ChannelStep
<1>1. /\ irq = "off" /\ irq' = "off" /\ Rest = out /\ Rest' = Tail(out) /\ Rest # <<>>
      /\ Emit(Head(Rest)) /\ UNCHANGED <<bridgeVars, kind>> /\ HasRoom
  BY DEF MainEmit, Rest, Calm
<1>2. Rest \in SubFrames /\ Got \in Seq(Tokens) /\ Rest \in Seq(Tokens)
  BY GotTypes DEF TypeOK, Rest
<1>3. Head(Rest) \in Tokens
  BY <1>1, <1>2, Rests
<1>4. Got' = Append(Got, Head(Rest))
  BY <1>1, <1>3, EmitGot
<1>5. Line' = Line
  BY <1>1, <1>2, <1>4, MovesOn DEF Line
<1> QED
  BY <1>1, <1>5, StepSame DEF bridgeVars

\* Every frame but one ends with a ':'.
LEMMA FrameEnded ==
  ASSUME NEW k \in DOMAIN Frame, k # "plain", NEW s \in Seq(Tokens), NEW u, u = s \o Frame[k]
  PROVE  Ended(u)
<1> DEFINE t == Frame[k]
           l == Len(t)
<1>1. t \in Seq(Tokens) /\ l \in 1 .. 6
  BY FrameTokens
<1>2. t[l] = ":"
  <2>1. CASE k = "open"
    BY <2>1, Frames
  <2>2. CASE k = "close"
    BY <2>2, Frames
  <2>3. CASE k = "nums"
    BY <2>3, Frames
  <2>4. CASE k = "debug"
    BY <2>4, Frames
  <2> QED
    BY <2>1, <2>2, <2>3, <2>4, Frames
<1> HIDE DEF t
<1>3. Len(u) = Len(s) + l /\ Len(s) \in Nat /\ \A n \in 1 .. l : u[n + Len(s)] = t[n]
  <2>1. u = s \o t
    BY DEF t
  <2> QED
    BY <1>1, <2>1, Cat
<1> HIDE DEF l
<1>4. l \in 1 .. l /\ l + Len(s) = Len(s) + l
  BY <1>1, <1>3
<1>5. u[Len(u)] = ":"
  BY <1>2, <1>3, <1>4
<1> QED
  BY <1>5 DEF Ended

\* The frame of a word brings that word.
LEMMA FrameWord ==
  ASSUME NEW w \in Words
  PROVE  WordsIn(Frame[w]) = <<w>>
<1>1. Frame[w] \in Seq(Tokens) /\ \A m, n \in WordEnds(Frame[w]) : m = n
  BY FrameTokens, WordTypes
<1>2. 4 \in WordEnds(Frame[w]) /\ WordEnded[Frame[w][4]] = w
  <2>1. CASE w = "open"
    BY <2>1, Frames, HalvesOf, WordTypes DEF WordEnds
  <2>2. CASE w = "close"
    BY <2>2, Frames, HalvesOf, WordTypes DEF WordEnds
  <2> QED
    BY <2>1, <2>2, HalvesOf
<1>3. WordEnds(Frame[w]) = {4}
  BY <1>1, <1>2
<1> QED
  BY <1>1, <1>2, <1>3, WordsOne

\* A frame that main begins sends its word, or nothing.
LEMMA StepBegin ==
  ASSUME TypeOK, CalmInv, NEW k \in Kinds, BeginFrame(k)
  PROVE  ChannelStep
<1>1. /\ irq = "off" /\ irq' = "off" /\ out = <<>> /\ out' = Frame[k] /\ kind' = k
      /\ UNCHANGED <<rx, bridgeVars>> /\ k \in DOMAIN Frame /\ (kind = "plain" => k = "debug")
  BY BridgeConstants DEF BeginFrame
<1>2. Line \in Seq(Tokens) /\ Frame[k] \in Seq(Tokens)
  BY <1>1, GotTypes, FrameTokens
<1>3. Line' = Line \o Frame[k]
  <2>1. Line = Got /\ Got \in Seq(Tokens)
    BY <1>1, GotTypes, ConcatEmptySeq DEF Line, Rest
  <2>2. Line' = Got \o Frame[k]
    BY <1>1 DEF Line, Got, Rest, Reading, bridgeVars
  <2> QED
    BY <2>1, <2>2
<1>4. Queue = WordsIn(Line) /\ Queue' = WordsIn(Line')
  BY <1>1, QueueLine
<1>5. WordsIn(Line') = WordsIn(Line) \o WordsIn(Frame[k]) /\ WordsIn(Line) \in Seq(Words)
  BY <1>2, <1>3, WordsJoined, WordsInType
<1>6. kind' # "plain" => Ended(Line')
  BY <1>1, <1>2, <1>3, FrameEnded
<1>7. relay' = relay
  BY <1>1 DEF bridgeVars
<1>8. CASE k \in Words
  <2>1. Ended(Line) /\ Framed(Line)
    BY <1>1, <1>8, HalvesOf DEF CalmInv
  <2>2. Framed(Line')
    BY <1>2, <1>3, <1>8, <2>1, FramedWord
  <2>3. Queue' = Append(Queue, k)
    BY <1>4, <1>5, <1>8, FrameWord, AppendIsConcat
  <2>4. Channel!Next
    BY <1>7, <1>8, <2>3 DEF Channel!Next, Channel!Send
  <2> QED
    BY <1>6, <2>2, <2>4 DEF ChannelStep, CalmInv
<1>9. CASE k \notin Words
  <2>1. WordEnds(Frame[k]) = {} /\ Framed(Line)
    BY <1>1, <1>9, OtherFrames DEF CalmInv
  <2>2. Framed(Line')
    BY <1>2, <1>3, <2>1, FramedOther
  <2>3. Queue' = Queue
    BY <1>2, <1>4, <1>5, <2>1, WordsNone, ConcatEmptySeq
  <2> QED
    BY <1>6, <1>7, <2>2, <2>3 DEF ChannelStep, CalmInv, Channel!vars
<1> QED
  BY <1>8, <1>9

\* A frame that loop has read up to its ':' delivers its word, or has none.
LEMMA StepServe ==
  ASSUME TypeOK, CalmInv, irq = "off", ServeFrame
  PROVE  ChannelStep
<1> DEFINE a == part \o <<":">>
           t == Tail(rx) \o Rest
<1>1. /\ wpc = "read" /\ irq' = "off" /\ kind' = kind /\ Switch
  BY DEF ServeFrame, lockSide, lockVars
<1>2. t \in Seq(Tokens) /\ Line = a \o t /\ Line' = t
  BY ServeLine
<1> HIDE DEF t
<1>3. part \in Seq(Tokens) /\ ":" \in Tokens
  BY GotTypes, ColonToken
<1>4. a \in Seq(Tokens) /\ a # <<>> /\ a[Len(a)] = ":"
  <2>1. a = Append(part, ":")
    BY <1>3, AppendIsConcat
  <2>2. a \in Seq(Tokens) /\ Len(a) = Len(part) + 1 /\ a[Len(part) + 1] = ":" /\ Len(part) \in Nat
    BY <1>3, <2>1, AppendProperties
  <2>3. Len(a) # 0
    BY <2>2
  <2> QED
    BY <2>2, <2>3, EmptySeq
<1>5. WordsIn(a) = WordsIn(part)
  <2>1. <<":">> \in Seq(Tokens) /\ WordEnds(<<":">>) = {}
    <3>1. <<":">> \in Seq(Tokens)
      BY <1>3
    <3>2. \A n \in DOMAIN <<":">> : <<":">>[n] = ":"
      OBVIOUS
    <3> QED
      BY <3>1, <3>2, WordTypes DEF WordEnds
  <2>2. WordsIn(a) = WordsIn(part) \o WordsIn(<<":">>) /\ WordsIn(part) \in Seq(Words)
    BY <1>3, <2>1, WordsJoined, WordsInType
  <2>3. WordsIn(<<":">>) = <<>>
    BY <2>1, WordsNone
  <2> QED
    BY <2>2, <2>3, ConcatEmptySeq
<1>6. Framed(Line) /\ (kind # "plain" => Ended(Line))
  BY DEF CalmInv
<1>7. CalmInv'
  <2>1. (Framed(Line) => Framed(t)) /\ (Ended(Line) => Ended(t))
    BY <1>2, <1>4, FramedAfter
  <2> QED
    BY <1>1, <1>2, <1>6, <2>1 DEF CalmInv
<1>8. Queue = WordsIn(part) \o WordsIn(t) /\ Queue' = WordsIn(t) /\ WordsIn(t) \in Seq(Words)
  <2>1. WordsIn(Line) = WordsIn(a) \o WordsIn(t) /\ WordsIn(t) \in Seq(Words)
    BY <1>2, <1>4, WordsJoined, WordsInType
  <2> QED
    BY <1>1, <1>2, <1>5, <2>1, QueueLine
<1>9. CASE WordEnds(part) = {}
  <2>1. Queue' = Queue
    BY <1>3, <1>8, <1>9, WordsNone, ConcatEmptySeq
  <2>2. relay' = relay
    BY <1>1, <1>9, SwitchWord
  <2> QED
    BY <1>7, <2>1, <2>2 DEF ChannelStep, Channel!vars
<1>10. CASE WordEnds(part) # {}
  <2>1. PICK n \in WordEnds(part) : TRUE
    BY <1>10
  <2>2. PICK w \in Words : IsWord(w, part) /\ WordEnded[part[4]] = w
    BY <1>2, <1>6, <2>1, PartWord DEF a
  <2>3. WordEnds(part) = {4}
    <3>1. \A m \in WordEnds(part) : m = 4
      BY <1>2, <1>6, PartWord DEF a
    <3> QED
      BY <2>1, <3>1
  <2>4. WordsIn(part) = <<w>>
    BY <1>3, <2>2, <2>3, WordsOne
  <2>5. relay' = w
    BY <1>1, <2>2, WordMeant
  <2> DEFINE q == WordsIn(t)
  <2>6. Queue = <<w>> \o q /\ Queue' = q /\ q \in Seq(Words)
    BY <1>8, <2>4
  <2> HIDE DEF q
  <2>7. Queue # <<>> /\ Head(Queue) = w /\ Tail(Queue) = q
    <3> DEFINE r == <<w>> \o q
    <3>1. r # <<>> /\ Head(r) = w /\ Tail(r) = q
      BY <2>6
    <3> QED
      BY <2>6, <3>1
  <2>8. Channel!Next
    BY <2>5, <2>6, <2>7 DEF Channel!Next, Channel!Deliver
  <2> QED
    BY <1>7, <2>8 DEF ChannelStep
<1> QED
  BY <1>9, <1>10

\* A frame that loop gives up ends no word: its ':' would be on the line.
LEMMA StepDry ==
  ASSUME TypeOK, CalmInv, irq = "off", Dry
  PROVE  ChannelStep
<1>1. irq' = "off" /\ out = <<>> /\ kind' = kind /\ relay' = relay
  BY DEF Dry, Silent, lockSide, lockVars
<1>2. Line = part /\ Line' = <<>>
  <2>1. Rest = <<>>
    BY <1>1 DEF Rest
  <2> QED
    BY <2>1, DryLine
<1>3. part \in Seq(Tokens) /\ part \in Seq(Tokens \ {":"})
  BY GotTypes DEF TypeOK
<1>4. WordEnds(part) = {}
  <2>1. ASSUME NEW p \in WordEnds(part) PROVE FALSE
    <3>1. p + 1 <= Len(part) /\ part[p + 1] = ":" /\ p >= 4
      BY <1>2, <2>1 DEF CalmInv, Framed
    <3>2. p \in 1 .. Len(part) /\ Len(part) \in Nat
      BY <1>3, <2>1, EndsOf
    <3>3. p + 1 \in 1 .. Len(part)
      BY <3>1, <3>2
    <3>4. part[p + 1] \in Tokens \ {":"}
      BY <1>3, <3>3, ElementOfSeq
    <3> QED
      BY <3>1, <3>4
  <2> QED
    BY <2>1
<1>5. WordEnds(<<>>) = {} /\ <<>> \in Seq(Tokens)
  BY EmptySeq DEF WordEnds
<1>6. CalmInv'
  BY <1>2, <1>5 DEF CalmInv, Framed, Ended
<1>7. Queue' = Queue
  BY <1>1, <1>2, <1>3, <1>4, <1>5, WordsNone, QueueLine
<1> QED
  BY <1>1, <1>6, <1>7 DEF ChannelStep, Channel!vars

\* Every step of the bridge,
LEMMA StepWemos ==
  ASSUME TypeOK, CalmInv, irq = "off", Wemos
  PROVE  ChannelStep
<1>1. CASE Subscribe
  <2>1. Reading' = Reading /\ UNCHANGED <<rx, lockVars, relay>>
    BY <1>1 DEF Subscribe, lockSide, Reading
  <2>2. Line' = Line
    BY <2>1 DEF Line, Got, Rest, lockVars
  <2> QED
    BY <2>1, <2>2, StepSame DEF lockVars
<1>2. CASE Connect
  <2>1. Reading' = Reading /\ UNCHANGED <<rx, lockVars, relay>>
    BY <1>2 DEF Connect, lockSide, Reading
  <2>2. Line' = Line
    BY <2>1 DEF Line, Got, Rest, lockVars
  <2> QED
    BY <2>1, <2>2, StepSame DEF lockVars
<1>3. CASE ClientLoop
  <2>1. Reading = <<>> /\ Reading' = <<>> /\ UNCHANGED <<rx, lockVars>>
    BY <1>3 DEF ClientLoop, lockSide, Begun, Reading
  <2>2. Line' = Line
    BY <2>1 DEF Line, Got, Rest, lockVars
  <2>3. CASE inbox = <<>>
    <3>1. relay' = relay
      BY <1>3, <2>3 DEF ClientLoop, Callback
    <3> QED
      BY <2>1, <2>2, <3>1, StepSame DEF lockVars
  <2>4. CASE inbox # <<>>
    <3>1. relay' = Head(inbox)
      BY <1>3, <2>4 DEF ClientLoop, Callback
    <3>2. Head(inbox) \in Words
      BY <2>4, HeadTailProperties DEF TypeOK
    <3>3. Queue' = Queue
      BY <2>1, <2>2, QueueLine DEF lockVars
    <3>4. Channel!Next
      BY <3>1, <3>2, <3>3 DEF Channel!Next, Channel!Command
    <3>5. CalmInv'
      BY <2>1, <2>2 DEF CalmInv, lockVars
    <3> QED
      BY <3>4, <3>5 DEF ChannelStep
  <2> QED
    BY <2>3, <2>4
<1>4. CASE ReadToken
  <2>1. wpc = "read" /\ wpc' = "read" /\ rx # <<>> /\ part' = Append(part, Head(rx))
        /\ rx' = Tail(rx) /\ UNCHANGED <<lockVars, relay>>
    BY <1>4 DEF ReadToken, lockSide
  <2>2. Got' = Got
    BY <2>1, ReadGot DEF Got, Reading
  <2>3. Line' = Line
    BY <2>1, <2>2 DEF Line, Rest, lockVars
  <2> QED
    BY <2>1, <2>3, StepSame DEF lockVars
<1> QED
  BY <1>1, <1>2, <1>3, <1>4, StepServe, StepDry DEF Wemos

\* and every step at all.
LEMMA StepChannel ==
  ASSUME TypeOK, CalmInv, Calm, Calm', [Next]_vars
  PROVE  ChannelStep
<1>1. irq = "off" /\ irq' = "off"
  BY DEF Calm
<1>2. CASE Sender
  BY <1>1, <1>2, StepEmit DEF Sender, PressSend, PressEmit
<1>3. CASE Wemos
  BY <1>1, <1>3, StepWemos
<1>4. ASSUME NEW k \in Kinds, BeginFrame(k) PROVE ChannelStep
  BY <1>4, StepBegin
<1>5. CASE Press
  BY <1>1, <1>5 DEF Press
<1>6. CASE LinkDrop
  <2>1. Line' = Line
    BY <1>6 DEF LinkDrop, Line, Got, Rest, Reading, lockVars
  <2> QED
    BY <1>1, <1>6, <2>1, StepSame DEF LinkDrop, lockVars
<1>7. ASSUME NEW w \in Words, PhoneSend(w) PROVE ChannelStep
  <2>1. Line' = Line
    BY <1>7 DEF PhoneSend, Line, Got, Rest, Reading, lockVars
  <2> QED
    BY <1>1, <1>7, <2>1, StepSame DEF PhoneSend, lockVars
<1>8. CASE UNCHANGED vars
  <2>1. Line' = Line
    BY <1>8 DEF vars, lockVars, bridgeVars, Line, Got, Rest, Reading
  <2> QED
    BY <1>1, <1>8, <2>1, StepSame DEF vars, lockVars, bridgeVars
<1> QED
  BY <1>2, <1>3, <1>4, <1>5, <1>6, <1>7, <1>8 DEF Next, Env

\* Nothing is on the line at the beginning.
LEMMA ChannelInit == Init => CalmInv /\ Channel!Init
<1> SUFFICES ASSUME Init PROVE CalmInv /\ Channel!Init
  OBVIOUS
<1>1. Rest = <<>> /\ Reading = <<>> /\ rx = <<>> /\ irq = "off" /\ relay = "close"
  BY DEF Init, Rest, Reading
<1>2. <<>> \o <<>> = <<>>
  BY ConcatEmptySeq, EmptySeq
<1>3. Line = <<>>
  BY <1>1, <1>2 DEF Line, Got
<1>4. WordEnds(<<>>) = {} /\ <<>> \in Seq(Tokens)
  BY EmptySeq DEF WordEnds
<1>5. CalmInv
  BY <1>3, <1>4 DEF CalmInv, Framed, Ended
<1>6. Queue = <<>>
  BY <1>1, <1>3, <1>4, QueueLine, WordsNone
<1> QED
  BY <1>1, <1>5, <1>6 DEF Channel!Init

\* Without presses, and with room for all frames, every step is calm.
RoomInv ==
  /\ irq = "off" /\ budget["presses"] = 0
  /\ Len(rx) + Len(out) + 6 * budget["frames"] <= 6 * MaxFrames

LEMMA RoomCalm ==
  ASSUME TypeOK, RoomInv, 6 * MaxFrames <= RxSize
  PROVE  Calm
<1>1. Len(rx) \in Nat /\ budget["frames"] \in Nat /\ MaxFrames \in Nat /\ RxSize \in Nat
  BY BridgeConstants DEF TypeOK
<1>2. out \in Seq(Tokens)
  BY Rests DEF TypeOK
<1>3. out # <<>> => Len(out) \in Nat /\ Len(out) >= 1
  BY <1>2, EmptySeq
<1> QED
  BY <1>1, <1>3 DEF RoomInv, Calm, HasRoom

LEMMA RoomInit ==
  ASSUME MaxPresses = 0
  PROVE  Init => RoomInv
<1> SUFFICES ASSUME Init PROVE RoomInv
  OBVIOUS
<1>1. irq = "off" /\ rx = <<>> /\ out = <<>> /\ budget["presses"] = 0 /\ budget["frames"] = MaxFrames
  BY DEF Init
<1>2. Len(<<>>) = 0 /\ MaxFrames \in Nat
  BY BridgeConstants
<1> QED
  BY <1>1, <1>2 DEF RoomInv

LEMMA RoomNext ==
  ASSUME TypeOK, SendInv, RoomInv, [Next]_vars
  PROVE  RoomInv'
<1> DEFINE n == Len(rx)
           m == Len(out)
           f == budget["frames"]
<1>1. /\ rx \in Seq(Tokens) /\ out \in Seq(Tokens) /\ n \in Nat /\ m \in Nat /\ f \in Nat /\ MaxFrames \in Nat
      /\ irq = "off" /\ budget["presses"] = 0 /\ n + m + 6 * f <= 6 * MaxFrames
  BY Rests, BridgeConstants DEF TypeOK, RoomInv
<1>2. ASSUME irq' = "off", out' = out, budget' = budget, n' <= n, n' \in Nat PROVE RoomInv'
  <2>1. m' = m /\ f' = f /\ budget'["presses"] = 0
    BY <1>1, <1>2
  <2>2. n' + m' + 6 * f' <= 6 * MaxFrames
    BY <1>1, <1>2, <2>1
  <2> QED
    BY <1>2, <2>1, <2>2 DEF RoomInv
<1>3. CASE MainEmit
  <2>1. irq' = "off" /\ out # <<>> /\ out' = Tail(out) /\ budget' = budget /\ Emit(Head(out))
    BY <1>3 DEF MainEmit
  <2>2. m >= 1 /\ Len(Tail(out)) = m - 1 /\ Head(out) \in Tokens
    BY <1>1, <2>1, HeadTailProperties, EmptySeq
  <2>3. Len(Append(rx, Head(out))) = n + 1
    BY <1>1, <2>2, AppendProperties
  <2>4. n' = n \/ n' = n + 1
    BY <2>1, <2>3 DEF Emit
  <2>5. m' = m - 1 /\ f' = f /\ budget'["presses"] = 0
    BY <1>1, <2>1, <2>2
  <2> HIDE DEF n, m, f
  <2>6. n' + m' + 6 * f' <= 6 * MaxFrames
    BY <1>1, <2>4, <2>5
  <2> QED
    BY <2>1, <2>5, <2>6 DEF RoomInv, n, m, f
<1>4. ASSUME NEW k \in Kinds, BeginFrame(k) PROVE RoomInv'
  <2>1. irq' = "off" /\ out = <<>> /\ out' = Frame[k] /\ rx' = rx /\ Spend("frames") /\ k \in DOMAIN Frame
    BY <1>1, <1>4, BridgeConstants DEF BeginFrame
  <2>2. f >= 1 /\ f' = f - 1 /\ budget'["presses"] = 0
    BY <1>1, <2>1 DEF Spend, TypeOK
  <2>3. n' = n /\ m = 0 /\ m' \in Nat /\ m' <= 6
    <3> DEFINE j == Len(Frame[k])
    <3>1. j \in 1 .. 6
      BY <2>1, FrameTokens
    <3> HIDE DEF j
    <3>2. j \in Nat /\ j <= 6
      BY <3>1
    <3> QED
      BY <2>1, <3>2 DEF j
  <2>4. n \in Nat /\ f \in Nat /\ MaxFrames \in Nat /\ n + m + 6 * f <= 6 * MaxFrames
    BY <1>1
  <2> HIDE DEF n, m, f
  <2>5. \A g, i, j, r \in Nat : g >= 1 /\ i <= 6 /\ j + 0 + 6 * g <= 6 * r => j + i + 6 * (g - 1) <= 6 * r
    OBVIOUS
  <2>6. n' + m' + 6 * f' <= 6 * MaxFrames
    BY <2>2, <2>3, <2>4, <2>5
  <2> QED
    BY <2>1, <2>2, <2>6 DEF RoomInv, n, m, f
<1>5. CASE Press
  BY <1>1, <1>5 DEF Press, Spend
<1>6. CASE LinkDrop \/ \E w \in Words : PhoneSend(w)
  <2>1. PICK what \in {"outages", "commands"} :
          Spend(what) /\ irq' = "off" /\ UNCHANGED <<out, rx>>
    BY <1>1, <1>6 DEF LinkDrop, PhoneSend, lockVars
  <2>2. budget'["presses"] = 0 /\ f' = f
    BY <1>1, <2>1 DEF Spend, TypeOK
  <2>3. n' = n /\ m' = m
    BY <2>1
  <2> HIDE DEF n, m, f
  <2>4. n' + m' + 6 * f' <= 6 * MaxFrames
    BY <1>1, <2>2, <2>3
  <2> QED
    BY <2>1, <2>2, <2>4 DEF RoomInv, n, m, f
<1>7. CASE Subscribe \/ Connect \/ ClientLoop \/ Dry
  BY <1>1, <1>2, <1>7 DEF Subscribe, Connect, ClientLoop, Dry, lockSide, lockVars
<1>8. CASE ReadToken \/ ServeFrame
  <2>1. rx # <<>> /\ rx' = Tail(rx) /\ irq' = "off" /\ out' = out /\ budget' = budget
    BY <1>1, <1>8 DEF ReadToken, ServeFrame, lockSide, lockVars
  <2>2. n >= 1 /\ Len(Tail(rx)) = n - 1
    BY <1>1, <2>1, HeadTailProperties, EmptySeq
  <2>3. n' <= n /\ n' \in Nat
    BY <1>1, <2>1, <2>2
  <2> QED
    BY <1>2, <2>1, <2>3
<1>9. CASE UNCHANGED vars
  BY <1>1, <1>2, <1>9 DEF vars, lockVars, bridgeVars
<1> QED
  BY <1>1, <1>3, <1>4, <1>5, <1>6, <1>7, <1>8, <1>9 DEF Next, Sender, Wemos, Env, PressSend, PressEmit

-----------------------------------------------------------------------------
(* The theorems *)

\* The inductive invariant holds at the beginning,
LEMMA BridgeInit == Init => BridgeIInv
<1>1. Init => SyncInv
  BY DEF Init, SyncInv
<1> QED
  BY <1>1, TypeInit, OrderInit DEF BridgeIInv

\* and is kept by every step.
LEMMA BridgeNext == BridgeIInv /\ [Next]_vars => BridgeIInv'
<1> SUFFICES ASSUME BridgeIInv, [Next]_vars PROVE BridgeIInv'
  OBVIOUS
<1>1. TypeOK /\ SendInv /\ OrderInv /\ SyncInv
  BY DEF BridgeIInv
<1>2. TypeOK' /\ SendInv'
  BY <1>1, TypeNext
<1>3. OrderInv'
  BY <1>1, OrderNext
<1>4. SyncInv'
  <2>1. CASE UNCHANGED vars
    BY <1>1, <2>1, SameSync
    DEF vars, lockVars, bridgeVars, Line, Got, Reading, Rest
  <2> QED
    BY <1>1, <2>1, SenderSync, WemosSync, EnvSync DEF Next
<1> QED
  BY <1>2, <1>3, <1>4 DEF BridgeIInv

\* The invariant the next two rest on holds, for every buffer and any number of
\* frames, presses of the close key, outages and commands.
THEOREM Inductive == Spec => []BridgeIInv
  BY BridgeInit, BridgeNext, PTL DEF Spec

\* No byte is stored behind the end of the receive buffer, and whatever the close key's
\* handler cuts into frames, a full buffer drops and an early end glues together, what
\* is published on the topic of the door state are words the lock has sent, each once
\* and in that order (fputc, loop and send_packet of the Wemos).
THEOREM InOrderShown == Spec => []BridgeInv
<1>1. BridgeIInv => BridgeInv
  <2> SUFFICES ASSUME BridgeIInv PROVE NothingInvented
    BY DEF BridgeIInv, BridgeInv
  <2>1. PICK f, g : Fits(f, g, shown, sent, Got)
    BY DEF BridgeIInv, OrderInv, Kept
  <2> QED
    BY <2>1 DEF Fits, NothingInvented
<1> QED
  BY <1>1, Inductive, PTL

\* A word sent whole behind a ':' or a pause leaves the relay where the lock has put it,
\* however garbled the bytes before it were and whether or not the broker is there.
THEOREM RelayFollows == Spec => []BackInSync
<1>1. BridgeIInv => BackInSync
  <2> SUFFICES ASSUME BridgeIInv, synced, AllRead PROVE relay = Last(sent)
    BY DEF BackInSync
  <2>1. out = <<>> /\ irq = "off" /\ rx = <<>> /\ wpc # "read"
    BY DEF AllRead
  <2>2. PICK w \in Words : Settled(w, Rest, sent, Line, relay)
    BY DEF BridgeIInv, SyncInv, Settled
  <2>3. <<>> \o <<>> = <<>>
    BY ConcatEmptySeq, EmptySeq
  <2>4. Rest = <<>> /\ Line = <<>>
    BY <2>1, <2>3 DEF Rest, Line, Got, Reading
  <2>5. ~Coming(w, <<>>) /\ WordEnds(<<>>) = {}
    BY DEF Coming, WordEnds
  <2>6. relay = w /\ Last(sent) = w
    BY <2>2, <2>4, <2>5 DEF Settled, LastWord
  <2> QED
    BY <2>6
<1> QED
  BY <1>1, Inductive, PTL

\* As long as the close key does not interrupt main and there is room for what main
\* sends, the serial line, loop and send_packet are the abstract channel: each word
\* switches the relay once, in the order they were sent, and nothing else does but the
\* commands of the phone, while the broker comes and goes.
THEOREM CalmIsChannel == Spec /\ []Calm => StateChannelSpec
<1>1. Init => CalmInv /\ Channel!Init
  BY ChannelInit
<1>2. TypeOK /\ CalmInv /\ Calm /\ Calm' /\ [Next]_vars => CalmInv' /\ [Channel!Next]_(Channel!vars)
  BY StepChannel DEF ChannelStep
<1>3. BridgeIInv => TypeOK
  BY DEF BridgeIInv
<1> QED
  BY <1>1, <1>2, <1>3, Inductive, PTL DEF Spec, StateChannelSpec, Channel!Spec

\* So it is when the key is not pressed at all and the receive buffer holds whatever the
\* frames of the run fill, without more assumptions.
THEOREM RoomyIsChannel ==
  ASSUME MaxPresses = 0, 6 * MaxFrames <= RxSize
  PROVE  Spec => StateChannelSpec
<1>1. Init => RoomInv
  BY RoomInit
<1>2. TypeOK /\ SendInv /\ RoomInv /\ [Next]_vars => RoomInv'
  BY RoomNext
<1>3. TypeOK /\ RoomInv => Calm
  BY RoomCalm
<1>4. BridgeIInv => TypeOK /\ SendInv
  BY DEF BridgeIInv
<1> QED
  BY <1>1, <1>2, <1>3, <1>4, Inductive, CalmIsChannel, PTL DEF Spec
=============================================================================

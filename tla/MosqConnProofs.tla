--------------------------- MODULE MosqConnProofs ---------------------------
(***************************************************************************)
(* What is proved of MosqConn, for every keepalive interval, every timeout  *)
(* of the loop, all delays and any number of faults and messages.           *)
(*                                                                          *)
(* ConnIInv is inductive.  Its parts: where the loop can be with a socket    *)
(* and without (SocketInv), how old the two ages of the keepalive can be at  *)
(* each of these places (AgeInv), what they say of a broker that is silent   *)
(* (QuietInv) and of an answer that is due (DueInv), where CONNECT and the   *)
(* answer to it can be (HelloInv), what holds without threads (FirstInv and *)
(* StopInv), and how the delay grows (DelayInv).  One lemma for each part.   *)
(***************************************************************************)
EXTENDS MosqConn, TLAPS

-----------------------------------------------------------------------------
(* The inductive invariant *)

\* Where there is no socket, and where there is one: at "loop" there may be one.
Closed == {"reset", "connect", "decide", "sleep", "check", "over"}

SocketInv ==
  /\ pc \in Closed => net = "none"
  /\ pc \notin Closed \cup {"loop"} => net # "none"
  /\ pc \in {"read", "pair"} /\ "pair" \in ready => pair > 0

\* The other thread is there only with threads, and only who was asked says DISCONNECT.
AppInv ==
  /\ ~threaded => apc = "idle"
  /\ apkt \in {"PUBLISH", "DISCONNECT"}
  /\ apkt = "DISCONNECT" \/ "DISCONNECT" \in Range(outp) => asked

\* How old the two ages can be at each place of the loop.
AgeInv ==
  /\ pc = "connect" => outAge + left <= ConnectTicks /\ inAge + left <= ConnectTicks
  /\ pc \in {"greet", "hello"} => outAge <= ConnectTicks /\ inAge <= ConnectTicks
  /\ net # "none" => outAge <= Keepalive /\ inAge <= 2 * Keepalive - 1
  /\ net # "none" /\ (pc = "loop" \/ (pc = "packets" /\ back # "loop")) =>
       outAge < Keepalive /\ inAge < Keepalive
  /\ pc = "wait" => /\ left > 0 => outAge + left <= Keepalive
                    /\ inAge + left <= 2 * Keepalive - 1

\* A PINGREQ that could not be sent leaves ping_t unset, but then the socket is reset
\* and select does not wait any more.
PingFailed ==
  net = "reset" /\ ~want_connect /\ inAge < Keepalive /\ outAge < Keepalive

QuietInv ==
  /\ quiet <= 4 * Keepalive - 2
  /\ net # "none" => /\ quiet <= inAge + 2 * Keepalive - 1
                     /\ ~ping_t => quiet <= inAge \/ PingFailed

\* The ages, against the time that an answer has been due.
DueInv ==
  /\ pc \in {"connect", "greet", "hello"} => ~ping_t
  /\ net # "none" /\ ping_t => outAge <= due /\ inAge <= due
  /\ net # "none" /\ pc # "refused" /\ (state = "connected" \/ pc = "greet") =>
       outAge <= due + ConnectTicks /\ inAge <= due + ConnectTicks
  /\ net # "none" /\ pc # "greet" =>
       state \in {"connected", "active"} \/ (asked /\ state = "disconnected")

\* At most one member of the set in the sequence.
Once(s, these) == \A i, j \in DOMAIN s : s[i] \in these /\ s[j] \in these => i = j

Hi       == {"CONNECT"}
Greeting == {"CONNACK", "REFUSED"}

NoHello == /\ Range(outp) \cap Hi = {} /\ Range(broker) \cap Hi = {}
           /\ Range(down) \cap Greeting = {}

\* On a connection there is one CONNECT, and one answer to it: on its way in one of
\* three places, or done with.
HelloInv ==
  /\ Once(outp, Hi) /\ Once(broker, Hi) /\ Once(down, Greeting)
  /\ pc \in {"connect", "greet", "hello"} => NoHello /\ ~greeted
  /\ pc = "hello" => state \in {"connected", "disconnected"}
  /\ greeted => Range(outp) \cap Hi = {}
  /\ ~greeted => Range(broker) \cap Hi = {} /\ Range(down) \cap Greeting = {}
  /\ Range(broker) \cap Hi # {} => Range(down) \cap Greeting = {}
  /\ net # "none" /\ (state = "active" \/ ping_t \/ (~threaded /\ state = "disconnected")) =>
       NoHello

\* Without threads: what comes first, and where a client that disconnects is not.
FirstInv ==
  ~threaded =>
    /\ ~early
    /\ pc \in {"connect", "greet", "hello"} => outp = <<>>
    /\ net = "up" /\ ~greeted /\ pc \notin {"greet", "hello"} =>
         outp # <<>> /\ Head(outp) = "CONNECT"
    /\ net # "none" /\ state = "connected" /\ pc # "refused" => Range(outp) \subseteq Hi
    /\ pc = "hello" \/ (pc = "packets" /\ back = "hello") => state = "connected"
    /\ state = "disconnected" => pc \notin {"reset", "connect", "greet", "hello"}

\* Without threads: who has been told to disconnect is disconnected, to the next CONNACK.
StopInv == ~threaded /\ asked /\ ~undone => state = "disconnected"

\* The last delay is not longer than the next one will be.
DelayInv ==
  /\ slept <= reconnect_delay_max /\ slept <= raw_delay
  /\ slept = 0 => reconnects = 0

ConnIInv ==
  /\ TypeOK /\ SocketInv /\ AppInv /\ WorkWakes /\ AgeInv /\ QuietInv /\ DueInv
  /\ HelloInv /\ FirstInv /\ StopInv /\ DelayInv

-----------------------------------------------------------------------------
(* Constants, numbers and sequences *)

\* What ConnAssumption says, one fact at a time.
LEMMA ConnConstants ==
  /\ Keepalive \in Nat /\ Keepalive > 0 /\ Timeout \in Nat /\ Timeout > 0
  /\ reconnect_delay \in Nat /\ reconnect_delay > 0
  /\ reconnect_delay_max \in Nat /\ reconnect_delay_max > 0
  /\ ConnectTicks \in Nat /\ ConnectTicks < Keepalive
  /\ MaxFaults \in Nat /\ MaxPublishes \in Nat /\ MaxPair \in Nat /\ MaxPair > 0
<1>1. Keepalive \in Nat /\ Keepalive > 0 /\ Timeout \in Nat /\ Timeout > 0
  BY ConnAssumption
<1>2. reconnect_delay \in Nat /\ reconnect_delay > 0
  BY ConnAssumption
<1>3. reconnect_delay_max \in Nat /\ reconnect_delay_max > 0
  BY ConnAssumption
<1>4. ConnectTicks \in Nat /\ ConnectTicks < Keepalive
  BY ConnAssumption
<1>5. MaxFaults \in Nat /\ MaxPublishes \in Nat /\ MaxPair \in Nat /\ MaxPair > 0
  BY ConnAssumption
<1> QED
  BY <1>1, <1>2, <1>3, <1>4, <1>5

\* The smaller of two numbers.
LEMMA MinOfTwo == \A a, b \in Int : Min({a, b}) = IF a <= b THEN a ELSE b
<1> SUFFICES ASSUME NEW a \in Int, NEW b \in Int
             PROVE  Min({a, b}) = IF a <= b THEN a ELSE b
  OBVIOUS
<1>1. CASE a <= b
  BY <1>1 DEF Min
<1>2. CASE ~(a <= b)
  BY <1>2 DEF Min
<1> QED
  BY <1>1, <1>2

\* The larger of two numbers.
LEMMA MaxOfTwo == \A a, b \in Int : Max({a, b}) = IF a >= b THEN a ELSE b
<1> SUFFICES ASSUME NEW a \in Int, NEW b \in Int
             PROVE  Max({a, b}) = IF a >= b THEN a ELSE b
  OBVIOUS
<1>1. CASE a >= b
  BY <1>1 DEF Max
<1>2. CASE ~(a >= b)
  BY <1>2 DEF Max
<1> QED
  BY <1>1, <1>2

\* The bytes in the socket pair are counted up to MaxPair.
LEMMA PairGrows == \A n \in 0 .. MaxPair : Min({n + 1, MaxPair}) \in 1 .. MaxPair
<1> SUFFICES ASSUME NEW n \in 0 .. MaxPair PROVE Min({n + 1, MaxPair}) \in 1 .. MaxPair
  OBVIOUS
<1>1. Min({n + 1, MaxPair}) = IF n + 1 <= MaxPair THEN n + 1 ELSE MaxPair
  BY MinOfTwo, ConnConstants
<1> QED
  BY <1>1, ConnConstants

\* select waits to the end of the keepalive interval at most.
LEMMA WaitBounded ==
  ASSUME outAge \in Nat
  PROVE  /\ WaitsAtMost \in Nat
         /\ WaitsAtMost > 0 => outAge + WaitsAtMost <= Keepalive
         /\ WaitsAtMost <= Keepalive
<1> DEFINE shorter == Min({Timeout, Keepalive - outAge})
<1>1. shorter = IF Timeout <= Keepalive - outAge THEN Timeout ELSE Keepalive - outAge
  BY MinOfTwo, ConnConstants
<1>2. shorter \in Int /\ shorter <= Keepalive - outAge
  BY <1>1, ConnConstants
<1>3. WaitsAtMost = IF 0 >= shorter THEN 0 ELSE shorter
  <2> HIDE DEF shorter
  <2>1. Max({0, shorter}) = IF 0 >= shorter THEN 0 ELSE shorter
    BY <1>2, MaxOfTwo
  <2> QED
    BY <2>1 DEF WaitsAtMost, shorter
<1> HIDE DEF shorter
<1> QED
  BY <1>2, <1>3, ConnConstants

\* A count that goes up, or stays.
LEMMA Counts ==
  ASSUME NEW count \in Nat, NEW when \in BOOLEAN
  PROVE  /\ Later(count, when, Longest) \in Nat
         /\ ~when => Later(count, when, Longest) = count
         /\ when => Later(count, when, Longest) = IF count + 1 <= 4 * Keepalive THEN count + 1
                                                  ELSE 4 * Keepalive
<1>1. Longest \in Nat /\ Longest = 4 * Keepalive
  BY ConnConstants DEF Longest
<1>2. Min({count + 1, Longest}) = IF count + 1 <= Longest THEN count + 1 ELSE Longest
  BY <1>1, MinOfTwo
<1>3. ~when => Later(count, when, Longest) = count
  BY DEF Later
<1>4. when => Later(count, when, Longest) = IF count + 1 <= 4 * Keepalive THEN count + 1
                                            ELSE 4 * Keepalive
  BY <1>1, <1>2 DEF Later
<1>5. Later(count, when, Longest) \in Nat
  <2>1. CASE when
    <3>1. (IF count + 1 <= 4 * Keepalive THEN count + 1 ELSE 4 * Keepalive) \in Nat
      BY <1>1
    <3> QED
      BY <1>4, <2>1, <3>1
  <2>2. CASE ~when
    BY <1>3, <2>2
  <2> QED
    BY <2>1, <2>2
<1> QED
  BY <1>3, <1>4, <1>5

\* What a packet at the end adds to a queue.
LEMMA OneMore ==
  ASSUME NEW S, NEW s \in Seq(S), NEW e \in S
  PROVE  /\ Append(s, e) \in Seq(S) /\ Append(s, e) # <<>>
         /\ Range(Append(s, e)) = Range(s) \cup {e}
         /\ s # <<>> => Head(Append(s, e)) = Head(s)
         /\ s = <<>> => Head(Append(s, e)) = e
         /\ \A these : Once(s, these) /\ (e \notin these \/ Range(s) \cap these = {})
                         => Once(Append(s, e), these)
<1> DEFINE t == Append(s, e)
<1>1. t \in Seq(S) /\ t # <<>> /\ DOMAIN t = 1 .. Len(s) + 1 /\ DOMAIN s = 1 .. Len(s)
      /\ Len(s) \in Nat
  OBVIOUS
<1>2. t[Len(s) + 1] = e /\ \A n \in 1 .. Len(s) : t[n] = s[n]
  OBVIOUS
<1>3. s # <<>> => Head(t) = Head(s)
  OBVIOUS
<1>4. s = <<>> => Head(t) = e
  OBVIOUS
<1> HIDE DEF t
<1>5. Range(t) = Range(s) \cup {e}
  <2>1. Range(s) \subseteq Range(t)
    BY <1>1, <1>2 DEF Range
  <2>2. e \in Range(t)
    <3>1. Len(s) + 1 \in DOMAIN t
      BY <1>1
    <3> QED
      BY <1>2, <3>1 DEF Range
  <2>3. ASSUME NEW n \in DOMAIN t PROVE t[n] \in Range(s) \cup {e}
    <3>1. n = Len(s) + 1 \/ n \in 1 .. Len(s)
      BY <1>1
    <3> QED
      BY <1>1, <1>2, <3>1 DEF Range
  <2> QED
    BY <2>1, <2>2, <2>3 DEF Range
<1>6. ASSUME NEW these, Once(s, these), e \notin these \/ Range(s) \cap these = {}
      PROVE  Once(t, these)
  <2> SUFFICES ASSUME NEW i \in DOMAIN t, NEW j \in DOMAIN t, t[i] \in these, t[j] \in these
               PROVE  i = j
    BY DEF Once
  <2>1. CASE e \notin these
    <3>1. i \in DOMAIN s /\ j \in DOMAIN s /\ t[i] = s[i] /\ t[j] = s[j]
      BY <1>1, <1>2, <2>1
    <3> QED
      BY <1>6, <3>1 DEF Once
  <2>2. CASE Range(s) \cap these = {}
    <3>1. \A n \in 1 .. Len(s) : t[n] \notin these
      BY <1>1, <1>2, <2>2 DEF Range
    <3>2. i = Len(s) + 1 /\ j = Len(s) + 1
      BY <1>1, <3>1
    <3> QED
      BY <3>2
  <2> QED
    BY <1>6, <2>1, <2>2
<1> QED
  BY <1>1, <1>3, <1>4, <1>5, <1>6 DEF t

\* And what is left without the first.
LEMMA OneLess ==
  ASSUME NEW S, NEW s \in Seq(S), s # <<>>
  PROVE  /\ Tail(s) \in Seq(S) /\ Head(s) \in S /\ Head(s) \in Range(s)
         /\ Range(Tail(s)) \subseteq Range(s)
         /\ \A these : Once(s, these) =>
              /\ Once(Tail(s), these)
              /\ Head(s) \in these => Range(Tail(s)) \cap these = {}
<1> DEFINE t == Tail(s)
<1>1. t \in Seq(S) /\ Head(s) \in S /\ Len(s) \in Nat /\ Len(s) > 0
      /\ DOMAIN s = 1 .. Len(s) /\ Len(t) = Len(s) - 1 /\ DOMAIN t = 1 .. Len(t)
  OBVIOUS
<1>2. Head(s) = s[1] /\ \A n \in 1 .. Len(t) : t[n] = s[n + 1]
  OBVIOUS
<1> HIDE DEF t
<1>3. 1 \in DOMAIN s /\ \A n \in DOMAIN t : n + 1 \in DOMAIN s /\ n + 1 # 1
  BY <1>1
<1>4. Head(s) \in Range(s) /\ Range(t) \subseteq Range(s)
  BY <1>1, <1>2, <1>3 DEF Range
<1>5. ASSUME NEW these, Once(s, these) PROVE Once(t, these)
  <2> SUFFICES ASSUME NEW i \in DOMAIN t, NEW j \in DOMAIN t, t[i] \in these, t[j] \in these
               PROVE  i = j
    BY DEF Once
  <2>1. i + 1 = j + 1
    BY <1>1, <1>2, <1>3, <1>5 DEF Once
  <2> QED
    BY <1>1, <2>1
<1>6. ASSUME NEW these, Once(s, these), Head(s) \in these PROVE Range(t) \cap these = {}
  <2> SUFFICES ASSUME NEW n \in DOMAIN t, t[n] \in these PROVE FALSE
    BY DEF Range
  <2>1. n + 1 = 1
    BY <1>1, <1>2, <1>3, <1>6 DEF Once
  <2> QED
    BY <1>3, <2>1
<1> QED
  BY <1>1, <1>4, <1>5, <1>6 DEF t

\* The empty sequence.
LEMMA Nothing ==
  \A S, these : /\ <<>> \in Seq(S) /\ Range(<<>>) = {} /\ Once(<<>>, these)
BY DEF Range, Once

-----------------------------------------------------------------------------
(* Types *)

\* What a callback leaves: nothing, or a packet at the end of the queue.
LEMMA CallbackLeaves ==
  ASSUME TypeOK, NEW q \in Seq(Outgoing), NEW does \in Doings, Callback(q, does), mode' = mode
  PROVE  /\ outp' \in Seq(Outgoing) /\ pair' \in 0 .. MaxPair /\ pair' >= pair
         /\ pubs' \in 0 .. MaxPublishes /\ asked' \in BOOLEAN /\ (asked => asked')
         /\ apc' = apc /\ apkt' = apkt
         /\ \/ outp' = q
            \/ outp' = Append(q, "PUBLISH")
            \/ outp' = Append(q, "DISCONNECT") /\ asked'
         /\ outp' # q => net' # "none" /\ does # "nothing"
         /\ does = "disconnect" => asked' /\ ~threaded
         /\ does # "disconnect" => asked' = asked
<1>1. pair \in 0 .. MaxPair /\ pubs \in 0 .. MaxPublishes /\ asked \in BOOLEAN
  BY DEF TypeOK
<1>2. Min({pair + 1, MaxPair}) \in 0 .. MaxPair /\ Min({pair + 1, MaxPair}) >= pair
  <2>1. Min({pair + 1, MaxPair}) = IF pair + 1 <= MaxPair THEN pair + 1 ELSE MaxPair
    BY <1>1, MinOfTwo, ConnConstants
  <2> QED
    BY <1>1, <2>1, ConnConstants
<1>3. /\ Append(q, "PUBLISH") \in Seq(Outgoing) /\ Append(q, "DISCONNECT") \in Seq(Outgoing)
  BY DEF Outgoing
<1>4. CASE does = "nothing"
  BY <1>1, <1>4, ConnConstants DEF Callback, app
<1>5. CASE does = "publish"
  <2>1. /\ net' # "none" /\ pubs < MaxPublishes /\ outp' = Append(q, "PUBLISH")
        /\ pair' = Min({pair + 1, MaxPair}) /\ pubs' = pubs + 1
        /\ apc' = apc /\ apkt' = apkt /\ asked' = asked
    BY <1>5 DEF Callback, Queue
  <2>2. pubs' \in 0 .. MaxPublishes
    BY <1>1, <2>1, ConnConstants
  <2> QED
    BY <1>1, <1>2, <1>3, <1>5, <2>1, <2>2
<1>6. CASE does = "disconnect"
  <2>1. /\ ~threaded /\ asked' = TRUE /\ apc' = apc /\ apkt' = apkt /\ pubs' = pubs
        /\ \/ net' = "none" /\ outp' = q /\ pair' = pair
           \/ /\ net' # "none" /\ outp' = Append(q, "DISCONNECT")
              /\ pair' = Min({pair + 1, MaxPair})
    BY <1>6 DEF Callback, Queue
  <2> QED
    BY <1>1, <1>2, <1>3, <1>6, <2>1
<1> QED
  BY <1>4, <1>5, <1>6 DEF Doings

\* What mosquitto__loop_rc_handle leaves: no socket.
LEMMA BrokenLeaves ==
  ASSUME TypeOK, NEW fatal \in BOOLEAN, Broken(fatal), mode' = mode
  PROVE  /\ net' = "none" /\ outp' = outp /\ pair' = pair /\ pubs' \in 0 .. MaxPublishes
         /\ asked' \in BOOLEAN /\ (asked => asked') /\ apc' = apc /\ apkt' = apkt
         /\ state' \in {state, "disconnected"}
         /\ asked' = asked \/ state' = "disconnected"
         /\ pc' \in {"loop", "over", "decide"}
         /\ UNCHANGED <<reconnects, ready, watch, back, left>>
<1>1. PICK does \in Doings : Callback(outp, does) /\ state' = StateAfter(does)
  BY DEF Broken
<1>2. /\ net' = "none" /\ UNCHANGED <<reconnects, ready, watch, back, left>>
      /\ pc' \in {"loop", "over", "decide"}
  BY DEF Broken, Goes
<1>3. outp \in Seq(Outgoing) /\ pair \in 0 .. MaxPair
  BY DEF TypeOK
<1>4. /\ pubs' \in 0 .. MaxPublishes /\ asked' \in BOOLEAN /\ (asked => asked')
      /\ apc' = apc /\ apkt' = apkt /\ outp' = outp
      /\ does # "disconnect" => asked' = asked
  BY <1>1, <1>2, <1>3, CallbackLeaves
<1>5. pair' = pair
  BY <1>1, <1>2 DEF Callback
<1> QED
  BY <1>1, <1>2, <1>4, <1>5 DEF StateAfter

\* The state after a callback.
LEMMA StateLeft ==
  ASSUME TypeOK, NEW does \in Doings, state' = StateAfter(does)
  PROVE  state' \in States /\ state' \in {state, "disconnected"}
         /\ (state' # state => does = "disconnect")
BY DEF StateAfter, TypeOK, States

\* A fault more.
LEMMA FaultCounted == TypeOK /\ Fault => faults' \in 0 .. MaxFaults
<1> SUFFICES ASSUME TypeOK, Fault PROVE faults' \in 0 .. MaxFaults
  OBVIOUS
<1>1. faults \in 0 .. MaxFaults /\ faults < MaxFaults /\ faults' = faults + 1
  BY DEF TypeOK, Fault
<1> QED
  BY <1>1, ConnConstants

\* The steps that make a connection.
LEMMA ConnectTypes ==
  TypeOK /\ (Reset \/ Connect \/ NoAddress \/ NoContext \/ Greet \/ Hello) => TypeOK'
<1> SUFFICES ASSUME TypeOK, Reset \/ Connect \/ NoAddress \/ NoContext \/ Greet \/ Hello
             PROVE  TypeOK'
  OBVIOUS
<1>1. CASE Reset
  <2>1. left' \in Nat /\ pc' = "connect" /\ net' = "none"
    BY <1>1, ConnConstants DEF Reset
  <2>2. outp' = <<>> /\ part' = FALSE /\ broker' = <<>> /\ down' = <<>>
    BY <1>1 DEF Reset, Cleared
  <2>3. ping_t' = FALSE /\ outAge' = 0 /\ inAge' = 0 /\ greeted' = FALSE
    BY <1>1 DEF Reset
  <2>4. UNCHANGED <<mode, state, want_connect, want_write, pair, reconnects, ready,
                    watch, back, app, faults, history>>
    BY <1>1 DEF Reset
  <2> QED
    BY <2>1, <2>2, <2>3, <2>4, Nothing DEF TypeOK, Places, app, history
<1>2. CASE Connect
  <2>1. want_connect' \in BOOLEAN /\ want_write' \in BOOLEAN
    <3>1. mode[2] \in BOOLEAN
      BY ConnAssumption DEF TypeOK
    <3> QED
      BY <1>2, <3>1 DEF Connect, BeginsTls, tls, TypeOK
  <2>2. net' = "up" /\ quiet' = 0 /\ due' = 0 /\ pc' = "greet"
    BY <1>2 DEF Connect, Goes
  <2>3. UNCHANGED <<mode, state, outp, part, pair, ping_t, ages, app, other, faults,
                    slept, early, undone, reconnects, ready, watch, back, left>>
    BY <1>2 DEF Connect, Goes
  <2> QED
    BY <2>1, <2>2, <2>3 DEF TypeOK, Places, ages, app, other
<1>3. CASE Pending
  <2>1. faults' \in 0 .. MaxFaults
    BY <1>3, FaultCounted DEF Pending
  <2> QED
    BY <1>3, <2>1 DEF Pending, Goes, TypeOK, Places, States, ages, app, other, history
<1>4. CASE Greet
  BY <1>4 DEF Greet, Goes, TypeOK, Places, States, ages, app, other, history
<1>5. CASE Hello
  <2>1. outp' \in Seq(Outgoing) /\ pair' \in 0 .. MaxPair
    <3>1. outp \in Seq(Outgoing) /\ pair \in 0 .. MaxPair /\ "CONNECT" \in Outgoing
      BY DEF TypeOK, Outgoing
    <3>2. outp' = Append(outp, "CONNECT") /\ pair' = Min({pair + 1, MaxPair})
      BY <1>5 DEF Hello, Queue
    <3>3. pair' \in 1 .. MaxPair
      BY <3>1, <3>2, PairGrows
    <3> QED
      BY <3>1, <3>2, <3>3, ConnConstants
  <2> QED
    BY <1>5, <2>1 DEF Hello, TypeOK, Places, ages, app, other, history
<1> QED
  BY <1>1, <1>2, <1>3, <1>4, <1>5 DEF NoAddress, NoContext

\* The steps of mosquitto_loop that read nothing and write nothing.
LEMMA LoopTypes ==
  TypeOK /\ (EnterLoop \/ Select \/ NothingToRead \/ LoopWrite \/ WritesNothing \/ InTime
             \/ Check \/ ReadHandshake \/ WriteHandshake)
    => TypeOK'
<1> SUFFICES ASSUME TypeOK, EnterLoop \/ Select \/ NothingToRead \/ LoopWrite \/ WritesNothing
                            \/ InTime \/ Check \/ ReadHandshake \/ WriteHandshake
             PROVE  TypeOK'
  OBVIOUS
<1>1. CASE EnterLoop
  <2>1. UNCHANGED <<client, ages, app, other, net, faults, history>>
    BY <1>1 DEF EnterLoop
  <2>2. CASE net = "none" /\ Goes("decide")
    BY <2>1, <2>2 DEF Goes, TypeOK, Places, client, ages, app, other, history
  <2>3. CASE /\ net # "none" /\ pc' = "wait"
             /\ watch' = (want_write \/ (outp # <<>> /\ ~want_connect))
             /\ left' = WaitsAtMost
             /\ UNCHANGED <<reconnects, ready, back>>
    <3>1. left' \in Nat
      BY <2>3, WaitBounded DEF TypeOK
    <3>2. watch' \in BOOLEAN
      BY <2>3
    <3> QED
      BY <2>1, <2>3, <3>1, <3>2 DEF TypeOK, Places, client, ages, app, other, history
  <2> QED
    BY <1>1, <2>2, <2>3 DEF EnterLoop
<1>2. CASE Select
  <2>1. ready' \subseteq {"sock", "pair", "write"}
    BY <1>2 DEF Select, Ready
  <2> QED
    BY <1>2, <2>1 DEF Select, TypeOK, Places, client, ages, app, other, history
<1>3. CASE NothingToRead \/ LoopWrite \/ InTime \/ Check
  <2>1. UNCHANGED <<client, ages, app, other, net, faults, history>>
    BY <1>3 DEF NothingToRead, LoopWrite, InTime, Check
  <2>2. /\ pc' \in {"pair", "packets", "loop", "over", "reset"} /\ back' \in {back, "loop"}
        /\ UNCHANGED <<reconnects, ready, watch, left>>
    BY <1>3 DEF NothingToRead, LoopWrite, InTime, Check, Goes
  <2> QED
    BY <2>1, <2>2 DEF TypeOK, Places, client, ages, app, other, history
<1>4. CASE WritesNothing
  BY <1>4 DEF WritesNothing, Written, Goes, TypeOK, Places, client, ages, app, other, history
<1>5. ASSUME NEW next \in {"pair", "misc"}, Handshake(next) PROVE TypeOK'
  <2>1. /\ UNCHANGED <<mode, state, outp, part, pair, ping_t, ages, app, other, history>>
        /\ UNCHANGED <<reconnects, ready, watch, back, left>>
        /\ want_connect' \in BOOLEAN /\ want_write' \in BOOLEAN /\ net' \in {net, "none"}
        /\ pc' \in {next, "over"}
    BY <1>5 DEF Handshake, Goes, TypeOK
  <2>2. faults' \in 0 .. MaxFaults
    <3>1. faults' = faults \/ Fault
      BY <1>5 DEF Handshake
    <3> QED
      BY <3>1, FaultCounted DEF TypeOK
  <2> QED
    BY <2>1, <2>2 DEF TypeOK, Places, ages, app, other, history
<1> QED
  BY <1>1, <1>2, <1>3, <1>4, <1>5 DEF ReadHandshake, WriteHandshake

\* TLS is used, or it is not.
LEMMA TlsBoolean == TypeOK => tls \in BOOLEAN
BY ConnAssumption DEF TypeOK, tls

\* A step that gives the connection up, but for mosquitto_disconnect.
GivesUp ==
  \/ ReadFails \/ RefusedEnds \/ OutOfState \/ Disconnected \/ KeepaliveCloses
  \/ (WriteFails /\ back = "loop")

\* What a packet that is read leaves.
LEMMA ReadsLeaves ==
  ASSUME TypeOK, NEW packet, Reads(packet)
  PROVE  /\ down # <<>> /\ Head(down) = packet /\ down' = Tail(down) /\ down' \in Seq(Incoming)
         /\ inAge' = 0 /\ quiet' = 0 /\ pc = "read" /\ "sock" \in ready /\ ~want_connect
         /\ UNCHANGED <<mode, want_connect, want_write, part, outAge, broker, greeted,
                        faults, early>>
<1>1. down \in Seq(Incoming) /\ down # <<>>
  BY DEF Reads, TypeOK
<1> QED
  BY <1>1, OneLess DEF Reads

\* And a DISCONNECT of the broker, of the queue.
LEMMA DisconnectedLeaves ==
  TypeOK /\ Disconnected =>
    /\ net' = "none" /\ pc' = "loop" /\ state' = "disconnected" /\ part' = FALSE
    /\ outp' = outp \/ (outp # <<>> /\ outp' = Tail(outp))
    /\ outp' \in Seq(Outgoing) /\ pair' = pair /\ pubs' \in 0 .. MaxPublishes
    /\ asked' \in BOOLEAN /\ (asked => asked') /\ apc' = apc /\ apkt' = apkt
    /\ down # <<>> /\ down' = Tail(down) /\ down' \in Seq(Incoming)
    /\ outAge' = 0 /\ inAge' = 0 /\ quiet' = 0
    /\ UNCHANGED <<reconnects, ready, watch, back, left>>
    /\ UNCHANGED <<mode, want_connect, want_write, ping_t, broker, greeted, faults, due, slept,
                   early, undone>>
<1> SUFFICES ASSUME TypeOK, Disconnected
             PROVE  /\ net' = "none" /\ pc' = "loop" /\ state' = "disconnected" /\ part' = FALSE
                    /\ outp' = outp \/ (outp # <<>> /\ outp' = Tail(outp))
                    /\ outp' \in Seq(Outgoing) /\ pair' = pair /\ pubs' \in 0 .. MaxPublishes
                    /\ asked' \in BOOLEAN /\ (asked => asked') /\ apc' = apc /\ apkt' = apkt
                    /\ down # <<>> /\ down' = Tail(down) /\ down' \in Seq(Incoming)
                    /\ outAge' = 0 /\ inAge' = 0 /\ quiet' = 0
                    /\ UNCHANGED <<reconnects, ready, watch, back, left>>
                    /\ UNCHANGED <<mode, want_connect, want_write, ping_t, broker, greeted, faults,
                                   due, slept, early, undone>>
  OBVIOUS
<1> DEFINE q == IF outp = <<>> THEN <<>> ELSE Tail(outp)
<1>1. /\ net' = "none" /\ pc' = "loop" /\ state' = "disconnected" /\ part' = FALSE
      /\ down # <<>> /\ down' = Tail(down) /\ outAge' = 0 /\ inAge' = 0 /\ quiet' = 0
      /\ UNCHANGED <<reconnects, ready, watch, back, left>>
      /\ UNCHANGED <<mode, want_connect, want_write, ping_t, broker, greeted, faults, due, slept,
                     early, undone>>
  BY DEF Disconnected, Goes
<1>2. PICK does \in Doings : Callback(q, does)
  BY DEF Disconnected
<1>3. outp \in Seq(Outgoing) /\ down \in Seq(Incoming)
  BY DEF TypeOK
<1>4. q \in Seq(Outgoing) /\ down' \in Seq(Incoming)
  BY <1>1, <1>3, OneLess, Nothing
<1>5. q = outp \/ (outp # <<>> /\ q = Tail(outp))
  OBVIOUS
<1>6. pair' = pair
  BY <1>1, <1>2 DEF Callback
<1> HIDE DEF q
<1>7. /\ outp' = q /\ pubs' \in 0 .. MaxPublishes
      /\ asked' \in BOOLEAN /\ (asked => asked') /\ apc' = apc /\ apkt' = apkt
  BY <1>1, <1>2, <1>4, CallbackLeaves
<1> QED
  BY <1>1, <1>4, <1>5, <1>6, <1>7

\* The steps that read a packet, or find that there will be none.
LEMMA ReadTypes ==
  TypeOK /\ (ReadFails \/ Connack \/ Refused \/ RefusedEnds \/ Pingresp \/ Message \/ OutOfState
             \/ Disconnected) => TypeOK'
<1> SUFFICES ASSUME TypeOK, ReadFails \/ Connack \/ Refused \/ RefusedEnds \/ Pingresp \/ Message
                            \/ OutOfState \/ Disconnected
             PROVE  TypeOK'
  OBVIOUS
<1>1. ASSUME NEW packet, Reads(packet)
      PROVE  /\ down' \in Seq(Incoming) /\ inAge' = 0 /\ quiet' = 0
             /\ UNCHANGED <<mode, want_connect, want_write, part, outAge, broker, greeted,
                            faults, early>>
  BY <1>1, ReadsLeaves
<1>2. ASSUME NEW fatal \in BOOLEAN, Broken(fatal), mode' = mode
      PROVE  /\ net' = "none" /\ outp' = outp /\ pair' = pair /\ pubs' \in 0 .. MaxPublishes
             /\ asked' \in BOOLEAN /\ apc' = apc /\ apkt' = apkt /\ state' \in States
             /\ pc' \in {"loop", "over", "decide"}
             /\ UNCHANGED <<reconnects, ready, watch, back, left>>
  BY <1>2, BrokenLeaves DEF TypeOK, States
<1>4. CASE ReadFails \/ RefusedEnds
  <2>1. PICK fatal \in BOOLEAN : Broken(fatal)
    BY <1>4, TlsBoolean DEF ReadFails, RefusedEnds
  <2>2. UNCHANGED <<mode, want_connect, want_write, part, ping_t, ages, other, faults, history>>
    BY <1>4 DEF ReadFails, RefusedEnds
  <2>3. /\ net' = "none" /\ outp' = outp /\ pair' = pair /\ pubs' \in 0 .. MaxPublishes
        /\ asked' \in BOOLEAN /\ apc' = apc /\ apkt' = apkt /\ state' \in States
        /\ pc' \in {"loop", "over", "decide"}
        /\ UNCHANGED <<reconnects, ready, watch, back, left>>
    BY <1>2, <2>1, <2>2
  <2> QED
    BY <2>2, <2>3 DEF TypeOK, Places, ages, other, history
<1>5. CASE Disconnected
  <2>1. /\ UNCHANGED <<mode, want_connect, want_write, ping_t, broker, greeted, faults, due, slept,
                       early, undone, reconnects, ready, watch, back, left>>
        /\ outp' \in Seq(Outgoing) /\ down' \in Seq(Incoming) /\ pubs' \in 0 .. MaxPublishes
        /\ asked' \in BOOLEAN /\ apc' = apc /\ apkt' = apkt /\ pair' = pair
        /\ part' = FALSE /\ outAge' = 0 /\ inAge' = 0 /\ quiet' = 0
        /\ net' = "none" /\ pc' = "loop" /\ state' = "disconnected"
    BY <1>5, DisconnectedLeaves
  <2>2. state' \in States /\ pc' \in Places
    BY <2>1 DEF States, Places
  <2> QED
    BY <2>1, <2>2, ZenonT(60) DEF TypeOK
<1>6. CASE OutOfState
  <2>1. PICK packet : Reads(packet)
    BY <1>6 DEF OutOfState
  <2>2. Broken(TRUE) /\ UNCHANGED <<ping_t, due, slept, undone>>
    BY <1>6 DEF OutOfState
  <2>3. /\ down' \in Seq(Incoming) /\ inAge' = 0 /\ quiet' = 0
        /\ UNCHANGED <<mode, want_connect, want_write, part, outAge, broker, greeted,
                       faults, early, ping_t, due, slept, undone>>
    BY <1>1, <2>1, <2>2
  <2>4. /\ net' = "none" /\ outp' = outp /\ pair' = pair /\ pubs' \in 0 .. MaxPublishes
        /\ asked' \in BOOLEAN /\ apc' = apc /\ apkt' = apkt /\ state' \in States
        /\ pc' \in {"loop", "over", "decide"}
        /\ UNCHANGED <<reconnects, ready, watch, back, left>>
    BY <1>2, <2>2, <2>3
  <2> QED
    BY <2>3, <2>4 DEF TypeOK, Places
<1>7. CASE Pingresp
  <2>1. /\ Reads("PINGRESP") /\ due' = 0 /\ ping_t' = FALSE /\ pc' = "pair"
        /\ UNCHANGED <<reconnects, ready, watch, back, left>>
        /\ UNCHANGED <<state, outp, pair, app, net, slept, undone>>
    BY <1>7 DEF Pingresp, Goes
  <2>2. /\ down' \in Seq(Incoming) /\ inAge' = 0 /\ quiet' = 0 /\ due' = 0
        /\ UNCHANGED <<mode, want_connect, want_write, part, outAge, broker, greeted,
                       faults, early, slept, undone>>
    BY <1>1, <2>1
  <2>3. /\ ping_t' \in BOOLEAN /\ pc' = "pair"
        /\ UNCHANGED <<reconnects, ready, watch, back, left>>
        /\ UNCHANGED <<state, outp, pair, app, net>>
    BY <2>1
  <2> QED
    BY <2>2, <2>3 DEF TypeOK, Places, app
<1>8. ASSUME NEW does \in Doings, Callback(outp, does), mode' = mode
      PROVE  /\ outp' \in Seq(Outgoing) /\ pair' \in 0 .. MaxPair /\ pubs' \in 0 .. MaxPublishes
             /\ asked' \in BOOLEAN /\ apc' = apc /\ apkt' = apkt
  <2>1. outp \in Seq(Outgoing)
    BY DEF TypeOK
  <2> QED
    BY <1>8, <2>1, CallbackLeaves
<1>9. CASE Connack
  <2>1. /\ Reads("CONNACK") /\ due' = 0 /\ slept' = 0 /\ state' = "active" /\ reconnects' = 0
        /\ pc' = "pair" /\ UNCHANGED <<ready, watch, back, left, ping_t, net>>
    BY <1>9 DEF Connack, ClearReconnects
  <2>2. PICK does \in Doings : Callback(outp, does) /\ undone' = (undone \/ does = "disconnect")
    BY <1>9 DEF Connack
  <2>3. mode' = mode
    BY <1>1, <2>1
  <2>4. undone' \in BOOLEAN
    BY <2>2
  <2> QED
    BY <1>1, <1>8, <2>1, <2>2, <2>3, <2>4 DEF TypeOK, Places, States
<1>10. CASE Refused \/ Message
  <2>1. /\ Reads("PUBLISH") \/ Reads("REFUSED")
        /\ UNCHANGED <<ping_t, net, slept, undone>> /\ due' \in {due, 0}
        /\ pc' \in {"pair", "refused"} /\ UNCHANGED <<reconnects, ready, watch, back, left>>
    BY <1>10 DEF Refused, Message, Goes
  <2>2. PICK does \in Doings : Callback(outp, does) /\ state' = StateAfter(does)
    BY <1>10 DEF Refused, Message
  <2>3. /\ down' \in Seq(Incoming) /\ inAge' = 0 /\ quiet' = 0
        /\ UNCHANGED <<mode, want_connect, want_write, part, outAge, broker, greeted,
                       faults, early>>
    BY <1>1, <2>1
  <2>4. state' \in States
    BY <2>2, StateLeft
  <2>5. due' \in Nat
    BY <2>1 DEF TypeOK
  <2> QED
    BY <1>8, <2>1, <2>2, <2>3, <2>4, <2>5 DEF TypeOK, Places
<1> QED
  BY <1>4, <1>5, <1>6, <1>7, <1>9, <1>10

\* A packet leaves the queue.
LEMMA SentLeaves ==
  ASSUME TypeOK, NEW packet \in Outgoing, Sent(packet)
  PROVE  /\ outp # <<>> /\ Head(outp) = packet /\ pc = "packets" /\ ~want_connect
         /\ Tail(outp) \in Seq(Outgoing) /\ Range(Tail(outp)) \subseteq Range(outp)
         /\ packet \in Range(outp)
         /\ part' = FALSE /\ want_write' = FALSE /\ outAge' = 0
         /\ UNCHANGED <<mode, want_connect, ping_t, inAge, down, faults, quiet, due, slept, undone>>
         /\ broker' \in Seq({"CONNECT", "PINGREQ"}) /\ greeted' \in BOOLEAN /\ early' \in BOOLEAN
         /\ \/ UNCHANGED <<broker, greeted, early>> /\ net # "up"
            \/ /\ net = "up" /\ greeted' = (greeted \/ packet = "CONNECT")
               /\ early' = (early \/ (~greeted /\ packet # "CONNECT"))
               /\ \/ broker' = broker /\ packet # "CONNECT"
                  \/ broker' = Append(broker, "CONNECT") /\ packet = "CONNECT"
                  \/ broker' = Append(broker, "PINGREQ") /\ packet = "PINGREQ"
<1>1. /\ outp # <<>> /\ Head(outp) = packet /\ pc = "packets" /\ ~want_connect
      /\ part' = FALSE /\ want_write' = FALSE /\ outAge' = 0
      /\ UNCHANGED <<mode, want_connect, ping_t, inAge, down, faults, quiet, due, slept, undone>>
  BY DEF Sent, Writes
<1>2. outp \in Seq(Outgoing)
  BY DEF TypeOK
<1>3. /\ Tail(outp) \in Seq(Outgoing) /\ Range(Tail(outp)) \subseteq Range(outp)
      /\ packet \in Range(outp)
  BY <1>1, <1>2, OneLess
<1>4. broker \in Seq({"CONNECT", "PINGREQ"}) /\ greeted \in BOOLEAN /\ early \in BOOLEAN
  BY DEF TypeOK
<1>5. /\ Append(broker, "CONNECT") \in Seq({"CONNECT", "PINGREQ"})
      /\ Append(broker, "PINGREQ") \in Seq({"CONNECT", "PINGREQ"})
  BY <1>4
<1>6. CASE net # "up"
  <2>1. UNCHANGED <<broker, greeted, early>>
    BY <1>6 DEF Sent
  <2> QED
    BY <1>1, <1>3, <1>4, <1>6, <2>1
<1>7. CASE net = "up"
  <2>1. Arrives(packet)
    BY <1>7 DEF Sent
  <2>2. /\ greeted' = (greeted \/ packet = "CONNECT")
        /\ early' = (early \/ (~greeted /\ packet # "CONNECT"))
    BY <2>1 DEF Arrives
  <2>3. \/ broker' = broker /\ packet # "CONNECT"
        \/ broker' = Append(broker, "CONNECT") /\ packet = "CONNECT"
        \/ broker' = Append(broker, "PINGREQ") /\ packet = "PINGREQ"
    BY <2>1 DEF Arrives
  <2>4. broker' \in Seq({"CONNECT", "PINGREQ"})
    BY <1>4, <1>5, <2>3
  <2>5. greeted' \in BOOLEAN /\ early' \in BOOLEAN
    BY <2>2
  <2> QED
    BY <1>1, <1>3, <1>7, <2>2, <2>3, <2>4, <2>5
<1> QED
  BY <1>6, <1>7

\* The steps of packet__write.
LEMMA WriteTypes ==
  TypeOK /\ (WritesPart \/ WritesPacket \/ WritesDisconnect \/ WriteFails) => TypeOK'
<1> SUFFICES ASSUME TypeOK, WritesPart \/ WritesPacket \/ WritesDisconnect \/ WriteFails
             PROVE  TypeOK'
  OBVIOUS
<1>1. CASE WritesPart
  <2>1. /\ part' = TRUE /\ want_write' = FALSE /\ pc' \in {"misc", "loop"}
        /\ UNCHANGED <<mode, state, want_connect, outp, pair, ping_t, outAge, inAge>>
        /\ UNCHANGED <<apc, apkt, pubs, asked, broker, greeted, down, net, faults>>
        /\ UNCHANGED <<quiet, due, slept, early, undone, reconnects, ready, watch, back, left>>
    BY <1>1 DEF WritesPart, Written, Goes, ages, app, other, history
  <2>2. part' \in BOOLEAN /\ want_write' \in BOOLEAN /\ pc' \in Places
    BY <2>1 DEF Places
  <2> QED
    BY <2>1, <2>2 DEF TypeOK
<1>2. CASE WritesPacket
  <2>1. PICK packet \in Outgoing \ {"DISCONNECT"} :
          /\ Sent(packet)
          /\ net' = IF early' /\ ~early THEN "reset" ELSE net
          /\ \E does \in IF packet = "PUBLISH" THEN Doings ELSE {"nothing"} :
               Callback(Tail(outp), does) /\ state' = StateAfter(does)
          /\ Goes("packets")
    BY <1>2 DEF WritesPacket
  <2>2. PICK does \in Doings : Callback(Tail(outp), does) /\ state' = StateAfter(does)
    BY <2>1 DEF Doings
  <2>3. /\ Tail(outp) \in Seq(Outgoing) /\ part' = FALSE /\ want_write' = FALSE /\ outAge' = 0
        /\ UNCHANGED <<mode, want_connect, ping_t, inAge, down, faults, quiet, due, slept, undone>>
        /\ broker' \in Seq({"CONNECT", "PINGREQ"}) /\ greeted' \in BOOLEAN /\ early' \in BOOLEAN
    BY <2>1, SentLeaves
  <2>4. /\ outp' \in Seq(Outgoing) /\ pair' \in 0 .. MaxPair /\ pubs' \in 0 .. MaxPublishes
        /\ asked' \in BOOLEAN /\ apc' = apc /\ apkt' = apkt
    BY <2>2, <2>3, CallbackLeaves
  <2>5. state' \in States
    BY <2>2, StateLeft
  <2>6. pc' = "packets" /\ UNCHANGED <<reconnects, ready, watch, back, left>> /\ net' \in {net, "reset"}
    BY <2>1 DEF Goes
  <2> QED
    BY <2>3, <2>4, <2>5, <2>6, ZenonT(60) DEF TypeOK, Places
<1>3. CASE WritesDisconnect
  <2>1. /\ Sent("DISCONNECT") /\ state' = "disconnected" /\ net' = "none" /\ outp' = Tail(outp)
        /\ pc' = "loop" /\ UNCHANGED <<reconnects, ready, watch, back, left>>
        /\ UNCHANGED <<pair, app>> /\ "DISCONNECT" \in Outgoing
    BY <1>3 DEF WritesDisconnect, Goes, Outgoing
  <2>2. /\ Tail(outp) \in Seq(Outgoing) /\ part' = FALSE /\ want_write' = FALSE /\ outAge' = 0
        /\ UNCHANGED <<mode, want_connect, ping_t, inAge, down, faults, quiet, due, slept, undone>>
        /\ broker' \in Seq({"CONNECT", "PINGREQ"}) /\ greeted' \in BOOLEAN /\ early' \in BOOLEAN
    BY <2>1, SentLeaves
  <2> QED
    BY <2>1, <2>2 DEF TypeOK, Places, States, app
<1>4. CASE WriteFails
  <2>1. want_write' = FALSE /\ UNCHANGED <<mode, want_connect, ages, other, faults, history>>
    BY <1>4 DEF WriteFails
  <2>2. CASE /\ back = "hello" /\ Cleared /\ net' = "none" /\ state' = "new"
             /\ Goes("decide") /\ UNCHANGED <<pair, ping_t, app>>
    BY <2>1, <2>2, Nothing DEF Cleared, Goes, TypeOK, Places, States, app, ages, other, history
  <2>3. CASE back = "loop" /\ (\E fatal \in {FALSE, tls} : Broken(fatal)) /\ UNCHANGED <<part, ping_t>>
    <3>0. PICK fatal \in BOOLEAN : Broken(fatal)
      BY <2>3, TlsBoolean
    <3>1. /\ net' = "none" /\ outp' = outp /\ pair' = pair /\ pubs' \in 0 .. MaxPublishes
          /\ asked' \in BOOLEAN /\ apc' = apc /\ apkt' = apkt /\ state' \in {state, "disconnected"}
          /\ pc' \in {"loop", "over", "decide"}
          /\ UNCHANGED <<reconnects, ready, watch, back, left>>
      BY <2>1, <3>0, BrokenLeaves
    <3>2. state' \in States
      BY <3>1 DEF TypeOK, States
    <3>3. want_write' \in BOOLEAN /\ UNCHANGED <<part, ping_t, mode, want_connect>>
      BY <2>1, <2>3
    <3>4. UNCHANGED <<ages, other, faults, history>>
      BY <2>1
    <3> QED
      BY <3>1, <3>2, <3>3, <3>4 DEF TypeOK, Places, ages, other, history
  <2>4. CASE /\ back = "ping" /\ ping_t' = FALSE
             /\ Goes("loop") /\ UNCHANGED <<outp, part, pair, state, app, net>>
    <3>1. /\ pc' = "loop" /\ ping_t' = FALSE /\ want_write' = FALSE
          /\ UNCHANGED <<mode, state, want_connect, outp, part, pair, outAge, inAge>>
          /\ UNCHANGED <<apc, apkt, pubs, asked, broker, greeted, down, net, faults>>
          /\ UNCHANGED <<quiet, due, slept, early, undone, reconnects, ready, watch, back, left>>
      BY <2>1, <2>4 DEF Goes, ages, app, other, history
    <3>2. ping_t' \in BOOLEAN /\ want_write' \in BOOLEAN /\ pc' \in Places
      BY <3>1 DEF Places
    <3> QED
      BY <3>1, <3>2 DEF TypeOK
  <2> QED
    BY <1>4, <2>2, <2>3, <2>4 DEF WriteFails
<1> QED
  BY <1>1, <1>2, <1>3, <1>4

\* Before the exponent, and with it.
LEMMA Products ==
  ASSUME NEW a \in Nat, NEW b \in Nat, a > 0
  PROVE  /\ a * (b + 1) \in Nat /\ a * (b + 1) > 0 /\ a * (b + 1) >= a
         /\ a * (b + 1) * (b + 1) \in Nat /\ a * (b + 1) * (b + 1) > 0
         /\ a * (b + 1) * (b + 1) >= a
<1>1. \A m, n \in Nat : m > 0 /\ n > 0 => m * n \in Nat /\ m * n > 0 /\ m * n >= m
  <2> SUFFICES ASSUME NEW m \in Nat, NEW n \in Nat, m > 0, n > 0
               PROVE  m * n \in Nat /\ m * n > 0 /\ m * n >= m
    OBVIOUS
  <2>1. m * n \in Nat
    OBVIOUS
  <2>2. m * n >= m
    <3>1. PICK k \in Nat : n = k + 1
      <4>1. n - 1 \in Nat /\ n = (n - 1) + 1
        OBVIOUS
      <4> QED
        BY <4>1
    <3>2. m * n = m * k + m /\ m * k \in Nat
      BY <3>1
    <3> HIDE <3>1
    <3> QED
      BY <2>1, <3>2
  <2> QED
    BY <2>1, <2>2
<1> DEFINE c == a * (b + 1)
<1>2. c \in Nat /\ c > 0 /\ c >= a
  BY <1>1
<1>3. c * (b + 1) \in Nat /\ c * (b + 1) > 0 /\ c * (b + 1) >= c
  <2> HIDE DEF c
  <2> QED
    BY <1>1, <1>2
<1> HIDE DEF c
<1>4. c * (b + 1) >= a
  <2> DEFINE d == c * (b + 1)
  <2>1. d \in Nat /\ d >= c
    BY <1>3
  <2> HIDE DEF d
  <2>2. d >= a
    BY <1>2, <2>1
  <2> QED
    BY <2>2 DEF d
<1> QED
  BY <1>2, <1>3, <1>4 DEF c

\* The delay before it is cut to the maximum.
LEMMA RawDelay ==
  ASSUME TypeOK
  PROVE  raw_delay \in Nat /\ raw_delay > 0 /\ raw_delay >= reconnect_delay
<1>1. reconnects \in Nat /\ reconnect_delay \in Nat /\ reconnect_delay > 0
  BY ConnConstants DEF TypeOK
<1> DEFINE one == reconnect_delay * (reconnects + 1)
           two == one * (reconnects + 1)
<1>2. /\ one \in Nat /\ one > 0 /\ one >= reconnect_delay
      /\ two \in Nat /\ two > 0 /\ two >= reconnect_delay
  BY <1>1, Products
<1>3. one * 1 = one
  <2>1. one \in Nat
    BY <1>2
  <2> HIDE DEF one
  <2> QED
    BY <2>1
<1>4. raw_delay \in {reconnect_delay, one, two}
  BY <1>3 DEF raw_delay
<1> HIDE DEF one, two
<1> QED
  BY <1>1, <1>2, <1>4

\* Keepalive, and what comes between two connections.
LEMMA BetweenTypes ==
  TypeOK /\ SocketInv /\ (ReadPair \/ Ping \/ KeepaliveCloses \/ Decide \/ Sleeps) => TypeOK'
<1> SUFFICES ASSUME TypeOK, SocketInv, ReadPair \/ Ping \/ KeepaliveCloses \/ Decide \/ Sleeps
             PROVE  TypeOK'
  OBVIOUS
<1>1. CASE ReadPair
  <2>1. /\ UNCHANGED <<mode, state, want_connect, want_write, outp, part, ping_t, ages,
                       reconnects, watch, back, left, app, other, net, faults, history>>
        /\ pc' \in {"write", "misc"}
    BY <1>1 DEF ReadPair
  <2>2. pair' \in 0 .. MaxPair
    <3>1. pair \in 0 .. MaxPair /\ ("pair" \in ready => pair > 0)
      BY <1>1 DEF TypeOK, SocketInv, ReadPair
    <3>2. IF "pair" \in ready THEN pair' = pair - 1 ELSE pair' = pair
      BY <1>1 DEF ReadPair, TakesByte
    <3> QED
      BY <3>1, <3>2, ConnConstants
  <2>3. ready' \subseteq {"sock", "pair", "write"}
    BY <1>1 DEF ReadPair, TypeOK
  <2> QED
    BY <2>1, <2>2, <2>3 DEF TypeOK, Places, ages, app, other, history
<1>2. CASE Ping
  <2>1. outp' \in Seq(Outgoing) /\ pair' \in 0 .. MaxPair
    <3>1. outp \in Seq(Outgoing) /\ pair \in 0 .. MaxPair /\ "PINGREQ" \in Outgoing
      BY DEF TypeOK, Outgoing
    <3>2. outp' = Append(outp, "PINGREQ") /\ pair' = Min({pair + 1, MaxPair})
      BY <1>2 DEF Ping, Queue
    <3>3. pair' \in 1 .. MaxPair
      BY <3>1, <3>2, PairGrows
    <3> QED
      BY <3>1, <3>2, <3>3, ConnConstants
  <2>2. outAge' \in Nat /\ inAge' \in Nat /\ due' \in Nat /\ ping_t' \in BOOLEAN
    BY <1>2 DEF Ping, Restarts
  <2>3. /\ pc' \in {"loop", "packets"} /\ back' = "ping"
        /\ UNCHANGED <<mode, state, want_connect, want_write, part, reconnects, ready,
                       watch, left, app, other, net, faults, quiet, slept, early, undone>>
    BY <1>2 DEF Ping
  <2> QED
    BY <2>1, <2>2, <2>3 DEF TypeOK, Places, app, other
<1>3. CASE KeepaliveCloses
  <2>1. /\ net' = "none" /\ pc' = "decide" /\ UNCHANGED <<reconnects, ready, watch, back, left>>
        /\ UNCHANGED <<mode, want_connect, want_write, part, ping_t, ages, other, faults, history>>
    BY <1>3 DEF KeepaliveCloses, Goes
  <2>2. PICK does \in Doings : Callback(outp, does) /\ state' = StateAfter(does)
    BY <1>3 DEF KeepaliveCloses
  <2>3. /\ outp' \in Seq(Outgoing) /\ pair' \in 0 .. MaxPair /\ pubs' \in 0 .. MaxPublishes
        /\ asked' \in BOOLEAN /\ apc' = apc /\ apkt' = apkt
    <3>1. outp \in Seq(Outgoing) /\ mode' = mode
      BY <2>1 DEF TypeOK
    <3> QED
      BY <2>2, <3>1, CallbackLeaves
  <2>4. state' \in States
    BY <2>2, StateLeft
  <2> QED
    BY <2>1, <2>3, <2>4 DEF TypeOK, Places, ages, other, history
<1>4. CASE Decide
  <2>1. UNCHANGED <<client, ages, app, other, net, faults, quiet, due, early, undone, ready, watch, back>>
    BY <1>4 DEF Decide, Goes
  <2>2. CASE ToldToStop /\ Goes("over") /\ UNCHANGED slept
    BY <2>1, <2>2 DEF Goes, TypeOK, Places, client, ages, app, other
  <2>3. CASE /\ ~ToldToStop /\ pc' = "sleep"
             /\ left' = Min({raw_delay, reconnect_delay_max}) /\ slept' = left'
             /\ reconnects' = IF raw_delay > reconnect_delay_max THEN reconnects ELSE reconnects + 1
             /\ UNCHANGED <<ready, watch, back>>
    <3>1. left' \in Nat /\ slept' \in Nat
      BY <2>3, RawDelay, MinOfTwo, ConnConstants
    <3>2. reconnects' \in Nat
      BY <2>3 DEF TypeOK
    <3>3. pc' = "sleep"
      BY <2>3
    <3> QED
      BY <2>1, <3>1, <3>2, <3>3 DEF TypeOK, Places, client, ages, app, other
  <2> QED
    BY <1>4, <2>2, <2>3 DEF Decide
<1>5. CASE Sleeps
  <2>1. /\ pc' = "check" /\ UNCHANGED <<reconnects, ready, watch, back, left>>
        /\ UNCHANGED <<mode, state, want_connect, want_write, outp, part, ping_t, ages,
                       app, other, net, faults, history>>
    BY <1>5 DEF Sleeps, Goes
  <2>2. pair' \in 0 .. MaxPair
    <3>1. pair \in 0 .. MaxPair
      BY DEF TypeOK
    <3>2. pair' = pair \/ (pair > 0 /\ pair' = pair - 1)
      BY <1>5 DEF Sleeps, TakesByte
    <3> QED
      BY <3>1, <3>2, ConnConstants
  <2> QED
    BY <2>1, <2>2 DEF TypeOK, Places, ages, app, other, history
<1> QED
  BY <1>1, <1>2, <1>3, <1>4, <1>5

\* The application's own thread.
LEMMA ApplicationTypes == TypeOK /\ Application => TypeOK'
<1> SUFFICES ASSUME TypeOK, Application PROVE TypeOK'
  OBVIOUS
<1>1. CASE AppPublish
  <2>1. /\ apc' = "queue" /\ apkt' = "PUBLISH"
        /\ UNCHANGED <<client, ages, loop, asked, other, net, faults, history>>
    BY <1>1 DEF AppPublish
  <2>2. pubs' \in 0 .. MaxPublishes
    <3>1. pubs \in 0 .. MaxPublishes /\ pubs < MaxPublishes /\ pubs' = pubs + 1
      BY <1>1 DEF AppPublish, TypeOK
    <3> QED
      BY <3>1, ConnConstants
  <2> QED
    BY <2>1, <2>2 DEF TypeOK, Outgoing, client, ages, loop, other, history
<1>2. CASE AppDisconnect
  <2>1. /\ asked' = TRUE /\ state' = "disconnected" /\ apc' \in {apc, "queue"}
        /\ apkt' \in {apkt, "DISCONNECT"}
        /\ UNCHANGED <<mode, want_connect, want_write, outp, part, pair, ping_t, ages,
                       loop, pubs, other, net, faults, history>>
    BY <1>2 DEF AppDisconnect
  <2>2. apkt' \in Outgoing /\ state' \in States
    BY <2>1 DEF TypeOK, Outgoing, States
  <2> QED
    BY <2>1, <2>2 DEF TypeOK, ages, loop, other, history
<1>3. CASE AppQueues
  <2>1. /\ apc' = "wake" /\ outp' = Append(outp, apkt)
        /\ UNCHANGED <<mode, state, want_connect, want_write, part, pair, ping_t, ages,
                       loop, apkt, pubs, asked, other, net, faults, history>>
    BY <1>3 DEF AppQueues
  <2>2. outp' \in Seq(Outgoing)
    BY <2>1 DEF TypeOK
  <2> QED
    BY <2>1, <2>2 DEF TypeOK, ages, loop, other, history
<1>4. CASE AppWakes
  <2>1. /\ apc' \in {"idle", "join"}
        /\ UNCHANGED <<mode, state, want_connect, want_write, outp, part, ping_t, ages,
                       loop, apkt, pubs, asked, other, net, faults, history>>
    BY <1>4 DEF AppWakes
  <2>2. pair' \in 0 .. MaxPair
    <3>1. pair \in 0 .. MaxPair /\ pair' = Min({pair + 1, MaxPair})
      BY <1>4 DEF TypeOK, AppWakes, WakesLoop
    <3>2. pair' \in 1 .. MaxPair
      BY <3>1, PairGrows
    <3> QED
      BY <3>2, ConnConstants
  <2> QED
    BY <2>1, <2>2 DEF TypeOK, ages, loop, other, history
<1> QED
  BY <1>1, <1>2, <1>3, <1>4 DEF Application

\* Time, the broker and the way to it.
LEMMA PeerTypes ==
  TypeOK /\ (Tick \/ BrokerAnswers \/ BrokerPublishes \/ BrokerDisconnects \/ PeerResets
             \/ PeerFallsSilent) => TypeOK'
<1> SUFFICES ASSUME TypeOK, Tick \/ BrokerAnswers \/ BrokerPublishes \/ BrokerDisconnects
                            \/ PeerResets \/ PeerFallsSilent
             PROVE  TypeOK'
  OBVIOUS
<1>1. broker \in Seq({"CONNECT", "PINGREQ"}) /\ down \in Seq(Incoming)
  BY DEF TypeOK
<1>2. CASE Tick
  <2>1. UNCHANGED <<client, reconnects, pc, ready, watch, back, app, other, net, faults,
                    slept, early, undone>>
    BY <1>2 DEF Tick
  <2>2. left' \in Nat
    <3>1. left \in Nat /\ left > 0 /\ left' = left - 1
      BY <1>2 DEF Tick, TypeOK
    <3> QED
      BY <3>1
  <2>3. outAge' \in Nat /\ inAge' \in Nat /\ quiet' \in Nat /\ due' \in Nat
    <3>2. outAge \in Nat /\ inAge \in Nat /\ quiet \in Nat /\ due \in Nat
      BY DEF TypeOK
    <3>3. /\ outAge' = Later(outAge, net # "none" \/ pc = "connect", Longest)
          /\ inAge' = Later(inAge, net # "none" \/ pc = "connect", Longest)
      BY <1>2 DEF Tick
    <3>4. quiet' = Later(quiet, net # "none", Longest)
      BY <1>2 DEF Tick
    <3>5. due' = Later(due, net # "none" /\ Awaiting, Longest)
      BY <1>2 DEF Tick
    <3>6. quiet' \in Nat
      BY <3>2, <3>4, Counts
    <3>7. due' \in Nat
      BY <3>2, <3>5, Counts
    <3>8. outAge' \in Nat
      BY <3>2, <3>3, Counts
    <3>9. inAge' \in Nat
      BY <3>2, <3>3, Counts
    <3> QED
      BY <3>6, <3>7, <3>8, <3>9
  <2> QED
    BY <2>1, <2>2, <2>3 DEF TypeOK, client, app, other
<1>3. CASE BrokerAnswers
  <2>1. broker' = Tail(broker) /\ broker # <<>>
        /\ UNCHANGED <<client, ages, loop, app, greeted, net, history>>
    BY <1>3 DEF BrokerAnswers
  <2>2. broker' \in Seq({"CONNECT", "PINGREQ"})
    BY <1>1, <2>1, OneLess
  <2>3. \E packet \in {"CONNACK", "REFUSED", "PINGRESP"} : down' = Append(down, packet)
    BY <1>3 DEF BrokerAnswers
  <2>4. down' \in Seq(Incoming)
    <3>1. PICK packet \in {"CONNACK", "REFUSED", "PINGRESP"} : down' = Append(down, packet)
      BY <2>3
    <3>2. packet \in Incoming
      BY DEF Incoming
    <3> QED
      BY <1>1, <3>1, <3>2
  <2>5. faults' \in 0 .. MaxFaults
    <3>1. faults' = faults \/ Fault
      BY <1>3 DEF BrokerAnswers
    <3> QED
      BY <3>1, FaultCounted DEF TypeOK
  <2> QED
    BY <2>1, <2>2, <2>4, <2>5 DEF TypeOK, client, ages, loop, app, history
<1>4. CASE BrokerPublishes
  <2>1. down' = <<"PUBLISH">>
        /\ UNCHANGED <<client, ages, loop, app, broker, greeted, net, faults, history>>
    BY <1>4 DEF BrokerPublishes
  <2>2. down' \in Seq(Incoming)
    BY <2>1 DEF Incoming
  <2> QED
    BY <2>1, <2>2 DEF TypeOK, client, ages, loop, app, history
<1>5. CASE PeerResets
  <2>1. net' = "reset" /\ broker' = <<>> /\ down' \in {down, <<>>} /\ faults' \in 0 .. MaxFaults
        /\ UNCHANGED <<client, ages, loop, app, greeted, history>>
    BY <1>5, FaultCounted DEF PeerResets
  <2>2. broker' \in Seq({"CONNECT", "PINGREQ"}) /\ down' \in Seq(Incoming)
    BY <1>1, <2>1, Nothing
  <2> QED
    BY <2>1, <2>2 DEF TypeOK, client, ages, loop, app, history
<1>6. CASE PeerFallsSilent
  <2>1. net' = "mute" /\ broker' = <<>> /\ faults' \in 0 .. MaxFaults
        /\ UNCHANGED <<client, ages, loop, app, greeted, down, history>>
    BY <1>6, FaultCounted DEF PeerFallsSilent
  <2>2. broker' \in Seq({"CONNECT", "PINGREQ"})
    BY <1>1, <2>1, Nothing
  <2> QED
    BY <2>1, <2>2 DEF TypeOK, client, ages, loop, app, history
<1>7. CASE BrokerDisconnects
  <2>1. /\ net' = "reset" /\ broker' = <<>> /\ down' = Append(down, "DISCONNECT")
        /\ faults' \in 0 .. MaxFaults /\ "DISCONNECT" \in Incoming
        /\ UNCHANGED <<client, ages, loop, app, greeted, history>>
    BY <1>7, FaultCounted DEF BrokerDisconnects, Incoming
  <2>2. broker' \in Seq({"CONNECT", "PINGREQ"}) /\ down' \in Seq(Incoming)
    BY <1>1, <2>1, Nothing
  <2> QED
    BY <2>1, <2>2 DEF TypeOK, client, ages, loop, app, history
<1> QED
  BY <1>2, <1>3, <1>4, <1>5, <1>6, <1>7

\* Every step.
LEMMA TypesKept == TypeOK /\ SocketInv /\ Next => TypeOK'
BY ConnectTypes, LoopTypes, ReadTypes, WriteTypes, BetweenTypes, ApplicationTypes, PeerTypes
   DEF Next, Loop, Application

-----------------------------------------------------------------------------
(* What the steps with a callback leave *)

\* What such a step leaves.
Closes ==
  /\ net' = "none" /\ pc' \in {"loop", "over", "decide"}
  /\ UNCHANGED <<mode, want_connect, pair, ping_t, reconnects, ready, watch, back, left, apc, apkt,
                 broker, greeted, slept, early, undone>>
  /\ outp' = outp \/ (outp # <<>> /\ outp' = Tail(outp))
  /\ state' \in {state, "disconnected"}
  /\ asked' \in BOOLEAN /\ (asked => asked') /\ (asked' = asked \/ state' = "disconnected")
  /\ \/ UNCHANGED <<down, quiet>>
     \/ down # <<>> /\ down' = Tail(down) /\ quiet' = 0

\* The steps that do so.
LEMMA Closing == TypeOK /\ GivesUp => Closes
<1> SUFFICES ASSUME TypeOK, GivesUp PROVE Closes
  OBVIOUS
<1>1. ASSUME NEW fatal \in BOOLEAN, Broken(fatal), mode' = mode
      PROVE  /\ net' = "none" /\ outp' = outp /\ pair' = pair
             /\ asked' \in BOOLEAN /\ (asked => asked') /\ apc' = apc /\ apkt' = apkt
             /\ state' \in {state, "disconnected"} /\ (asked' = asked \/ state' = "disconnected")
             /\ pc' \in {"loop", "over", "decide"}
             /\ UNCHANGED <<reconnects, ready, watch, back, left>>
  BY <1>1, BrokenLeaves
<1>2. CASE ReadFails \/ RefusedEnds \/ (WriteFails /\ back = "loop")
  <2>1. PICK fatal \in BOOLEAN : Broken(fatal)
    BY <1>2, TlsBoolean DEF ReadFails, RefusedEnds, WriteFails
  <2>2. UNCHANGED <<mode, want_connect, ping_t, ages, other, history>>
    BY <1>2 DEF ReadFails, RefusedEnds, WriteFails
  <2>3. /\ net' = "none" /\ outp' = outp /\ pair' = pair
        /\ asked' \in BOOLEAN /\ (asked => asked') /\ apc' = apc /\ apkt' = apkt
        /\ state' \in {state, "disconnected"} /\ (asked' = asked \/ state' = "disconnected")
        /\ pc' \in {"loop", "over", "decide"}
        /\ UNCHANGED <<reconnects, ready, watch, back, left>>
    BY <1>1, <2>1, <2>2
  <2> QED
    BY <2>2, <2>3 DEF Closes, ages, other, history
<1>3. CASE OutOfState
  <2>1. PICK packet : Reads(packet)
    BY <1>3 DEF OutOfState
  <2>2. Broken(TRUE) /\ UNCHANGED <<ping_t, slept, undone>>
    BY <1>3 DEF OutOfState
  <2>3. /\ down # <<>> /\ down' = Tail(down) /\ quiet' = 0
        /\ UNCHANGED <<mode, want_connect, broker, greeted, early>>
    BY <2>1, ReadsLeaves
  <2>4. /\ net' = "none" /\ outp' = outp /\ pair' = pair
        /\ asked' \in BOOLEAN /\ (asked => asked') /\ apc' = apc /\ apkt' = apkt
        /\ state' \in {state, "disconnected"} /\ (asked' = asked \/ state' = "disconnected")
        /\ pc' \in {"loop", "over", "decide"}
        /\ UNCHANGED <<reconnects, ready, watch, back, left>>
    BY <1>1, <2>2, <2>3
  <2> QED
    BY <2>2, <2>3, <2>4 DEF Closes
<1>4. CASE Disconnected
  BY <1>4, DisconnectedLeaves DEF Closes
<1>5. CASE KeepaliveCloses
  <2>1. /\ net' = "none" /\ pc' = "decide" /\ UNCHANGED <<reconnects, ready, watch, back, left>>
        /\ UNCHANGED <<mode, want_connect, ping_t, ages, other, history>>
    BY <1>5 DEF KeepaliveCloses, Goes
  <2>2. PICK does \in Doings : Callback(outp, does) /\ state' = StateAfter(does)
    BY <1>5 DEF KeepaliveCloses
  <2>3. outp \in Seq(Outgoing)
    BY DEF TypeOK
  <2>4. /\ asked' \in BOOLEAN /\ (asked => asked') /\ apc' = apc /\ apkt' = apkt /\ outp' = outp
        /\ does # "disconnect" => asked' = asked
    BY <2>1, <2>2, <2>3, CallbackLeaves
  <2>5. pair' = pair
    BY <2>1, <2>2 DEF Callback
  <2>6. state' \in {state, "disconnected"} /\ (asked' = asked \/ state' = "disconnected")
    BY <2>2, <2>4 DEF StateAfter
  <2> QED
    BY <2>1, <2>4, <2>5, <2>6 DEF Closes, ages, other, history
<1> QED
  BY <1>2, <1>3, <1>4, <1>5 DEF GivesUp

\* A callback on a connection that stays: behind the packets q there may be one more.
CallsBack(q) ==
  /\ pair' >= pair /\ asked' \in BOOLEAN /\ (asked => asked') /\ apc' = apc /\ apkt' = apkt
  /\ \/ outp' = q
     \/ outp' = Append(q, "PUBLISH")
     \/ outp' = Append(q, "DISCONNECT") /\ asked'

\* CONNACK has been read, or a message, or that the broker does not want the client.
Answered ==
  /\ pc = "read" /\ "sock" \in ready /\ ~want_connect
  /\ down # <<>> /\ down' = Tail(down) /\ inAge' = 0 /\ quiet' = 0
  /\ pc' \in {"pair", "refused"} /\ CallsBack(outp)
  /\ UNCHANGED <<mode, want_connect, want_write, part, outAge, broker, greeted, faults, early,
                 ready, watch, back, left, ping_t, net>>

\* CONNACK has come.
LEMMA ConnackLeaves ==
  TypeOK /\ Connack =>
    /\ Answered /\ Head(down) = "CONNACK" /\ state' = "active" /\ due' = 0
    /\ slept' = 0 /\ reconnects' = 0 /\ (undone' \/ (asked' = asked /\ undone' = undone))
<1> SUFFICES ASSUME TypeOK, Connack
             PROVE  /\ Answered /\ Head(down) = "CONNACK" /\ state' = "active" /\ due' = 0
                    /\ slept' = 0 /\ reconnects' = 0
                    /\ undone' \/ (asked' = asked /\ undone' = undone)
  OBVIOUS
<1>1. /\ Reads("CONNACK") /\ due' = 0 /\ slept' = 0 /\ state' = "active" /\ reconnects' = 0
      /\ pc' = "pair" /\ UNCHANGED <<ready, watch, back, left, ping_t, net>>
  BY DEF Connack, ClearReconnects
<1>2. /\ down # <<>> /\ Head(down) = "CONNACK" /\ down' = Tail(down) /\ inAge' = 0 /\ quiet' = 0
      /\ pc = "read" /\ "sock" \in ready /\ ~want_connect
      /\ UNCHANGED <<mode, want_connect, want_write, part, outAge, broker, greeted, faults, early>>
  BY <1>1 DEF Reads
<1>3. PICK does \in Doings : Callback(outp, does) /\ undone' = (undone \/ does = "disconnect")
  BY DEF Connack
<1>4. outp \in Seq(Outgoing) /\ undone \in BOOLEAN
  BY DEF TypeOK
<1>5. CallsBack(outp) /\ (does # "disconnect" => asked' = asked)
  BY <1>2, <1>3, <1>4, CallbackLeaves DEF CallsBack
<1>6. undone' \/ (asked' = asked /\ undone' = undone)
  BY <1>3, <1>4, <1>5
<1> QED
  BY <1>1, <1>2, <1>5, <1>6 DEF Answered

\* The broker does not want the client.
LEMMA RefusedLeaves ==
  TypeOK /\ Refused =>
    /\ Answered /\ Head(down) = "REFUSED" /\ pc' = "refused" /\ UNCHANGED <<slept, reconnects, undone>>
    /\ state' \in {state, "disconnected"} /\ (state' # state => asked' /\ ~threaded)
    /\ asked' = asked \/ state' = "disconnected"
<1> SUFFICES ASSUME TypeOK, Refused
             PROVE  /\ Answered /\ Head(down) = "REFUSED" /\ pc' = "refused"
                    /\ UNCHANGED <<slept, reconnects, undone>>
                    /\ state' \in {state, "disconnected"} /\ (state' # state => asked' /\ ~threaded)
                    /\ asked' = asked \/ state' = "disconnected"
  OBVIOUS
<1>1. /\ Reads("REFUSED") /\ UNCHANGED <<ping_t, net, slept, undone>> /\ pc' = "refused"
      /\ UNCHANGED <<reconnects, ready, watch, back, left>>
  BY DEF Refused, Goes
<1>2. /\ down # <<>> /\ Head(down) = "REFUSED" /\ down' = Tail(down) /\ inAge' = 0 /\ quiet' = 0
      /\ pc = "read" /\ "sock" \in ready /\ ~want_connect
      /\ UNCHANGED <<mode, want_connect, want_write, part, outAge, broker, greeted, faults, early>>
  BY <1>1 DEF Reads
<1>3. PICK does \in Doings : Callback(outp, does) /\ state' = StateAfter(does)
  BY DEF Refused
<1>4. /\ CallsBack(outp) /\ (does = "disconnect" => asked' /\ ~threaded)
      /\ does # "disconnect" => asked' = asked
  <2>1. outp \in Seq(Outgoing)
    BY DEF TypeOK
  <2> QED
    BY <1>2, <1>3, <2>1, CallbackLeaves DEF CallsBack
<1>5. /\ state' \in {state, "disconnected"} /\ (state' # state => asked' /\ ~threaded)
      /\ asked' = asked \/ state' = "disconnected"
  BY <1>3, <1>4 DEF StateAfter
<1> QED
  BY <1>1, <1>2, <1>4, <1>5 DEF Answered

\* A message has come.
LEMMA MessageLeaves ==
  TypeOK /\ Message =>
    /\ Answered /\ Head(down) = "PUBLISH" /\ state = "active"
    /\ UNCHANGED <<due, slept, reconnects, undone>>
    /\ state' \in {"active", "disconnected"} /\ (state' = "disconnected" => asked' /\ ~threaded)
    /\ asked' = asked \/ state' = "disconnected"
<1> SUFFICES ASSUME TypeOK, Message
             PROVE  /\ Answered /\ Head(down) = "PUBLISH" /\ state = "active"
                    /\ UNCHANGED <<due, slept, reconnects, undone>>
                    /\ state' \in {"active", "disconnected"}
                    /\ state' = "disconnected" => asked' /\ ~threaded
                    /\ asked' = asked \/ state' = "disconnected"
  OBVIOUS
<1>1. /\ Reads("PUBLISH") /\ state = "active" /\ UNCHANGED <<ping_t, net, due, slept, undone>>
      /\ pc' = "pair" /\ UNCHANGED <<reconnects, ready, watch, back, left>>
  BY DEF Message, Goes
<1>2. /\ down # <<>> /\ Head(down) = "PUBLISH" /\ down' = Tail(down) /\ inAge' = 0 /\ quiet' = 0
      /\ pc = "read" /\ "sock" \in ready /\ ~want_connect
      /\ UNCHANGED <<mode, want_connect, want_write, part, outAge, broker, greeted, faults, early>>
  BY <1>1 DEF Reads
<1>3. PICK does \in Doings : Callback(outp, does) /\ state' = StateAfter(does)
  BY DEF Message
<1>4. /\ CallsBack(outp) /\ (does = "disconnect" => asked' /\ ~threaded)
      /\ does # "disconnect" => asked' = asked
  <2>1. outp \in Seq(Outgoing)
    BY DEF TypeOK
  <2> QED
    BY <1>2, <1>3, <2>1, CallbackLeaves DEF CallsBack
<1>5. /\ state' \in {"active", "disconnected"} /\ (state' = "disconnected" => asked' /\ ~threaded)
      /\ asked' = asked \/ state' = "disconnected"
  BY <1>1, <1>3, <1>4 DEF StateAfter
<1> QED
  BY <1>1, <1>2, <1>4, <1>5 DEF Answered

\* A packet has been written, and the connection stays.
LEMMA PacketLeaves ==
  TypeOK /\ WritesPacket =>
    \E packet \in Outgoing \ {"DISCONNECT"} :
      /\ Sent(packet) /\ CallsBack(Tail(outp)) /\ pc' = "packets"
      /\ net' = IF early' /\ ~early THEN "reset" ELSE net
      /\ UNCHANGED <<reconnects, ready, watch, back, left>>
      /\ state' \in {state, "disconnected"}
      /\ state' # state => packet = "PUBLISH" /\ asked' /\ ~threaded
      /\ outp' # Tail(outp) => packet = "PUBLISH" /\ ~threaded
      /\ undone' = undone /\ (asked' = asked \/ state' = "disconnected")
<1> SUFFICES ASSUME TypeOK, WritesPacket
             PROVE  \E packet \in Outgoing \ {"DISCONNECT"} :
                      /\ Sent(packet) /\ CallsBack(Tail(outp)) /\ pc' = "packets"
                      /\ net' = IF early' /\ ~early THEN "reset" ELSE net
                      /\ UNCHANGED <<reconnects, ready, watch, back, left>>
                      /\ state' \in {state, "disconnected"}
                      /\ state' # state => packet = "PUBLISH" /\ asked' /\ ~threaded
                      /\ outp' # Tail(outp) => packet = "PUBLISH" /\ ~threaded
                      /\ undone' = undone /\ (asked' = asked \/ state' = "disconnected")
  OBVIOUS
<1>1. PICK packet \in Outgoing \ {"DISCONNECT"} :
        /\ Sent(packet)
        /\ net' = IF early' /\ ~early THEN "reset" ELSE net
        /\ \E does \in IF packet = "PUBLISH" THEN Doings ELSE {"nothing"} :
             Callback(Tail(outp), does) /\ state' = StateAfter(does)
        /\ Goes("packets")
  BY DEF WritesPacket
<1>2. PICK does \in Doings : /\ Callback(Tail(outp), does) /\ state' = StateAfter(does)
                             /\ packet # "PUBLISH" => does = "nothing"
  BY <1>1 DEF Doings
<1>3. Tail(outp) \in Seq(Outgoing) /\ mode' = mode /\ undone' = undone
  BY <1>1, SentLeaves
<1>4. /\ CallsBack(Tail(outp)) /\ (does = "disconnect" => asked' /\ ~threaded)
      /\ outp' # Tail(outp) => does # "nothing"
      /\ does # "disconnect" => asked' = asked
  BY <1>2, <1>3, CallbackLeaves DEF CallsBack
<1>5. outp' # Tail(outp) => ~threaded
  BY <1>2 DEF Callback, Doings
<1>6. /\ state' \in {state, "disconnected"} /\ (state' # state => does = "disconnect")
      /\ does = "disconnect" => state' = "disconnected"
  BY <1>2 DEF StateAfter
<1>7. /\ state' # state => packet = "PUBLISH" /\ asked' /\ ~threaded
      /\ outp' # Tail(outp) => packet = "PUBLISH" /\ ~threaded
      /\ asked' = asked \/ state' = "disconnected"
  <2>1. state' # state => does = "disconnect" /\ does # "nothing"
    BY <1>6
  <2>2. does # "nothing" => packet = "PUBLISH"
    BY <1>2
  <2>3. asked' = asked \/ state' = "disconnected"
    BY <1>4, <1>6
  <2>4. outp' # Tail(outp) => packet = "PUBLISH" /\ ~threaded
    BY <1>4, <1>5, <2>2
  <2>5. state' # state => packet = "PUBLISH" /\ asked' /\ ~threaded
    BY <1>4, <2>1, <2>2
  <2> QED
    BY <2>3, <2>4, <2>5
<1>8. pc' = "packets" /\ UNCHANGED <<reconnects, ready, watch, back, left>>
  BY <1>1 DEF Goes
<1> QED
  BY <1>1, <1>3, <1>4, <1>6, <1>7, <1>8

-----------------------------------------------------------------------------
(* The parts of the invariant that speak of the socket and of the other thread *)

\* Every step keeps what is said of the socket.
LEMMA SocketKept == TypeOK /\ SocketInv /\ Next => SocketInv'
<1> SUFFICES ASSUME TypeOK, SocketInv, Next PROVE SocketInv'
  OBVIOUS
<1> USE DEF Closed
<1>1. pair \in 0 .. MaxPair /\ (pc \in {"read", "pair"} /\ "pair" \in ready => pair > 0)
  BY DEF TypeOK, SocketInv
<1>2. CASE GivesUp
  <2>1. net' = "none" /\ pc' \in {"loop", "over", "decide"}
    BY <1>2, Closing DEF Closes
  <2> QED
    BY <2>1 DEF SocketInv
<1>3. CASE Reset \/ Connect \/ Greet \/ Hello
  BY <1>3 DEF Reset, Connect, Greet, Hello, Goes, SocketInv
<1>4. CASE Pending \/ Decide \/ Sleeps \/ Check
  <2>1. /\ pc \in {"connect", "decide", "sleep", "check"} /\ net' = net
        /\ pc' \in {"decide", "over", "sleep", "check", "reset"}
    BY <1>4 DEF Pending, Decide, Sleeps, Check, Goes
  <2> QED
    BY <2>1 DEF SocketInv
<1>5. CASE EnterLoop
  BY <1>5 DEF EnterLoop, Goes, SocketInv
<1>6. CASE Select
  <2>1. "pair" \in ready' => pair > 0
    BY <1>6 DEF Select, Ready
  <2>2. net # "none" /\ net' = net /\ pair' = pair /\ pc' \in {"misc", "read"}
    BY <1>6 DEF Select, SocketInv, client
  <2> QED
    BY <2>1, <2>2 DEF SocketInv
<1>7. ASSUME NEW next \in {"pair", "misc"}, Handshake(next), pc \in {"read", "write"},
             next = "pair" => pc = "read"
      PROVE  SocketInv'
  <2>1. /\ pair' = pair /\ ready' = ready
        /\ \/ net' = net /\ pc' = next
           \/ net' = "none" /\ pc' = "over"
    BY <1>7 DEF Handshake, Goes
  <2>2. net # "none"
    BY <1>7 DEF SocketInv
  <2> QED
    BY <1>1, <1>7, <2>1, <2>2 DEF SocketInv
<1>8. CASE NothingToRead \/ Pingresp
  <2>1. /\ pc = "read" /\ pc' = "pair" /\ ready' = ready /\ net' = net /\ pair' = pair
    BY <1>8 DEF NothingToRead, Pingresp, Reads, Goes, client
  <2> QED
    BY <1>1, <2>1 DEF SocketInv
<1>9. CASE Connack \/ Refused \/ Message
  <2>1. Answered
    BY <1>9, ConnackLeaves, RefusedLeaves, MessageLeaves
  <2>2. pc = "read" /\ pc' \in {"pair", "refused"} /\ ready' = ready /\ net' = net /\ pair' >= pair
    BY <2>1 DEF Answered, CallsBack
  <2>3. pair' \in Nat
    <3>1. TypeOK'
      BY <1>9, ReadTypes
    <3> QED
      BY <3>1, ConnConstants DEF TypeOK
  <2> QED
    BY <1>1, <2>2, <2>3 DEF SocketInv
<1>10. CASE ReadPair
  <2>1. pc = "pair" /\ pc' \in {"write", "misc"} /\ net' = net
    BY <1>10 DEF ReadPair
  <2> QED
    BY <2>1 DEF SocketInv
<1>11. CASE LoopWrite \/ WritesNothing \/ WritesPart \/ InTime
  <2>1. /\ pc \in {"write", "packets", "misc"} /\ net' = net
        /\ pc' \in {"packets", "misc", "loop"}
    BY <1>11 DEF LoopWrite, WritesNothing, WritesPart, InTime, Written, Writes, Goes
  <2> QED
    BY <2>1 DEF SocketInv
<1>12. CASE Ping
  <2>1. pc = "misc" /\ pc' \in {"loop", "packets"} /\ net' = net
    BY <1>12 DEF Ping
  <2> QED
    BY <2>1 DEF SocketInv
<1>13. CASE WritesPacket
  <2>1. pc = "packets" /\ pc' = "packets" /\ net' \in {net, "reset"}
    BY <1>13 DEF WritesPacket, Sent, Writes, Goes
  <2> QED
    BY <2>1 DEF SocketInv
<1>14. CASE WritesDisconnect
  <2>1. pc' = "loop"
    BY <1>14 DEF WritesDisconnect, Goes
  <2> QED
    BY <2>1 DEF SocketInv
<1>15. CASE WriteFails /\ back # "loop"
  <2>1. (net' = "none" /\ pc' = "decide") \/ pc' = "loop"
    BY <1>15 DEF WriteFails, Goes
  <2> QED
    BY <2>1 DEF SocketInv
<1>16. CASE Application
  <2>1. pc' = pc /\ net' = net /\ ready' = ready
    BY <1>16 DEF Application, AppPublish, AppDisconnect, AppQueues, AppWakes, loop
  <2>2. pair' = pair \/ pair' > 0
    <3>1. pair' = pair \/ WakesLoop
      BY <1>16 DEF Application, AppPublish, AppDisconnect, AppQueues, AppWakes, client
    <3>2. Min({pair + 1, MaxPair}) \in 1 .. MaxPair
      BY <1>1, PairGrows
    <3> QED
      BY <3>1, <3>2, ConnConstants DEF WakesLoop
  <2> QED
    BY <1>1, <2>1, <2>2 DEF SocketInv
<1>17. CASE Tick \/ BrokerAnswers \/ BrokerPublishes
  <2>1. UNCHANGED <<pc, net, ready, pair>>
    BY <1>17 DEF Tick, BrokerAnswers, BrokerPublishes, client, loop
  <2> QED
    BY <2>1 DEF SocketInv
<1>18. CASE BrokerDisconnects \/ PeerResets \/ PeerFallsSilent
  <2>1. UNCHANGED <<pc, ready, pair>> /\ net # "none" /\ net' # "none"
    BY <1>18 DEF BrokerDisconnects, PeerResets, PeerFallsSilent, client, loop
  <2> QED
    BY <2>1 DEF SocketInv
<1> QED
  BY <1>2, <1>3, <1>4, <1>5, <1>6, <1>7, <1>8, <1>9, <1>10, <1>11, <1>12, <1>13, <1>14,
     <1>15, <1>16, <1>17, <1>18
     DEF GivesUp, Next, Loop, NoAddress, NoContext, ReadHandshake, WriteHandshake

\* Whoever waits in select has come there from the top of the loop, or waited before.
LEMMA Waits ==
  TypeOK /\ Loop /\ ~EnterLoop => pc' # "wait"
<1> SUFFICES ASSUME TypeOK, Loop, ~EnterLoop PROVE pc' # "wait"
  OBVIOUS
<1>1. CASE GivesUp
  BY <1>1, Closing DEF Closes
<1>2. CASE Reset \/ Connect \/ Pending \/ Greet \/ Hello \/ Select
  BY <1>2 DEF Reset, Connect, Pending, Greet, Hello, Select, Goes
<1>3. CASE ReadHandshake \/ WriteHandshake \/ NothingToRead \/ Pingresp \/ LoopWrite \/ ReadPair
  BY <1>3 DEF ReadHandshake, WriteHandshake, Handshake, NothingToRead, Pingresp, LoopWrite,
              ReadPair, Goes
<1>4. CASE Connack \/ Refused \/ Message
  BY <1>4, ConnackLeaves, RefusedLeaves, MessageLeaves DEF Answered
<1>5. CASE WritesNothing \/ WritesPart \/ WritesPacket \/ WritesDisconnect
  BY <1>5 DEF WritesNothing, WritesPart, WritesPacket, WritesDisconnect, Written, Goes
<1>6. CASE WriteFails /\ back # "loop"
  BY <1>6 DEF WriteFails, Goes
<1>7. CASE InTime \/ Ping \/ Decide \/ Sleeps \/ Check
  BY <1>7 DEF InTime, Ping, Decide, Sleeps, Check, Goes
<1> QED
  BY <1>1, <1>2, <1>3, <1>4, <1>5, <1>6, <1>7 DEF GivesUp, Loop, NoAddress, NoContext

\* Every step keeps what wakes select.
LEMMA WakesKept == TypeOK /\ WorkWakes /\ Next => WorkWakes'
<1> SUFFICES ASSUME TypeOK, WorkWakes, Next, (pc = "wait" /\ outp # <<>> /\ ~want_connect)'
             PROVE  (watch \/ pair > 0 \/ apc = "wake")'
  BY DEF WorkWakes
<1>1. CASE Loop
  <2>1. EnterLoop
    BY <1>1, Waits
  <2>2. watch'
    BY <2>1 DEF EnterLoop, Goes, client
  <2> QED
    BY <2>2
<1>2. CASE AppPublish \/ AppDisconnect
  <2>1. UNCHANGED <<pc, outp, want_connect, watch, pair>> /\ apc # "wake"
    BY <1>2 DEF AppPublish, AppDisconnect, client, loop
  <2> QED
    BY <2>1 DEF WorkWakes
<1>3. CASE AppQueues
  BY <1>3 DEF AppQueues
<1>4. CASE AppWakes
  <2>1. pair' \in 1 .. MaxPair
    BY <1>4, PairGrows DEF AppWakes, WakesLoop, TypeOK
  <2> QED
    BY <2>1, ConnConstants
<1>5. CASE Tick \/ BrokerAnswers \/ BrokerPublishes \/ BrokerDisconnects \/ PeerResets \/ PeerFallsSilent
  <2>1. UNCHANGED <<pc, outp, want_connect, watch, pair, apc>>
    BY <1>5 DEF Tick, BrokerAnswers, BrokerPublishes, BrokerDisconnects, PeerResets, PeerFallsSilent, client, loop, app
  <2> QED
    BY <2>1 DEF WorkWakes
<1> QED
  BY <1>1, <1>2, <1>3, <1>4, <1>5 DEF Next, Application

\* Every step keeps what is said of the other thread.
LEMMA AppKept == TypeOK /\ AppInv /\ Next => AppInv'
<1> SUFFICES ASSUME TypeOK, AppInv, Next PROVE AppInv'
  OBVIOUS
<1>1. /\ outp \in Seq(Outgoing) /\ "CONNECT" \in Outgoing /\ "PUBLISH" \in Outgoing
      /\ "PINGREQ" \in Outgoing /\ "DISCONNECT" \in Outgoing
  BY DEF TypeOK, Outgoing
<1>2. CASE GivesUp
  <2>1. Closes
    BY <1>2, Closing
  <2>2. Range(outp') \subseteq Range(outp)
    BY <1>1, <2>1, OneLess DEF Closes
  <2> QED
    BY <2>1, <2>2 DEF Closes, AppInv, threaded
<1>3. CASE Reset \/ Pending \/ Greet \/ (WriteFails /\ back = "hello")
  <2>1. /\ UNCHANGED <<mode, apc, apkt, asked>>
        /\ outp' = outp \/ outp' = <<>>
    BY <1>3 DEF Reset, Pending, Greet, WriteFails, Cleared, app
  <2> QED
    BY <2>1, Nothing DEF AppInv, threaded
<1>4. CASE Hello \/ Ping
  <2>1. /\ UNCHANGED <<mode, apc, apkt, asked>>
        /\ outp' = Append(outp, "CONNECT") \/ outp' = Append(outp, "PINGREQ")
    BY <1>4 DEF Hello, Ping, Queue, app
  <2>2. Range(outp') = Range(outp) \cup {"CONNECT"} \/ Range(outp') = Range(outp) \cup {"PINGREQ"}
    BY <1>1, <2>1, OneMore
  <2> QED
    BY <2>1, <2>2 DEF AppInv, threaded
<1>5. CASE \/ Connect \/ EnterLoop \/ Select \/ ReadHandshake \/ WriteHandshake \/ NothingToRead
           \/ Pingresp \/ ReadPair \/ LoopWrite \/ WritesNothing \/ WritesPart \/ InTime \/ Decide
           \/ Sleeps \/ Check \/ (WriteFails /\ back = "ping")
           \/ Tick \/ BrokerAnswers \/ BrokerPublishes \/ BrokerDisconnects \/ PeerResets \/ PeerFallsSilent
  <2>1. CASE Connect \/ EnterLoop \/ Select \/ ReadHandshake \/ WriteHandshake \/ NothingToRead
    <3>1. UNCHANGED <<mode, apc, apkt, asked, outp>>
      BY <2>1 DEF Connect, EnterLoop, Select, ReadHandshake, WriteHandshake, Handshake,
                  NothingToRead, client, app
    <3> QED
      BY <3>1 DEF AppInv, threaded
  <2>2. CASE Pingresp \/ ReadPair \/ LoopWrite \/ WritesNothing \/ WritesPart \/ InTime
    <3>1. UNCHANGED <<mode, apc, apkt, asked, outp>>
      BY <2>2 DEF Pingresp, Reads, ReadPair, LoopWrite, WritesNothing, WritesPart, InTime,
                  client, app
    <3> QED
      BY <3>1 DEF AppInv, threaded
  <2>3. CASE Decide \/ Sleeps \/ Check \/ (WriteFails /\ back = "ping")
    <3>1. UNCHANGED <<mode, apc, apkt, asked, outp>>
      BY <2>3 DEF Decide, Sleeps, Check, WriteFails, client, app
    <3> QED
      BY <3>1 DEF AppInv, threaded
  <2>4. CASE Tick \/ BrokerAnswers \/ BrokerPublishes \/ BrokerDisconnects \/ PeerResets \/ PeerFallsSilent
    <3>1. UNCHANGED <<mode, apc, apkt, asked, outp>>
      BY <2>4 DEF Tick, BrokerAnswers, BrokerPublishes, BrokerDisconnects, PeerResets, PeerFallsSilent, client, app
    <3> QED
      BY <3>1 DEF AppInv, threaded
  <2> QED
    BY <1>5, <2>1, <2>2, <2>3, <2>4
<1>6. ASSUME NEW q \in Seq(Outgoing), CallsBack(q), Range(q) \subseteq Range(outp), mode' = mode
      PROVE  AppInv'
  <2>1. \/ Range(outp') = Range(q)
        \/ Range(outp') = Range(q) \cup {"PUBLISH"}
        \/ asked'
    BY <1>1, <1>6, OneMore DEF CallsBack
  <2> QED
    BY <1>6, <2>1 DEF CallsBack, AppInv, threaded
<1>7. CASE Connack \/ Refused \/ Message
  <2>1. CallsBack(outp) /\ mode' = mode
    BY <1>7, ConnackLeaves, RefusedLeaves, MessageLeaves DEF Answered
  <2> QED
    BY <1>1, <1>6, <2>1
<1>8. CASE WritesPacket
  <2>1. PICK packet \in Outgoing \ {"DISCONNECT"} :
          Sent(packet) /\ CallsBack(Tail(outp))
    BY <1>8, PacketLeaves
  <2>2. Tail(outp) \in Seq(Outgoing) /\ Range(Tail(outp)) \subseteq Range(outp) /\ mode' = mode
    BY <2>1, SentLeaves
  <2> QED
    BY <1>6, <2>1, <2>2
<1>9. CASE WritesDisconnect
  <2>1. /\ Sent("DISCONNECT") /\ outp' = Tail(outp)
        /\ UNCHANGED <<apc, apkt, asked>>
    BY <1>9 DEF WritesDisconnect, app
  <2>2. Range(Tail(outp)) \subseteq Range(outp) /\ mode' = mode /\ "DISCONNECT" \in Range(outp)
    BY <1>1, <2>1, SentLeaves
  <2> QED
    BY <2>1, <2>2 DEF AppInv, threaded
<1>10. CASE AppPublish \/ AppDisconnect
  <2>1. mode' = mode /\ outp' = outp /\ threaded
    BY <1>10 DEF AppPublish, AppDisconnect, client
  <2>2. \/ asked'
        \/ apkt' = "PUBLISH" /\ asked' = asked
    BY <1>10 DEF AppPublish, AppDisconnect, client
  <2>3. apkt' \in {"PUBLISH", "DISCONNECT"}
    BY <1>10 DEF AppPublish, AppDisconnect, AppInv
  <2> QED
    BY <2>1, <2>2, <2>3 DEF AppInv, threaded
<1>11. CASE AppQueues \/ AppWakes
  <2>1. UNCHANGED <<mode, asked, apkt>> /\ threaded
    BY <1>11 DEF AppQueues, AppWakes, AppInv
  <2>2. outp' = outp \/ outp' = Append(outp, apkt)
    BY <1>11 DEF AppQueues, AppWakes
  <2>3. Range(outp') \subseteq Range(outp) \cup {apkt}
    BY <1>1, <2>2, OneMore DEF TypeOK
  <2> QED
    BY <2>1, <2>3 DEF AppInv, threaded
<1>12. back \in {"hello", "loop", "ping"}
  BY DEF TypeOK
<1> QED
  BY <1>2, <1>3, <1>4, <1>5, <1>7, <1>8, <1>9, <1>10, <1>11, <1>12
     DEF GivesUp, Next, Loop, Application, NoAddress, NoContext

-----------------------------------------------------------------------------
(* The ages and the time that goes by *)

\* A tick, with the counts spelled out.
LEMMA Ticks ==
  TypeOK /\ Tick =>
    /\ UNCHANGED <<client, reconnects, pc, ready, watch, back, app, other, net, faults, slept, early, undone>>
    /\ left \in Nat /\ left > 0 /\ left' = left - 1 /\ pc \in {"connect", "sleep", "wait"}
    /\ IF net # "none" \/ pc = "connect"
       THEN /\ outAge' = IF outAge + 1 <= 4 * Keepalive THEN outAge + 1 ELSE 4 * Keepalive
            /\ inAge' = IF inAge + 1 <= 4 * Keepalive THEN inAge + 1 ELSE 4 * Keepalive
       ELSE outAge' = outAge /\ inAge' = inAge
    /\ IF net # "none"
       THEN quiet' = IF quiet + 1 <= 4 * Keepalive THEN quiet + 1 ELSE 4 * Keepalive
       ELSE quiet' = quiet
    /\ IF net # "none" /\ Awaiting
       THEN due' = IF due + 1 <= 4 * Keepalive THEN due + 1 ELSE 4 * Keepalive
       ELSE due' = due
<1> SUFFICES ASSUME TypeOK, Tick
             PROVE  /\ UNCHANGED <<client, reconnects, pc, ready, watch, back, app, other, net, faults,
                                   slept, early, undone>>
                    /\ left \in Nat /\ left > 0 /\ left' = left - 1
                    /\ pc \in {"connect", "sleep", "wait"}
                    /\ IF net # "none" \/ pc = "connect"
                       THEN /\ outAge' = IF outAge + 1 <= 4 * Keepalive THEN outAge + 1 ELSE 4 * Keepalive
                            /\ inAge' = IF inAge + 1 <= 4 * Keepalive THEN inAge + 1 ELSE 4 * Keepalive
                       ELSE outAge' = outAge /\ inAge' = inAge
                    /\ IF net # "none"
                       THEN quiet' = IF quiet + 1 <= 4 * Keepalive THEN quiet + 1 ELSE 4 * Keepalive
                       ELSE quiet' = quiet
                    /\ IF net # "none" /\ Awaiting
                       THEN due' = IF due + 1 <= 4 * Keepalive THEN due + 1 ELSE 4 * Keepalive
                       ELSE due' = due
  OBVIOUS
<1>1. /\ UNCHANGED <<client, reconnects, pc, ready, watch, back, app, other, net, faults, slept, early, undone>>
      /\ left > 0 /\ left' = left - 1 /\ pc \in {"connect", "sleep", "wait"}
      /\ outAge' = Later(outAge, net # "none" \/ pc = "connect", Longest)
      /\ inAge' = Later(inAge, net # "none" \/ pc = "connect", Longest)
      /\ quiet' = Later(quiet, net # "none", Longest)
      /\ due' = Later(due, net # "none" /\ Awaiting, Longest)
  BY DEF Tick
<1>2. left \in Nat /\ outAge \in Nat /\ inAge \in Nat /\ quiet \in Nat /\ due \in Nat
  BY DEF TypeOK
<1>3. IF net # "none" \/ pc = "connect"
      THEN outAge' = IF outAge + 1 <= 4 * Keepalive THEN outAge + 1 ELSE 4 * Keepalive
      ELSE outAge' = outAge
  BY <1>1, <1>2, Counts
<1>4. IF net # "none" \/ pc = "connect"
      THEN inAge' = IF inAge + 1 <= 4 * Keepalive THEN inAge + 1 ELSE 4 * Keepalive
      ELSE inAge' = inAge
  BY <1>1, <1>2, Counts
<1>5. IF net # "none"
      THEN quiet' = IF quiet + 1 <= 4 * Keepalive THEN quiet + 1 ELSE 4 * Keepalive
      ELSE quiet' = quiet
  BY <1>1, <1>2, Counts
<1>6. IF net # "none" /\ Awaiting
      THEN due' = IF due + 1 <= 4 * Keepalive THEN due + 1 ELSE 4 * Keepalive
      ELSE due' = due
  BY <1>1, <1>2, Counts
<1>7. UNCHANGED <<client, reconnects, pc, ready, watch, back, app, other, net, faults, slept, early, undone>>
      /\ left \in Nat /\ left > 0 /\ left' = left - 1 /\ pc \in {"connect", "sleep", "wait"}
  BY <1>1, <1>2
<1>8. IF net # "none" \/ pc = "connect"
      THEN /\ outAge' = IF outAge + 1 <= 4 * Keepalive THEN outAge + 1 ELSE 4 * Keepalive
           /\ inAge' = IF inAge + 1 <= 4 * Keepalive THEN inAge + 1 ELSE 4 * Keepalive
      ELSE outAge' = outAge /\ inAge' = inAge
  BY <1>3, <1>4
<1> QED
  BY <1>5, <1>6, <1>7, <1>8

\* Every step keeps the bounds of the ages.
LEMMA AgesKept == TypeOK /\ SocketInv /\ AgeInv /\ Next => AgeInv'
<1> SUFFICES ASSUME TypeOK, SocketInv, AgeInv, Next PROVE AgeInv'
  OBVIOUS
<1> USE DEF Closed
<1>1. /\ outAge \in Nat /\ inAge \in Nat /\ left \in Nat
      /\ Keepalive \in Nat /\ Keepalive > 0 /\ ConnectTicks \in Nat /\ ConnectTicks < Keepalive
  BY ConnConstants DEF TypeOK
<1>2. CASE GivesUp
  <2>1. net' = "none" /\ pc' \in {"loop", "over", "decide"}
    BY <1>2, Closing DEF Closes
  <2> QED
    BY <2>1 DEF AgeInv
<1>3. CASE Reset
  <2>1. net' = "none" /\ pc' = "connect" /\ outAge' = 0 /\ inAge' = 0
    BY <1>3 DEF Reset
  <2>2. left' \in 0 .. ConnectTicks
    BY <1>3 DEF Reset
  <2>3. left' \in Nat /\ left' <= ConnectTicks
    BY <1>1, <2>2
  <2>4. outAge' + left' <= ConnectTicks /\ inAge' + left' <= ConnectTicks
    BY <2>1, <2>3
  <2> QED
    BY <2>1, <2>4 DEF AgeInv
<1>4. CASE Connect
  <2>1. pc = "connect" /\ left = 0 /\ pc' = "greet" /\ outAge' = outAge /\ inAge' = inAge
    BY <1>4 DEF Connect, Goes, ages
  <2> QED
    BY <1>1, <2>1 DEF AgeInv
<1>5. CASE Pending \/ Decide \/ Sleeps \/ Check
  <2>1. net' = "none" /\ pc' \in {"decide", "over", "sleep", "check", "reset"}
    BY <1>5 DEF Pending, Decide, Sleeps, Check, Goes, SocketInv
  <2> QED
    BY <2>1 DEF AgeInv
<1>6. CASE Greet \/ Hello
  <2>1. /\ pc \in {"greet", "hello"} /\ pc' \in {"hello", "loop", "packets"}
        /\ outAge' = outAge /\ inAge' = inAge
    BY <1>6 DEF Greet, Hello, Goes, ages
  <2> QED
    BY <1>1, <2>1 DEF AgeInv
<1>7. CASE EnterLoop
  <2>1. /\ pc = "loop" /\ net' = net /\ outAge' = outAge /\ inAge' = inAge
        /\ \/ net = "none" /\ pc' = "decide"
           \/ net # "none" /\ pc' = "wait" /\ left' = WaitsAtMost
    BY <1>7 DEF EnterLoop, Goes, ages
  <2>2. /\ WaitsAtMost \in Nat /\ (WaitsAtMost > 0 => outAge + WaitsAtMost <= Keepalive)
        /\ WaitsAtMost <= Keepalive
    BY <1>1, WaitBounded
  <2> QED
    BY <1>1, <2>1, <2>2 DEF AgeInv
<1>8. CASE \/ Select \/ ReadHandshake \/ WriteHandshake \/ NothingToRead \/ ReadPair \/ LoopWrite
           \/ WritesNothing \/ WritesPart
  <2>1. /\ outAge' = outAge /\ inAge' = inAge /\ net' \in {net, "none"}
        /\ \/ pc' \in {"misc", "read", "pair", "write"}
           \/ pc' = "packets" /\ back' = "loop"
           \/ pc = "packets" /\ pc' = "loop" /\ back # "loop"
           \/ net' = "none" /\ pc' = "over"
    BY <1>8 DEF Select, ReadHandshake, WriteHandshake, Handshake, NothingToRead, ReadPair,
                LoopWrite, WritesNothing, WritesPart, Writes, Written, Goes, ages
  <2> QED
    BY <1>1, <2>1 DEF AgeInv
<1>9. CASE Connack \/ Refused \/ Message \/ Pingresp
  <2>1. /\ inAge' = 0 /\ outAge' = outAge /\ pc' \in {"pair", "refused"} /\ net' = net
    BY <1>9, ConnackLeaves, RefusedLeaves, MessageLeaves DEF Answered, Pingresp, Reads, Goes
  <2> QED
    BY <1>1, <2>1 DEF AgeInv
<1>10. CASE WritesPacket
  <2>1. /\ pc = "packets" /\ pc' = "packets" /\ back' = back /\ net' \in {net, "reset"}
        /\ outAge' = 0 /\ inAge' = inAge
    BY <1>10 DEF WritesPacket, Sent, Writes, Goes
  <2>2. net # "none"
    BY <2>1 DEF SocketInv
  <2> QED
    BY <1>1, <2>1, <2>2 DEF AgeInv
<1>11. CASE WritesDisconnect
  <2>1. net' = "none" /\ pc' = "loop"
    BY <1>11 DEF WritesDisconnect, Goes
  <2> QED
    BY <2>1 DEF AgeInv
<1>12. CASE WriteFails /\ back # "loop"
  <2>1. /\ outAge' = outAge /\ inAge' = inAge /\ pc = "packets"
        /\ \/ net' = "none" /\ pc' = "decide"
           \/ pc' = "loop" /\ net' = net
    BY <1>12 DEF WriteFails, Writes, Goes, ages
  <2> QED
    BY <1>1, <1>12, <2>1 DEF AgeInv
<1>13. CASE InTime
  <2>1. /\ outAge' = outAge /\ inAge' = inAge /\ pc' = "loop" /\ ~(outAge >= Keepalive)
        /\ ~(inAge >= Keepalive)
    BY <1>13 DEF InTime, Overdue, Goes, ages
  <2> QED
    BY <1>1, <2>1 DEF AgeInv
<1>14. CASE Ping
  <2>1. outAge' = 0 /\ inAge' = 0 /\ pc' \in {"loop", "packets"}
    BY <1>14 DEF Ping, Restarts
  <2> QED
    BY <1>1, <2>1 DEF AgeInv
<1>15. CASE Application \/ BrokerAnswers \/ BrokerPublishes
  <2>1. UNCHANGED <<pc, net, back, left, outAge, inAge>>
    BY <1>15 DEF Application, AppPublish, AppDisconnect, AppQueues, AppWakes, BrokerAnswers,
                 BrokerPublishes, loop, ages
  <2> QED
    BY <2>1 DEF AgeInv
<1>16. CASE BrokerDisconnects \/ PeerResets \/ PeerFallsSilent
  <2>1. UNCHANGED <<pc, back, left, outAge, inAge>> /\ net # "none"
    BY <1>16 DEF BrokerDisconnects, PeerResets, PeerFallsSilent, loop, ages
  <2> QED
    BY <2>1 DEF AgeInv
<1>17. CASE Tick
  <2>1. /\ UNCHANGED <<pc, net, back>> /\ left > 0 /\ left' = left - 1
        /\ pc \in {"connect", "sleep", "wait"}
        /\ IF net # "none" \/ pc = "connect"
           THEN /\ outAge' = IF outAge + 1 <= 4 * Keepalive THEN outAge + 1 ELSE 4 * Keepalive
                /\ inAge' = IF inAge + 1 <= 4 * Keepalive THEN inAge + 1 ELSE 4 * Keepalive
           ELSE outAge' = outAge /\ inAge' = inAge
    BY <1>17, Ticks
  <2>2. CASE pc = "sleep"
    <3>1. net = "none"
      BY <2>2 DEF SocketInv
    <3> QED
      BY <2>1, <2>2, <3>1 DEF AgeInv
  <2>3. CASE pc = "connect"
    <3>1. net = "none"
      BY <2>3 DEF SocketInv
    <3>2. outAge' + left' <= ConnectTicks /\ inAge' + left' <= ConnectTicks
      BY <1>1, <2>1, <2>3 DEF AgeInv
    <3> QED
      BY <2>1, <2>3, <3>1, <3>2 DEF AgeInv
  <2>4. CASE pc = "wait"
    <3>1. net # "none"
      BY <2>4 DEF SocketInv
    <3>2. outAge + left <= Keepalive /\ inAge + left <= 2 * Keepalive - 1
      BY <2>1, <2>4 DEF AgeInv
    <3>3. outAge' + left' <= Keepalive /\ inAge' + left' <= 2 * Keepalive - 1
          /\ outAge' <= Keepalive /\ inAge' <= 2 * Keepalive - 1
      BY <1>1, <2>1, <3>1, <3>2
    <3> QED
      BY <2>1, <2>4, <3>3 DEF AgeInv
  <2> QED
    BY <2>1, <2>2, <2>3, <2>4
<1> QED
  BY <1>2, <1>3, <1>4, <1>5, <1>6, <1>7, <1>8, <1>9, <1>10, <1>11, <1>12, <1>13, <1>14,
     <1>15, <1>16, <1>17
     DEF GivesUp, Next, Loop, NoAddress, NoContext

\* Every step keeps what is said of a broker that is silent.
LEMMA QuietKept == TypeOK /\ SocketInv /\ AgeInv /\ QuietInv /\ Next => QuietInv'
<1> SUFFICES ASSUME TypeOK, SocketInv, AgeInv, QuietInv, Next PROVE QuietInv'
  OBVIOUS
<1> USE DEF Closed
<1>1. /\ outAge \in Nat /\ inAge \in Nat /\ left \in Nat /\ quiet \in Nat
      /\ Keepalive \in Nat /\ Keepalive > 0 /\ quiet <= 4 * Keepalive - 2
  BY ConnConstants DEF TypeOK, QuietInv
<1>2. CASE GivesUp
  <2>1. net' = "none" /\ quiet' \in {quiet, 0}
    BY <1>2, Closing DEF Closes
  <2> QED
    BY <1>1, <2>1 DEF QuietInv
<1>3. CASE \/ Reset \/ Pending \/ Decide \/ Sleeps \/ Check \/ WritesDisconnect
           \/ (WriteFails /\ back = "hello")
  <2>1. CASE Reset \/ Pending \/ Decide \/ Sleeps \/ Check
    BY <1>1, <2>1 DEF Reset, Pending, Decide, Sleeps, Check, history, SocketInv, QuietInv
  <2>2. CASE WritesDisconnect \/ (WriteFails /\ back = "hello")
    BY <1>1, <2>2 DEF WritesDisconnect, Sent, WriteFails, history, QuietInv
  <2> QED
    BY <1>3, <2>1, <2>2
<1>4. CASE Connect
  <2>1. quiet' = 0 /\ inAge' = inAge
    BY <1>4 DEF Connect, ages
  <2> QED
    BY <1>1, <2>1 DEF QuietInv
<1>5. CASE Greet \/ Hello \/ EnterLoop \/ Select \/ NothingToRead \/ ReadPair
  <2>1. UNCHANGED <<net, quiet, outAge, inAge, ping_t, want_connect>>
    BY <1>5 DEF Greet, Hello, EnterLoop, Select, NothingToRead, ReadPair, client, ages, history
  <2> QED
    BY <2>1 DEF QuietInv, PingFailed
<1>6. CASE LoopWrite \/ WritesNothing \/ WritesPart \/ InTime \/ Application
  <2>1. UNCHANGED <<net, quiet, outAge, inAge, ping_t, want_connect>>
    BY <1>6 DEF LoopWrite, WritesNothing, WritesPart, InTime, Application, AppPublish,
                AppDisconnect, AppQueues, AppWakes, client, ages, history
  <2> QED
    BY <2>1 DEF QuietInv, PingFailed
<1>7. CASE ReadHandshake \/ WriteHandshake
  <2>1. UNCHANGED <<quiet, outAge, inAge, ping_t>> /\ net' \in {net, "none"} /\ want_connect
    BY <1>7 DEF ReadHandshake, WriteHandshake, Handshake, ages, history
  <2> QED
    BY <2>1 DEF QuietInv, PingFailed
<1>8. CASE Connack \/ Refused \/ Message \/ Pingresp
  <2>1. inAge' = 0 /\ quiet' = 0
    BY <1>8, ConnackLeaves, RefusedLeaves, MessageLeaves DEF Answered, Pingresp, Reads
  <2> QED
    BY <1>1, <2>1 DEF QuietInv
<1>9. CASE WritesPacket
  <2>1. /\ pc = "packets" /\ net' \in {net, "reset"} /\ outAge' = 0
        /\ UNCHANGED <<quiet, inAge, ping_t, want_connect>>
    BY <1>9 DEF WritesPacket, Sent, Writes
  <2>2. net # "none"
    BY <2>1 DEF SocketInv
  <2> QED
    BY <1>1, <2>1, <2>2 DEF QuietInv, PingFailed
<1>10. CASE WriteFails /\ back = "ping"
  <2>1. /\ pc = "packets" /\ ~want_connect /\ net = "reset" /\ net' = net
        /\ UNCHANGED <<quiet, inAge, outAge, want_connect>>
    BY <1>10 DEF WriteFails, Writes, ages, history
  <2>2. inAge < Keepalive /\ outAge < Keepalive
    BY <1>10, <2>1 DEF AgeInv
  <2>3. PingFailed'
    BY <2>1, <2>2 DEF PingFailed
  <2>4. quiet' <= inAge' + 2 * Keepalive - 1
    BY <2>1 DEF QuietInv
  <2> QED
    BY <1>1, <2>1, <2>3, <2>4 DEF QuietInv
<1>11. CASE Ping
  <2>1. /\ pc = "misc" /\ (outAge >= Keepalive \/ inAge >= Keepalive) /\ ~ping_t /\ ping_t'
        /\ net' = net /\ inAge' = 0 /\ quiet' = quiet
    BY <1>11 DEF Ping, Overdue, MayPing, Restarts
  <2>2. net # "none"
    BY <2>1 DEF SocketInv
  <2>3. ~PingFailed
    BY <1>1, <2>1 DEF PingFailed
  <2>4. quiet <= inAge /\ inAge <= 2 * Keepalive - 1
    BY <2>1, <2>2, <2>3 DEF QuietInv, AgeInv
  <2>5. quiet' <= inAge' + 2 * Keepalive - 1
    BY <1>1, <2>1, <2>4
  <2> QED
    BY <1>1, <2>1, <2>5 DEF QuietInv
<1>12. CASE BrokerAnswers \/ BrokerPublishes \/ BrokerDisconnects \/ PeerResets \/ PeerFallsSilent
  <2>1. /\ UNCHANGED <<quiet, outAge, inAge, ping_t, want_connect>>
        /\ net # "none" /\ (net' = net \/ net # "reset")
    BY <1>12 DEF BrokerAnswers, BrokerPublishes, BrokerDisconnects, PeerResets, PeerFallsSilent, client, ages, history
  <2> QED
    BY <2>1 DEF QuietInv, PingFailed
<1>13. CASE Tick
  <2>1. /\ UNCHANGED <<pc, net, want_connect, ping_t>> /\ left > 0 /\ left' = left - 1
        /\ pc \in {"connect", "sleep", "wait"}
        /\ IF net # "none" \/ pc = "connect"
           THEN /\ outAge' = IF outAge + 1 <= 4 * Keepalive THEN outAge + 1 ELSE 4 * Keepalive
                /\ inAge' = IF inAge + 1 <= 4 * Keepalive THEN inAge + 1 ELSE 4 * Keepalive
           ELSE outAge' = outAge /\ inAge' = inAge
        /\ IF net # "none"
           THEN quiet' = IF quiet + 1 <= 4 * Keepalive THEN quiet + 1 ELSE 4 * Keepalive
           ELSE quiet' = quiet
    BY <1>13, Ticks DEF client
  <2>2. CASE pc # "wait"
    <3>1. net = "none"
      BY <2>1, <2>2 DEF SocketInv
    <3>2. net' = "none" /\ quiet' = quiet
      BY <2>1, <3>1
    <3> QED
      BY <1>1, <3>2 DEF QuietInv
  <2>3. CASE pc = "wait"
    <3>1. net # "none"
      BY <2>3 DEF SocketInv
    <3>2. inAge + left <= 2 * Keepalive - 1
      BY <2>3 DEF AgeInv
    <3>3. inAge' = inAge + 1 /\ inAge' <= 2 * Keepalive - 1 /\ quiet' = quiet + 1
      BY <1>1, <2>1, <3>1, <3>2
    <3>4. ~PingFailed
      <4>1. Ready = {} \/ Spins
        BY <1>13, <2>3 DEF Tick
      <4>2. net = "reset" => Ready # {}
        BY DEF Ready, Readable
      <4>3. net = "reset" => want_connect
        BY <4>1, <4>2 DEF Spins
      <4> QED
        BY <4>3 DEF PingFailed
    <3>5. quiet <= inAge + 2 * Keepalive - 1 /\ (~ping_t => quiet <= inAge)
      BY <3>1, <3>4 DEF QuietInv
    <3>6. quiet' <= inAge' + 2 * Keepalive - 1 /\ quiet' <= 4 * Keepalive - 2
      BY <1>1, <3>3, <3>5
    <3>7. ~ping_t' => quiet' <= inAge'
      <4>1. ping_t' = ping_t
        BY <2>1
      <4>2. quiet <= inAge => quiet' <= inAge'
        BY <1>1, <3>3
      <4> QED
        BY <3>5, <4>1, <4>2
    <3> QED
      BY <3>6, <3>7 DEF QuietInv
  <2> QED
    BY <2>2, <2>3
<1>14. back \in {"hello", "loop", "ping"}
  BY DEF TypeOK
<1> QED
  BY <1>2, <1>3, <1>4, <1>5, <1>6, <1>7, <1>8, <1>9, <1>10, <1>11, <1>12, <1>13, <1>14
     DEF GivesUp, Next, Loop, NoAddress, NoContext, ReadHandshake, WriteHandshake

\* Every step keeps what is said of an answer that is due.
LEMMA DueKept == TypeOK /\ SocketInv /\ AgeInv /\ HelloInv /\ DueInv /\ Next => DueInv'
<1> SUFFICES ASSUME TypeOK, SocketInv, AgeInv, HelloInv, DueInv, Next PROVE DueInv'
  OBVIOUS
<1> USE DEF Closed
<1>1. /\ outAge \in Nat /\ inAge \in Nat /\ left \in Nat /\ due \in Nat
      /\ Keepalive \in Nat /\ Keepalive > 0 /\ ConnectTicks \in Nat /\ ConnectTicks < Keepalive
  BY ConnConstants DEF TypeOK
<1>2. CASE GivesUp
  <2>1. net' = "none" /\ pc' \in {"loop", "over", "decide"}
    BY <1>2, Closing DEF Closes
  <2> QED
    BY <2>1 DEF DueInv
<1>3. CASE Reset \/ Pending \/ Decide \/ Sleeps \/ Check
  <2>1. net' = "none"
    BY <1>3 DEF Reset, Pending, Decide, Sleeps, Check, SocketInv
  <2>2. pc' \in {"connect", "greet", "hello"} => ~ping_t'
    BY <1>3 DEF Reset, Pending, Decide, Sleeps, Check, Goes
  <2> QED
    BY <2>1, <2>2 DEF DueInv
<1>4. CASE WritesDisconnect \/ (WriteFails /\ back = "hello")
  BY <1>4 DEF WritesDisconnect, WriteFails, Goes, DueInv
<1>5. CASE Connect
  <2>1. /\ pc = "connect" /\ left = 0 /\ pc' = "greet" /\ due' = 0
        /\ UNCHANGED <<ping_t, outAge, inAge, state>>
    BY <1>5 DEF Connect, Goes, ages
  <2>2. ~ping_t'
    BY <2>1 DEF DueInv
  <2>3. outAge' <= due' + ConnectTicks /\ inAge' <= due' + ConnectTicks
    BY <1>1, <2>1 DEF AgeInv
  <2> QED
    BY <2>1, <2>2, <2>3 DEF DueInv
<1>6. CASE Greet
  <2>1. /\ pc = "greet" /\ pc' = "hello" /\ state' = "connected"
        /\ UNCHANGED <<net, due, ping_t, outAge, inAge>>
    BY <1>6 DEF Greet, Goes, ages, history
  <2> QED
    BY <2>1 DEF DueInv
<1>7. CASE Hello \/ EnterLoop \/ Select \/ NothingToRead \/ ReadPair \/ LoopWrite
  <2>1. /\ UNCHANGED <<net, state, due, ping_t, outAge, inAge, asked>>
        /\ pc \notin {"greet", "refused"} /\ pc' \notin {"connect", "greet", "hello"}
    BY <1>7 DEF Hello, EnterLoop, Select, NothingToRead, ReadPair, LoopWrite, Goes, client, ages,
                app, history
  <2> QED
    BY <2>1 DEF DueInv
<1>8. CASE WritesNothing \/ WritesPart \/ InTime
  <2>1. /\ UNCHANGED <<net, state, due, ping_t, outAge, inAge, asked>>
        /\ pc \notin {"greet", "refused"} /\ pc' \notin {"connect", "greet", "hello"}
    BY <1>8 DEF WritesNothing, WritesPart, Writes, InTime, Written, Goes, client, ages, app, history
  <2> QED
    BY <2>1 DEF DueInv
<1>9. CASE ReadHandshake \/ WriteHandshake
  <2>1. /\ UNCHANGED <<state, due, ping_t, outAge, inAge, asked>> /\ net' \in {net, "none"}
        /\ pc \notin {"greet", "refused"} /\ pc' \notin {"connect", "greet", "hello"}
    BY <1>9 DEF ReadHandshake, WriteHandshake, Handshake, Goes, ages, app, history
  <2> QED
    BY <2>1 DEF DueInv
<1>10. CASE Connack \/ Refused
  <2>1. /\ Answered /\ Head(down) \in Greeting
        /\ state' = "active" \/ (pc' = "refused" /\ (state' = state \/ (state' = "disconnected" /\ asked')))
    BY <1>10, ConnackLeaves, RefusedLeaves DEF Greeting
  <2>2. /\ pc = "read" /\ pc' \in {"pair", "refused"} /\ ping_t' = ping_t /\ net' = net
        /\ down # <<>> /\ (asked => asked')
    BY <2>1 DEF Answered, CallsBack
  <2>3. net # "none"
    BY <2>2 DEF SocketInv
  <2>4. Head(down) \in Range(down)
    <3>1. down \in Seq(Incoming)
      BY DEF TypeOK
    <3> QED
      BY <2>2, <3>1, OneLess
  <2>5. ~ping_t
    BY <2>1, <2>3, <2>4 DEF HelloInv, NoHello
  <2>6. state' \in {"connected", "active"} \/ (asked' /\ state' = "disconnected")
    BY <2>1, <2>2, <2>3 DEF DueInv
  <2> QED
    BY <2>1, <2>2, <2>5, <2>6 DEF DueInv
<1>11. CASE Message
  <2>1. /\ Answered /\ state = "active" /\ due' = due
        /\ state' \in {"active", "disconnected"} /\ (state' = "disconnected" => asked')
    BY <1>11, MessageLeaves
  <2>2. /\ pc = "read" /\ pc' \in {"pair", "refused"} /\ inAge' = 0 /\ UNCHANGED <<ping_t, outAge, net>>
    BY <2>1 DEF Answered
  <2>3. net' # "none" /\ ping_t' => outAge' <= due' /\ inAge' <= due'
    BY <1>1, <2>1, <2>2 DEF DueInv
  <2> QED
    BY <2>1, <2>2, <2>3 DEF DueInv
<1>12. CASE Pingresp
  <2>1. state = "active" /\ state' = "active" /\ ~ping_t' /\ pc' = "pair"
    BY <1>12 DEF Pingresp, Goes
  <2> QED
    BY <2>1 DEF DueInv
<1>13. CASE WritesPacket
  <2>1. PICK packet \in Outgoing \ {"DISCONNECT"} :
          /\ Sent(packet) /\ CallsBack(Tail(outp)) /\ pc' = "packets"
          /\ state' \in {state, "disconnected"} /\ (state' # state => asked')
    BY <1>13, PacketLeaves
  <2>2. /\ pc = "packets" /\ outAge' = 0 /\ UNCHANGED <<ping_t, inAge, due>>
    BY <2>1 DEF Sent, Writes
  <2>3. net # "none" /\ (asked => asked')
    BY <2>1, <2>2 DEF SocketInv, CallsBack
  <2>4. ping_t' => outAge' <= due' /\ inAge' <= due'
    BY <1>1, <2>2, <2>3 DEF DueInv
  <2>5. state' = "connected" => outAge' <= due' + ConnectTicks /\ inAge' <= due' + ConnectTicks
    BY <1>1, <2>1, <2>2, <2>3 DEF DueInv
  <2>6. state' \in {"connected", "active"} \/ (asked' /\ state' = "disconnected")
    BY <2>1, <2>2, <2>3 DEF DueInv
  <2> QED
    BY <2>1, <2>4, <2>5, <2>6 DEF DueInv
<1>14. CASE WriteFails /\ back = "ping"
  <2>1. /\ pc = "packets" /\ pc' = "loop" /\ ~ping_t'
        /\ UNCHANGED <<net, state, due, outAge, inAge, asked>>
    BY <1>14 DEF WriteFails, Writes, Goes, ages, app, history
  <2> QED
    BY <2>1 DEF DueInv
<1>15. CASE Ping
  <2>1. /\ outAge' = 0 /\ inAge' = 0 /\ due' = 0 /\ state = "active" /\ state' = state
        /\ pc' \in {"loop", "packets"}
    BY <1>15 DEF Ping, Restarts, MayPing
  <2> QED
    BY <1>1, <2>1 DEF DueInv
<1>16. CASE Application
  <2>1. /\ UNCHANGED <<net, due, ping_t, outAge, inAge, pc>>
        /\ \/ state' = state /\ asked' = asked
           \/ state' = "disconnected" /\ asked'
    BY <1>16 DEF Application, AppPublish, AppDisconnect, AppQueues, AppWakes, client, ages, loop,
                 history
  <2> QED
    BY <2>1 DEF DueInv
<1>17. CASE BrokerAnswers \/ BrokerPublishes \/ BrokerDisconnects \/ PeerResets \/ PeerFallsSilent
  <2>1. UNCHANGED <<state, due, ping_t, outAge, inAge, pc, asked>> /\ net # "none"
    BY <1>17 DEF BrokerAnswers, BrokerPublishes, BrokerDisconnects, PeerResets, PeerFallsSilent, client, ages, loop,
                 app, history
  <2> QED
    BY <2>1 DEF DueInv
<1>18. CASE Tick
  <2>1. UNCHANGED <<client, reconnects, pc, ready, watch, back, app, other, net, faults, slept, early, undone>>
    BY <1>18, Ticks
  <2>2. /\ UNCHANGED <<state, ping_t, pc, asked, net>> /\ left > 0 /\ left' = left - 1
        /\ pc \in {"connect", "sleep", "wait"}
        /\ IF net # "none" \/ pc = "connect"
           THEN /\ outAge' = IF outAge + 1 <= 4 * Keepalive THEN outAge + 1 ELSE 4 * Keepalive
                /\ inAge' = IF inAge + 1 <= 4 * Keepalive THEN inAge + 1 ELSE 4 * Keepalive
           ELSE outAge' = outAge /\ inAge' = inAge
        /\ IF net # "none" /\ (ping_t \/ state = "connected")
           THEN due' = IF due + 1 <= 4 * Keepalive THEN due + 1 ELSE 4 * Keepalive
           ELSE due' = due
    BY <1>18, <2>1, Ticks DEF client, app, Awaiting
  <2>3. CASE pc # "wait"
    <3>1. net = "none"
      BY <2>2, <2>3 DEF SocketInv
    <3> QED
      BY <2>2, <3>1 DEF DueInv
  <2>4. CASE pc = "wait"
    <3>1. net # "none"
      BY <2>4 DEF SocketInv
    <3>3. /\ outAge' <= outAge + 1 /\ outAge' <= 4 * Keepalive
          /\ inAge' <= inAge + 1 /\ inAge' <= 4 * Keepalive
          /\ outAge' \in Nat /\ inAge' \in Nat
      BY <1>1, <2>2, <3>1
    <3>4. ping_t' => outAge' <= due' /\ inAge' <= due'
      <4> SUFFICES ASSUME ping_t' PROVE outAge' <= due' /\ inAge' <= due'
        OBVIOUS
      <4>1. ping_t
        BY <2>2
      <4>2. outAge <= due /\ inAge <= due
        BY <3>1, <4>1 DEF DueInv
      <4>3. due' = IF due + 1 <= 4 * Keepalive THEN due + 1 ELSE 4 * Keepalive
        BY <2>2, <3>1, <4>1
      <4> QED
        BY <1>1, <3>3, <4>2, <4>3
    <3>5. state' = "connected" => outAge' <= due' + ConnectTicks /\ inAge' <= due' + ConnectTicks
      <4> SUFFICES ASSUME state' = "connected"
                   PROVE  outAge' <= due' + ConnectTicks /\ inAge' <= due' + ConnectTicks
        OBVIOUS
      <4>1. state = "connected"
        BY <2>2
      <4>2. outAge <= due + ConnectTicks /\ inAge <= due + ConnectTicks
        BY <2>4, <3>1, <4>1 DEF DueInv
      <4>3. due' = IF due + 1 <= 4 * Keepalive THEN due + 1 ELSE 4 * Keepalive
        BY <2>2, <3>1, <4>1
      <4> QED
        BY <1>1, <3>3, <4>2, <4>3
    <3> QED
      BY <2>2, <2>4, <3>1, <3>4, <3>5 DEF DueInv
  <2> QED
    BY <2>3, <2>4
<1>19. back \in {"hello", "loop", "ping"}
  BY DEF TypeOK
<1> QED
  BY <1>2, <1>3, <1>4, <1>5, <1>6, <1>7, <1>8, <1>9, <1>10, <1>11, <1>12, <1>13, <1>14, <1>15,
     <1>16, <1>17, <1>18, <1>19
     DEF GivesUp, Next, Loop, NoAddress, NoContext

-----------------------------------------------------------------------------
(* CONNECT and the answer to it *)

\* What a callback adds to the queue is not CONNECT.
LEMMA NoHiAdded ==
  ASSUME NEW q \in Seq(Outgoing), CallsBack(q)
  PROVE  /\ Range(outp') \cap Hi = Range(q) \cap Hi
         /\ Once(q, Hi) => Once(outp', Hi)
         /\ q # <<>> => outp' # <<>> /\ Head(outp') = Head(q)
<1>1. "PUBLISH" \in Outgoing /\ "DISCONNECT" \in Outgoing
  BY DEF Outgoing
<1>2. "PUBLISH" \notin Hi /\ "DISCONNECT" \notin Hi
  BY DEF Hi
<1>3. CASE outp' = q
  BY <1>3
<1>4. CASE outp' = Append(q, "PUBLISH")
  <2>1. /\ Range(outp') = Range(q) \cup {"PUBLISH"}
        /\ Once(q, Hi) => Once(outp', Hi)
        /\ q # <<>> => outp' # <<>> /\ Head(outp') = Head(q)
    BY <1>1, <1>2, <1>4, OneMore
  <2> QED
    BY <1>2, <2>1
<1>5. CASE outp' = Append(q, "DISCONNECT")
  <2>1. /\ Range(outp') = Range(q) \cup {"DISCONNECT"}
        /\ Once(q, Hi) => Once(outp', Hi)
        /\ q # <<>> => outp' # <<>> /\ Head(outp') = Head(q)
    BY <1>1, <1>2, <1>5, OneMore
  <2> QED
    BY <1>2, <2>1
<1> QED
  BY <1>3, <1>4, <1>5 DEF CallsBack

\* A packet is read: what is left of the packets for the client.
LEMMA OneRead ==
  ASSUME TypeOK, HelloInv, down # <<>>, down' = Tail(down)
  PROVE  /\ Once(down', Greeting) /\ Range(down') \subseteq Range(down)
         /\ Head(down) \in Range(down)
         /\ Head(down) \in Greeting => Range(down') \cap Greeting = {}
<1>1. down \in Seq(Incoming) /\ Once(down, Greeting)
  BY DEF TypeOK, HelloInv
<1> QED
  BY <1>1, OneLess

\* Steps that leave the packets alone, and go to a place behind send__connect.
Elsewhere ==
  /\ UNCHANGED <<outp, broker, down, greeted, mode>>
  /\ pc' \notin {"connect", "greet", "hello"}
  /\ \/ net' = "none"
     \/ UNCHANGED <<net, state, ping_t>>

\* They keep what is said of CONNECT.
LEMMA HelloElsewhere == HelloInv /\ Elsewhere => HelloInv'
BY DEF HelloInv, NoHello, Elsewhere, threaded

\* Every other step keeps it too.
LEMMA HelloKept ==
  TypeOK /\ SocketInv /\ AppInv /\ DueInv /\ FirstInv /\ HelloInv /\ Next => HelloInv'
<1> SUFFICES ASSUME TypeOK, SocketInv, AppInv, DueInv, FirstInv, HelloInv, Next PROVE HelloInv'
  OBVIOUS
<1> USE DEF Closed
<1>1. /\ outp \in Seq(Outgoing) /\ broker \in Seq({"CONNECT", "PINGREQ"}) /\ down \in Seq(Incoming)
      /\ Once(outp, Hi) /\ Once(broker, Hi) /\ Once(down, Greeting)
  BY DEF TypeOK, HelloInv
<1>2. /\ "CONNECT" \in Outgoing /\ "PUBLISH" \in Outgoing /\ "DISCONNECT" \in Outgoing
      /\ "PINGREQ" \in Outgoing /\ "CONNECT" \in Hi /\ "PUBLISH" \notin Hi
      /\ "DISCONNECT" \notin Hi /\ "PINGREQ" \notin Hi
  BY DEF Outgoing, Hi
<1>3. CASE GivesUp
  <2>1. /\ net' = "none" /\ pc' \in {"loop", "over", "decide"}
        /\ UNCHANGED <<broker, greeted>>
        /\ outp' = outp \/ (outp # <<>> /\ outp' = Tail(outp))
        /\ down' = down \/ (down # <<>> /\ down' = Tail(down))
    BY <1>3, Closing DEF Closes
  <2>2. Once(down', Greeting) /\ Range(down') \subseteq Range(down)
    BY <1>1, <2>1, OneRead
  <2>3. Once(outp', Hi) /\ Range(outp') \subseteq Range(outp)
    <3>1. CASE outp' = outp
      BY <1>1, <3>1
    <3>2. CASE outp # <<>> /\ outp' = Tail(outp)
      <4>1. Once(Tail(outp), Hi) /\ Range(Tail(outp)) \subseteq Range(outp)
        BY <1>1, <3>2, OneLess
      <4> QED
        BY <3>2, <4>1
    <3> QED
      BY <2>1, <3>1, <3>2
  <2> QED
    BY <2>1, <2>2, <2>3 DEF HelloInv, NoHello
<1>4. CASE Reset
  <2>1. /\ outp' = <<>> /\ broker' = <<>> /\ down' = <<>> /\ ~greeted' /\ net' = "none"
        /\ pc' = "connect"
    BY <1>4 DEF Reset, Cleared
  <2> QED
    BY <2>1, Nothing DEF HelloInv, NoHello
<1>5. CASE Connect \/ Greet
  <2>1. /\ UNCHANGED <<outp, broker, down, greeted>> /\ pc \in {"connect", "greet"}
        /\ pc' = "greet" \/ (pc' = "hello" /\ state' = "connected")
    BY <1>5 DEF Connect, Greet, Goes, other
  <2> QED
    BY <2>1 DEF HelloInv, NoHello
<1>6. CASE Hello
  <2>1. /\ pc = "hello" /\ pc' \in {"loop", "packets"} /\ outp' = Append(outp, "CONNECT")
        /\ UNCHANGED <<broker, down, greeted, mode, state, ping_t, net>>
    BY <1>6 DEF Hello, Queue, other
  <2>2. /\ NoHello /\ ~greeted /\ state \in {"connected", "disconnected"} /\ ~ping_t
        /\ (~threaded => state = "connected")
    BY <2>1 DEF HelloInv, DueInv, FirstInv
  <2>3. Once(outp', Hi)
    BY <1>1, <1>2, <2>1, <2>2, OneMore DEF NoHello
  <2> QED
    BY <2>1, <2>2, <2>3 DEF HelloInv, NoHello, threaded
<1>7. CASE EnterLoop \/ Select \/ NothingToRead \/ ReadPair \/ LoopWrite
  <2>1. Elsewhere
    BY <1>7 DEF EnterLoop, Select, NothingToRead, ReadPair, LoopWrite, Goes, client, other, Elsewhere
  <2> QED
    BY <2>1, HelloElsewhere
<1>8. CASE WritesNothing \/ WritesPart \/ InTime
  <2>1. Elsewhere
    BY <1>8 DEF WritesNothing, WritesPart, InTime, Written, Goes, client, other, Elsewhere
  <2> QED
    BY <2>1, HelloElsewhere
<1>9. CASE ReadHandshake \/ WriteHandshake
  <2>1. Elsewhere
    BY <1>9 DEF ReadHandshake, WriteHandshake, Handshake, Goes, other, Elsewhere
  <2> QED
    BY <2>1, HelloElsewhere
<1>10. CASE Pending \/ Decide \/ Sleeps \/ Check
  <2>1. Elsewhere
    BY <1>10 DEF Pending, Decide, Sleeps, Check, Goes, client, other, Elsewhere, SocketInv
  <2> QED
    BY <2>1, HelloElsewhere
<1>11. CASE Connack \/ Refused
  <2>1. Answered /\ Head(down) \in Greeting
    BY <1>11, ConnackLeaves, RefusedLeaves DEF Greeting
  <2>2. /\ down # <<>> /\ down' = Tail(down) /\ pc' \in {"pair", "refused"} /\ CallsBack(outp)
        /\ UNCHANGED <<mode, broker, greeted, ping_t, net>>
    BY <2>1 DEF Answered
  <2>3. Range(down') \cap Greeting = {} /\ Once(down', Greeting) /\ Range(down) \cap Greeting # {}
    BY <2>1, <2>2, OneRead
  <2>4. Range(outp) \cap Hi = {} /\ Range(broker) \cap Hi = {} /\ greeted
    BY <2>3 DEF HelloInv
  <2>5. Range(outp') \cap Hi = {} /\ Once(outp', Hi)
    BY <1>1, <2>2, <2>4, NoHiAdded
  <2> QED
    BY <2>2, <2>3, <2>4, <2>5 DEF HelloInv, NoHello
<1>12. CASE Message \/ Pingresp
  <2>1. /\ down # <<>> /\ down' = Tail(down) /\ pc = "read" /\ pc' \in {"pair", "refused"}
        /\ UNCHANGED <<broker, greeted>>
        /\ CallsBack(outp) \/ outp' = outp
    BY <1>12, MessageLeaves DEF Answered, Pingresp, Reads, Goes
  <2>2. state = "active"
    BY <1>12 DEF Message, Pingresp
  <2>3. net # "none" /\ NoHello
    BY <2>1, <2>2 DEF SocketInv, HelloInv
  <2>4. Once(down', Greeting) /\ Range(down') \cap Greeting = {}
    BY <2>1, <2>3, OneRead DEF NoHello
  <2>5. Range(outp') \cap Hi = {} /\ Once(outp', Hi)
    BY <1>1, <2>1, <2>3, NoHiAdded DEF NoHello
  <2>6. NoHello'
    BY <2>1, <2>3, <2>4, <2>5 DEF NoHello
  <2>7. Once(broker', Hi) /\ pc' \in {"pair", "refused"}
    BY <1>1, <2>1
  <2> QED
    BY <2>4, <2>5, <2>6, <2>7 DEF HelloInv, NoHello
<1>13. CASE Ping
  <2>1. /\ pc = "misc" /\ state = "active" /\ outp' = Append(outp, "PINGREQ")
        /\ pc' \in {"loop", "packets"} /\ UNCHANGED <<broker, greeted, down>>
    BY <1>13 DEF Ping, MayPing, Queue, other
  <2>2. NoHello
    BY <2>1 DEF SocketInv, HelloInv
  <2>3. Range(outp') = Range(outp) \cup {"PINGREQ"} /\ Once(outp', Hi)
    BY <1>1, <1>2, <2>1, OneMore
  <2> QED
    BY <1>2, <2>1, <2>2, <2>3 DEF HelloInv, NoHello
<1>14. CASE WritesPacket
  <2>1. PICK packet \in Outgoing \ {"DISCONNECT"} :
          /\ Sent(packet) /\ CallsBack(Tail(outp)) /\ pc' = "packets"
          /\ state' \in {state, "disconnected"}
          /\ state' # state => packet = "PUBLISH" /\ asked' /\ ~threaded
    BY <1>14, PacketLeaves
  <2>2. /\ outp # <<>> /\ Head(outp) = packet /\ pc = "packets" /\ packet \in Range(outp)
        /\ Tail(outp) \in Seq(Outgoing) /\ Range(Tail(outp)) \subseteq Range(outp)
        /\ UNCHANGED <<mode, ping_t, down>>
        /\ \/ UNCHANGED <<broker, greeted, early>> /\ net # "up"
           \/ /\ net = "up" /\ greeted' = (greeted \/ packet = "CONNECT")
              /\ early' = (early \/ (~greeted /\ packet # "CONNECT"))
              /\ \/ broker' = broker /\ packet # "CONNECT"
                 \/ broker' = Append(broker, "CONNECT") /\ packet = "CONNECT"
                 \/ broker' = Append(broker, "PINGREQ") /\ packet = "PINGREQ"
    BY <2>1, SentLeaves
  <2>3. net # "none"
    BY <2>2 DEF SocketInv
  <2>4. /\ Once(outp', Hi) /\ Range(outp') \cap Hi = Range(Tail(outp)) \cap Hi
        /\ (packet = "CONNECT" => Range(Tail(outp)) \cap Hi = {})
    <3>1. Once(Tail(outp), Hi) /\ (packet \in Hi => Range(Tail(outp)) \cap Hi = {})
      BY <1>1, <2>2, OneLess
    <3> QED
      BY <1>2, <2>1, <2>2, <3>1, NoHiAdded
  <2>5. CASE packet = "CONNECT"
    <3>1. ~greeted /\ Range(broker) \cap Hi = {} /\ Range(down) \cap Greeting = {}
      BY <1>2, <2>2, <2>5 DEF HelloInv
    <3>2. Once(broker', Hi)
      <4>1. broker' = broker \/ broker' = Append(broker, "CONNECT")
        BY <2>2, <2>5
      <4>2. Once(Append(broker, "CONNECT"), Hi)
        BY <1>1, <3>1, OneMore
      <4> QED
        BY <1>1, <4>1, <4>2
    <3>3. state' = state
      BY <2>1, <2>5
    <3>4. ~(state = "active" \/ ping_t \/ (~threaded /\ state = "disconnected"))
      BY <1>2, <2>2, <2>3, <2>5 DEF HelloInv, NoHello
    <3>5. ~greeted' => Range(broker') \cap Hi = {}
      BY <2>2, <2>5, <3>1
    <3> QED
      BY <1>1, <2>1, <2>2, <2>4, <2>5, <3>1, <3>2, <3>3, <3>4, <3>5 DEF HelloInv, threaded
  <2>6. CASE packet # "CONNECT"
    <3>1. Range(broker') \cap Hi = Range(broker) \cap Hi /\ Once(broker', Hi) /\ greeted' = greeted
      <4>1. greeted' = greeted
        BY <2>2, <2>6 DEF TypeOK
      <4>2. CASE broker' = broker
        BY <1>1, <4>1, <4>2
      <4>3. CASE broker' = Append(broker, "PINGREQ")
        <5>1. Range(broker') = Range(broker) \cup {"PINGREQ"} /\ Once(broker', Hi)
          BY <1>1, <1>2, <4>3, OneMore
        <5> QED
          BY <1>2, <4>1, <5>1
      <4> QED
        BY <2>2, <2>6, <4>2, <4>3
    <3>2. Range(outp') \cap Hi \subseteq Range(outp) \cap Hi
      BY <2>2, <2>4
    <3>3. \/ state' = "active" \/ ping_t' \/ (~threaded /\ state' = "disconnected")
          => NoHello
      <4>1. CASE state' = state
        BY <2>2, <2>3, <4>1 DEF HelloInv
      <4>2. CASE state' # state
        <5>1. packet = "PUBLISH" /\ ~threaded
          BY <2>1, <4>2
        <5>2. state # "connected"
          BY <1>2, <2>2, <2>3, <5>1 DEF FirstInv
        <5>3. state \in {"active", "disconnected"}
          BY <2>2, <2>3, <5>2 DEF DueInv
        <5> QED
          BY <2>3, <5>1, <5>3 DEF HelloInv
      <4> QED
        BY <4>1, <4>2
    <3>4. \/ state' = "active" \/ ping_t' \/ (~threaded /\ state' = "disconnected")
          => NoHello'
      BY <2>2, <3>1, <3>2, <3>3 DEF NoHello
    <3>5. threaded' = threaded
      BY <2>2 DEF threaded
    <3>6. /\ greeted => Range(outp) \cap Hi = {}
          /\ ~greeted => Range(broker) \cap Hi = {} /\ Range(down) \cap Greeting = {}
          /\ Range(broker) \cap Hi # {} => Range(down) \cap Greeting = {}
      BY DEF HelloInv
    <3>7. /\ greeted' => Range(outp') \cap Hi = {}
          /\ ~greeted' => Range(broker') \cap Hi = {} /\ Range(down') \cap Greeting = {}
          /\ Range(broker') \cap Hi # {} => Range(down') \cap Greeting = {}
      BY <2>2, <3>1, <3>2, <3>6
    <3>8. Once(outp', Hi) /\ Once(broker', Hi) /\ Once(down', Greeting)
      BY <1>1, <2>2, <2>4, <3>1
    <3> QED
      BY <2>1, <3>4, <3>5, <3>7, <3>8 DEF HelloInv
  <2> QED
    BY <2>5, <2>6
<1>15. CASE WritesDisconnect
  <2>1. /\ Sent("DISCONNECT") /\ net' = "none" /\ outp' = Tail(outp) /\ pc' = "loop"
    BY <1>15 DEF WritesDisconnect, Goes
  <2>2. /\ outp # <<>> /\ Range(Tail(outp)) \subseteq Range(outp) /\ down' = down
        /\ UNCHANGED <<broker, greeted>>
    BY <1>2, <2>1, SentLeaves DEF TypeOK
  <2>3. Once(outp', Hi)
    BY <1>1, <2>1, <2>2, OneLess
  <2> QED
    BY <2>1, <2>2, <2>3 DEF HelloInv
<1>16. CASE WriteFails /\ back = "hello"
  <2>1. outp' = <<>> /\ net' = "none" /\ pc' = "decide" /\ UNCHANGED <<broker, down, greeted>>
    BY <1>16 DEF WriteFails, Cleared, Goes, other
  <2> QED
    BY <2>1, Nothing DEF HelloInv
<1>17. CASE WriteFails /\ back = "ping"
  <2>1. /\ UNCHANGED <<outp, broker, down, greeted, mode, state, net>> /\ ~ping_t' /\ pc' = "loop"
    BY <1>17 DEF WriteFails, Goes, other
  <2> QED
    BY <2>1 DEF HelloInv, NoHello, threaded
<1>18. CASE AppPublish \/ AppDisconnect \/ AppWakes
  <2>1. /\ UNCHANGED <<outp, broker, down, greeted, mode, ping_t, pc, net>>
        /\ state' = state \/ (threaded /\ state' = "disconnected")
    BY <1>18 DEF AppPublish, AppDisconnect, AppWakes, client, loop, other
  <2> QED
    BY <2>1 DEF HelloInv, NoHello, threaded
<1>19. CASE AppQueues
  <2>1. /\ UNCHANGED <<broker, down, greeted, mode, ping_t, pc, net, state>>
        /\ outp' = Append(outp, apkt)
    BY <1>19 DEF AppQueues, loop, other
  <2>2. apkt \in Outgoing /\ apkt \notin Hi
    BY <1>2 DEF AppInv
  <2>3. Range(outp') = Range(outp) \cup {apkt} /\ Once(outp', Hi)
    BY <1>1, <2>1, <2>2, OneMore
  <2>4. Range(outp') \cap Hi = Range(outp) \cap Hi
    BY <2>2, <2>3
  <2> QED
    BY <2>1, <2>3, <2>4 DEF HelloInv, NoHello, threaded
<1>20. CASE Tick
  <2>1. UNCHANGED <<outp, broker, down, greeted, mode, ping_t, pc, net, state>>
    BY <1>20 DEF Tick, client, other
  <2> QED
    BY <2>1 DEF HelloInv, NoHello, threaded
<1>21. CASE BrokerAnswers
  <2>1. /\ UNCHANGED <<outp, greeted, mode, ping_t, pc, net, state>>
        /\ broker # <<>> /\ broker' = Tail(broker)
        /\ \/ /\ Head(broker) = "CONNECT"
              /\ down' = Append(down, "CONNACK") \/ down' = Append(down, "REFUSED")
           \/ Head(broker) # "CONNECT" /\ down' = Append(down, "PINGRESP")
    BY <1>21 DEF BrokerAnswers, client, loop
  <2>2. /\ Once(broker', Hi) /\ Range(broker') \subseteq Range(broker)
        /\ Head(broker) \in Range(broker)
        /\ Head(broker) \in Hi => Range(broker') \cap Hi = {}
    BY <1>1, <2>1, OneLess
  <2>3. /\ "CONNACK" \in Incoming /\ "REFUSED" \in Incoming /\ "PINGRESP" \in Incoming
        /\ "PINGRESP" \notin Greeting
    BY DEF Incoming, Greeting
  <2>4. CASE Head(broker) = "CONNECT"
    <3>1. Range(broker) \cap Hi # {} /\ Range(broker') \cap Hi = {}
      BY <1>2, <2>2, <2>4
    <3>2. Range(down) \cap Greeting = {} /\ greeted /\ ~NoHello
      BY <3>1 DEF HelloInv, NoHello
    <3>3. Once(down', Greeting)
      BY <1>1, <2>1, <2>3, <2>4, <3>2, OneMore
    <3> QED
      BY <2>1, <2>2, <3>1, <3>2, <3>3 DEF HelloInv, threaded
  <2>5. CASE Head(broker) # "CONNECT"
    <3>1. Once(down', Greeting) /\ Range(down') = Range(down) \cup {"PINGRESP"}
      <4>1. down' = Append(down, "PINGRESP")
        BY <2>1, <2>5
      <4>2. /\ Once(Append(down, "PINGRESP"), Greeting)
            /\ Range(Append(down, "PINGRESP")) = Range(down) \cup {"PINGRESP"}
        BY <1>1, <2>3, OneMore
      <4> QED
        BY <4>1, <4>2
    <3>2. Range(down') \cap Greeting = Range(down) \cap Greeting
      BY <2>3, <3>1
    <3> QED
      BY <2>1, <2>2, <3>1, <3>2 DEF HelloInv, NoHello, threaded
  <2> QED
    BY <2>4, <2>5
<1>22. CASE BrokerPublishes
  <2>1. /\ UNCHANGED <<outp, broker, greeted, mode, ping_t, pc, net, state>>
        /\ down' = <<"PUBLISH">>
    BY <1>22 DEF BrokerPublishes, client, loop
  <2>2. Once(down', Greeting) /\ Range(down') \cap Greeting = {}
    BY <2>1 DEF Once, Range, Greeting
  <2> QED
    BY <2>1, <2>2 DEF HelloInv, NoHello, threaded
<1>23. CASE PeerResets \/ PeerFallsSilent
  <2>1. /\ UNCHANGED <<outp, greeted, mode, ping_t, pc, state>> /\ net # "none"
        /\ broker' = <<>> /\ down' \in {down, <<>>}
    BY <1>23 DEF PeerResets, PeerFallsSilent, client, loop
  <2>2. /\ Once(broker', Hi) /\ Range(broker') = {} /\ Once(down', Greeting)
        /\ Range(down') \subseteq Range(down)
    BY <1>1, <2>1, Nothing
  <2> QED
    BY <2>1, <2>2 DEF HelloInv, NoHello, threaded
<1>24. CASE BrokerDisconnects
  <2>1. /\ UNCHANGED <<outp, greeted, mode, ping_t, pc, state>> /\ net # "none"
        /\ broker' = <<>> /\ down' = Append(down, "DISCONNECT")
    BY <1>24 DEF BrokerDisconnects, client, loop
  <2>2. "DISCONNECT" \in Incoming /\ "DISCONNECT" \notin Greeting
    BY DEF Incoming, Greeting
  <2>3. /\ Once(broker', Hi) /\ Range(broker') = {} /\ Once(down', Greeting)
        /\ Range(down') = Range(down) \cup {"DISCONNECT"}
    BY <1>1, <2>1, <2>2, Nothing, OneMore
  <2>4. Range(down') \cap Greeting = Range(down) \cap Greeting
    BY <2>2, <2>3
  <2> QED
    BY <2>1, <2>3, <2>4 DEF HelloInv, NoHello, threaded
<1>25. back \in {"hello", "loop", "ping"}
  BY DEF TypeOK
<1> QED
  BY <1>3, <1>4, <1>5, <1>6, <1>7, <1>8, <1>9, <1>10, <1>11, <1>12, <1>13, <1>14, <1>15, <1>16,
     <1>17, <1>18, <1>19, <1>20, <1>21, <1>22, <1>23, <1>24, <1>25
     DEF GivesUp, Next, Loop, Application, NoAddress, NoContext

-----------------------------------------------------------------------------
(* Without threads: what comes first, and where a client that disconnects is not *)

\* No step changes the mode.
LEMMA ModeStays == TypeOK /\ Next => mode' = mode
<1> SUFFICES ASSUME TypeOK, Next PROVE mode' = mode
  OBVIOUS
<1>1. CASE GivesUp
  BY <1>1, Closing DEF Closes
<1>2. CASE (WriteFails /\ back # "loop") \/ WritesPacket \/ WritesDisconnect
  BY <1>2 DEF WriteFails, WritesPacket, WritesDisconnect, Sent
<1>3. CASE Connack \/ Refused \/ Message \/ Pingresp
  BY <1>3 DEF Connack, Refused, Message, Pingresp, Reads
<1>4. CASE Reset \/ Connect \/ Pending \/ Greet \/ Hello \/ EnterLoop \/ Select
  BY <1>4 DEF Reset, Connect, Pending, Greet, Hello, EnterLoop, Select, client
<1>5. CASE ReadHandshake \/ WriteHandshake \/ NothingToRead \/ ReadPair \/ LoopWrite
  BY <1>5 DEF ReadHandshake, WriteHandshake, Handshake, NothingToRead, ReadPair, LoopWrite, client
<1>6. CASE WritesNothing \/ WritesPart \/ InTime \/ Ping \/ Decide \/ Sleeps \/ Check
  BY <1>6 DEF WritesNothing, WritesPart, InTime, Ping, Decide, Sleeps, Check, client
<1>7. CASE \/ Application \/ Tick \/ BrokerAnswers \/ BrokerPublishes \/ BrokerDisconnects
           \/ PeerResets \/ PeerFallsSilent
  BY <1>7 DEF Application, AppPublish, AppDisconnect, AppQueues, AppWakes, Tick, BrokerAnswers,
              BrokerPublishes, BrokerDisconnects, PeerResets, PeerFallsSilent, client
<1> QED
  BY <1>1, <1>2, <1>3, <1>4, <1>5, <1>6, <1>7 DEF GivesUp, Next, Loop, NoAddress, NoContext

\* Steps that neither queue, write nor give up, and go to a place behind send__connect.
Onward ==
  /\ UNCHANGED <<outp, greeted, early, mode>>
  /\ pc' \notin {"reset", "connect", "greet", "hello"} /\ (pc' = "packets" => back' # "hello")
  /\ pc \notin {"greet", "hello", "refused"}
  /\ net' = "none" \/ UNCHANGED <<net, state>>

\* They keep what is said of a client without threads.
LEMMA FirstOnward == FirstInv /\ Onward => FirstInv'
BY DEF FirstInv, Onward, threaded

\* Every other step keeps it too.
LEMMA FirstKept ==
  TypeOK /\ SocketInv /\ AppInv /\ FirstInv /\ Next => FirstInv'
<1> SUFFICES ASSUME TypeOK, SocketInv, AppInv, FirstInv, Next PROVE FirstInv'
  OBVIOUS
<1> USE DEF Closed
<1>1. /\ outp \in Seq(Outgoing) /\ mode' = mode
      /\ "CONNECT" \in Outgoing /\ "PUBLISH" \in Outgoing /\ "PINGREQ" \in Outgoing
      /\ "DISCONNECT" \in Outgoing
  BY ModeStays DEF TypeOK, Outgoing
<1> SUFFICES ASSUME ~threaded PROVE FirstInv'
  BY <1>1 DEF FirstInv, threaded
<1>2. /\ ~early
      /\ pc \in {"connect", "greet", "hello"} => outp = <<>>
      /\ net = "up" /\ ~greeted /\ pc \notin {"greet", "hello"} =>
           outp # <<>> /\ Head(outp) = "CONNECT"
      /\ net # "none" /\ state = "connected" /\ pc # "refused" => Range(outp) \subseteq Hi
      /\ pc = "hello" \/ (pc = "packets" /\ back = "hello") => state = "connected"
      /\ state = "disconnected" => pc \notin {"reset", "connect", "greet", "hello"}
  BY DEF FirstInv
<1>3. CASE GivesUp
  <2>1. net' = "none" /\ pc' \in {"loop", "over", "decide"} /\ early' = early
    BY <1>3, Closing DEF Closes
  <2> QED
    BY <1>2, <2>1 DEF FirstInv
<1>4. CASE Reset
  <2>1. /\ pc = "reset" /\ outp' = <<>> /\ net' = "none" /\ pc' = "connect"
        /\ state' = state /\ early' = early
    BY <1>4 DEF Reset, Cleared, history
  <2> QED
    BY <1>2, <2>1 DEF FirstInv
<1>5. CASE Connect \/ Greet
  <2>1. /\ pc \in {"connect", "greet"} /\ UNCHANGED <<outp, early>>
        /\ \/ pc' = "greet" /\ state' = state
           \/ pc' = "hello" /\ state' = "connected"
    BY <1>5 DEF Connect, Greet, Goes, history
  <2>2. Range(outp') \subseteq Hi
    BY <1>2, <2>1, Nothing
  <2> QED
    BY <1>2, <2>1, <2>2 DEF FirstInv
<1>6. CASE Hello
  <2>1. /\ pc = "hello" /\ pc' = "packets" /\ back' = "hello" /\ outp' = Append(outp, "CONNECT")
        /\ UNCHANGED <<state, early, net, greeted>>
    BY <1>6 DEF Hello, Queue, other, history
  <2>2. outp = <<>>
    BY <1>2, <2>1
  <2>3. outp' # <<>> /\ Head(outp') = "CONNECT" /\ Range(outp') = {"CONNECT"}
    BY <1>1, <2>1, <2>2, OneMore, Nothing
  <2> QED
    BY <1>2, <2>1, <2>3 DEF FirstInv, Hi
<1>7. CASE Pending
  <2>1. state' = "connect_pending" /\ pc' = "decide" /\ net' = "none" /\ early' = early
    BY <1>7 DEF Pending, Goes, history, SocketInv
  <2> QED
    BY <1>2, <2>1 DEF FirstInv
<1>8. CASE EnterLoop \/ Select \/ NothingToRead \/ ReadPair \/ LoopWrite
  <2>1. Onward
    BY <1>8 DEF EnterLoop, Select, NothingToRead, ReadPair, LoopWrite, Goes, client, other, history,
                Onward
  <2> QED
    BY <2>1, FirstOnward
<1>9. CASE WritesNothing \/ WritesPart \/ InTime
  <2>1. Onward
    BY <1>9 DEF WritesNothing, WritesPart, Writes, InTime, Written, Goes, client, other, history,
                Onward
  <2> QED
    BY <2>1, FirstOnward
<1>10. CASE ReadHandshake \/ WriteHandshake
  <2>1. Onward
    BY <1>10 DEF ReadHandshake, WriteHandshake, Handshake, Goes, other, history, Onward
  <2> QED
    BY <2>1, FirstOnward
<1>11. CASE Decide \/ Sleeps
  <2>1. Onward
    BY <1>11 DEF Decide, Sleeps, Goes, client, other, history, Onward, SocketInv
  <2> QED
    BY <2>1, FirstOnward
<1>12. CASE Check
  <2>1. /\ pc' \in {"over", "reset"} /\ net' = "none" /\ UNCHANGED <<state, early>>
        /\ pc' = "reset" => state # "disconnected"
    BY <1>12 DEF Check, ToldToStop, Goes, client, history, SocketInv
  <2> QED
    BY <1>2, <2>1 DEF FirstInv
<1>13. CASE Pingresp
  <2>1. Onward
    BY <1>1, <1>13 DEF Pingresp, Reads, Goes, Onward
  <2> QED
    BY <2>1, FirstOnward
<1>14. CASE Connack \/ Refused \/ Message
  <2>1. Answered /\ (state' \in {"active", "disconnected"} \/ pc' = "refused")
    BY <1>14, ConnackLeaves, RefusedLeaves, MessageLeaves
  <2>2. pc = "read" /\ pc' \in {"pair", "refused"} /\ CallsBack(outp) /\ UNCHANGED <<greeted, early, net>>
    BY <2>1 DEF Answered
  <2>3. outp # <<>> => outp' # <<>> /\ Head(outp') = Head(outp)
    BY <1>1, <2>2, NoHiAdded
  <2>4. net' = "up" /\ ~greeted' => outp' # <<>> /\ Head(outp') = "CONNECT"
    BY <1>2, <2>2, <2>3
  <2> QED
    BY <1>2, <2>1, <2>2, <2>4 DEF FirstInv
<1>15. CASE Ping
  <2>1. /\ pc = "misc" /\ state = "active" /\ outp' = Append(outp, "PINGREQ") /\ pc' = "packets"
        /\ back' = "ping" /\ UNCHANGED <<state, early, net, greeted>>
    BY <1>15 DEF Ping, MayPing, Queue, other
  <2>2. outp # <<>> => outp' # <<>> /\ Head(outp') = Head(outp)
    BY <1>1, <2>1, OneMore
  <2>3. net' = "up" /\ ~greeted' => outp' # <<>> /\ Head(outp') = "CONNECT"
    BY <1>2, <2>1, <2>2
  <2> QED
    BY <1>2, <2>1, <2>3 DEF FirstInv
<1>16. CASE WritesPacket \/ WritesDisconnect
  <2>1. PICK packet \in Outgoing :
          /\ Sent(packet)
          /\ \/ /\ CallsBack(Tail(outp)) /\ pc' = "packets" /\ back' = back
                /\ net' = IF early' /\ ~early THEN "reset" ELSE net
                /\ state' \in {state, "disconnected"}
                /\ state' # state => packet = "PUBLISH"
                /\ outp' # Tail(outp) => packet = "PUBLISH"
             \/ net' = "none" /\ pc' = "loop"
    <3>1. CASE WritesPacket
      BY <3>1, PacketLeaves
    <3>2. CASE WritesDisconnect
      BY <1>1, <3>2 DEF WritesDisconnect, Goes
    <3> QED
      BY <1>16, <3>1, <3>2
  <2>2. /\ outp # <<>> /\ Head(outp) = packet /\ pc = "packets" /\ packet \in Range(outp)
        /\ Range(Tail(outp)) \subseteq Range(outp)
        /\ \/ UNCHANGED <<broker, greeted, early>> /\ net # "up"
           \/ /\ net = "up" /\ greeted' = (greeted \/ packet = "CONNECT")
              /\ early' = (early \/ (~greeted /\ packet # "CONNECT"))
    BY <2>1, SentLeaves
  <2>3. net # "none"
    BY <2>2 DEF SocketInv
  <2>4. ~early'
    BY <1>2, <2>2
  <2>5. CASE net' = "none" /\ pc' = "loop"
    BY <2>4, <2>5 DEF FirstInv
  <2>6. CASE /\ CallsBack(Tail(outp)) /\ pc' = "packets" /\ back' = back
             /\ net' = IF early' /\ ~early THEN "reset" ELSE net
             /\ state' \in {state, "disconnected"}
             /\ state' # state => packet = "PUBLISH"
             /\ outp' # Tail(outp) => packet = "PUBLISH"
    <3>1. state = "connected" => packet # "PUBLISH" /\ Range(outp') \subseteq Hi
      BY <1>2, <2>2, <2>3, <2>6 DEF Hi
    <3>2. net' = net
      BY <2>4, <2>6
    <3>3. net = "up" => greeted'
      BY <1>2, <2>2
    <3>4. pc = "packets" /\ back = "hello" => state' = "connected"
      BY <1>2, <2>6, <3>1
    <3>5. state' = "connected" => state = "connected"
      BY <2>6
    <3> QED
      BY <2>2, <2>4, <2>6, <3>1, <3>2, <3>3, <3>4, <3>5 DEF FirstInv
  <2> QED
    BY <2>1, <2>5, <2>6
<1>17. CASE WriteFails /\ back = "hello"
  <2>1. state' = "new" /\ net' = "none" /\ pc' = "decide" /\ early' = early
    BY <1>17 DEF WriteFails, Goes, history
  <2> QED
    BY <1>2, <2>1 DEF FirstInv
<1>18. CASE WriteFails /\ back = "ping"
  <2>1. Onward
    BY <1>18 DEF WriteFails, Writes, Goes, other, history, Onward
  <2> QED
    BY <2>1, FirstOnward
<1>19. CASE Application
  BY <1>19 DEF Application, AppPublish, AppDisconnect, AppQueues, AppWakes, AppInv
<1>20. CASE Tick \/ BrokerAnswers \/ BrokerPublishes
  <2>1. UNCHANGED <<outp, early, greeted, state, pc, back, net>>
    BY <1>20 DEF Tick, BrokerAnswers, BrokerPublishes, client, loop, other, history
  <2> QED
    BY <1>2, <2>1 DEF FirstInv
<1>21. CASE BrokerDisconnects \/ PeerResets \/ PeerFallsSilent
  <2>1. UNCHANGED <<outp, early, greeted, state, pc, back>> /\ net # "none" /\ net' # "up"
    BY <1>21 DEF BrokerDisconnects, PeerResets, PeerFallsSilent, client, loop, history
  <2> QED
    BY <1>2, <2>1 DEF FirstInv
<1>22. back \in {"hello", "loop", "ping"}
  BY DEF TypeOK
<1> QED
  BY <1>3, <1>4, <1>5, <1>6, <1>7, <1>8, <1>9, <1>10, <1>11, <1>12, <1>13, <1>14, <1>15, <1>16,
     <1>17, <1>18, <1>19, <1>20, <1>21, <1>22
     DEF GivesUp, Next, Loop, NoAddress, NoContext

\* Every step keeps who is disconnected.
LEMMA StopKept ==
  TypeOK /\ SocketInv /\ AppInv /\ HelloInv /\ FirstInv /\ StopInv /\ Next => StopInv'
<1> SUFFICES ASSUME TypeOK, SocketInv, AppInv, HelloInv, FirstInv, StopInv, Next PROVE StopInv'
  OBVIOUS
<1>1. mode' = mode
  BY ModeStays
<1> SUFFICES ASSUME ~threaded, asked', ~undone' PROVE state' = "disconnected"
  BY <1>1 DEF StopInv, threaded
<1>2. asked /\ ~undone =>
        state = "disconnected" /\ pc \notin {"reset", "connect", "greet", "hello"}
          /\ ~(pc = "packets" /\ back = "hello")
  BY DEF StopInv, FirstInv
<1>3. CASE GivesUp
  <2>1. /\ state' \in {state, "disconnected"} /\ undone' = undone
        /\ asked' = asked \/ state' = "disconnected"
    BY <1>3, Closing DEF Closes
  <2> QED
    BY <1>2, <2>1
<1>4. CASE Reset \/ Connect \/ Pending \/ Greet \/ Hello
  <2>1. pc \in {"reset", "connect", "greet", "hello"} /\ asked' = asked /\ undone' = undone
    BY <1>4 DEF Reset, Connect, Pending, Greet, Hello, app, history
  <2> QED
    BY <1>2, <2>1
<1>5. CASE Connack
  <2>1. /\ Answered /\ Head(down) = "CONNACK" /\ asked' = asked /\ undone' = undone
    BY <1>5, ConnackLeaves
  <2>2. pc = "read" /\ down # <<>>
    BY <2>1 DEF Answered
  <2>3. net # "none"
    BY <2>2 DEF SocketInv, Closed
  <2>4. Range(down) \cap Greeting = {}
    BY <1>2, <2>1, <2>3 DEF HelloInv, NoHello
  <2>5. Head(down) \in Range(down)
    BY <2>2, OneLess DEF TypeOK
  <2> QED
    BY <2>1, <2>4, <2>5 DEF Greeting
<1>6. CASE Refused \/ Message
  <2>1. /\ state' \in {state, "disconnected"} /\ undone' = undone
        /\ asked' = asked \/ state' = "disconnected"
    BY <1>6, RefusedLeaves, MessageLeaves
  <2> QED
    BY <1>2, <2>1
<1>7. CASE WritesPacket
  <2>1. /\ state' \in {state, "disconnected"} /\ undone' = undone
        /\ asked' = asked \/ state' = "disconnected"
    BY <1>7, PacketLeaves
  <2> QED
    BY <1>2, <2>1
<1>8. CASE WritesDisconnect
  BY <1>8 DEF WritesDisconnect
<1>9. CASE WriteFails /\ back # "loop"
  <2>1. pc = "packets" /\ asked' = asked /\ undone' = undone /\ (back = "hello" \/ state' = state)
    BY <1>9 DEF WriteFails, Writes, app, history
  <2> QED
    BY <1>2, <2>1
<1>10. CASE EnterLoop \/ Select \/ ReadHandshake \/ WriteHandshake \/ NothingToRead \/ ReadPair
  <2>1. UNCHANGED <<state, asked, undone>>
    BY <1>10 DEF EnterLoop, Select, ReadHandshake, WriteHandshake, Handshake, NothingToRead,
                 ReadPair, client, app, history
  <2> QED
    BY <1>2, <2>1
<1>11. CASE Pingresp \/ LoopWrite \/ WritesNothing \/ WritesPart \/ InTime
  <2>1. UNCHANGED <<state, asked, undone>>
    BY <1>11 DEF Pingresp, LoopWrite, WritesNothing, WritesPart, InTime, client, app, history
  <2> QED
    BY <1>2, <2>1
<1>12. CASE Ping \/ Decide \/ Sleeps \/ Check
  <2>1. UNCHANGED <<state, asked, undone>>
    BY <1>12 DEF Ping, Decide, Sleeps, Check, client, app, history
  <2> QED
    BY <1>2, <2>1
<1>13. CASE Application
  BY <1>13 DEF Application, AppPublish, AppDisconnect, AppQueues, AppWakes, AppInv
<1>14. CASE Tick \/ BrokerAnswers \/ BrokerPublishes
  <2>1. UNCHANGED <<state, asked, undone>>
    BY <1>14 DEF Tick, BrokerAnswers, BrokerPublishes, client, app, history
  <2> QED
    BY <1>2, <2>1
<1>15. CASE BrokerDisconnects \/ PeerResets \/ PeerFallsSilent
  <2>1. UNCHANGED <<state, asked, undone>>
    BY <1>15 DEF BrokerDisconnects, PeerResets, PeerFallsSilent, client, app, history
  <2> QED
    BY <1>2, <2>1
<1> QED
  BY <1>3, <1>4, <1>5, <1>6, <1>7, <1>8, <1>9, <1>10, <1>11, <1>12, <1>13, <1>14, <1>15
     DEF GivesUp, Next, Loop, NoAddress, NoContext

-----------------------------------------------------------------------------
(* The delay between two connections *)

\* A product grows with its factors.
LEMMA Grows ==
  ASSUME NEW a \in Nat, NEW b \in Nat
  PROVE  /\ a * (b + 2) >= a * (b + 1) /\ a * (b + 2) \in Nat /\ a * (b + 1) \in Nat
         /\ a * (b + 2) * (b + 2) >= a * (b + 1) * (b + 1)
<1>1. \A m, n \in Nat : m * n \in Nat /\ m * (n + 1) = m * n + m
  OBVIOUS
<1> DEFINE c == a * (b + 1)
           d == a * (b + 2)
<1>2. c \in Nat /\ d \in Nat /\ d = c + a
  <2>1. a * ((b + 1) + 1) = a * (b + 1) + a
    BY <1>1
  <2> QED
    BY <1>1, <2>1
<1>3. d * (b + 2) >= c * (b + 1)
  <2> HIDE DEF c, d
  <2>1. d * ((b + 1) + 1) = d * (b + 1) + d /\ d * (b + 1) \in Nat
    BY <1>1, <1>2
  <2>2. (c + a) * (b + 1) = c * (b + 1) + a * (b + 1)
    BY <1>2
  <2>3. a * (b + 1) \in Nat /\ c * (b + 1) \in Nat
    BY <1>1, <1>2
  <2> DEFINE e == a * (b + 1)
             f == c * (b + 1)
             g == d * (b + 1)
             h == d * (b + 2)
  <2>4. h = g + d /\ g = f + e
    BY <1>2, <2>1, <2>2
  <2>5. e \in Nat /\ f \in Nat
    BY <2>3
  <2> HIDE DEF e, f, g, h
  <2>6. h >= f
    BY <1>2, <2>4, <2>5
  <2> QED
    BY <2>6 DEF f, h
<1> HIDE DEF c, d
<1> QED
  BY <1>2, <1>3 DEF c, d

\* After one attempt more the delay is not shorter, before it is cut.
LEMMA RawGrows ==
  ASSUME TypeOK, reconnects' \in {reconnects, reconnects + 1}
  PROVE  raw_delay' >= raw_delay
<1>1. reconnects \in Nat /\ reconnect_delay \in Nat
  BY ConnConstants DEF TypeOK
<1>2. CASE reconnects' = reconnects
  <2>1. raw_delay' = raw_delay
    BY <1>2 DEF raw_delay
  <2>2. raw_delay \in Nat
    BY RawDelay
  <2> QED
    BY <2>1, <2>2
<1>3. CASE reconnects' = reconnects + 1
  <2> DEFINE one == reconnect_delay * (reconnects + 1)
             two == one * (reconnects + 1)
             oneMore == reconnect_delay * (reconnects + 2)
             twoMore == oneMore * (reconnects + 2)
  <2>1. oneMore >= one /\ twoMore >= two /\ oneMore \in Nat /\ one \in Nat
    BY <1>1, Grows
  <2>2. reconnects' + 1 = reconnects + 2
    BY <1>1, <1>3
  <2>3. reconnect_delay * (reconnects' + 1) = oneMore
    BY <2>2
  <2>4. oneMore * (reconnects' + 1) = twoMore
    BY <2>2
  <2>5. raw_delay' = IF reconnect_delay_max <= reconnect_delay THEN reconnect_delay
                     ELSE reconnect_delay * (reconnects' + 1)
                            * (IF reconnect_exponential_backoff THEN reconnects' + 1 ELSE 1)
    BY DEF raw_delay
  <2>6. raw_delay = IF reconnect_delay_max <= reconnect_delay THEN reconnect_delay
                    ELSE one * (IF reconnect_exponential_backoff THEN reconnects + 1 ELSE 1)
    BY DEF raw_delay
  <2>7. CASE reconnect_delay_max <= reconnect_delay
    BY <1>1, <2>5, <2>6, <2>7
  <2>8. CASE ~(reconnect_delay_max <= reconnect_delay) /\ reconnect_exponential_backoff
    <3>1. raw_delay' = twoMore
      BY <2>3, <2>4, <2>5, <2>8
    <3>2. raw_delay = two
      BY <2>6, <2>8
    <3> QED
      BY <2>1, <3>1, <3>2
  <2>9. CASE ~(reconnect_delay_max <= reconnect_delay) /\ ~reconnect_exponential_backoff
    <3> HIDE DEF one, oneMore
    <3>1. raw_delay' = oneMore * 1
      BY <2>3, <2>5, <2>9
    <3>2. raw_delay = one * 1
      BY <2>6, <2>9
    <3> QED
      BY <2>1, <3>1, <3>2
  <2> QED
    BY <2>7, <2>8, <2>9
<1> QED
  BY <1>2, <1>3

\* What Decide does with the delay.
LEMMA DecideDelays ==
  TypeOK /\ Decide =>
    \/ slept' = slept /\ reconnects' = reconnects
    \/ /\ slept' = IF raw_delay <= reconnect_delay_max THEN raw_delay ELSE reconnect_delay_max
       /\ reconnects' \in {reconnects, reconnects + 1}
<1> SUFFICES ASSUME TypeOK, Decide
             PROVE  \/ slept' = slept /\ reconnects' = reconnects
                    \/ /\ slept' = IF raw_delay <= reconnect_delay_max THEN raw_delay
                                   ELSE reconnect_delay_max
                       /\ reconnects' \in {reconnects, reconnects + 1}
  OBVIOUS
<1>1. Min({raw_delay, reconnect_delay_max})
        = IF raw_delay <= reconnect_delay_max THEN raw_delay ELSE reconnect_delay_max
  BY RawDelay, MinOfTwo, ConnConstants
<1> QED
  BY <1>1 DEF Decide, Goes

\* No other step touches the delay, but the one that reads CONNACK.
LEMMA DelayLeft ==
  TypeOK /\ Next /\ ~Decide /\ ~Connack => slept' = slept /\ reconnects' = reconnects
<1> SUFFICES ASSUME TypeOK, Next, ~Decide, ~Connack PROVE slept' = slept /\ reconnects' = reconnects
  OBVIOUS
<1>1. CASE GivesUp
  BY <1>1, Closing DEF Closes
<1>2. CASE Refused \/ Message
  BY <1>2, RefusedLeaves, MessageLeaves
<1>3. CASE WritesPacket \/ WritesDisconnect
  BY <1>3 DEF WritesPacket, WritesDisconnect, Sent, Goes
<1>4. CASE WriteFails /\ back # "loop"
  BY <1>4 DEF WriteFails, Goes, history
<1>5. CASE Reset \/ Connect \/ Pending \/ Greet \/ Hello \/ EnterLoop \/ Select
  BY <1>5 DEF Reset, Connect, Pending, Greet, Hello, EnterLoop, Select, Goes, history
<1>6. CASE ReadHandshake \/ WriteHandshake \/ NothingToRead \/ Pingresp \/ ReadPair \/ LoopWrite
  BY <1>6 DEF ReadHandshake, WriteHandshake, Handshake, NothingToRead, Pingresp, ReadPair,
              LoopWrite, Goes, history
<1>7. CASE WritesNothing \/ WritesPart \/ InTime \/ Ping \/ Sleeps \/ Check
  BY <1>7 DEF WritesNothing, WritesPart, InTime, Ping, Sleeps, Check, Goes, history
<1>8. CASE Application \/ Tick \/ BrokerAnswers \/ BrokerPublishes \/ BrokerDisconnects \/ PeerResets \/ PeerFallsSilent
  BY <1>8 DEF Application, AppPublish, AppDisconnect, AppQueues, AppWakes, Tick, BrokerAnswers,
              BrokerPublishes, BrokerDisconnects, PeerResets, PeerFallsSilent, loop, history
<1> QED
  BY <1>1, <1>2, <1>3, <1>4, <1>5, <1>6, <1>7, <1>8 DEF GivesUp, Next, Loop, NoAddress, NoContext

\* Every step keeps how the delay grows.
LEMMA DelayKept == TypeOK /\ SocketInv /\ DelayInv /\ Next => DelayInv'
<1> SUFFICES ASSUME TypeOK, SocketInv, DelayInv, Next PROVE DelayInv'
  OBVIOUS
<1>1. /\ slept \in Nat /\ reconnects \in Nat /\ reconnect_delay_max \in Nat
      /\ reconnect_delay_max > 0 /\ raw_delay \in Nat /\ raw_delay > 0
  BY ConnConstants, RawDelay DEF TypeOK
<1>2. raw_delay' \in Nat
  <2>1. TypeOK'
    BY TypesKept
  <2>2. reconnects' \in Nat /\ reconnect_delay \in Nat /\ reconnect_delay > 0
    BY <2>1, ConnConstants DEF TypeOK
  <2> DEFINE one == reconnect_delay * (reconnects' + 1)
             two == one * (reconnects' + 1)
  <2>3. one \in Nat /\ two \in Nat
    BY <2>2, Products
  <2>4. one * 1 = one
    <3>1. one \in Nat
      BY <2>3
    <3> HIDE DEF one
    <3> QED
      BY <3>1
  <2>5. raw_delay' \in {reconnect_delay, one, two}
    BY <2>4 DEF raw_delay
  <2> HIDE DEF one, two
  <2> QED
    BY <2>2, <2>3, <2>5
<1>3. CASE slept' = slept /\ reconnects' = reconnects
  <2>1. raw_delay' = raw_delay
    BY <1>3 DEF raw_delay
  <2> QED
    BY <1>3, <2>1 DEF DelayInv
<1>4. CASE Connack
  <2>1. slept' = 0 /\ reconnects' = 0
    BY <1>4, ConnackLeaves
  <2> QED
    BY <1>1, <1>2, <2>1 DEF DelayInv
<1>5. CASE Decide /\ ~(slept' = slept /\ reconnects' = reconnects)
  <2>1. /\ slept' = IF raw_delay <= reconnect_delay_max THEN raw_delay ELSE reconnect_delay_max
        /\ reconnects' \in {reconnects, reconnects + 1}
    BY <1>5, DecideDelays
  <2>2. raw_delay' >= raw_delay
    BY <2>1, RawGrows
  <2>3. slept' <= reconnect_delay_max /\ slept' <= raw_delay /\ slept' # 0
    BY <1>1, <2>1
  <2>4. slept' \in Nat
    BY <1>1, <2>1
  <2>5. slept' <= raw_delay'
    BY <1>1, <1>2, <2>2, <2>3, <2>4
  <2> QED
    BY <2>3, <2>5 DEF DelayInv
<1> QED
  BY <1>3, <1>4, <1>5, DelayLeft

-----------------------------------------------------------------------------
(* The inductive invariant *)

\* The invariant holds at first.
LEMMA ConnInit == Init => ConnIInv
<1> SUFFICES ASSUME Init PROVE ConnIInv
  OBVIOUS
<1>1. /\ mode \in Modes /\ net = "none" /\ state = "new" /\ outp = <<>> /\ pc = "reset"
      /\ broker = <<>> /\ down = <<>> /\ apc = "idle" /\ apkt = "PUBLISH"
      /\ outAge = 0 /\ inAge = 0 /\ quiet = 0 /\ due = 0 /\ slept = 0 /\ reconnects = 0
      /\ pair = 0 /\ pubs = 0 /\ faults = 0 /\ left = 0 /\ ready = {} /\ back = "loop"
  BY DEF Init
<1>2. /\ want_connect = FALSE /\ want_write = FALSE /\ part = FALSE /\ ping_t = FALSE
      /\ watch = FALSE /\ asked = FALSE /\ greeted = FALSE /\ early = FALSE /\ undone = FALSE
  BY DEF Init
<1>3. TypeOK
  <2>1. /\ outp \in Seq(Outgoing) /\ broker \in Seq({"CONNECT", "PINGREQ"})
        /\ down \in Seq(Incoming)
    BY <1>1, Nothing
  <2>2. /\ pair \in 0 .. MaxPair /\ pubs \in 0 .. MaxPublishes /\ faults \in 0 .. MaxFaults
    BY <1>1, ConnConstants
  <2>3. /\ outAge \in Nat /\ inAge \in Nat /\ quiet \in Nat /\ due \in Nat /\ slept \in Nat
        /\ reconnects \in Nat /\ left \in Nat
    BY <1>1
  <2>4. /\ state \in States /\ pc \in Places /\ apkt \in Outgoing
    BY <1>1 DEF States, Places, Outgoing
  <2>5. /\ want_connect \in BOOLEAN /\ want_write \in BOOLEAN /\ part \in BOOLEAN
        /\ ping_t \in BOOLEAN /\ watch \in BOOLEAN /\ asked \in BOOLEAN /\ greeted \in BOOLEAN
        /\ early \in BOOLEAN /\ undone \in BOOLEAN
    BY <1>2
  <2>6. /\ mode \in Modes /\ net \in {"none", "up", "reset", "mute"}
        /\ ready \subseteq {"sock", "pair", "write"} /\ back \in {"hello", "loop", "ping"}
        /\ apc \in {"idle", "queue", "wake", "join"}
    BY <1>1
  <2> QED
    BY <2>1, <2>2, <2>3, <2>4, <2>5, <2>6 DEF TypeOK
<1>4. SocketInv /\ AgeInv /\ DueInv /\ WorkWakes
  BY <1>1, <1>2 DEF SocketInv, AgeInv, DueInv, WorkWakes, Closed
<1>5. AppInv
  BY <1>1, <1>2, Nothing DEF AppInv
<1>6. QuietInv
  <2>1. quiet <= 4 * Keepalive - 2
    BY <1>1, ConnConstants
  <2> QED
    BY <1>1, <2>1 DEF QuietInv
<1>7. HelloInv
  BY <1>1, <1>2, Nothing DEF HelloInv
<1>8. FirstInv /\ StopInv
  BY <1>1, <1>2 DEF FirstInv, StopInv
<1>9. DelayInv
  BY <1>1, <1>3, ConnConstants, RawDelay DEF DelayInv
<1> QED
  BY <1>3, <1>4, <1>5, <1>6, <1>7, <1>8, <1>9 DEF ConnIInv

\* Every step keeps all its parts.
LEMMA ConnStep == ConnIInv /\ Next => ConnIInv'
BY TypesKept, SocketKept, AppKept, WakesKept, AgesKept, QuietKept, DueKept, HelloKept, FirstKept,
   StopKept, DelayKept DEF ConnIInv

\* A step that changes nothing.
LEMMA ConnStutter == ConnIInv /\ UNCHANGED vars => ConnIInv'
<1> SUFFICES ASSUME ConnIInv, UNCHANGED vars PROVE ConnIInv'
  OBVIOUS
<1>1. /\ UNCHANGED <<mode, state, want_connect, want_write, outp, part, pair, ping_t>>
      /\ UNCHANGED <<outAge, inAge, reconnects, pc, ready, watch, back, left>>
      /\ UNCHANGED <<apc, apkt, pubs, asked, broker, greeted, down>>
      /\ UNCHANGED <<net, faults, quiet, due, slept, early, undone>>
  BY DEF vars, client, ages, loop, app, other, history
<1>2. TypeOK' /\ SocketInv' /\ AppInv'
  BY <1>1 DEF ConnIInv, TypeOK, SocketInv, AppInv, threaded
<1>3. WorkWakes' /\ AgeInv' /\ QuietInv' /\ DueInv'
  BY <1>1 DEF ConnIInv, WorkWakes, AgeInv, QuietInv, PingFailed, DueInv
<1>4. HelloInv' /\ FirstInv' /\ StopInv'
  BY <1>1 DEF ConnIInv, HelloInv, NoHello, FirstInv, StopInv, threaded
<1>5. DelayInv'
  BY <1>1 DEF ConnIInv, DelayInv, raw_delay
<1> QED
  BY <1>2, <1>3, <1>4, <1>5 DEF ConnIInv

-----------------------------------------------------------------------------
(* The theorems *)

\* The inductive invariant holds, for every keepalive interval, delay and bound.
THEOREM Inductive == Spec => []ConnIInv
<1>1. Init => ConnIInv
  BY ConnInit
<1>2. ConnIInv /\ [Next]_vars => ConnIInv'
  BY ConnStep, ConnStutter
<1> QED
  BY <1>1, <1>2, PTL DEF Spec

\* The variables have their types, and without threads a client sends nothing before
\* CONNECT on any of its connections: what is left of the last one is thrown away
\* (mosquitto__reconnect), and what a callback publishes goes behind it.
THEOREM ConnectComesFirst == Spec => []ConnInv
<1>1. ConnIInv => ConnInv
  BY DEF ConnIInv, ConnInv, FirstInv, ConnectFirst
<1> QED
  BY <1>1, Inductive, PTL

\* The loop never sleeps over a packet, whatever the other thread does meanwhile
\* (packet__queue, mosquitto_loop).
THEOREM NeverAsleep == Spec => []WorkWakes
<1>1. ConnIInv => WorkWakes
  BY DEF ConnIInv
<1> QED
  BY <1>1, Inductive, PTL

\* With a connection no more than the keepalive interval goes by without a packet sent
\* (mosquitto_loop, mosquitto__check_keepalive).
THEOREM NeverSilent == Spec => []NotSilent
<1>1. ConnIInv => NotSilent
  BY DEF ConnIInv, AgeInv, NotSilent
<1> QED
  BY <1>1, Inductive, PTL

\* A connection on which nothing is read any more is given up before four keepalive
\* intervals are over (mosquitto__check_keepalive).
THEOREM NoticesTheDead == Spec => []DeadNoticed
<1>1. ConnIInv => DeadNoticed
  BY DEF ConnIInv, QuietInv, DeadNoticed
<1> QED
  BY <1>1, Inductive, PTL

\* A connection is not given up before the broker has had the keepalive interval to
\* answer in, but for the time that connecting took (mosquitto__check_keepalive).
THEOREM Patient == Spec => PatientClose
<1>1. ConnIInv /\ [Next]_vars => [KeepaliveCloses /\ ~asked => due >= Keepalive - ConnectTicks]_vars
  <2> SUFFICES ASSUME ConnIInv, KeepaliveCloses, ~asked PROVE due >= Keepalive - ConnectTicks
    OBVIOUS
  <2>1. /\ outAge \in Nat /\ inAge \in Nat /\ due \in Nat
        /\ Keepalive \in Nat /\ ConnectTicks \in Nat
    BY ConnConstants DEF ConnIInv, TypeOK
  <2>2. /\ pc = "misc" /\ (outAge >= Keepalive \/ inAge >= Keepalive)
        /\ state # "active" \/ ping_t
    BY DEF KeepaliveCloses, Overdue, MayPing
  <2>3. net # "none"
    BY <2>2 DEF ConnIInv, SocketInv, Closed
  <2>4. CASE ping_t
    <3>1. outAge <= due /\ inAge <= due
      BY <2>3, <2>4 DEF ConnIInv, DueInv
    <3> QED
      BY <2>1, <2>2, <3>1
  <2>5. CASE ~ping_t
    <3>1. state = "connected"
      BY <2>2, <2>3, <2>5 DEF ConnIInv, DueInv
    <3>2. outAge <= due + ConnectTicks /\ inAge <= due + ConnectTicks
      BY <2>2, <2>3, <3>1 DEF ConnIInv, DueInv
    <3> QED
      BY <2>1, <2>2, <3>2
  <2> QED
    BY <2>4, <2>5
<1> QED
  BY <1>1, Inductive, PTL DEF Spec, PatientClose

\* From failure to failure the delay grows to its maximum, and only CONNACK makes it
\* start again (mosquitto_loop_forever).
THEOREM BacksOff == Spec => Backoff
<1>1. ASSUME ConnIInv, Next, slept' # 0, slept' # slept
      PROVE  /\ slept' <= reconnect_delay_max
             /\ IF slept = 0 THEN slept' <= reconnect_delay ELSE slept' > slept
  <2>1. /\ slept \in Nat /\ reconnect_delay \in Nat /\ reconnect_delay_max \in Nat
        /\ raw_delay \in Nat /\ TypeOK
    BY <1>1, RawDelay, ConnConstants DEF ConnIInv, TypeOK
  <2>2. Decide
    BY <1>1, <2>1, DelayLeft, ConnackLeaves
  <2>3. slept' = IF raw_delay <= reconnect_delay_max THEN raw_delay ELSE reconnect_delay_max
    BY <1>1, <2>1, <2>2, DecideDelays
  <2>4. slept' <= reconnect_delay_max
    BY <2>1, <2>3
  <2>5. CASE slept = 0
    <3>1. reconnects = 0
      BY <1>1, <2>5 DEF ConnIInv, DelayInv
    <3>2. raw_delay = reconnect_delay
      <4>1. reconnect_delay * (0 + 1) * (0 + 1) = reconnect_delay
        BY <2>1
      <4>2. reconnect_delay * (0 + 1) * 1 = reconnect_delay
        BY <2>1
      <4> QED
        BY <3>1, <4>1, <4>2 DEF raw_delay
    <3>3. slept' <= reconnect_delay
      BY <2>1, <2>3, <3>2
    <3> QED
      BY <2>4, <2>5, <3>3
  <2>6. CASE slept # 0
    <3>1. slept <= reconnect_delay_max /\ slept <= raw_delay
      BY <1>1 DEF ConnIInv, DelayInv
    <3>2. slept' > slept
      BY <1>1, <2>1, <2>3, <3>1
    <3> QED
      BY <2>4, <2>6, <3>2
  <2> QED
    BY <2>5, <2>6
<1>2. ConnIInv /\ [Next]_vars =>
        [slept' \notin {0, slept} =>
           /\ slept' <= reconnect_delay_max
           /\ IF slept = 0 THEN slept' <= reconnect_delay ELSE slept' > slept]_slept
  BY <1>1 DEF vars, history
<1> QED
  BY <1>2, Inductive, PTL DEF Spec, Backoff

\* Only one step makes a connection.
LEMMA Connects == TypeOK /\ Next /\ net = "none" /\ ~Connect => net' = "none"
<1> SUFFICES ASSUME TypeOK, Next, net = "none", ~Connect PROVE net' = "none"
  OBVIOUS
<1>1. CASE GivesUp
  BY <1>1, Closing DEF Closes
<1>2. CASE Reset \/ Pending \/ Greet \/ Hello \/ EnterLoop \/ Select
  BY <1>2 DEF Reset, Pending, Greet, Hello, EnterLoop, Select
<1>3. CASE ReadHandshake \/ WriteHandshake \/ NothingToRead \/ ReadPair \/ LoopWrite
  BY <1>3 DEF ReadHandshake, WriteHandshake, Handshake, NothingToRead, ReadPair, LoopWrite
<1>4. CASE Connack \/ Refused \/ Message
  BY <1>4, ConnackLeaves, RefusedLeaves, MessageLeaves DEF Answered
<1>5. CASE Pingresp \/ WritesNothing \/ WritesPart \/ InTime \/ Ping \/ Decide \/ Sleeps \/ Check
  BY <1>5 DEF Pingresp, WritesNothing, WritesPart, InTime, Ping, Decide, Sleeps, Check
<1>6. CASE WritesPacket
  <2>1. PICK packet \in Outgoing \ {"DISCONNECT"} :
          Sent(packet) /\ net' = IF early' /\ ~early THEN "reset" ELSE net
    BY <1>6, PacketLeaves
  <2>2. early' = early
    BY <2>1 DEF Sent
  <2> QED
    BY <2>1, <2>2
<1>7. CASE WritesDisconnect \/ (WriteFails /\ back # "loop")
  BY <1>7 DEF WritesDisconnect, WriteFails
<1>8. CASE Application \/ Tick
  BY <1>8 DEF Application, AppPublish, AppDisconnect, AppQueues, AppWakes, Tick
<1>9. CASE \/ BrokerAnswers \/ BrokerPublishes \/ BrokerDisconnects \/ PeerResets
           \/ PeerFallsSilent
  BY <1>9 DEF BrokerAnswers, BrokerPublishes, BrokerDisconnects, PeerResets, PeerFallsSilent
<1> QED
  BY <1>1, <1>2, <1>3, <1>4, <1>5, <1>6, <1>7, <1>8, <1>9 DEF GivesUp, Next, Loop, NoAddress, NoContext

\* Without threads a client whose callback has called mosquitto_disconnect makes no
\* connection again, wherever the loop is at the time and whatever becomes of the
\* DISCONNECT, unless CONNACK has overwritten the state (mosquitto_loop_forever,
\* handle__connack).
THEOREM StopsForGood == Spec => StaysStopped
<1>1. ASSUME ConnIInv, Next, ~threaded, asked, ~undone, net' # "none" PROVE net # "none"
  <2>1. TypeOK
    BY <1>1 DEF ConnIInv
  <2>2. state = "disconnected"
    BY <1>1 DEF ConnIInv, StopInv
  <2>3. pc # "connect"
    BY <1>1, <2>2 DEF ConnIInv, FirstInv
  <2>4. ~Connect
    BY <2>3 DEF Connect
  <2> QED
    BY <1>1, <2>1, <2>4, Connects
<1>2. ConnIInv /\ [Next]_vars =>
        [~threaded /\ asked /\ ~undone => (net' # "none" => net # "none")]_net
  BY <1>1 DEF vars
<1> QED
  BY <1>2, Inductive, PTL DEF Spec, StaysStopped
=============================================================================
